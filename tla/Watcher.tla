------------------------------ MODULE Watcher ------------------------------
(***************************************************************************)
(* The hooks that watch a session and sometimes say something              *)
(* (src/cli/src/hook.rs, src/core/src/watch.rs, src/core/src/trace.rs).    *)
(*                                                                         *)
(* Each hook event is a process of its own.  PostToolUse appends a record  *)
(* to the day's trace, which all sessions share; UserPromptSubmit reads it *)
(* back, looks for waste, remembers the target it is about to mention in   *)
(* the session's said-list and prints one line; SessionEnd removes that    *)
(* list.  A hook may be killed between any two of its steps, and a record  *)
(* may be cut short while it is written.                                   *)
(*                                                                         *)
(* trace.enabled is TRUE throughout: with it FALSE no hook does anything.  *)
(* Thresholds are constants, scaled down by the configurations; the names  *)
(* of targets carry no order, so a tie between two worst offenders is a    *)
(* free choice.                                                            *)
(***************************************************************************)
EXTENDS Integers, Sequences, FiniteSets, SequencesExt

CONSTANTS
    Sessions,          \* session ids, all distinct in their first 32 characters
    CallKinds,         \* the calls agents make: [tool, target, bytes]
    NoTarget,          \* the target of a call target_of finds nothing in
    ReadsBack,         \* target -> the lines it becomes once joined and split at line ends
    RepeatReads, ReadChain, RepeatFetches, LargeOutput, MinCallsBetween,
    Env,               \* what may happen besides the hooks themselves
    MaxCalls,          \* bound: session -> the calls it makes
    MaxAdvice,         \* bound: session -> the pieces of advice it is given
    MaxDays            \* bound: midnights

ASSUME WatcherAssumption ==
    /\ CallKinds \subseteq [tool : {"Read", "WebFetch", "Other"}, target : DOMAIN ReadsBack \union {NoTarget}, bytes : Nat]
    /\ NoTarget \notin DOMAIN ReadsBack
    /\ "read-chain" \in DOMAIN ReadsBack
    /\ \A t \in DOMAIN ReadsBack : ReadsBack[t] \in Seq(STRING)
    /\ {RepeatReads, ReadChain, RepeatFetches, LargeOutput, MinCallsBetween} \subseteq Nat \ {0} /\ MaxDays \in Nat
    /\ MaxCalls \in [Sessions -> Nat] /\ MaxAdvice \in [Sessions -> Nat]
    /\ Env \subseteq {"cut", "cut_char", "kill", "midnight", "end", "resume", "save_fails", "cut_said"}

\* Targets of one line: what is remembered of one can be read back.
OneLine == \A t \in DOMAIN ReadsBack : t \in ToSet(ReadsBack[t])

\* A record is its session and its call.
Record == Sessions \X CallKinds
\* A record whose write was cut short, between two characters or inside one.
Cut == <<"cut">>
CutChar == <<"cut_char">>
NoAdvice == "none"

VARIABLES
    log,      \* the day's trace: records and cut records, in the order written
    said,     \* session -> the lines of its said-list, <<>> when there is no file
    hook,     \* session -> its prompt hook: idle, or what it is about to remember or print
    ended,    \* session -> SessionEnd has run and the session was not resumed
    day,
    made,     \* history: session -> the calls it has made
    shown,    \* history: session -> the advice printed, with the number of calls made by then
    forgot    \* history: session -> its said-list was not written, was cut short, or was dropped at an end it came back from

vars == <<log, said, hook, ended, day, made, shown, forgot>>

Idle == [at |-> "idle", target |-> NoAdvice]

(***************************************************************************)
(* Reading the trace back.                                                 *)
(***************************************************************************)
\* A cut record has no line end, so what is appended next shares its line.
Parses(trace, i) == trace[i] \in Record /\ (i > 1 => trace[i - 1] # Cut)

\* What a loop over a list keeps of it: what is at the positions in where.
Picked(list, where) ==
    LET upto[i \in 0..Len(list)] ==
            IF i = 0 THEN <<>>
            ELSE IF i \in where THEN Append(upto[i - 1], list[i]) ELSE upto[i - 1]
    IN upto[Len(list)]

\* read_to_string refuses a file with half a character in it, and then there are no records at all.
Readable(trace) == \A i \in DOMAIN trace : trace[i] # CutChar

read_jsonlMutant(trace) ==
    LET whole == {i \in 0..Len(trace) : \A j \in 1..i : Parses(trace, j)}
        upto == CHOOSE i \in whole : \A j \in whole : j <= i
    IN IF Readable(trace) THEN SubSeq(trace, 1, upto) ELSE <<>>

read_jsonl(trace) ==
    IF Readable(trace) THEN Picked(trace, {i \in DOMAIN trace : Parses(trace, i)}) ELSE <<>>

MineMutant(s) ==
    LET records == read_jsonl(log) IN [i \in DOMAIN records |-> records[i][2]]

Mine(s) ==
    LET records == read_jsonl(log)
        own == Picked(records, {i \in DOMAIN records : records[i][1] = s})
    IN [i \in DOMAIN own |-> own[i][2]]

(***************************************************************************)
(* inspect: at most one thing worth saying.                                *)
(***************************************************************************)
Of(calls, tool, t) == {i \in DOMAIN calls : calls[i].tool = tool /\ calls[i].target = t}
Bytes(calls, where) == FoldSet(LAMBDA i, sum : sum + calls[i].bytes, 0, where)

\* The targets one tool was used on at least so often, and the worst of them by count, then bytes.
Repeated(calls, tool, least, lines) ==
    {t \in DOMAIN ReadsBack \ lines : Cardinality(Of(calls, tool, t)) >= least}

Worst(calls, tool, targets) ==
    LET Count(t) == Cardinality(Of(calls, tool, t))
        Total(t) == Bytes(calls, Of(calls, tool, t))
    IN {t \in targets : \A u \in targets :
           Count(u) < Count(t) \/ (Count(u) = Count(t) /\ Total(u) <= Total(t))}

OversizedMutant(calls, lines) ==
    LET large == {i \in DOMAIN calls : calls[i].bytes >= LargeOutput /\ calls[i].target # NoTarget}
    IN {calls[i].target : i \in {i \in large : \A j \in large :
           calls[j].bytes < calls[i].bytes \/ (calls[j].bytes = calls[i].bytes /\ j <= i)}}

\* The largest results, each on a target not mentioned yet.
Oversized(calls, lines) ==
    LET large == {i \in DOMAIN calls : calls[i].bytes >= LargeOutput /\ calls[i].target \in DOMAIN ReadsBack \ lines}
    IN {calls[i].target : i \in {i \in large : \A j \in large :
           calls[j].bytes < calls[i].bytes \/ (calls[j].bytes = calls[i].bytes /\ j <= i)}}

\* The trailing run of reads.
Chained(calls, lines) ==
    IF /\ Len(calls) >= ReadChain
       /\ \A i \in (Len(calls) - ReadChain + 1)..Len(calls) : calls[i].tool = "Read"
       /\ "read-chain" \notin lines
    THEN {"read-chain"}
    ELSE {}

\* Position of the last call on a target already mentioned, 0 when there is none.
LastSuggestionIndex(calls, lines) ==
    Max({0} \union {i - 1 : i \in {i \in DOMAIN calls : calls[i].target \in lines}})

RateLimitedMutant(calls, lines) == FALSE

RateLimited(calls, lines) ==
    lines # {} /\ Len(calls) - LastSuggestionIndex(calls, lines) < MinCallsBetween

\* The targets inspect may return, none when it returns nothing.
inspect(calls, lines) ==
    LET reads == Repeated(calls, "Read", RepeatReads, lines)
        fetches == Repeated(calls, "WebFetch", RepeatFetches, lines)
    IN IF calls = <<>> \/ RateLimited(calls, lines) THEN {}
       ELSE IF reads # {} THEN Worst(calls, "Read", reads)
       ELSE IF Oversized(calls, lines) # {} THEN Oversized(calls, lines)
       ELSE IF fetches # {} THEN Worst(calls, "WebFetch", fetches)
       ELSE Chained(calls, lines)

(***************************************************************************)
(* The hooks.                                                              *)
(***************************************************************************)
Init ==
    /\ log = <<>>
    /\ said = [s \in Sessions |-> <<>>]
    /\ hook = [s \in Sessions |-> Idle]
    /\ ended = [s \in Sessions |-> FALSE]
    /\ day = 0
    /\ made = [s \in Sessions |-> <<>>]
    /\ shown = [s \in Sessions |-> <<>>]
    /\ forgot = [s \in Sessions |-> FALSE]

\* PostToolUse: record appends one line; a killed one leaves a piece of it.
record(s) ==
    /\ ~ended[s] /\ Len(made[s]) < MaxCalls[s]
    /\ \E c \in CallKinds :
          /\ made' = [made EXCEPT ![s] = Append(@, c)]
          /\ \/ log' = Append(log, <<s, c>>)
             \/ "cut" \in Env /\ log' = Append(log, Cut)
             \/ "cut_char" \in Env /\ log' = Append(log, CutChar)
    /\ UNCHANGED <<said, hook, ended, day, shown, forgot>>

\* UserPromptSubmit: suggest reads the trace and the said-list and decides.
suggest(s) ==
    /\ ~ended[s] /\ hook[s] = Idle /\ Len(shown[s]) < MaxAdvice[s]
    /\ \E t \in inspect(Mine(s), ToSet(said[s])) : hook' = [hook EXCEPT ![s] = [at |-> "remember", target |-> t]]
    /\ UNCHANGED <<log, said, ended, day, made, shown, forgot>>

\* fs::write of the said-list, whose failure is ignored.  What it will read back as
\* is the old lines and the lines of the new target.
RememberMutant(s) ==
    /\ hook[s].at = "remember"
    /\ said' = [said EXCEPT ![s] = ReadsBack[hook[s].target]]
    /\ hook' = [hook EXCEPT ![s].at = "print"]
    /\ UNCHANGED <<log, ended, day, made, shown, forgot>>

Remember(s) ==
    /\ hook[s].at = "remember"
    /\ \/ said' = [said EXCEPT ![s] = @ \o ReadsBack[hook[s].target]] /\ UNCHANGED forgot
       \/ "save_fails" \in Env /\ UNCHANGED said /\ forgot' = [forgot EXCEPT ![s] = TRUE]
    /\ hook' = [hook EXCEPT ![s].at = "print"]
    /\ UNCHANGED <<log, ended, day, made, shown>>

Say(s) ==
    /\ hook[s].at = "print"
    /\ shown' = [shown EXCEPT ![s] = Append(@, [target |-> hook[s].target, calls |-> Len(made[s])])]
    /\ hook' = [hook EXCEPT ![s] = Idle]
    /\ UNCHANGED <<log, said, ended, day, made, forgot>>

\* The hook is killed, in the worst case between truncating the said-list and writing it.
Kill(s) ==
    /\ "kill" \in Env /\ hook[s] # Idle
    /\ hook' = [hook EXCEPT ![s] = Idle]
    /\ \/ UNCHANGED <<said, forgot>>
       \/ /\ "cut_said" \in Env /\ hook[s].at = "remember"
          /\ said' = [said EXCEPT ![s] = <<>>]
          /\ forgot' = [forgot EXCEPT ![s] = TRUE]
    /\ UNCHANGED <<log, ended, day, made, shown>>

\* SessionEnd: summarize returns before the clean-up when today's trace has no record of the session.
summarize(s) ==
    /\ "end" \in Env /\ ~ended[s] /\ hook[s] = Idle
    /\ ended' = [ended EXCEPT ![s] = TRUE]
    /\ said' = IF Mine(s) = <<>> THEN said ELSE [said EXCEPT ![s] = <<>>]
    /\ UNCHANGED <<log, hook, day, made, shown, forgot>>

\* The host resumes an ended session under its old id.
Resume(s) ==
    /\ "resume" \in Env /\ ended[s]
    /\ ended' = [ended EXCEPT ![s] = FALSE]
    /\ forgot' = [forgot EXCEPT ![s] = TRUE]
    /\ UNCHANGED <<log, said, hook, day, made, shown>>

\* today() changes, and with it the file every hook reads and writes.
Midnight ==
    /\ "midnight" \in Env /\ day < MaxDays
    /\ day' = day + 1
    /\ log' = <<>>
    /\ UNCHANGED <<said, hook, ended, made, shown, forgot>>

HookStep(s) == suggest(s) \/ Remember(s) \/ Say(s)

Next ==
    \/ \E s \in Sessions : record(s) \/ HookStep(s) \/ Kill(s) \/ summarize(s) \/ Resume(s)
    \/ Midnight

Spec == Init /\ [][Next]_vars

(***************************************************************************)
(* Properties.                                                             *)
(***************************************************************************)
TypeOK ==
    /\ log \in Seq(Record \union {Cut, CutChar})
    /\ said \in [Sessions -> Seq(STRING)]
    /\ hook \in [Sessions -> [at : {"idle", "remember", "print"}, target : DOMAIN ReadsBack \union {NoAdvice}]]
    /\ ended \in [Sessions -> BOOLEAN]
    /\ day \in 0..MaxDays
    /\ made \in [Sessions -> Seq(CallKinds)]
    /\ shown \in [Sessions -> Seq([target : DOMAIN ReadsBack, calls : Nat])]
    /\ forgot \in [Sessions -> BOOLEAN]

\* The same advice is never given twice in a session, whatever hooks are killed
\* between their steps and whichever midnights pass (watch.rs:80, "so the same advice
\* is never repeated"), as long as the session's said-list was not lost.
NeverRepeats ==
    \A s \in Sessions : ~forgot[s] =>
        \A i, j \in DOMAIN shown[s] : shown[s][i].target = shown[s][j].target => i = j

\* Everything printed is remembered, and so is what is about to be printed (hook.rs:305):
\* with what is about to be remembered not yet said, this is why advice does not repeat.
RememberedFirst ==
    \A s \in Sessions : ~ended[s] /\ ~forgot[s] =>
        /\ \A i \in DOMAIN shown[s] : shown[s][i].target \in ToSet(said[s])
        /\ hook[s].at = "print" => hook[s].target \in ToSet(said[s])
        /\ hook[s].at = "remember" => hook[s].target \notin ToSet(said[s])
        /\ hook[s].at = "print" => \A i \in DOMAIN shown[s] : shown[s][i].target # hook[s].target

\* A hook that decides or speaks has a target to speak of, and none runs in an ended session.
HooksRest ==
    \A s \in Sessions :
        /\ (hook[s].at = "idle") <=> (hook[s] = Idle)
        /\ hook[s].at # "idle" => hook[s].target \in DOMAIN ReadsBack
        /\ ended[s] => hook[s].at = "idle"

\* All together, as the step that remembers must preserve them for NeverRepeats to hold
\* of every longer run (hook.rs:305).
IInv == TypeOK /\ HooksRest /\ RememberedFirst /\ NeverRepeats

\* Advice rests on the session's own calls, however many sessions write to the one
\* trace: its target was read or fetched so often, or returned so much, by this session.
AdviceIsEarned ==
    \A s \in Sessions : hook[s].at # "idle" =>
        \/ Cardinality(Of(made[s], "Read", hook[s].target)) >= RepeatReads
        \/ Cardinality(Of(made[s], "WebFetch", hook[s].target)) >= RepeatFetches
        \/ \E i \in DOMAIN made[s] : made[s][i].target = hook[s].target /\ made[s][i].bytes >= LargeOutput
        \/ hook[s].target = "read-chain" /\ Len(made[s]) >= ReadChain

\* The second piece of advice waits for MinCallsBetween calls of the session
\* (watch.rs:92), as long as the session's said-list was not lost.
SecondAdviceWaits ==
    \A s \in Sessions : ~forgot[s] =>
        \A i \in DOMAIN shown[s] : i > 1 => shown[s][i].calls >= MinCallsBetween

\* While the trace can be read at all, a killed write costs the record it cut and at
\* most the one after it: every other record of the day is read back, in order.
LossIsBounded ==
    LET kept == {i \in DOMAIN log : log[i] \in Record /\ (i > 1 => log[i - 1] \in Record)}
    IN Readable(log) =>
        /\ Len(read_jsonl(log)) = Cardinality(kept)
        /\ \A i \in kept : read_jsonl(log)[Cardinality({j \in kept : j <= i})] = log[i]

\* What README.md:303 says: "JSONL, one object per line, so a crash costs at most one record".
\* Each cut record is one crash.
CrashCostsOneRecord ==
    Len(log) - Len(read_jsonl(log)) <= Cardinality({i \in DOMAIN log : log[i] \notin Record})
=============================================================================
