----------------------------- MODULE ReadLedger -----------------------------
(***************************************************************************)
(* pk-read and its session ledger (read/src/state.rs, read/src/main.rs).   *)
(*                                                                         *)
(* Each invocation of pk-read is an operating-system process ("call") that *)
(* reads a file, hashes it, loads the session's ledger, prints what the    *)
(* ledger does not cover and saves the ledger back.  Nothing locks the     *)
(* ledger, so every file-system access is an action of its own.            *)
(*                                                                         *)
(* Data is abstracted to what the claims tell apart: a file's content is   *)
(* a member of Contents (its blake3 hash is the content itself), lines     *)
(* are their numbers, and a list of merged intervals is the set of lines   *)
(* it covers; module Intervals relates the two.  `context' and `delivered' *)
(* are history variables: what the caller really holds and has ever been   *)
(* sent.  The program cannot read them.                                    *)
(***************************************************************************)
EXTENDS Integers, FiniteSets

CONSTANTS
    Files,           \* paths, as the command line spells them
    Contents,        \* possible contents of a file, identified by their hash
    Length,          \* Length[c]: number of lines of content c
    MaxLine,         \* bound: no content is longer
    Ranges,          \* the --range arguments that callers use
    Agents,          \* callers, each with a context of its own
    Stores,          \* ledger files
    StoreOf,         \* StoreOf[a]: where pk-read keeps a's ledger
    WatermarkOf,     \* WatermarkOf[a]: where a's compaction watermark goes
    Calls,           \* invocations of pk-read that may run at the same time
    TicksPerSecond,  \* resolution of the clock that stamps the ledger
    MaxClock,        \* bound on the clock
    Env              \* what the environment may do, a subset of EnvFeatures

EnvFeatures == {"edit", "edit_in_call", "compact", "background",
                "abort", "abort_mark"}
None == "none"

Lines == 1..MaxLine
Stamps == 0..MaxClock

ASSUME ConstantsAssumption ==
    /\ MaxLine \in Nat \ {0}
    /\ Length \in [Contents -> 0..MaxLine]
    /\ Ranges \subseteq Nat \X Nat
    /\ StoreOf \in [Agents -> Stores]
    /\ WatermarkOf \in [Agents -> Stores]
    /\ TicksPerSecond \in Nat \ {0}
    /\ MaxClock \in Nat
    /\ Env \subseteq EnvFeatures
    /\ None \notin Contents

VARIABLES
    disk,       \* disk[f]: content of file f, None when it cannot be read
    ledger,     \* ledger[s]: the ledger a load of s returns
    tmp,        \* tmp[s]: what the shared temporary file beside s holds
    pc,         \* pc[p]: the next step of call p
    call,       \* call[p]: p's command line and session
    text,       \* text[p]: the content p read to print from
    hash,       \* hash[p]: the content p hashed
    copy,       \* copy[p]: p's copy of the ledger
    file,       \* file[p]: the name p's open file has now
    clock,
    phase,      \* phase[a]: "live", or "compacting" while the host compacts
    context,    \* history: lines a's context holds
    delivered   \* history: lines ever printed for a

vars == <<disk, ledger, tmp, pc, call, text, hash, copy, file, clock,
          phase, context, delivered>>

(***************************************************************************)
(* Ledgers: FileState, SessionState and their methods.                     *)
(***************************************************************************)
NoEntry == [hash |-> None, lines |-> {}, delivered_at |-> 0]

Entry == [hash : Contents \cup {None}, lines : SUBSET Lines,
          delivered_at : Stamps]

Ledger == [files : [Files -> Entry], compacted_at : Stamps \cup {-1}]

\* The default state: what load returns for a missing or half-written file.
EmptyLedger == [files |-> [f \in Files |-> NoEntry], compacted_at |-> -1]

\* Time's Rfc3339 form drops a zero fraction: "..:07Z" sorts above
\* "..:07.5Z", because "Z" sorts above ".".
LaterString(s, t) ==
    LET second(x) == x \div TicksPerSecond
        fraction(x) == x % TicksPerSecond
    IN  \/ second(s) > second(t)
        \/ /\ second(s) = second(t)
           /\ \/ fraction(s) = 0 /\ fraction(t) # 0
              \/ fraction(t) # 0 /\ fraction(s) > fraction(t)

\* Mutant: a delivery stamped like the watermark survives it.
SurvivesCompactionMutant(led, at) ==
    led.compacted_at = -1 \/ ~LaterString(led.compacted_at, at)

SurvivesCompaction(led, at) ==
    led.compacted_at = -1 \/ LaterString(at, led.compacted_at)

\* Mutant: the hash is not compared.
CoveredMutant(led, f, want, h) ==
    LET e == led.files[f]
    IN  IF e.hash # None /\ SurvivesCompaction(led, e.delivered_at)
        THEN e.lines \cap want
        ELSE {}

Covered(led, f, want, h) ==
    LET e == led.files[f]
    IN  IF e.hash = h /\ SurvivesCompaction(led, e.delivered_at)
        THEN e.lines \cap want
        ELSE {}

\* Mutants: deliver records the whole file, or drops what it had.
DeliverWhole(led, f, sent, h, now) ==
    [led EXCEPT !.files[f] = [hash |-> h, lines |-> Lines, delivered_at |-> now]]

DeliverOnlySent(led, f, sent, h, now) ==
    [led EXCEPT !.files[f] = [hash |-> h, lines |-> sent, delivered_at |-> now]]

Deliver(led, f, sent, h, now) ==
    LET e == led.files[f]
        kept == IF e.hash = h THEN e.lines ELSE {}
    IN  [led EXCEPT !.files[f] =
            [hash |-> h, lines |-> kept \cup sent, delivered_at |-> now]]

MarkCompacted(led, now) == [led EXCEPT !.compacted_at = now]

\* The lines asked for: the range clipped to the text.  A range past the end
\* or upside down asks for none; an empty file counts as one line.
Want(range, c) ==
    LET last == IF Length[c] = 0 THEN 1 ELSE Length[c]
    IN  {n \in Lines : range[1] <= n /\ n <= range[2] /\ n <= last}
(***************************************************************************)
(* Calls.                                                                  *)
(***************************************************************************)
Call == [mode : {"read", "full"}, agent : Agents, file : Files, range : Ranges]
          \cup [mode : {"mark"}, agent : Agents]

NoCall == [mode |-> "idle"]

Absent == [absent |-> TRUE]

Steps == {"idle", "read", "hash", "load", "emit", "mark",
          "open", "write", "rename"}

\* The ledger file call p works on.
Store(p) ==
    IF call[p].mode = "mark" THEN WatermarkOf[call[p].agent]
                             ELSE StoreOf[call[p].agent]

Running(a) == {p \in Calls : pc[p] # "idle" /\ call[p].agent = a}

Init ==
    /\ disk \in [Files -> Contents]
    /\ ledger = [s \in Stores |-> EmptyLedger]
    /\ tmp = [s \in Stores |-> Absent]
    /\ pc = [p \in Calls |-> "idle"]
    /\ call = [p \in Calls |-> NoCall]
    /\ text = [p \in Calls |-> None]
    /\ hash = [p \in Calls |-> None]
    /\ copy = [p \in Calls |-> EmptyLedger]
    /\ file = [p \in Calls |-> "closed"]
    /\ clock = 0
    /\ phase = [a \in Agents |-> "live"]
    /\ context = [a \in Agents |-> {}]
    /\ delivered = [a \in Agents |-> {}]

Goto(p, step) == pc' = [pc EXCEPT ![p] = step]

\* The process exits and its memory is gone.
Exit(p) ==
    /\ Goto(p, "idle")
    /\ call' = [call EXCEPT ![p] = NoCall]
    /\ text' = [text EXCEPT ![p] = None]
    /\ hash' = [hash EXCEPT ![p] = None]
    /\ copy' = [copy EXCEPT ![p] = EmptyLedger]
    /\ file' = [file EXCEPT ![p] = "closed"]

\* The variables Exit leaves alone.
outside == <<disk, ledger, tmp, clock, phase, context, delivered>>

(***************************************************************************)
(* The environment: callers, the host, editors and the clock.              *)
(***************************************************************************)
StartRead(p, a, f, range, mode) ==
    /\ pc[p] = "idle"
    /\ phase[a] = "live"
    /\ call' = [call EXCEPT ![p] =
           [mode |-> mode, agent |-> a, file |-> f, range |-> range]]
    /\ Goto(p, "read")
    /\ UNCHANGED <<text, hash, copy, file, outside>>

\* The host is about to drop a's tool results and runs the watermark call
\* first.  Calls that run in the background outlive the compaction.
StartCompaction(p, a) ==
    /\ "compact" \in Env
    /\ pc[p] = "idle"
    /\ phase[a] = "live"
    /\ "background" \in Env \/ Running(a) = {}
    /\ call' = [call EXCEPT ![p] = [mode |-> "mark", agent |-> a]]
    /\ Goto(p, "load")
    /\ phase' = [phase EXCEPT ![a] = "compacting"]
    /\ UNCHANGED <<disk, ledger, tmp, text, hash, copy, file, clock,
                   context, delivered>>

FinishCompaction(a) ==
    /\ phase[a] = "compacting"
    /\ \A p \in Running(a) : call[p].mode # "mark"
    /\ context' = [context EXCEPT ![a] = {}]
    /\ phase' = [phase EXCEPT ![a] = "live"]
    /\ UNCHANGED <<disk, ledger, tmp, pc, call, text, hash, copy, file,
                   clock, delivered>>

Edit(f, c) ==
    /\ "edit" \in Env
    /\ "edit_in_call" \in Env
         \/ \A p \in Calls : ~(pc[p] = "hash" /\ call[p].file = f)
    /\ disk' = [disk EXCEPT ![f] = c]
    /\ UNCHANGED <<ledger, tmp, pc, call, text, hash, copy, file, clock,
                   phase, context, delivered>>

Tick ==
    /\ clock < MaxClock
    /\ clock' = clock + 1
    /\ UNCHANGED <<disk, ledger, tmp, pc, call, text, hash, copy, file,
                   phase, context, delivered>>

\* The process is killed, or an error that main ignores ends the save.
Abort(p) ==
    /\ "abort" \in Env
    /\ pc[p] # "idle"
    /\ call[p].mode = "mark" => "abort_mark" \in Env
    /\ Exit(p)
    /\ UNCHANGED outside

(***************************************************************************)
(* The steps of main, read and save.                                       *)
(***************************************************************************)
ReadText(p) ==
    /\ pc[p] = "read"
    /\ LET c == disk[call[p].file]
       IN  \/ /\ c = None
              /\ Exit(p)
              /\ UNCHANGED outside
           \/ /\ c # None
              /\ text' = [text EXCEPT ![p] = c]
              /\ Goto(p, "hash")
              /\ UNCHANGED <<call, hash, copy, file, outside>>

HashFile(p) ==
    /\ pc[p] = "hash"
    /\ LET c == disk[call[p].file]
       IN  \/ /\ c = None
              /\ Exit(p)
              /\ UNCHANGED outside
           \/ /\ c # None
              /\ hash' = [hash EXCEPT ![p] = c]
              /\ Goto(p, "load")
              /\ UNCHANGED <<call, text, copy, file, outside>>

Load(p) ==
    /\ pc[p] = "load"
    /\ copy' = [copy EXCEPT ![p] = ledger[Store(p)]]
    /\ Goto(p, IF call[p].mode = "mark" THEN "mark" ELSE "emit")
    /\ UNCHANGED <<call, text, hash, file, outside>>

Mark(p) ==
    /\ pc[p] = "mark"
    /\ copy' = [copy EXCEPT ![p] = MarkCompacted(copy[p], clock)]
    /\ Goto(p, "open")
    /\ UNCHANGED <<call, text, hash, file, outside>>

Wanted(p) == Want(call[p].range, text[p])

\* Mutant: --full still trusts the ledger.
WithheldMutant(p) == Covered(copy[p], call[p].file, Wanted(p), hash[p])

\* What p tells its caller it already has.
Withheld(p) ==
    IF call[p].mode = "full"
    THEN {}
    ELSE Covered(copy[p], call[p].file, Wanted(p), hash[p])

Missing(p) == Wanted(p) \ Withheld(p)

\* --full delivers its range even when that is empty; gaps of an empty
\* range is an empty list, and the answer is UNCHANGED.
SaysUnchanged(p) == call[p].mode # "full" /\ Missing(p) = {}

Emit(p) ==
    /\ pc[p] = "emit"
    /\ \/ /\ SaysUnchanged(p)
          /\ Exit(p)
          /\ UNCHANGED outside
       \/ /\ ~SaysUnchanged(p)
          /\ LET a == call[p].agent
                 f == call[p].file
                 printed == {<<f, text[p], n>> :
                               n \in Missing(p) \cap 1..Length[text[p]]}
             IN  /\ context' = [context EXCEPT ![a] = @ \cup printed]
                 /\ delivered' = [delivered EXCEPT ![a] = @ \cup printed]
                 /\ copy' = [copy EXCEPT ![p] =
                       Deliver(@, f, Missing(p), hash[p], clock)]
          /\ Goto(p, "open")
          /\ UNCHANGED <<disk, ledger, tmp, call, text, hash, file, clock,
                         phase>>

\* fs::write opens and truncates the temporary file that every call of the
\* store shares ...
OpenTmp(p) ==
    /\ pc[p] = "open"
    /\ tmp' = [tmp EXCEPT ![Store(p)] = EmptyLedger]
    /\ file' = [file EXCEPT ![p] = "tmp"]
    /\ Goto(p, "write")
    /\ UNCHANGED <<disk, ledger, call, text, hash, copy, clock, phase,
                   context, delivered>>

\* What one write leaves in a file that held `old': over a longer ledger
\* that another call wrote, the tail of the old text remains and nothing
\* parses.
WriteOver(old, new) == {new} \cup (IF old = EmptyLedger THEN {} ELSE {EmptyLedger})

\* ... then writes to that file, under whatever name it has by now ...
WriteTmp(p) ==
    /\ pc[p] = "write"
    /\ LET s == Store(p)
       IN  \/ /\ file[p] = "tmp"
              /\ \E led \in WriteOver(tmp[s], copy[p]) :
                    tmp' = [tmp EXCEPT ![s] = led]
              /\ UNCHANGED ledger
           \/ /\ file[p] = "ledger"
              /\ \E led \in WriteOver(ledger[s], copy[p]) :
                    ledger' = [ledger EXCEPT ![s] = led]
              /\ UNCHANGED tmp
           \/ /\ file[p] = "unlinked"
              /\ UNCHANGED <<tmp, ledger>>
    /\ file' = [file EXCEPT ![p] = "closed"]
    /\ Goto(p, "rename")
    /\ UNCHANGED <<disk, call, text, hash, copy, clock, phase, context,
                   delivered>>

\* ... and renames whatever is there now; another call may have done so.
Rename(p) ==
    /\ pc[p] = "rename"
    /\ Goto(p, "idle")
    /\ call' = [call EXCEPT ![p] = NoCall]
    /\ text' = [text EXCEPT ![p] = None]
    /\ hash' = [hash EXCEPT ![p] = None]
    /\ copy' = [copy EXCEPT ![p] = EmptyLedger]
    /\ LET s == Store(p)
           here(q) == pc[q] = "write" /\ Store(q) = s
       IN  \/ /\ tmp[s] = Absent
              /\ UNCHANGED <<ledger, tmp, file>>
           \/ /\ tmp[s] # Absent
              /\ ledger' = [ledger EXCEPT ![s] = tmp[s]]
              /\ tmp' = [tmp EXCEPT ![s] = Absent]
              /\ file' = [q \in Calls |->
                    IF here(q) /\ file[q] = "tmp" THEN "ledger"
                    ELSE IF here(q) /\ file[q] = "ledger" THEN "unlinked"
                    ELSE file[q]]
    /\ UNCHANGED <<disk, clock, phase, context, delivered>>

Step(p) ==
    \/ ReadText(p) \/ HashFile(p) \/ Load(p) \/ Mark(p) \/ Emit(p)
    \/ OpenTmp(p) \/ WriteTmp(p) \/ Rename(p)

Environment ==
    \/ \E p \in Calls, a \in Agents, f \in Files, range \in Ranges,
         mode \in {"read", "full"} : StartRead(p, a, f, range, mode)
    \/ \E p \in Calls, a \in Agents : StartCompaction(p, a)
    \/ \E a \in Agents : FinishCompaction(a)
    \/ \E f \in Files, c \in Contents \cup {None} : Edit(f, c)
    \/ \E p \in Calls : Abort(p)
    \/ Tick

Next == Environment \/ \E p \in Calls : Step(p)

Spec == Init /\ [][Next]_vars
-----------------------------------------------------------------------------
(***************************************************************************)
(* Properties.                                                             *)
(***************************************************************************)

\* Every variable keeps its type; a closed process keeps nothing, and an
\* open temporary file is held only between open and write.
TypeOK ==
    /\ disk \in [Files -> Contents \cup {None}]
    /\ ledger \in [Stores -> Ledger]
    /\ tmp \in [Stores -> Ledger \cup {Absent}]
    /\ pc \in [Calls -> Steps]
    /\ call \in [Calls -> Call \cup {NoCall}]
    /\ text \in [Calls -> Contents \cup {None}]
    /\ hash \in [Calls -> Contents \cup {None}]
    /\ copy \in [Calls -> Ledger]
    /\ file \in [Calls -> {"closed", "tmp", "ledger", "unlinked"}]
    /\ clock \in Stamps
    /\ phase \in [Agents -> {"live", "compacting"}]
    /\ context \in [Agents -> SUBSET (Files \X Contents \X Lines)]
    /\ delivered \in [Agents -> SUBSET (Files \X Contents \X Lines)]

\* The lines p is about to withhold as already held.
Claim(p) ==
    {<<call[p].file, hash[p], n>> : n \in Withheld(p) \cap 1..Length[hash[p]]}

\* Lines ever printed for a caller that shares ledger file s.
DeliveredVia(s) == UNION {delivered[a] : a \in {b \in Agents : StoreOf[b] = s}}

\* A call never withholds a line that was not printed before, from a file
\* with the same content, for some caller of the same ledger: whatever the
\* interleaving of loads, truncated writes and renames, and whatever call is
\* killed between its printing and its save (state.rs covered, deliver).
ClaimsWereDelivered ==
    \A p \in Calls : pc[p] = "emit" => Claim(p) \subseteq DeliveredVia(Store(p))

\* The contract of UNCHANGED and KNOWN: at the moment of the answer, the
\* caller's own context holds every withheld line as the hash describes it
\* (main.rs read, "The caller has all of it, the file is unchanged, and the
\* delivery survives the last compaction").
ClaimsAreHeld ==
    \A p \in Calls : pc[p] = "emit" => Claim(p) \subseteq context[call[p].agent]

\* After a compaction a call withholds nothing of a file until something of
\* that file, with that content, has been printed again: the watermark in the
\* ledger reaches every later load (mark_compacted, survives_compaction).  The
\* ranges have to reach the text: a --full past the end of the file prints
\* nothing and stamps the entry all the same, which revives what it holds.
NoClaimBeforeRedelivery ==
    \A p \in Calls :
        pc[p] = "emit" /\ Claim(p) # {} =>
            \E n \in Lines :
                <<call[p].file, hash[p], n>> \in context[call[p].agent]

\* No save, and no crash in the middle of one, loses lines the ledger knew of
\* a file that has not changed since (save: write, then rename).
DeliveriesKept ==
    [][\A s \in Stores, f \in Files :
          ledger'[s].files[f].hash = ledger[s].files[f].hash
              => ledger[s].files[f].lines \subseteq ledger'[s].files[f].lines]_vars

\* However calls are cut short, the caller can recover: a --full answer leaves
\* every existing line of the range in its context.
FullRecovers ==
    [][\A p \in Calls :
          pc[p] = "emit" /\ pc'[p] = "open" /\ call[p].mode = "full" =>
              {<<call[p].file, text[p], n>> :
                  n \in Wanted(p) \cap 1..Length[text[p]]}
                \subseteq context'[call[p].agent]]_vars

\* The lines a ledger would have a call withhold, were no watermark set.
Vouched(led) ==
    {line \in Files \X Contents \X Lines :
        LET e == led.files[line[1]]
        IN  /\ e.hash = line[2]
            /\ line[3] \in e.lines \cap 1..Length[line[2]]}

Promise == INSTANCE DeliveryPromise WITH
    Callers <- Agents, Ledgers <- Stores, LedgerOf <- StoreOf,
    AllLines <- Files \X Contents \X Lines,
    held <- context, promise <- [s \in Stores |-> Vouched(ledger[s])]

\* Without compaction, interleaved, truncated and killed calls together still
\* keep the promise of DeliveryPromise: each step sends lines, or makes one
\* ledger vouch for lines its callers hold, or changes neither.
KeepsPromise == Promise!Spec

-----------------------------------------------------------------------------
(***************************************************************************)
(* The inductive invariant behind ClaimsWereDelivered.                     *)
(***************************************************************************)

\* What a call's command line and memory hold at each step.
CallShape ==
    \A p \in Calls :
        /\ pc[p] = "idle" => copy[p] = EmptyLedger
        /\ pc[p] # "idle" => call[p] \in Call
        /\ pc[p] \in {"read", "hash", "emit"} => call[p].mode # "mark"
        /\ pc[p] = "mark" => call[p].mode = "mark"
        /\ pc[p] \in {"hash", "load", "emit"} /\ call[p].mode # "mark"
               => text[p] \in Contents
        /\ pc[p] \in {"load", "emit"} /\ call[p].mode # "mark"
               => hash[p] \in Contents

\* Ledger led vouches only for lines among `lines'.
Vouches(led, lines) ==
    \A f \in Files : led.files[f].hash \in Contents =>
        \A n \in led.files[f].lines \cap 1..Length[led.files[f].hash] :
            <<f, led.files[f].hash, n>> \in lines

\* Every ledger that a load could return or a write could publish vouches
\* only for lines that were printed for a caller of its store.
LedgersVouch ==
    /\ \A s \in Stores : Vouches(ledger[s], DeliveredVia(s))
    /\ \A s \in Stores : tmp[s] # Absent => Vouches(tmp[s], DeliveredVia(s))
    /\ \A p \in Calls :
          pc[p] # "idle" => Vouches(copy[p], DeliveredVia(Store(p)))

\* The text that is printed is the text that was hashed: nobody edits a file
\* between the two reads of one call.
TextIsHashed ==
    \A p \in Calls :
        /\ pc[p] = "hash" => text[p] = disk[call[p].file]
        /\ pc[p] \in {"load", "emit"} /\ call[p].mode # "mark"
               => text[p] = hash[p]

IInv == TypeOK /\ CallShape /\ TextIsHashed /\ LedgersVouch

=============================================================================
