---------------------------- MODULE CommandLine ----------------------------
(***************************************************************************)
(* The commands of pk that call a tool or count what calls cost            *)
(* (src/cli/src/lib.rs, commands.rs), over the layered configuration       *)
(* (src/core/src/config.rs) and the trace (src/core/src/trace.rs).         *)
(*                                                                         *)
(* Each shell runs one command at a time, in a process of its own that may *)
(* be killed: run, which calls a tool directly or through the envelope of  *)
(* MCP; serve, which calls tools for an agent, one after the other; and    *)
(* trace, which sums what the others have recorded.                        *)
(*                                                                         *)
(* A value is its size, and trimming gives it the size of its budget; the  *)
(* module Budget says when it does.  What a tool answers is a function of  *)
(* its arguments.  Lines of the trace are whole here: Watcher says what a  *)
(* cut one costs.                                                          *)
(***************************************************************************)
EXTENDS Integers, Sequences, FiniteSets, SequencesExt

CONSTANTS
    Shells,        \* the processes that may run side by side
    Invocations,   \* what people type, and the layers it finds: [does, run, file, environment]
    Registered,    \* tool -> its own budget: a set of at most one size
    Answers,       \* arguments -> [kind, size]; the text of an error has a size too
    MaxMade        \* bound: calls made by all

VARIABLES
    shell,      \* shell -> the process it runs
    ledger,     \* the trace: [tool, outcome, produced, delivered]
    killed,     \* history: the calls whose process was killed before it recorded them
    made,       \* history: the calls that have come back from their tool
    told        \* history: the bill just printed; at most one

lineVars == <<shell, ledger, killed, made, told>>

Off == [at |-> "off"]

Init ==
    /\ shell = [s \in Shells |-> Off]
    /\ ledger = <<>> /\ killed = <<>> /\ made = <<>> /\ told = {}

(***************************************************************************)
(* Config::load: defaults, then the file, then the environment.  A layer   *)
(* gives values to some of the keys; a value is a set of one, and empty    *)
(* where it has not the type of its key.                                   *)
(***************************************************************************)
Missing == [missing |-> TRUE]
DefaultBytes == 3
Defaults == [max_bytes |-> {DefaultBytes}, enabled |-> {FALSE}]

Layered(upper, lower) == [k \in DOMAIN lower |-> IF k \in DOMAIN upper THEN upper[k] ELSE lower[k]]
Effective(file, environment) == Layered(environment, Layered(file, Defaults))
Loads(i) ==
    /\ i.file # Missing
    /\ LET config == Effective(i.file, i.environment) IN \A k \in DOMAIN config : config[k] # {}

\* run_with: a command that finds no configuration ends there, and starts nothing.
Start(s) ==
    /\ shell[s] = Off
    /\ \E i \in {j \in Invocations : Loads(j)} :
          shell' = [shell EXCEPT ![s] = [at |-> i.does, run |-> i.run, config |-> Effective(i.file, i.environment)]]
    /\ UNCHANGED <<ledger, killed, made>> /\ told' = {}

(***************************************************************************)
(* One call.                                                               *)
(***************************************************************************)
\* build_arguments, a set of at most one: each --arg over the input file and over the
\* ones before it; one without "=" and a file that is no object are errors.
Malformed == [malformed |-> TRUE]
Put(object, arg) == [k \in DOMAIN object \union {arg.key} |-> IF k = arg.key THEN arg.value ELSE object[k]]
build_arguments(run) ==
    IF Malformed \in {run.input} \union ToSet(run.args) THEN {} ELSE {FoldLeft(Put, run.input, run.args)}

Trimmed(size, caps) == Min({size} \union caps)

\* Mutant: the configuration before the tool's own declaration.
apply_budgetMutant(tool, size, config, run) ==
    Trimmed(size, IF run.full THEN {} ELSE IF run.budget # {} THEN run.budget ELSE config.max_bytes)

\* The flags, then the tool's own declaration, then the configuration.
apply_budget(tool, size, config, run) ==
    Trimmed(size, IF run.full THEN {}
                  ELSE IF run.budget # {} THEN run.budget
                  ELSE IF Registered[tool] # {} THEN Registered[tool] ELSE config.max_bytes)

\* The server's: the tool's, then its own default; no flag and no configuration reaches it.
budgeted(tool, size) == Trimmed(size, IF Registered[tool] # {} THEN Registered[tool] ELSE {DefaultBytes})

\* A recorder when tracing is on and its file can be opened.
recorder(config) == {r \in BOOLEAN : r => config.enabled = {TRUE}}

\* What a call comes to, where the surface delivers so much of a value; the message of an
\* error is never trimmed.  With it, what set the size: a flag, or the configuration.
Made(tool, arguments, delivered, flag, configured) ==
    LET answer == Answers[arguments]
        ok == answer.kind = "ok"
    IN [tool |-> tool, arguments |-> arguments, flag |-> flag, configured |-> configured, outcome |-> answer.kind,
        produced |-> IF ok THEN answer.size ELSE 0, delivered |-> IF ok THEN delivered ELSE answer.size]

\* On the surfaces of the command line and of MCP.
Direct(tool, arguments, config, run) ==
    Made(tool, arguments, apply_budget(tool, Answers[arguments].size, config, run),
         run.full \/ run.budget # {}, config.max_bytes # {DefaultBytes})
ThroughMcp(tool, arguments) == Made(tool, arguments, budgeted(tool, Answers[arguments].size), FALSE, FALSE)

\* The tool has answered; a record follows where there is a recorder.
Return(s, call, recording, next) ==
    /\ Len(made) < MaxMade
    /\ made' = Append(made, [call |-> call, traced |-> recording])
    /\ shell' = [shell EXCEPT ![s] = IF recording THEN [at |-> "record", call |-> call, next |-> next] ELSE next]
    /\ UNCHANGED <<ledger, killed>> /\ told' = {}

\* run_tool, with a tool that exists and arguments that can be read; an unknown tool and
\* others end the process before anything is called.
Run(s) ==
    /\ shell[s].at = "run"
    /\ LET run == shell[s].run IN
          \/ /\ run.tool \in DOMAIN Registered
             /\ \E arguments \in build_arguments(run) :
                   IF run.through_mcp THEN Return(s, ThroughMcp(run.tool, arguments), FALSE, Off)
                   ELSE \E r \in recorder(shell[s].config) : Return(s, Direct(run.tool, arguments, shell[s].config, run), r, Off)
          \/ /\ run.tool \notin DOMAIN Registered \/ build_arguments(run) = {}
             /\ shell' = [shell EXCEPT ![s] = Off]
             /\ UNCHANGED <<ledger, killed, made>> /\ told' = {}

\* serve opens its recorder once, before the first call.
Serve(s) ==
    /\ shell[s].at = "serve"
    /\ \E r \in recorder(shell[s].config) : shell' = [shell EXCEPT ![s] = [at |-> "serving", recording |-> r]]
    /\ UNCHANGED <<ledger, killed, made>> /\ told' = {}

\* tools/call, of a tool that exists.
AgentCalls(s) ==
    /\ shell[s].at = "serving"
    /\ \E tool \in DOMAIN Registered, arguments \in DOMAIN Answers :
          Return(s, ThroughMcp(tool, arguments), shell[s].recording, shell[s])

\* Timer::finish and JsonlRecorder::record.  Mutant: of an error nothing is recorded.
RecordMutant(s) ==
    /\ shell[s].at = "record"
    /\ LET c == shell[s].call
           record == [tool |-> c.tool, outcome |-> c.outcome, produced |-> c.produced, delivered |-> c.delivered]
       IN ledger' = IF c.outcome = "ok" THEN Append(ledger, record) ELSE ledger
    /\ shell' = [shell EXCEPT ![s] = shell[s].next]
    /\ UNCHANGED <<killed, made>> /\ told' = {}

Record(s) ==
    /\ shell[s].at = "record"
    /\ LET c == shell[s].call
       IN ledger' = Append(ledger, [tool |-> c.tool, outcome |-> c.outcome, produced |-> c.produced, delivered |-> c.delivered])
    /\ shell' = [shell EXCEPT ![s] = shell[s].next]
    /\ UNCHANGED <<killed, made>> /\ told' = {}

Kill(s) ==
    /\ shell[s] # Off
    /\ shell' = [shell EXCEPT ![s] = Off]
    /\ killed' = IF shell[s].at = "record" THEN Append(killed, shell[s].call) ELSE killed
    /\ UNCHANGED <<ledger, made>> /\ told' = {}

(***************************************************************************)
(* trace.                                                                  *)
(***************************************************************************)
Sum(sizes) ==
    LET upto[n \in 0..Len(sizes)] == IF n = 0 THEN 0 ELSE upto[n - 1] + sizes[n] IN upto[Len(sizes)]

\* Summary, of the records of one tool.
Summary(tool) ==
    LET Mine(i) == ledger[i].tool = tool
        Ended(o) == Cardinality({i \in DOMAIN ledger : Mine(i) /\ ledger[i].outcome = o})
        produced == Sum([i \in DOMAIN ledger |-> IF Mine(i) THEN ledger[i].produced ELSE 0])
        delivered == Sum([i \in DOMAIN ledger |-> IF Mine(i) THEN ledger[i].delivered ELSE 0])
    IN [calls |-> Cardinality({i \in DOMAIN ledger : Mine(i)}),
        ok |-> Ended("ok"), rejected |-> Ended("rejected"), failed |-> Ended("failed"),
        saved |-> Max({0, produced - delivered})]

by_tool == [t \in {ledger[i].tool : i \in DOMAIN ledger} |-> Summary(t)]

Trace(s) ==
    /\ shell[s].at = "trace"
    /\ told' = {by_tool}
    /\ shell' = [shell EXCEPT ![s] = Off]
    /\ UNCHANGED <<ledger, killed, made>>

LineNext == \E s \in Shells : Start(s) \/ Run(s) \/ Serve(s) \/ AgentCalls(s) \/ Record(s) \/ Kill(s) \/ Trace(s)

LineSpec == Init /\ [][LineNext]_lineVars

(***************************************************************************)
(* Properties.                                                             *)
(***************************************************************************)
\* The same call comes to the same on every surface (lib.rs:135, "as an agent would"):
\* refused everywhere or nowhere, and, unless a flag says otherwise, with the same value.
\* The configuration tells them apart only where it sets a size of its own and the tool
\* declares none; what a tool declares is exceeded by no surface unasked.
SurfacesDeliverAlike ==
    LET calls == {made[i].call : i \in DOMAIN made}
        unasked == {c \in calls : ~c.flag /\ c.outcome = "ok"}
    IN  /\ \A c, d \in calls : c.tool = d.tool /\ c.arguments = d.arguments => c.outcome = d.outcome /\ c.produced = d.produced
        /\ \A c, d \in unasked : c.tool = d.tool /\ c.arguments = d.arguments /\ c.delivered # d.delivered =>
              Registered[c.tool] = {} /\ (c.configured \/ d.configured)
        /\ \A c \in unasked : \A cap \in Registered[c.tool] : c.delivered <= cap

Outcomes == {"ok", "rejected", "failed"}
Nothing == [calls |-> 0, ok |-> 0, rejected |-> 0, failed |-> 0, saved |-> 0]

\* What trace prints is true of the calls that were traced, whichever processes made them
\* and were killed: of every tool and outcome, each call is there but those whose record is
\* still to be written or died with its process; and it claims no saving that was not made.
BillIsTrue ==
    LET Of(call, tool, outcome) == call.tool = tool /\ call.outcome = outcome
        Traced(tool, outcome) == {i \in DOMAIN made : made[i].traced /\ Of(made[i].call, tool, outcome)}
        Lost(tool, outcome) == {i \in DOMAIN killed : Of(killed[i], tool, outcome)}
        Pending(tool, outcome) == {s \in Shells : shell[s].at = "record" /\ Of(shell[s].call, tool, outcome)}
        Kept(tool) == Sum([i \in DOMAIN made |->
            IF i \in Traced(tool, "ok") THEN made[i].call.produced - made[i].call.delivered ELSE 0])
    IN  \A bill \in told : DOMAIN bill \subseteq DOMAIN Registered /\
          \A tool \in DOMAIN Registered :
            LET line == IF tool \in DOMAIN bill THEN bill[tool] ELSE Nothing
            IN  /\ \A outcome \in Outcomes :
                      line[outcome] + Cardinality(Lost(tool, outcome)) + Cardinality(Pending(tool, outcome))
                          = Cardinality(Traced(tool, outcome))
                /\ line.calls = line.ok + line.rejected + line.failed
                /\ line.saved <= Kept(tool)

\* What the theorems assume of the constants: sizes are numbers, a budget is one or none,
\* and tools answer every call that can be made of them.
AtMostOne(sizes) == sizes \subseteq Nat /\ \A m, n \in sizes : m = n
Answered ==
    /\ IsFiniteSet(Shells)
    /\ \A tool \in DOMAIN Registered : AtMostOne(Registered[tool])
    /\ \A arguments \in DOMAIN Answers : Answers[arguments].kind \in Outcomes /\ Answers[arguments].size \in Nat
    /\ \A i \in Invocations :
          /\ i.does \in {"run", "serve", "trace"} /\ build_arguments(i.run) \subseteq DOMAIN Answers
          /\ i.run.full \in BOOLEAN /\ i.run.through_mcp \in BOOLEAN /\ AtMostOne(i.run.budget)
          /\ Loads(i) => AtMostOne(Effective(i.file, i.environment).max_bytes)
=============================================================================
