----------------------------- MODULE PluginCall -----------------------------
(***************************************************************************)
(* One call of a plugin (plugin/src/tool.rs, PluginTool::call): a child    *)
(* process on three bounded pipes.  The parent writes the whole request,   *)
(* closes stdin, and only then starts the timeout and reads the output.    *)
(*                                                                         *)
(* A request and an answer are numbers of chunks; a child is a program of  *)
(* reads and writes, chosen from Programs.                                 *)
(***************************************************************************)
EXTENDS Integers, Sequences, FiniteSets

CONSTANTS
    Programs,    \* the children that may run
    Request,     \* chunks in a request, its final newline apart
    Capacity,    \* chunks a pipe holds
    TimerFires   \* whether calls take longer than timeout_secs: FALSE, TRUE or both

Streams == {"stdout", "stderr"}

\* read: one chunk, or end of file; drain: all there is up to end of file;
\* hang: never again.
Ops == {"read", "drain", "stdout", "stderr", "hang"}

Program == [ops : Seq(Ops), code : {0, 1}, json : BOOLEAN]

ASSUME CallAssumption ==
    /\ Programs \subseteq Program
    /\ Request \in Nat \ {0}
    /\ Capacity \in Nat \ {0}
    /\ TimerFires \subseteq BOOLEAN

VARIABLES
    pc,       \* the parent: "spawn", "write", "newline", "wait" or "done"
    sent,     \* chunks of the request written so far
    stdin,    \* chunks in the child's stdin
    eof,      \* the parent has closed stdin
    pipe,     \* pipe[s]: chunks in output stream s
    got,      \* got[s]: chunks the parent has read from s
    child,    \* the program running, with the place it is at
    slow,     \* this call takes longer than timeout_secs; chosen once
    result    \* what call returns; "none" before

vars == <<pc, sent, stdin, eof, pipe, got, child, slow, result>>

NoChild == [state |-> "none"]

Init ==
    /\ pc = "spawn"
    /\ sent = 0
    /\ stdin = 0
    /\ eof = FALSE
    /\ pipe = [s \in Streams |-> 0]
    /\ got = [s \in Streams |-> 0]
    /\ child = NoChild
    /\ slow \in TimerFires
    /\ result = "none"

Return(r) == /\ pc' = "done"
             /\ result' = r

(***************************************************************************)
(* The parent.                                                             *)
(***************************************************************************)
Spawn ==
    /\ pc = "spawn"
    /\ \/ /\ \E p \in Programs :
               child' = [state |-> "running", program |-> p, at |-> 1]
          /\ pc' = "write"
          /\ UNCHANGED result
       \/ /\ Return("could not start")
          /\ UNCHANGED child
    /\ UNCHANGED <<sent, stdin, eof, pipe, got, slow>>

\* write_all of the request, a chunk at a time: blocked while the pipe is
\* full, an error once the child is gone.
WriteRequest ==
    /\ pc = "write"
    /\ \/ /\ child.state = "exited"
          /\ Return("could not write request")
          /\ UNCHANGED <<sent, stdin>>
       \/ /\ child.state = "running"
          /\ stdin < Capacity
          /\ stdin' = stdin + 1
          /\ sent' = sent + 1
          /\ pc' = IF sent' = Request THEN "newline" ELSE "write"
          /\ UNCHANGED result
    /\ UNCHANGED <<eof, pipe, got, child, slow>>

\* The newline, whose errors are ignored, and the drop that closes stdin.
CloseStdin ==
    /\ pc = "newline"
    /\ \/ child.state = "exited" /\ UNCHANGED stdin
       \/ child.state = "running" /\ stdin < Capacity /\ stdin' = stdin + 1
    /\ eof' = TRUE
    /\ pc' = "wait"
    /\ UNCHANGED <<sent, pipe, got, child, result, slow>>

\* wait_with_output reads both streams ...
ReadOutput(s) ==
    /\ pc = "wait"
    /\ pipe[s] > 0
    /\ pipe' = [pipe EXCEPT ![s] = @ - 1]
    /\ got' = [got EXCEPT ![s] = @ + 1]
    /\ UNCHANGED <<pc, sent, stdin, eof, child, result, slow>>

Outcome ==
    IF child.program.code # 0 THEN "exited with an error"
    ELSE IF got["stdout"] = 0 THEN "produced no output"
    ELSE IF child.program.json THEN "ok" ELSE "output was not JSON"

\* Mutant: the end of the process is taken for the end of its output.
CollectMutant ==
    /\ pc = "wait"
    /\ child.state = "exited"
    /\ Return(Outcome)
    /\ UNCHANGED <<sent, stdin, eof, pipe, got, child, slow>>

\* ... up to their end, which comes when the child has exited.
Collect ==
    /\ pc = "wait"
    /\ child.state = "exited"
    /\ \A s \in Streams : pipe[s] = 0
    /\ Return(Outcome)
    /\ UNCHANGED <<sent, stdin, eof, pipe, got, child, slow>>

\* Mutant: the timeout only covers a child that has exited.
TimeoutMutant ==
    /\ slow
    /\ pc = "wait"
    /\ child.state = "exited"
    /\ Return("timed out")
    /\ UNCHANGED <<sent, stdin, eof, pipe, got, child, slow>>

\* The timeout covers wait_with_output and nothing before it; the child is
\* left running.
Timeout ==
    /\ slow
    /\ pc = "wait"
    /\ Return("timed out")
    /\ UNCHANGED <<sent, stdin, eof, pipe, got, child, slow>>

(***************************************************************************)
(* The child.                                                              *)
(***************************************************************************)
Op == child.program.ops[child.at]
Running == child.state = "running" /\ child.at <= Len(child.program.ops)
Advance == child' = [child EXCEPT !.at = @ + 1]

ChildReads ==
    /\ Running
    /\ \/ /\ Op = "read"
          /\ \/ stdin > 0 /\ stdin' = stdin - 1
             \/ stdin = 0 /\ eof /\ UNCHANGED stdin
          /\ Advance
       \/ /\ Op = "drain"
          /\ \/ stdin > 0 /\ stdin' = stdin - 1 /\ UNCHANGED child
             \/ stdin = 0 /\ eof /\ UNCHANGED stdin /\ Advance
    /\ UNCHANGED <<pc, sent, eof, pipe, got, result, slow>>

\* Once the call is over nobody reads, and a write kills the child.
ChildWrites ==
    /\ Running
    /\ Op \in Streams
    /\ \/ /\ pc = "done"
          /\ child' = [child EXCEPT !.state = "exited"]
          /\ UNCHANGED pipe
       \/ /\ pc # "done"
          /\ pipe[Op] < Capacity
          /\ pipe' = [pipe EXCEPT ![Op] = @ + 1]
          /\ Advance
    /\ UNCHANGED <<pc, sent, stdin, eof, got, result, slow>>

ChildExits ==
    /\ child.state = "running"
    /\ child.at > Len(child.program.ops)
    /\ child' = [child EXCEPT !.state = "exited"]
    /\ UNCHANGED <<pc, sent, stdin, eof, pipe, got, result, slow>>

Parent == Spawn \/ WriteRequest \/ CloseStdin
          \/ (\E s \in Streams : ReadOutput(s)) \/ Collect
Child == ChildReads \/ ChildWrites \/ ChildExits

Next == Parent \/ Timeout \/ Child

\* tokio polls a ready future again, the timer of a call that waits expires,
\* and the operating system runs a child that can run.
Fairness == WF_vars(Parent) /\ WF_vars(Timeout) /\ WF_vars(Child)

Spec == Init /\ [][Next]_vars /\ Fairness

-----------------------------------------------------------------------------
\* The chunks the child's program puts in stream s.
Written(s) == Cardinality({i \in DOMAIN child.program.ops : child.program.ops[i] = s})

\* The child ended by itself, with success and an answer.
Answered ==
    /\ child.state = "exited"
    /\ child.at > Len(child.program.ops)
    /\ child.program.code = 0
    /\ child.program.json
    /\ Written("stdout") > 0

\* An answer is the whole answer: call returns a value only for a child that
\* ended by itself, with success, and whose every byte of output was read; a
\* stream is not cut off where the process exited or the pipe was full.
AnswerIsWhole ==
    result = "ok" =>
        /\ Answered
        /\ \A s \in Streams : got[s] = Written(s)

\* The answer of a child is lost to nothing but the timeout, except where the child
\* exits before the whole request is written: then the write fails, and what the child
\* has answered by then is never read.
AnswerNotLost ==
    pc = "done" /\ child # NoChild =>
        (Answered => \/ result \in {"ok", "timed out"}
                     \/ result = "could not write request" /\ sent < Request)

\* What a caller of a plugin is told is all its child said, and nothing less of it.
AnswersAreKept == AnswerIsWhole /\ AnswerNotLost

\* The write of the request waits for room, and the child, for good, does not make any:
\* it hangs, or waits for room itself in a stream nobody reads yet.
WriteBlocked ==
    /\ pc \in {"write", "newline"} /\ stdin = Capacity /\ Running
    /\ Op = "hang" \/ (Op \in Streams /\ pipe[Op] = Capacity)

\* A call that takes longer than its timeout returns, and so does one whose child ends,
\* whatever the child reads, writes or leaves out.  Only the write of the request, which
\* is under no timeout, can hold it for ever.
EveryCallReturns == <>(pc = "done" \/ WriteBlocked \/ (~slow /\ Running /\ Op = "hang"))

\* What README.md:214 says: "Every entry has a timeout, because a plugin that hangs would
\* otherwise hang the agent waiting on it".
EveryCallTimesOut == slow ~> pc = "done"
=============================================================================
