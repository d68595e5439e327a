---------------------------- MODULE Calls_proofs ----------------------------
(***************************************************************************)
(* Proofs about the ways a tool is called: PluginCall, for every set of    *)
(* children, every length of a request and every capacity of a pipe;       *)
(* McpServer, for every set of frames a host may send, any number of them, *)
(* tools that never return and hosts that close stdout; and CommandLine,   *)
(* for any number of shells, every registry of tools and every sequence of *)
(* commands.                                                               *)
(***************************************************************************)
EXTENDS Calls, Lists_proofs

-----------------------------------------------------------------------------
(***************************************************************************)
(* The call of a plugin.                                                   *)
(***************************************************************************)
\* Of the first n steps of a program, those that write to stream s.
Writes(ops, s, n) == {i \in 1..n : ops[i] = s}

\* One more step is one more chunk if it writes to the stream.
LEMMA WritesNext ==
    ASSUME NEW ops, NEW s, NEW n \in Nat
    PROVE  /\ Cardinality(Writes(ops, s, n)) \in Nat
           /\ Cardinality(Writes(ops, s, n + 1)) =
                 Cardinality(Writes(ops, s, n)) + (IF ops[n + 1] = s THEN 1 ELSE 0)
<1>1. IsFiniteSet(Writes(ops, s, n))
  <2>1. IsFiniteSet(1..n)
    BY FS_Interval
  <2>2. Writes(ops, s, n) \in SUBSET (1..n)
    BY DEF Writes
  <2> QED
    BY <2>1, <2>2, FS_Subset
<1>2. n + 1 \notin Writes(ops, s, n)
  BY DEF Writes
<1>3. CASE ops[n + 1] = s
  <2>1. Writes(ops, s, n + 1) = Writes(ops, s, n) \cup {n + 1}
    BY <1>3 DEF Writes
  <2>2. Cardinality(Writes(ops, s, n) \cup {n + 1}) = Cardinality(Writes(ops, s, n)) + 1
    BY <1>1, <1>2, FS_AddElement
  <2> QED
    BY <1>1, <1>3, <2>1, <2>2, FS_CardinalityType
<1>4. CASE ops[n + 1] # s
  <2>1. Writes(ops, s, n + 1) = Writes(ops, s, n)
    BY <1>4 DEF Writes
  <2>2. Cardinality(Writes(ops, s, n)) \in Nat
    BY <1>1, FS_CardinalityType
  <2> QED
    BY <1>4, <2>1, <2>2
<1> QED
  BY <1>3, <1>4

LEMMA WritesNone ==
    ASSUME NEW ops, NEW s
    PROVE  Cardinality(Writes(ops, s, 0)) = 0
<1>1. Writes(ops, s, 0) = {}
  BY DEF Writes
<1> QED
  BY <1>1, FS_EmptySet

-----------------------------------------------------------------------------
(***************************************************************************)
(* The inductive invariant.                                                *)
(***************************************************************************)
Kid == [state : {"running", "exited"}, program : Programs, at : Nat \ {0}]

TypeOK ==
    /\ pc \in {"spawn", "write", "newline", "wait", "done"}
    /\ sent \in Nat
    /\ pipe \in [Streams -> Nat]
    /\ got \in [Streams -> Nat]
    /\ child \in Kid \cup {NoChild}
    /\ pc = "spawn" => child = NoChild /\ sent = 0
    /\ pc \in {"write", "newline", "wait"} => child \in Kid
    /\ child \in Kid => child.at <= Len(child.program.ops) + 1
    /\ pc = "write" => sent < Request

\* No chunk is made up or lost between the child and the parent.
Conserved ==
    /\ child = NoChild => \A s \in Streams : pipe[s] + got[s] = 0
    /\ child \in Kid =>
          \A s \in Streams :
              pipe[s] + got[s] =
                  Cardinality(Writes(child.program.ops, s, child.at - 1))

\* While the parent is there to read, a child only exits at its end.
EndsByItself ==
    pc # "done" /\ child \in Kid =>
        (child.state = "exited" => child.at = Len(child.program.ops) + 1)

\* The parent collected the outcome of a child that ended by itself and left
\* nothing in its pipes.
Collected ==
    /\ child \in Kid
    /\ child.state = "exited"
    /\ child.at = Len(child.program.ops) + 1
    /\ \A s \in Streams : pipe[s] = 0
    /\ result = Outcome

\* How a call that is over came to its end.
Over ==
    /\ pc # "done" => result = "none"
    /\ pc = "done" =>
          \/ result = "could not start" /\ child = NoChild
          \/ result = "could not write request" /\ sent < Request
          \/ result = "timed out"
          \/ Collected

IInv == TypeOK /\ Conserved /\ EndsByItself /\ Over

LEMMA NoKid == NoChild \notin Kid
<1> SUFFICES ASSUME NoChild \in Kid PROVE FALSE
  OBVIOUS
<1>1. NoChild.state \in {"running", "exited"}
  BY DEF Kid
<1> QED
  BY <1>1 DEF NoChild

LEMMA ProgramShape ==
    ASSUME NEW k \in Kid
    PROVE  /\ k.program \in Programs
           /\ k.program.ops \in Seq(Ops)
           /\ Len(k.program.ops) \in Nat
           /\ DOMAIN k.program.ops = 1..Len(k.program.ops)
           /\ k.at \in Nat \ {0}
           /\ k.state \in {"running", "exited"}
<1>1. k.program \in Program
  BY CallAssumption DEF Kid, CallAssumption
<1>2. k.program.ops \in Seq(Ops)
  BY <1>1 DEF Program
<1> QED
  BY <1>2 DEF Kid

LEMMA InvInit == Init => IInv
<1> SUFFICES ASSUME Init PROVE IInv
  OBVIOUS
<1>1. child = NoChild /\ child \notin Kid
  BY NoKid DEF Init
<1>2. TypeOK
  BY <1>1, CallAssumption DEF Init, TypeOK, CallAssumption
<1>3. Conserved /\ EndsByItself
  BY <1>1 DEF Init, Conserved, EndsByItself
<1>4. Over
  BY DEF Init, Over
<1> QED
  BY <1>2, <1>3, <1>4 DEF IInv

\* A step of the parent that leaves child, pipes and what was read alone.
LEMMA Rests ==
    ASSUME IInv, UNCHANGED <<pipe, got, child>>, TypeOK', Over',
           pc' # "done" => pc # "done"
    PROVE  IInv'
<1>1. Conserved'
  BY DEF IInv, Conserved
<1>2. EndsByItself'
  BY DEF IInv, EndsByItself
<1> QED
  BY <1>1, <1>2 DEF IInv

LEMMA ParentStep == IInv /\ (Parent \/ Timeout) => IInv'
<1> SUFFICES ASSUME IInv, Parent \/ Timeout PROVE IInv'
  OBVIOUS
<1>1. CASE Spawn
  <2>1. child = NoChild
    BY <1>1 DEF Spawn, IInv, TypeOK
  <2>2. CASE Return("could not start") /\ UNCHANGED child
    <3>1. TypeOK' /\ Over'
      BY <1>1, <2>1, <2>2, NoKid DEF Spawn, Return, IInv, TypeOK, Over
    <3> QED
      BY <1>1, <2>2, <3>1, Rests DEF Spawn, Return
  <2>3. ASSUME NEW p \in Programs,
               child' = [state |-> "running", program |-> p, at |-> 1],
               pc' = "write", UNCHANGED result
        PROVE  IInv'
    <3>1. /\ child' \in Kid /\ child'.state = "running" /\ child'.at = 1
          /\ child'.program = p
      BY <2>3 DEF Kid
    <3>2. UNCHANGED <<sent, pipe, got>>
      BY <1>1 DEF Spawn
    <3>3. Len(p.ops) \in Nat
      BY <3>1, ProgramShape
    <3>4. sent = 0
      BY <1>1, <2>1 DEF Spawn, IInv, TypeOK
    <3>5. TypeOK'
      BY <2>3, <3>1, <3>2, <3>3, <3>4, CallAssumption
      DEF IInv, TypeOK, CallAssumption
    <3>6. Conserved'
      BY <2>1, <3>1, <3>2, NoKid, WritesNone DEF IInv, Conserved
    <3>7. EndsByItself' /\ Over'
      BY <1>1, <2>3, <3>1 DEF EndsByItself, Over, IInv, Spawn
    <3> QED
      BY <3>5, <3>6, <3>7 DEF IInv
  <2> QED
    BY <1>1, <2>2, <2>3 DEF Spawn
<1>2. CASE WriteRequest
  <2>1. /\ pc = "write" /\ UNCHANGED <<pipe, got, child>>
    BY <1>2 DEF WriteRequest
  <2>2. sent \in Nat /\ sent < Request /\ Request \in Nat
    BY <2>1, CallAssumption DEF IInv, TypeOK, CallAssumption
  <2>3. CASE Return("could not write request") /\ UNCHANGED sent
    BY <2>1, <2>2, <2>3, Rests DEF Return, IInv, TypeOK, Over
  <2>4. CASE /\ sent' = sent + 1
             /\ pc' = IF sent' = Request THEN "newline" ELSE "write"
             /\ UNCHANGED result
    <3>1. sent' \in Nat /\ (pc' = "write" => sent' < Request)
      BY <2>2, <2>4
    <3>2. TypeOK' /\ Over'
      BY <2>1, <2>4, <3>1 DEF IInv, TypeOK, Over
    <3> QED
      BY <2>1, <3>2, Rests
  <2> QED
    BY <1>2, <2>3, <2>4 DEF WriteRequest
<1>3. CASE CloseStdin
  <2>1. /\ pc = "newline" /\ UNCHANGED <<pipe, got, child>>
    BY <1>3 DEF CloseStdin
  <2>2. TypeOK' /\ Over'
    BY <1>3, <2>1 DEF CloseStdin, IInv, TypeOK, Over
  <2> QED
    BY <2>1, <2>2, Rests
<1>4. ASSUME NEW s \in Streams, ReadOutput(s) PROVE IInv'
  <2>1. /\ pc = "wait" /\ pipe[s] > 0
        /\ pipe' = [pipe EXCEPT ![s] = @ - 1]
        /\ got' = [got EXCEPT ![s] = @ + 1]
        /\ UNCHANGED <<pc, sent, child, result>>
    BY <1>4 DEF ReadOutput
  <2>2. \A t \in Streams : pipe'[t] + got'[t] = pipe[t] + got[t]
    BY <2>1 DEF IInv, TypeOK
  <2>3. TypeOK'
    BY <2>1 DEF IInv, TypeOK
  <2>4. Conserved'
    BY <2>1, <2>2 DEF IInv, Conserved
  <2>5. EndsByItself' /\ Over'
    BY <2>1 DEF IInv, EndsByItself, Over
  <2> QED
    BY <2>3, <2>4, <2>5 DEF IInv
<1>5. CASE Collect
  <2>1. /\ pc = "wait" /\ child.state = "exited"
        /\ \A s \in Streams : pipe[s] = 0
        /\ pc' = "done" /\ result' = Outcome
        /\ UNCHANGED <<sent, pipe, got, child>>
    BY <1>5 DEF Collect, Return
  <2>2. Outcome' = Outcome
    BY <2>1 DEF Outcome
  <2>3. Collected'
    BY <2>1, <2>2 DEF Collected, IInv, TypeOK, EndsByItself
  <2>4. TypeOK' /\ Over'
    BY <2>1, <2>3 DEF IInv, TypeOK, Over
  <2> QED
    BY <2>1, <2>4, Rests
<1>6. CASE Timeout
  <2>1. /\ pc = "wait" /\ pc' = "done" /\ result' = "timed out"
        /\ UNCHANGED <<sent, pipe, got, child>>
    BY <1>6 DEF Timeout, Return
  <2>2. TypeOK' /\ Over'
    BY <2>1 DEF IInv, TypeOK, Over
  <2> QED
    BY <2>1, <2>2, Rests
<1> QED
  BY <1>1, <1>2, <1>3, <1>4, <1>5, <1>6 DEF Parent

LEMMA ChildStep == IInv /\ Child => IInv'
<1> SUFFICES ASSUME IInv, Child PROVE IInv'
  OBVIOUS
<1>1. child \in Kid /\ child.state = "running"
  <2>1. child.state = "running"
    BY DEF Child, ChildReads, ChildWrites, ChildExits, Running
  <2>2. NoChild.state = "none"
    BY DEF NoChild
  <2> QED
    BY <2>1, <2>2 DEF IInv, TypeOK
<1>2. /\ Len(child.program.ops) \in Nat
      /\ child.at \in Nat \ {0}
      /\ child.at <= Len(child.program.ops) + 1
  BY <1>1, ProgramShape DEF IInv, TypeOK
<1>3. UNCHANGED <<pc, sent, got, result>> /\ pc # "spawn"
  <2>1. UNCHANGED <<pc, sent, got, result>>
    BY DEF Child, ChildReads, ChildWrites, ChildExits
  <2> QED
    BY <1>1, <2>1, NoKid DEF IInv, TypeOK
<1>4. ~Collected
  BY <1>1 DEF Collected
<1> DEFINE moved == [child EXCEPT !.at = @ + 1]
           ended == [child EXCEPT !.state = "exited"]
<1>5. /\ moved \in Kid /\ moved.state = "running"
      /\ moved.program = child.program /\ moved.at = child.at + 1
  BY <1>1 DEF Kid
<1>6. /\ ended \in Kid /\ ended.state = "exited"
      /\ ended.program = child.program /\ ended.at = child.at
  BY <1>1 DEF Kid
<1> HIDE DEF moved, ended
<1>7. Over'
  BY <1>1, <1>3, <1>4, NoKid DEF IInv, Over
<1>8. CASE UNCHANGED <<child, pipe>>
  <2>1. TypeOK'
    BY <1>3, <1>8 DEF IInv, TypeOK
  <2> QED
    BY <1>3, <1>7, <1>8, <2>1, Rests
<1>9. CASE /\ child' = moved /\ child.at <= Len(child.program.ops)
           /\ \A s \in Streams :
                 pipe'[s] = pipe[s] + (IF Op = s THEN 1 ELSE 0)
           /\ pipe' \in [Streams -> Nat]
  <2>1. TypeOK'
    BY <1>1, <1>2, <1>3, <1>5, <1>9, NoKid DEF IInv, TypeOK
  <2>2. ASSUME NEW s \in Streams
        PROVE  pipe'[s] + got'[s] =
                  Cardinality(Writes(moved.program.ops, s, moved.at - 1))
    <3> DEFINE ops == child.program.ops
               n == child.at - 1
    <3>1. n \in Nat /\ n + 1 = child.at /\ moved.at - 1 = n + 1
      BY <1>2, <1>5
    <3>2. pipe[s] + got[s] = Cardinality(Writes(ops, s, n))
      BY <1>1 DEF IInv, Conserved
    <3>3. pipe'[s] = pipe[s] + (IF ops[n + 1] = s THEN 1 ELSE 0)
      BY <1>9, <3>1 DEF Op
    <3>4. pipe[s] \in Nat /\ got[s] \in Nat
      BY DEF IInv, TypeOK
    <3>5. moved.program.ops = ops
      BY <1>5
    <3> HIDE DEF ops, n
    <3>6. /\ Cardinality(Writes(ops, s, n)) \in Nat
          /\ Cardinality(Writes(ops, s, n + 1)) =
                Cardinality(Writes(ops, s, n)) + (IF ops[n + 1] = s THEN 1 ELSE 0)
      BY <3>1, WritesNext
    <3> QED
      BY <1>3, <3>1, <3>2, <3>3, <3>4, <3>5, <3>6
  <2>3. Conserved'
    BY <1>5, <1>9, <2>2, NoKid DEF Conserved
  <2>4. EndsByItself'
    BY <1>5, <1>9 DEF EndsByItself
  <2> QED
    BY <1>7, <2>1, <2>3, <2>4 DEF IInv
<1>10. CASE /\ child' = ended /\ UNCHANGED pipe
            /\ pc = "done" \/ child.at > Len(child.program.ops)
  <2>1. TypeOK'
    BY <1>2, <1>3, <1>6, <1>10, NoKid DEF IInv, TypeOK
  <2>2. Conserved'
    BY <1>1, <1>3, <1>6, <1>10, NoKid DEF IInv, Conserved
  <2>3. EndsByItself'
    BY <1>2, <1>3, <1>6, <1>10 DEF EndsByItself
  <2> QED
    BY <1>7, <2>1, <2>2, <2>3 DEF IInv
<1>11. CASE ChildReads
  <2>1. /\ Op \notin Streams /\ UNCHANGED pipe
        /\ child.at <= Len(child.program.ops)
        /\ child' = moved \/ UNCHANGED child
    BY <1>11 DEF ChildReads, Streams, Running, Advance, moved
  <2>2. /\ \A s \in Streams : pipe'[s] = pipe[s] + (IF Op = s THEN 1 ELSE 0)
        /\ pipe' \in [Streams -> Nat]
    BY <2>1 DEF IInv, TypeOK
  <2> QED
    BY <1>8, <1>9, <2>1, <2>2
<1>12. CASE ChildWrites
  <2>1. child.at <= Len(child.program.ops) /\ Op \in Streams
    BY <1>12 DEF ChildWrites, Running
  <2>2. CASE pc = "done"
    BY <1>10, <1>12, <2>2 DEF ChildWrites, ended
  <2>3. CASE pc # "done"
    <3>1. child' = moved /\ pipe' = [pipe EXCEPT ![Op] = @ + 1]
      BY <1>12, <2>3 DEF ChildWrites, Advance, moved
    <3>2. /\ \A s \in Streams : pipe'[s] = pipe[s] + (IF Op = s THEN 1 ELSE 0)
          /\ pipe' \in [Streams -> Nat]
      BY <2>1, <3>1 DEF IInv, TypeOK
    <3> QED
      BY <1>9, <2>1, <3>1, <3>2
  <2> QED
    BY <2>2, <2>3
<1>13. CASE ChildExits
  BY <1>10, <1>13 DEF ChildExits, ended
<1> QED
  BY <1>11, <1>12, <1>13 DEF Child

-----------------------------------------------------------------------------
\* A child that ended by itself wrote all its program writes.
LEMMA EndWritesAll ==
    ASSUME child \in Kid, child.at = Len(child.program.ops) + 1, NEW s
    PROVE  Cardinality(Writes(child.program.ops, s, child.at - 1)) = Written(s)
<1>1. /\ DOMAIN child.program.ops = 1..Len(child.program.ops)
      /\ child.at - 1 = Len(child.program.ops)
  BY ProgramShape
<1>2. Writes(child.program.ops, s, child.at - 1) =
        {i \in DOMAIN child.program.ops : child.program.ops[i] = s}
  BY <1>1 DEF Writes
<1> QED
  BY <1>2 DEF Written

LEMMA InvImplies == IInv => AnswersAreKept
<1> SUFFICES ASSUME IInv PROVE AnswerIsWhole /\ AnswerNotLost
  BY DEF AnswersAreKept
<1>1. ASSUME Collected
      PROVE  \A s \in Streams : got[s] = Written(s)
  <2> TAKE s \in Streams
  <2>1. pipe[s] = 0 /\ got[s] \in Nat
    BY <1>1 DEF Collected, IInv, TypeOK
  <2>2. pipe[s] + got[s] =
          Cardinality(Writes(child.program.ops, s, child.at - 1))
    BY <1>1 DEF Collected, IInv, Conserved
  <2> QED
    BY <1>1, <2>1, <2>2, EndWritesAll DEF Collected
<1>2. ASSUME Collected
      PROVE  /\ child.at > Len(child.program.ops)
             /\ got["stdout"] = Written("stdout")
             /\ got["stdout"] \in Nat
  <2>1. "stdout" \in Streams
    BY DEF Streams
  <2> QED
    BY <1>1, <1>2, <2>1, ProgramShape DEF Collected, IInv, TypeOK
<1>3. AnswerIsWhole
  <2> SUFFICES ASSUME result = "ok"
               PROVE  Answered /\ \A s \in Streams : got[s] = Written(s)
    BY DEF AnswerIsWhole
  <2>1. Collected
    BY DEF IInv, Over
  <2>2. Outcome = "ok"
    BY <2>1 DEF Collected
  <2>3. /\ child.program.code = 0
        /\ got["stdout"] # 0
        /\ child.program.json
    BY <2>2, Zenon DEF Outcome
  <2>4. child.state = "exited"
    BY <2>1 DEF Collected
  <2>5. Written("stdout") > 0
    BY <1>2, <2>1, <2>3
  <2>6. Answered
    BY <1>2, <2>1, <2>3, <2>4, <2>5, Zenon DEF Answered
  <2> QED
    BY <1>1, <2>1, <2>6
<1>4. AnswerNotLost
  <2> SUFFICES ASSUME pc = "done", child # NoChild, Answered, Collected
               PROVE  result = "ok"
    BY DEF AnswerNotLost, IInv, Over
  <2>1. child.program.code = 0 /\ child.program.json /\ Written("stdout") > 0
    BY Zenon DEF Answered
  <2>2. got["stdout"] # 0
    BY <1>2, <2>1
  <2>3. Outcome = "ok"
    BY <2>1, <2>2, Zenon DEF Outcome
  <2> QED
    BY <2>3 DEF Collected
<1> QED
  BY <1>3, <1>4

\* A plugin's answer is passed on only whole, and is lost to nothing but the
\* timeout or an end of the child before it has read its request: for every
\* child, request and pipe, and however the two processes interleave
\* (tool.rs PluginTool::call).
THEOREM AnswersKept == Spec => []AnswersAreKept
<1>1. IInv /\ [Next]_vars => IInv'
  <2>1. IInv /\ UNCHANGED vars => IInv'
    BY DEF vars, IInv, TypeOK, Conserved, EndsByItself, Over, Collected, Outcome
  <2> QED
    BY <2>1, ParentStep, ChildStep DEF Next
<1> QED
  BY InvInit, <1>1, InvImplies, PTL DEF Spec

-----------------------------------------------------------------------------
(***************************************************************************)
(* The server.                                                             *)
(***************************************************************************)
Replies == [to : Nat, kind : {"none", "rpc_error", "result", "tool_value", "tool_error"}]
Records == [frame : Nat, outcome : {"ok", "rejected", "failed"}]

ServerTypeOK ==
    /\ written \in Seq(M!Frame) /\ closed \in BOOLEAN
    /\ read \in 0..Len(written)
    /\ loop \in {"read", "call", "write", "hung", "closed", "down"}
    /\ reply \in Replies /\ replies \in Seq(Replies)
    /\ ran \in Seq(Nat) /\ trace \in Seq(Records)

\* A frame that is owed a reply, and to which id; and one that calls a known tool.
Wants(f) == f.line \in {"not_json", "batch", "not_request"} \/ (f.line = "request" /\ f.id)
To(n, f) == IF f.line = "request" THEN n ELSE M!NoId
Calls(f) == f.line = "request" /\ ~M!Protocol(f)

\* The last frame dealt with to the end, and how many of the first n are owed a reply.
Done == IF loop \in {"read", "closed"} THEN read ELSE read - 1
OwedTo(frames, n) == {m \in 1..n : Wants(frames[m])}
Count(frames, n) == Cardinality(OwedTo(frames, n))

\* The frame the server is busy with.
InHand ==
    /\ loop \notin {"read", "closed"} => read > 0
    /\ loop \in {"call", "hung"} => Calls(written[read])
    /\ loop = "write" => Wants(written[read]) /\ reply.to = To(read, written[read])

\* What was written answers what was owed, in order.
Replied ==
    /\ Len(replies) = Count(written, Done)
    /\ \A n \in 1..Done : Wants(written[n]) => replies[Count(written, n)].to = To(n, written[n])
    /\ \A i \in DOMAIN replies : replies[i].to \in 0..Done

\* The calls read so far are recorded, each once, all but the one that still runs.
Recorded ==
    /\ \A i \in DOMAIN trace : trace[i].frame \in 1..read
    /\ \A i \in DOMAIN trace : trace[i].frame = read => loop \notin {"call", "hung"}
    /\ \A i, j \in DOMAIN trace : trace[i].frame = trace[j].frame => i = j
    /\ \A n \in 1..read : Calls(written[n]) =>
          (\E i \in DOMAIN trace : trace[i].frame = n) \/ (n = read /\ loop \in {"call", "hung"})
    /\ \A i \in DOMAIN trace : trace[i].outcome = "rejected" \/ \E j \in DOMAIN ran : ran[j] = trace[i].frame

\* A reply and a record of one frame say the same of it.
Agree(r, t) == r.to = t.frame => ((r.kind = "tool_value") <=> (t.outcome = "ok"))
Told ==
    /\ \A i \in DOMAIN replies, j \in DOMAIN trace : Agree(replies[i], trace[j])
    /\ loop = "write" => \A j \in DOMAIN trace : Agree(reply, trace[j])

ServerInv == ServerTypeOK /\ InHand /\ Replied /\ Recorded /\ Told

-----------------------------------------------------------------------------
\* Counting the frames that are owed a reply.
LEMMA Counting ==
    ASSUME NEW frames, NEW n \in Nat
    PROVE  /\ Count(frames, n) \in Nat
           /\ Count(frames, n + 1) = IF Wants(frames[n + 1]) THEN Count(frames, n) + 1 ELSE Count(frames, n)
           /\ \A m \in 1..n : Wants(frames[m]) => Count(frames, m) \in 1..Count(frames, n)
<1> DEFINE Up(m) == OwedTo(frames, m)
<1>1. \A m \in 0..n : IsFiniteSet(Up(m)) /\ Cardinality(Up(m)) \in Nat /\ Cardinality(Up(m)) <= Cardinality(Up(n))
  <2>1. IsFiniteSet(1..n) /\ Up(n) \in SUBSET (1..n)
    BY FS_Interval DEF OwedTo
  <2>2. IsFiniteSet(Up(n))
    BY <2>1, FS_Subset
  <2>3. \A m \in 0..n : Up(m) \in SUBSET Up(n)
    BY DEF OwedTo
  <2> HIDE DEF Up
  <2>4. \A m \in 0..n : IsFiniteSet(Up(m)) /\ Cardinality(Up(m)) <= Cardinality(Up(n))
    BY <2>2, <2>3, FS_Subset
  <2> QED
    BY <2>4, FS_CardinalityType
<1>2. Wants(frames[n + 1]) => Count(frames, n + 1) = Count(frames, n) + 1
  <2> SUFFICES ASSUME Wants(frames[n + 1]) PROVE Cardinality(Up(n + 1)) = Cardinality(Up(n)) + 1
    BY DEF Count
  <2>1. Up(n + 1) = Up(n) \union {n + 1} /\ n + 1 \notin Up(n)
    BY DEF OwedTo
  <2> QED
    BY <1>1, <2>1, FS_AddElement
<1>3. ~Wants(frames[n + 1]) => Count(frames, n + 1) = Count(frames, n)
  <2>1. ~Wants(frames[n + 1]) => Up(n + 1) = Up(n)
    BY DEF OwedTo
  <2> QED
    BY <2>1 DEF Count
<1>4. ASSUME NEW m \in 1..n, Wants(frames[m]) PROVE Count(frames, m) \in 1..Count(frames, n)
  <2>1. m \in Up(m)
    BY <1>4 DEF OwedTo
  <2>2. Cardinality(Up(m)) # 0
    BY <1>1, <2>1, FS_EmptySet
  <2> QED
    BY <1>1, <2>2 DEF Count
<1> QED
  BY <1>1, <1>2, <1>3, <1>4 DEF Count

\* More frames may come; those that are there stay what they are.
LEMMA SendStep ==
    ASSUME M!FramesAreFrames, ServerInv, M!Send PROVE ServerInv'
<1>1. PICK f \in M!Frame : written' = Append(written, f)
  BY DEF M!Send, M!FramesAreFrames
<1>2. UNCHANGED <<closed, read, loop, reply, replies, ran, trace>>
  BY DEF M!Send
<1>3. /\ written' \in Seq(M!Frame) /\ Len(written') = Len(written) + 1 /\ Len(written) \in Nat
      /\ \A n \in 1..Len(written) : written'[n] = written[n]
  BY <1>1, AppendProperties, LenProperties DEF ServerInv, ServerTypeOK
<1>4. ServerTypeOK'
  BY <1>2, <1>3 DEF ServerInv, ServerTypeOK
<1>5. read \in Nat /\ Done' = Done /\ Done \in 0..read /\ \A n \in 1..read : written'[n] = written[n]
  BY <1>2, <1>3 DEF Done, ServerInv, InHand, ServerTypeOK
<1>6. \A n \in 0..read : OwedTo(written', n) = OwedTo(written, n)
  BY <1>5 DEF OwedTo
<1>7. \A n \in 0..read : Count(written', n) = Count(written, n)
  BY <1>6 DEF Count
<1>8. InHand'
  BY <1>2, <1>5 DEF ServerInv, InHand
<1>9. Replied'
  BY <1>2, <1>5, <1>7 DEF ServerInv, Replied
<1>10. Recorded' /\ Told'
  BY <1>2, <1>5 DEF ServerInv, Recorded, Told
<1> QED
  BY <1>4, <1>8, <1>9, <1>10 DEF ServerInv

\* A line is read: it is passed over, ends the server, or is answered or called next.
LEMMA ReadStep ==
    ASSUME ServerInv, M!ReadLine PROVE ServerInv'
<1> DEFINE n == read + 1
           f == written[n]
<1>1. /\ loop = "read" /\ n \in 1..Len(written) /\ n \in Nat /\ read \in Nat /\ read' = n /\ f \in M!Frame
      /\ UNCHANGED <<written, closed, replies, ran, trace>>
  BY LenProperties, ElementOfSeq DEF M!ReadLine, ServerInv, ServerTypeOK
<1>2. \/ loop' = "read" /\ ~Wants(f) /\ ~Calls(f) /\ UNCHANGED reply
      \/ loop' = "down" /\ ~Wants(f) /\ ~Calls(f) /\ UNCHANGED reply
      \/ loop' = "write" /\ Wants(f) /\ ~Calls(f) /\ reply'.to = To(n, f) /\ reply' \in Replies
      \/ loop' = "call" /\ Calls(f) /\ UNCHANGED reply
  <2>1. loop' = "read" => ~Wants(f) /\ ~Calls(f) /\ UNCHANGED reply
    BY <1>1 DEF M!ReadLine, Wants, Calls, M!Frame, M!Lines, M!Answer
  <2>2. loop' = "down" => ~Wants(f) /\ ~Calls(f) /\ UNCHANGED reply
    BY <1>1 DEF M!ReadLine, Wants, Calls, M!Frame, M!Lines, M!Answer
  <2>3. loop' = "write" => Wants(f) /\ ~Calls(f) /\ reply'.to = To(n, f) /\ reply' \in Replies
    BY <1>1 DEF M!ReadLine, Wants, Calls, M!Frame, M!Lines, M!Answer, To, Replies, M!ProtocolReply, M!NoId
  <2>4. loop' = "call" => Calls(f) /\ UNCHANGED reply
    BY <1>1 DEF M!ReadLine, Wants, Calls, M!Frame, M!Lines, M!Answer
  <2>5. loop' \in {"read", "down", "write", "call"}
    BY <1>1 DEF M!ReadLine, M!Frame, M!Lines, M!Answer
  <2> QED
    BY <2>1, <2>2, <2>3, <2>4, <2>5
<1> HIDE DEF f
<1>3. ServerTypeOK'
  BY <1>1, <1>2 DEF ServerInv, ServerTypeOK
<1>4. InHand'
  BY <1>1, <1>2 DEF InHand, f
<1>5. Count(written, n) = IF Wants(f) THEN Count(written, read) + 1 ELSE Count(written, read)
  BY <1>1, Counting DEF f
<1>6. Done = read /\ Done' = (IF loop' = "read" THEN n ELSE read)
  BY <1>1, <1>2 DEF Done
<1>7. Replied'
  <2>1. Len(replies) = Count(written, Done')
    BY <1>2, <1>5, <1>6 DEF ServerInv, Replied
  <2>2. \A m \in 1..Done' : Wants(written[m]) => m \in 1..Done
    BY <1>1, <1>2, <1>6 DEF f
  <2>3. 0..Done \subseteq 0..Done'
    BY <1>1, <1>6
  <2> QED
    BY <1>1, <2>1, <2>2, <2>3 DEF ServerInv, Replied
<1>8. Recorded'
  <2>1. \A i \in DOMAIN trace : trace[i].frame \in 1..read
    BY DEF ServerInv, Recorded
  <2>2. \A m \in 1..n : Calls(written[m]) => (\E i \in DOMAIN trace : trace[i].frame = m) \/ (m = n /\ loop' = "call")
    BY <1>1, <1>2 DEF ServerInv, Recorded, f
  <2> QED
    BY <1>1, <2>1, <2>2 DEF ServerInv, Recorded
<1>9. Told'
  <2>1. loop' = "write" => \A j \in DOMAIN trace : reply'.to # trace[j].frame
    BY <1>1, <1>2 DEF ServerInv, Recorded, To, M!NoId
  <2> QED
    BY <1>1, <2>1 DEF ServerInv, Told, Agree
<1> QED
  BY <1>3, <1>4, <1>7, <1>8, <1>9 DEF ServerInv

\* A call comes to its end: it is recorded, and answered where it has an id.
LEMMA AnsweredStep ==
    ASSUME ServerInv, loop = "call", NEW t \in Records, NEW kind \in {"tool_value", "tool_error"},
           t.frame = read, (kind = "tool_value") <=> (t.outcome = "ok"),
           trace' = Append(trace, t), M!Answer(read, written[read], kind),
           \/ t.outcome = "rejected" /\ UNCHANGED ran
           \/ ran' = Append(ran, read),
           UNCHANGED <<written, closed, read, replies>>
    PROVE  ServerInv'
<1> DEFINE f == written[read]
<1>1. read \in Nat \ {0} /\ Calls(f) /\ read \in 1..Len(written) /\ Done = read - 1
  BY LenProperties DEF ServerInv, ServerTypeOK, InHand, Done
<1>2. /\ trace \in Seq(Records) /\ trace' \in Seq(Records) /\ Len(trace) \in Nat
      /\ DOMAIN trace = 1..Len(trace) /\ DOMAIN trace' = 1..Len(trace) + 1
      /\ \A i \in 1..Len(trace) : trace'[i] = trace[i]
      /\ trace'[Len(trace) + 1] = t
  BY AppendProperties, LenProperties DEF ServerInv, ServerTypeOK
<1>3. /\ ran \in Seq(Nat) /\ ran' \in Seq(Nat)
      /\ \A j \in DOMAIN ran : j \in DOMAIN ran' /\ ran'[j] = ran[j]
      /\ t.outcome = "rejected" \/ \E j \in DOMAIN ran' : ran'[j] = read
  <2>1. ran \in Seq(Nat)
    BY DEF ServerInv, ServerTypeOK
  <2>2. CASE UNCHANGED ran /\ t.outcome = "rejected"
    BY <2>1, <2>2
  <2>3. CASE ran' = Append(ran, read)
    <3>1. read \in Nat
      BY <1>1
    <3>2. /\ Append(ran, read) \in Seq(Nat) /\ Len(ran) \in Nat /\ DOMAIN ran = 1..Len(ran)
          /\ DOMAIN Append(ran, read) = 1..Len(ran) + 1
          /\ \A j \in 1..Len(ran) : Append(ran, read)[j] = ran[j]
          /\ Append(ran, read)[Len(ran) + 1] = read
      BY <2>1, <3>1, AppendProperties, LenProperties
    <3>3. ran' \in Seq(Nat)
      BY <2>3, <3>2
    <3>4. ASSUME NEW j \in DOMAIN ran PROVE j \in DOMAIN ran' /\ ran'[j] = ran[j]
      BY <2>3, <3>2
    <3>5. Len(ran) + 1 \in DOMAIN ran' /\ ran'[Len(ran) + 1] = read
      BY <2>3, <3>2
    <3> QED
      BY <2>1, <3>3, <3>4, <3>5, Zenon
  <2> QED
    BY <2>2, <2>3
<1>4. \/ Wants(f) /\ loop' = "write" /\ reply' = [to |-> read, kind |-> kind] /\ reply'.to = To(read, f)
      \/ ~Wants(f) /\ loop' = "read" /\ UNCHANGED reply
  BY <1>1 DEF M!Answer, Wants, Calls, To
<1> HIDE DEF f
<1>5. reply' \in Replies /\ loop' \in {"read", "write"}
  BY <1>1, <1>4 DEF Replies, ServerInv, ServerTypeOK
<1>6. ServerTypeOK' /\ InHand'
  <2>1. ServerTypeOK'
    BY <1>2, <1>3, <1>5 DEF ServerInv, ServerTypeOK
  <2>2. InHand'
    BY <1>1, <1>4 DEF InHand, f
  <2> QED
    BY <2>1, <2>2
<1>7. Replied'
  <2>1. Done' = (IF loop' = "read" THEN read ELSE read - 1)
    BY <1>5 DEF Done
  <2>2. Count(written, read) = IF Wants(f) THEN Count(written, read - 1) + 1 ELSE Count(written, read - 1)
    BY <1>1, Counting, read - 1 + 1 = read DEF f
  <2>3. Len(replies) = Count(written, Done')
    BY <1>1, <1>4, <2>1, <2>2 DEF ServerInv, Replied
  <2>4. \A m \in 1..Done' : Wants(written[m]) => m \in 1..Done
    BY <1>1, <1>4, <2>1 DEF f
  <2>5. 0..Done \subseteq 0..Done'
    BY <1>1, <2>1
  <2> QED
    BY <2>3, <2>4, <2>5 DEF ServerInv, Replied
<1>8. Recorded'
  <2>1. \A i \in 1..Len(trace) : trace[i].frame \in 1..read /\ trace[i].frame # read
    BY <1>2 DEF ServerInv, Recorded
  <2>2. \A i \in DOMAIN trace' : trace'[i].frame \in 1..read
    BY <1>1, <1>2, <2>1
  <2>3. \A i, j \in DOMAIN trace' : trace'[i].frame = trace'[j].frame => i = j
    BY <1>2, <2>1 DEF ServerInv, Recorded
  <2>4. ASSUME NEW m \in 1..read, Calls(written[m]) PROVE \E i \in DOMAIN trace' : trace'[i].frame = m
    <3>1. CASE m = read
      BY <1>2, <3>1
    <3>2. CASE m # read
      <4>0. \A n \in 1..read : Calls(written[n]) =>
               (\E i \in DOMAIN trace : trace[i].frame = n) \/ (n = read /\ loop \in {"call", "hung"})
        BY DEF ServerInv, Recorded
      <4>1. PICK i \in DOMAIN trace : trace[i].frame = m
        BY <2>4, <3>2, <4>0
      <4>2. i \in DOMAIN trace' /\ trace'[i] = trace[i]
        BY <1>2
      <4> QED
        BY <4>1, <4>2
    <3> QED
      BY <3>1, <3>2
  <2>5. ASSUME NEW i \in DOMAIN trace'
        PROVE  trace'[i].outcome = "rejected" \/ \E j \in DOMAIN ran' : ran'[j] = trace'[i].frame
    <3>1. CASE i = Len(trace) + 1
      BY <1>2, <1>3, <3>1
    <3>2. CASE i \in 1..Len(trace)
      <4>1. trace[i].outcome = "rejected" \/ \E j \in DOMAIN ran : ran[j] = trace[i].frame
        BY <1>2, <3>2 DEF ServerInv, Recorded
      <4>2. trace'[i] = trace[i]
        BY <1>2, <3>2
      <4> QED
        BY <1>3, <4>1, <4>2
    <3> QED
      BY <1>2, <3>1, <3>2
  <2> QED
    BY <1>5, <2>2, <2>3, <2>4, <2>5 DEF Recorded
<1>9. Told'
  <2>1. ASSUME NEW i \in DOMAIN replies, NEW j \in DOMAIN trace' PROVE Agree(replies[i], trace'[j])
    <3>1. CASE j = Len(trace) + 1
      BY <1>1, <1>2, <3>1 DEF ServerInv, Replied, Agree
    <3>2. CASE j \in 1..Len(trace)
      BY <1>2, <3>2 DEF ServerInv, Told
    <3> QED
      BY <1>2, <3>1, <3>2
  <2>2. ASSUME loop' = "write", NEW j \in DOMAIN trace' PROVE Agree(reply', trace'[j])
    <3>1. CASE j = Len(trace) + 1
      BY <1>2, <1>4, <2>2, <3>1 DEF Agree
    <3>2. CASE j \in 1..Len(trace)
      BY <1>2, <1>4, <2>2, <3>2 DEF ServerInv, Recorded, Agree
    <3> QED
      BY <1>2, <3>1, <3>2
  <2> QED
    BY <2>1, <2>2 DEF Told
<1> QED
  BY <1>6, <1>7, <1>8, <1>9 DEF ServerInv

LEMMA RefuseStep ==
    ASSUME ServerInv, M!Refuse PROVE ServerInv'
<1> DEFINE t == [frame |-> read, outcome |-> "rejected"]
<1>1. t \in Records /\ t.frame = read /\ t.outcome = "rejected"
  BY DEF ServerInv, ServerTypeOK, Records
<1>2. /\ loop = "call" /\ trace' = Append(trace, t) /\ M!Answer(read, written[read], "tool_error")
      /\ UNCHANGED <<written, closed, read, replies>> /\ UNCHANGED ran
  BY DEF M!Refuse
<1> HIDE DEF t
<1> QED
  BY <1>1, <1>2, AnsweredStep

LEMMA RunStep ==
    ASSUME ServerInv, M!Run PROVE ServerInv'
<1>1. PICK outcome \in {"ok", "rejected", "failed"} :
         /\ trace' = Append(trace, [frame |-> read, outcome |-> outcome])
         /\ M!Answer(read, written[read], IF outcome = "ok" THEN "tool_value" ELSE "tool_error")
  BY DEF M!Run
<1> DEFINE t == [frame |-> read, outcome |-> outcome]
           kind == IF outcome = "ok" THEN "tool_value" ELSE "tool_error"
<1>2. /\ t \in Records /\ t.frame = read /\ kind \in {"tool_value", "tool_error"}
      /\ (kind = "tool_value") <=> (t.outcome = "ok")
  BY DEF ServerInv, ServerTypeOK, Records
<1>3. /\ loop = "call" /\ trace' = Append(trace, t) /\ M!Answer(read, written[read], kind)
      /\ UNCHANGED <<written, closed, read, replies>> /\ ran' = Append(ran, read)
  BY <1>1 DEF M!Run
<1> HIDE DEF t, kind
<1> QED
  BY <1>2, <1>3, AnsweredStep

LEMMA HangStep ==
    ASSUME ServerInv, M!Hang PROVE ServerInv'
<1>1. /\ loop = "call" /\ loop' = "hung" /\ ran' = Append(ran, read)
      /\ UNCHANGED <<written, closed, read, reply, replies, trace>>
  BY DEF M!Hang
<1>2. read \in Nat /\ Done' = Done
  BY <1>1 DEF Done, ServerInv, ServerTypeOK
<1>3. ran' \in Seq(Nat) /\ \A j \in DOMAIN ran : j \in DOMAIN ran' /\ ran'[j] = ran[j]
  <2>1. ran \in Seq(Nat)
    BY DEF ServerInv, ServerTypeOK
  <2> QED
    BY <1>1, <1>2, <2>1, AppendProperties, LenProperties
<1>4. ServerTypeOK' /\ InHand' /\ Told'
  BY <1>1, <1>3 DEF ServerInv, ServerTypeOK, InHand, Told
<1>5. Replied'
  BY <1>1, <1>2 DEF ServerInv, Replied
<1>6. Recorded'
  BY <1>1, <1>3 DEF ServerInv, Recorded
<1> QED
  BY <1>4, <1>5, <1>6 DEF ServerInv

\* The reply is written, and with it the frame is dealt with; or the server ends.
LEMMA WriteStep ==
    ASSUME ServerInv, M!Write PROVE ServerInv'
<1>1. /\ loop = "write" /\ UNCHANGED <<written, closed, read, reply, ran, trace>>
      /\ \/ replies' = Append(replies, reply) /\ loop' = "read"
         \/ UNCHANGED replies /\ loop' = "down"
  BY DEF M!Write
<1>2. /\ read \in Nat \ {0} /\ Done = read - 1 /\ Wants(written[read])
      /\ reply \in Replies /\ reply.to = To(read, written[read]) /\ replies \in Seq(Replies)
  BY <1>1 DEF ServerInv, ServerTypeOK, InHand, Done
<1>3. ServerTypeOK'
  <2>1. replies' \in Seq(Replies)
    BY <1>1, <1>2, AppendProperties
  <2> QED
    BY <1>1, <2>1 DEF ServerInv, ServerTypeOK
<1>4. InHand' /\ Recorded'
  <2>1. InHand'
    BY <1>1, <1>2 DEF InHand
  <2>2. Recorded'
    BY <1>1 DEF ServerInv, Recorded
  <2> QED
    BY <2>1, <2>2
<1>5. CASE UNCHANGED replies /\ loop' = "down"
  <2>1. Done' = Done
    BY <1>1, <1>2, <1>5 DEF Done
  <2>2. Replied' /\ Told'
    BY <1>1, <1>5, <2>1 DEF ServerInv, Replied, Told
  <2> QED
    BY <1>3, <1>4, <2>2 DEF ServerInv
<1>6. CASE replies' = Append(replies, reply) /\ loop' = "read"
  <2>1. /\ Len(replies) \in Nat /\ Len(replies') = Len(replies) + 1
        /\ DOMAIN replies = 1..Len(replies) /\ DOMAIN replies' = 1..Len(replies) + 1
        /\ \A i \in 1..Len(replies) : replies'[i] = replies[i]
        /\ replies'[Len(replies) + 1] = reply
    BY <1>2, <1>3, <1>6, AppendProperties, LenProperties DEF ServerTypeOK
  <2>2. Done' = read /\ read - 1 \in Nat /\ read - 1 + 1 = read
    BY <1>1, <1>2, <1>6 DEF Done
  <2>3. /\ Count(written, read) = Len(replies) + 1 /\ Len(replies) = Count(written, read - 1)
        /\ \A m \in 1..read - 1 : Wants(written[m]) => Count(written, m) \in 1..Len(replies)
    BY <1>2, <2>2, Counting DEF ServerInv, Replied
  <2>4. ASSUME NEW m \in 1..read, Wants(written[m]) PROVE replies'[Count(written, m)].to = To(m, written[m])
    <3>1. CASE m = read
      BY <1>2, <2>1, <2>3, <3>1
    <3>2. CASE m # read
      <4>1. m \in 1..Done
        BY <1>2, <2>4, <3>2
      <4>2. Count(written, m) \in 1..Len(replies)
        BY <1>2, <2>3, <2>4, <4>1
      <4> QED
        BY <2>1, <2>4, <4>1, <4>2 DEF ServerInv, Replied
    <3> QED
      BY <3>1, <3>2
  <2>5. \A i \in DOMAIN replies' : replies'[i].to \in 0..read
    <3>1. \A i \in 1..Len(replies) : replies[i].to \in 0..read
      BY <1>2, <2>1 DEF ServerInv, Replied
    <3>2. reply.to \in 0..read
      BY <1>2 DEF To, M!NoId
    <3> QED
      BY <2>1, <3>1, <3>2
  <2>6. Replied'
    BY <1>1, <2>1, <2>2, <2>3, <2>4, <2>5 DEF Replied
  <2>7. Told'
    <3>1. \A j \in DOMAIN trace : Agree(reply, trace[j])
      BY <1>1 DEF ServerInv, Told
    <3>2. \A i \in DOMAIN replies', j \in DOMAIN trace : Agree(replies'[i], trace[j])
      BY <2>1, <3>1 DEF ServerInv, Told
    <3> QED
      BY <1>1, <1>6, <3>2 DEF Told
  <2> QED
    BY <1>3, <1>4, <2>6, <2>7 DEF ServerInv
<1> QED
  BY <1>1, <1>5, <1>6

\* Nothing moves but what no frame depends on.
LEMMA QuietStep ==
    ASSUME ServerInv, M!Close \/ M!End \/ UNCHANGED M!vars PROVE ServerInv'
<1>1. /\ UNCHANGED <<written, read, reply, replies, ran, trace>> /\ closed' \in BOOLEAN
      /\ UNCHANGED loop \/ (loop = "read" /\ loop' = "closed")
  BY DEF M!Close, M!End, M!vars, ServerInv, ServerTypeOK
<1>2. Done' = Done
  BY <1>1 DEF Done
<1>3. ServerTypeOK' /\ InHand' /\ Recorded' /\ Told'
  BY <1>1 DEF ServerInv, ServerTypeOK, InHand, Recorded, Told
<1>4. Replied'
  BY <1>1, <1>2 DEF ServerInv, Replied
<1> QED
  BY <1>3, <1>4 DEF ServerInv

-----------------------------------------------------------------------------
LEMMA ServerInvInit == M!Init => ServerInv
<1> SUFFICES ASSUME M!Init PROVE ServerInv
  OBVIOUS
<1>1. /\ <<>> \in Seq(M!Frame) /\ <<>> \in Seq(Replies) /\ <<>> \in Seq(Nat) /\ <<>> \in Seq(Records)
      /\ Len(<<>>) = 0 /\ DOMAIN <<>> = {}
  BY EmptySeq
<1>2. ServerTypeOK
  <2>1. reply \in Replies
    BY DEF M!Init, Replies, M!NoId
  <2>2. read \in 0..Len(written)
    BY <1>1 DEF M!Init
  <2> QED
    BY <1>1, <2>1, <2>2 DEF M!Init, ServerTypeOK
<1>3. Count(written, 0) = 0
  <2>1. OwedTo(written, 0) = {}
    BY DEF OwedTo
  <2> QED
    BY <2>1, FS_EmptySet DEF Count
<1>4. InHand /\ Recorded /\ Told
  BY <1>1 DEF M!Init, InHand, Recorded, Told
<1>5. Replied
  BY <1>1, <1>3 DEF M!Init, Replied, Done
<1> QED
  BY <1>2, <1>4, <1>5 DEF ServerInv

LEMMA ServerInvStep ==
    ASSUME M!FramesAreFrames PROVE ServerInv /\ [M!Next]_M!vars => ServerInv'
BY SendStep, ReadStep, RefuseStep, RunStep, HangStep, WriteStep, QuietStep DEF M!Next, M!Server

LEMMA ServerInvariance ==
    ASSUME M!FramesAreFrames PROVE M!Init /\ [][M!Next]_M!vars => []ServerInv
BY ServerInvInit, ServerInvStep, PTL

LEMMA SameCardinality == \A S : M!Cardinality(S) = Cardinality(S)
BY DEF M!Cardinality, M!IsFiniteSet, Cardinality, IsFiniteSet

LEMMA RepliesAre ==
    ASSUME M!FramesAreFrames PROVE M!Init /\ [][M!Next]_M!vars => []M!RepliesMatchRequests
<1>1. ServerInv => M!RepliesMatchRequests
  <2> SUFFICES ASSUME ServerInv PROVE M!RepliesMatchRequests
    OBVIOUS
  <2>1. M!Handled = 1..Done /\ \A n : (M!Owed(n) <=> Wants(written[n])) /\ M!Addressee(n) = To(n, written[n])
    BY DEF M!Handled, Done, M!Owed, Wants, M!Addressee, To
  <2>2. {n \in M!Handled : M!Owed(n)} = OwedTo(written, Done)
    BY <2>1 DEF OwedTo
  <2>3. \A n \in 1..Done : {m \in OwedTo(written, Done) : m <= n} = OwedTo(written, n)
    BY DEF OwedTo, Done, ServerInv, ServerTypeOK
  <2>4. \A n \in OwedTo(written, Done) : replies[Cardinality({m \in OwedTo(written, Done) : m <= n})].to = M!Addressee(n)
    BY <2>1, <2>3 DEF ServerInv, Replied, Count, OwedTo
  <2> QED
    BY <2>2, <2>4, SameCardinality DEF ServerInv, Replied, M!RepliesMatchRequests, Count
<1> QED
  BY <1>1, ServerInvariance, PTL

LEMMA CallsAreRecorded ==
    ASSUME M!FramesAreFrames PROVE M!Init /\ [][M!Next]_M!vars => []M!EveryCallRecordedOnce
<1>1. ServerInv => M!EveryCallRecordedOnce
  <2> SUFFICES ASSUME ServerInv PROVE M!EveryCallRecordedOnce
    OBVIOUS
  <2>1. ASSUME NEW n \in M!Handled, written[n].line = "request", ~M!Protocol(written[n])
        PROVE  /\ Cardinality({i \in DOMAIN trace : trace[i].frame = n}) = 1
               /\ (\A i \in DOMAIN ran : ran[i] # n) =>
                     \A i \in {i \in DOMAIN trace : trace[i].frame = n} : trace[i].outcome = "rejected"
    <3>1. n \in 1..read /\ (n = read => loop \in {"read", "closed"})
      BY <2>1 DEF M!Handled, ServerInv, ServerTypeOK
    <3>2. PICK i \in DOMAIN trace : trace[i].frame = n
      BY <2>1, <3>1 DEF ServerInv, Recorded, Calls
    <3>3. {j \in DOMAIN trace : trace[j].frame = n} = {i}
      BY <3>2 DEF ServerInv, Recorded
    <3>4. trace[i].outcome = "rejected" \/ \E j \in DOMAIN ran : ran[j] = n
      BY <3>2 DEF ServerInv, Recorded
    <3> QED
      BY <3>3, <3>4, FS_Singleton
  <2>2. \A i \in DOMAIN replies, j \in DOMAIN trace : Agree(replies[i], trace[j])
    BY DEF ServerInv, Told
  <2> QED
    BY <2>1, <2>2, SameCardinality DEF M!EveryCallRecordedOnce, Agree
<1> QED
  BY <1>1, ServerInvariance, PTL

-----------------------------------------------------------------------------
(***************************************************************************)
(* The commands of pk and the bill of its trace (CommandLine).             *)
(***************************************************************************)
LEMMA LineSizes ==
    ASSUME NEW S
    PROVE  C!Cardinality(S) = Cardinality(S) /\ (C!IsFiniteSet(S) <=> IsFiniteSet(S))
<1>1. C!Cardinality(S) = Cardinality(S)
  BY DEF C!Cardinality, Cardinality, C!IsFiniteSet, IsFiniteSet
<1>2. C!IsFiniteSet(S) <=> IsFiniteSet(S)
  BY DEF C!IsFiniteSet, IsFiniteSet
<1> QED
  BY <1>1, <1>2

\* What sums are, of the empty list, of one more item, and of lists that differ.
LEMMA LineSum ==
    ASSUME NEW s \in Seq(Int)
    PROVE  \E run : RunningSums(s, run) /\ C!Sum(s) = run[Len(s)] /\ run[Len(s)] \in Int
<1>1. C!Sum(s) = Total(s)
  BY DEF C!Sum, Total
<1>2. PICK run : RunningSums(s, run) /\ Total(s) = run[Len(s)]
  BY TotalIs
<1>3. run[Len(s)] \in Int
  <2>1. Len(s) \in 0..Len(s)
    OBVIOUS
  <2> QED
    BY <1>2, <2>1 DEF RunningSums
<1> QED
  BY <1>1, <1>2, <1>3

LEMMA SumOfMore ==
    ASSUME NEW s \in Seq(Int), NEW x \in Int
    PROVE  C!Sum(<<>>) = 0 /\ C!Sum(s) \in Int /\ C!Sum(Append(s, x)) = C!Sum(s) + x
<1> DEFINE t == Append(s, x)
           n == Len(s)
<1>1. t \in Seq(Int) /\ n \in Nat /\ Len(t) = n + 1 /\ t[n + 1] = x /\ \A i \in 1..n : t[i] = s[i]
  OBVIOUS
<1>2. C!Sum(<<>>) = 0
  <2>1. <<>> \in Seq(Int) /\ Len(<<>>) = 0
    OBVIOUS
  <2> QED
    BY <2>1, LineSum DEF RunningSums
<1>3. PICK r : RunningSums(s, r) /\ C!Sum(s) = r[n] /\ r[n] \in Int
  BY LineSum
<1> HIDE DEF t
<1>4. PICK q : RunningSums(t, q) /\ C!Sum(t) = q[n + 1]
  BY <1>1, LineSum
<1>5. q[n] = r[n]
  <2>1. n <= Len(s) /\ n <= Len(t) /\ Len(t) = n + 1 /\ n \in Nat
    BY <1>1
  <2>2. RunningSums(t, q) /\ RunningSums(s, r) /\ t \in Seq(Int) /\ s \in Seq(Int)
    BY <1>1, <1>3, <1>4
  <2>3. \A i \in 1..n : t[i] = s[i]
    BY <1>1
  <2> HIDE DEF n
  <2> QED
    BY <2>1, <2>2, <2>3, SumsAgree
<1>6. q[n + 1] = q[n] + x
  <2>1. n + 1 \in 1..Len(t) /\ (n + 1) - 1 = n
    BY <1>1
  <2> HIDE DEF n
  <2> QED
    BY <1>1, <1>4, <2>1 DEF RunningSums
<1> QED
  BY <1>2, <1>3, <1>4, <1>5, <1>6 DEF t

LEMMA SumOfSmaller ==
    ASSUME NEW s \in Seq(Int), NEW t \in Seq(Int), Len(t) = Len(s), \A i \in 1..Len(s) : t[i] <= s[i]
    PROVE  C!Sum(t) <= C!Sum(s)
<1>1. PICK r : RunningSums(s, r) /\ C!Sum(s) = r[Len(s)]
  BY LineSum
<1>2. PICK q : RunningSums(t, q) /\ C!Sum(t) = q[Len(t)]
  BY LineSum
<1>3. Len(s) \in Nat
  OBVIOUS
<1>4. Len(s) <= Len(s) /\ Len(s) <= Len(t)
  BY <1>3
<1>5. q[Len(s)] <= r[Len(s)]
  BY <1>1, <1>2, <1>3, <1>4, SumsAgree
<1> QED
  BY <1>1, <1>2, <1>5

LEMMA SumOfDifferences ==
    ASSUME NEW a \in Seq(Int), NEW b \in Seq(Int), NEW c \in Seq(Int), Len(b) = Len(a), Len(c) = Len(a),
           \A i \in 1..Len(a) : c[i] = a[i] - b[i]
    PROVE  C!Sum(c) = C!Sum(a) - C!Sum(b)
<1>1. PICK p : RunningSums(a, p) /\ C!Sum(a) = p[Len(a)]
  BY LineSum
<1>2. PICK q : RunningSums(b, q) /\ C!Sum(b) = q[Len(a)]
  BY LineSum
<1>3. PICK r : RunningSums(c, r) /\ C!Sum(c) = r[Len(a)]
  BY LineSum
<1>4. Len(a) \in Nat
  OBVIOUS
<1> DEFINE Good(m) == r[m] = p[m] - q[m]
           T == {m \in Nat : m <= Len(a) => Good(m)}
<1>5. Good(0)
  BY <1>1, <1>2, <1>3 DEF RunningSums
<1>6. ASSUME NEW m \in Nat, m + 1 <= Len(a), Good(m) PROVE Good(m + 1)
  <2>1. m + 1 \in 1..Len(a) /\ (m + 1) - 1 = m /\ m \in 0..Len(a)
    BY <1>4, <1>6
  <2>2. p[m + 1] = p[m] + a[m + 1] /\ q[m + 1] = q[m] + b[m + 1] /\ r[m + 1] = r[m] + c[m + 1]
    BY <1>1, <1>2, <1>3, <2>1 DEF RunningSums
  <2>3. p[m] \in Int /\ q[m] \in Int /\ r[m] \in Int
    BY <1>1, <1>2, <1>3, <2>1 DEF RunningSums
  <2>4. a[m + 1] \in Int /\ b[m + 1] \in Int /\ c[m + 1] = a[m + 1] - b[m + 1]
    BY <2>1
  <2>5. r[m] = p[m] - q[m]
    BY <1>6
  <2>7. (p[m] - q[m]) + (a[m + 1] - b[m + 1]) = (p[m] + a[m + 1]) - (q[m] + b[m + 1])
    <3> DEFINE x == p[m]
               y == q[m]
               u == a[m + 1]
               v == b[m + 1]
    <3>1. x \in Int /\ y \in Int /\ u \in Int /\ v \in Int
      BY <2>3, <2>4
    <3> HIDE DEF x, y, u, v
    <3>2. (x - y) + (u - v) = (x + u) - (y + v)
      BY <3>1
    <3> QED
      BY <3>2 DEF x, y, u, v
  <2>8. r[m + 1] = p[m + 1] - q[m + 1]
    BY <2>2, <2>4, <2>5, <2>7, Zenon
  <2> QED
    BY <2>8
<1>7. T = Nat
  <2> HIDE DEF Good
  <2>1. T \in SUBSET Nat /\ 0 \in T
    BY <1>5
  <2>2. ASSUME NEW m \in T PROVE m + 1 \in T
    BY <1>4, <1>6
  <2> HIDE DEF T
  <2> QED
    BY <2>1, <2>2, InductiveSet
<1>8. Good(Len(a))
  <2> HIDE DEF Good
  <2> QED
    BY <1>4, <1>7
<1> QED
  BY <1>1, <1>2, <1>3, <1>8

\* A list of nothing but one item.
LEMMA SumOfOne ==
    ASSUME NEW s \in Seq(Int), NEW j \in 1..Len(s), \A i \in 1..Len(s) : i # j => s[i] = 0
    PROVE  C!Sum(s) = s[j]
<1>1. PICK r : RunningSums(s, r) /\ C!Sum(s) = r[Len(s)]
  BY LineSum
<1>2. Len(s) \in Nat /\ j \in Nat /\ s[j] \in Int
  OBVIOUS
<1> DEFINE Good(m) == r[m] = IF m < j THEN 0 ELSE s[j]
           T == {m \in Nat : m <= Len(s) => Good(m)}
<1>3. Good(0)
  BY <1>1, <1>2 DEF RunningSums
<1>4. ASSUME NEW m \in Nat, m + 1 <= Len(s), Good(m) PROVE Good(m + 1)
  <2>1. m + 1 \in 1..Len(s) /\ (m + 1) - 1 = m
    BY <1>2, <1>4
  <2>2. r[m + 1] = r[m] + s[m + 1]
    BY <1>1, <2>1 DEF RunningSums
  <2>3. m + 1 # j => s[m + 1] = 0
    BY <2>1
  <2> QED
    BY <1>2, <1>4, <2>2, <2>3
<1>5. T = Nat
  <2> HIDE DEF Good
  <2>1. T \in SUBSET Nat /\ 0 \in T
    BY <1>3
  <2>2. ASSUME NEW m \in T PROVE m + 1 \in T
    BY <1>2, <1>4
  <2> HIDE DEF T
  <2> QED
    BY <2>1, <2>2, InductiveSet
<1>6. Good(Len(s))
  <2> HIDE DEF Good
  <2> QED
    BY <1>2, <1>5
<1>7. ~ (Len(s) < j)
  BY <1>2
<1> QED
  BY <1>1, <1>6, <1>7

\* A list with one item replaced.
LEMMA SumOfReplaced ==
    ASSUME NEW s \in Seq(Int), NEW t \in Seq(Int), Len(t) = Len(s), NEW j \in 1..Len(s),
           \A i \in 1..Len(s) : i # j => t[i] = s[i]
    PROVE  C!Sum(t) \in Int /\ C!Sum(s) \in Int /\ C!Sum(t) + s[j] = C!Sum(s) + t[j]
<1> DEFINE d == [i \in 1..Len(s) |-> t[i] - s[i]]
<1>1. Len(s) \in Nat /\ \A i \in 1..Len(s) : s[i] \in Int /\ t[i] \in Int
  OBVIOUS
<1>2. d \in Seq(Int) /\ Len(d) = Len(s) /\ \A i \in 1..Len(s) : d[i] = t[i] - s[i]
  BY <1>1
<1> HIDE DEF d
<1>3. C!Sum(d) = C!Sum(t) - C!Sum(s)
  <2>1. Len(s) = Len(t) /\ Len(d) = Len(t) /\ \A i \in 1..Len(t) : d[i] = t[i] - s[i]
    BY <1>2
  <2> QED
    BY <1>2, <2>1, SumOfDifferences
<1>4. C!Sum(d) = d[j]
  <2>1. \A i \in 1..Len(d) : i # j => d[i] = 0
    BY <1>1, <1>2
  <2> QED
    BY <1>2, <2>1, SumOfOne
<1>5. d[j] = t[j] - s[j] /\ t[j] \in Int /\ s[j] \in Int
  BY <1>1, <1>2
<1>6. C!Sum(t) \in Int /\ C!Sum(s) \in Int
  BY LineSum
<1> DEFINE x == C!Sum(t)
           y == C!Sum(s)
           p == t[j]
           q == s[j]
<1>7. x \in Int /\ y \in Int /\ p \in Int /\ q \in Int /\ x - y = p - q
  BY <1>3, <1>4, <1>5, <1>6
<1>8. x + q = y + p
  <2> HIDE DEF x, y, p, q
  <2> QED
    BY <1>7
<1> QED
  BY <1>6, <1>8
\* A result trimmed to a budget is a size within both.
LEMMA TrimmedIs ==
    ASSUME NEW size \in Nat, NEW caps, C!AtMostOne(caps)
    PROVE  /\ C!Trimmed(size, caps) \in Nat /\ C!Trimmed(size, caps) <= size
           /\ \A c \in caps : C!Trimmed(size, caps) <= c
<1> DEFINE all == {size} \union caps
           Smallest(x) == x \in all /\ \A y \in all : x <= y
<1>1. all \subseteq Nat /\ \A m, n \in caps : m = n
  BY DEF C!AtMostOne
<1>2. \E x \in all : Smallest(x)
  <2>1. CASE \E c \in caps : c < size
    <3>1. PICK c \in caps : c < size
      BY <2>1
    <3>2. \A y \in caps : y = c
      BY <1>1
    <3>3. Smallest(c)
      BY <1>1, <3>1, <3>2
    <3> QED
      BY <3>3
  <2>2. CASE ~ \E c \in caps : c < size
    <3>1. Smallest(size)
      BY <1>1, <2>2
    <3> QED
      BY <3>1
  <2> QED
    BY <2>1, <2>2
<1>3. C!Trimmed(size, caps) = CHOOSE x \in all : \A y \in all : x <= y
  BY DEF C!Trimmed, C!Min
<1>4. Smallest(C!Trimmed(size, caps))
  BY <1>2, <1>3
<1> QED
  BY <1>1, <1>4

(***************************************************************************)
(* What a call is that comes back from a tool: its outcome and its size    *)
(* are the tool's answer, and what is delivered of a value is within it    *)
(* and, where nobody asked otherwise, what the tool's own declaration      *)
(* leaves, or the configuration where the tool declares nothing.           *)
(***************************************************************************)
Honest(c) ==
    LET answer == Answers[c.arguments]
    IN  /\ c.outcome = answer.kind /\ c.produced = (IF answer.kind = "ok" THEN answer.size ELSE 0)
        /\ c.outcome = "ok" => c.delivered <= c.produced
        /\ c.outcome = "ok" /\ ~c.flag =>
              IF Registered[c.tool] # {} THEN c.delivered = C!Trimmed(answer.size, Registered[c.tool])
              ELSE c.configured \/ c.delivered = C!Trimmed(answer.size, {C!DefaultBytes})

Called ==
    {c \in [tool : DOMAIN Registered, arguments : DOMAIN Answers, flag : BOOLEAN, configured : BOOLEAN,
            outcome : C!Outcomes, produced : Nat, delivered : Nat] : Honest(c)}
LedgerRecords ==
    {r \in [tool : DOMAIN Registered, outcome : C!Outcomes, produced : Nat, delivered : Nat] :
        r.outcome # "ok" => r.produced = 0}

Loaded == {i \in Invocations : C!Loads(i)}
Starting == {[at |-> i.does, run |-> i.run, config |-> C!Effective(i.file, i.environment)] : i \in Loaded}
Serving == [at : {"serving"}, recording : BOOLEAN]
Recording == [at : {"record"}, call : Called, next : {C!Off} \union Serving]
Processes == {C!Off} \union Starting \union Serving \union Recording

LineTypeOK ==
    /\ shell \in [Shells -> Processes]
    /\ ledger \in Seq(LedgerRecords) /\ killed \in Seq(Called) /\ made \in Seq([call : Called, traced : BOOLEAN])

\* Every call made is honest, on the command line and through MCP.
LEMMA DefaultIsOne ==
    C!AtMostOne({C!DefaultBytes})
BY DEF C!AtMostOne, C!DefaultBytes

LEMMA MadeIsCalled ==
    ASSUME C!Answered, NEW tool \in DOMAIN Registered, NEW arguments \in DOMAIN Answers,
           NEW caps, C!AtMostOne(caps), NEW flag \in BOOLEAN, NEW configured \in BOOLEAN,
           ~flag => caps = (IF Registered[tool] # {} THEN Registered[tool]
                            ELSE IF configured THEN caps ELSE {C!DefaultBytes})
    PROVE  C!Made(tool, arguments, C!Trimmed(Answers[arguments].size, caps), flag, configured) \in Called
<1> DEFINE answer == Answers[arguments]
           size == C!Trimmed(answer.size, caps)
           c == C!Made(tool, arguments, size, flag, configured)
<1>1. answer.kind \in C!Outcomes /\ answer.size \in Nat
  BY DEF C!Answered
<1>2. size \in Nat /\ size <= answer.size
  BY <1>1, TrimmedIs
<1>3. ~flag => IF Registered[tool] # {} THEN size = C!Trimmed(answer.size, Registered[tool])
               ELSE configured \/ size = C!Trimmed(answer.size, {C!DefaultBytes})
  OBVIOUS
<1> HIDE DEF size
<1>4. c = [tool |-> tool, arguments |-> arguments, flag |-> flag, configured |-> configured, outcome |-> answer.kind,
           produced |-> IF answer.kind = "ok" THEN answer.size ELSE 0,
           delivered |-> IF answer.kind = "ok" THEN size ELSE answer.size]
  BY DEF C!Made
<1> HIDE DEF c
<1>5. c \in [tool : DOMAIN Registered, arguments : DOMAIN Answers, flag : BOOLEAN, configured : BOOLEAN,
            outcome : C!Outcomes, produced : Nat, delivered : Nat]
  BY <1>1, <1>2, <1>4
<1>6. Honest(c)
  <2>1. /\ c.tool = tool /\ c.arguments = arguments /\ c.outcome = answer.kind
        /\ c.produced = IF answer.kind = "ok" THEN answer.size ELSE 0
        /\ c.delivered = IF answer.kind = "ok" THEN size ELSE answer.size
    BY <1>4
  <2>2. c.flag = flag /\ c.configured = configured
    BY <1>4, Zenon
  <2> QED
    BY <1>2, <1>3, <2>1, <2>2 DEF Honest
<1> QED
  BY <1>5, <1>6 DEF Called, c, size, answer

LEMMA DirectIsCalled ==
    ASSUME C!Answered, NEW i \in Loaded, NEW tool \in DOMAIN Registered, NEW arguments \in DOMAIN Answers
    PROVE  C!Direct(tool, arguments, C!Effective(i.file, i.environment), i.run) \in Called
<1> DEFINE run == i.run
           config == C!Effective(i.file, i.environment)
           flag == run.full \/ run.budget # {}
           configured == config.max_bytes # {C!DefaultBytes}
           caps == IF run.full THEN {} ELSE IF run.budget # {} THEN run.budget
                   ELSE IF Registered[tool] # {} THEN Registered[tool] ELSE config.max_bytes
<1>1. i \in Invocations /\ C!Loads(i)
  BY DEF Loaded
<1>2. run.full \in BOOLEAN /\ C!AtMostOne(run.budget) /\ C!AtMostOne(config.max_bytes) /\ C!AtMostOne(Registered[tool])
  BY <1>1 DEF C!Answered
<1> HIDE DEF run, config
<1>3. C!AtMostOne(caps)
  <2>1. C!AtMostOne({})
    BY DEF C!AtMostOne
  <2> QED
    BY <1>2, <2>1
<1>4. flag \in BOOLEAN /\ configured \in BOOLEAN
  OBVIOUS
<1>5. ~flag => caps = (IF Registered[tool] # {} THEN Registered[tool] ELSE IF configured THEN caps ELSE {C!DefaultBytes})
  OBVIOUS
<1>6. C!Direct(tool, arguments, config, run)
        = C!Made(tool, arguments, C!Trimmed(Answers[arguments].size, caps), flag, configured)
  BY DEF C!Direct, C!apply_budget
<1> HIDE DEF flag, configured, caps
<1>7. C!Made(tool, arguments, C!Trimmed(Answers[arguments].size, caps), flag, configured) \in Called
  BY <1>3, <1>4, <1>5, MadeIsCalled
<1> QED
  BY <1>6, <1>7 DEF run, config

LEMMA ThroughMcpIsCalled ==
    ASSUME C!Answered, NEW tool \in DOMAIN Registered, NEW arguments \in DOMAIN Answers
    PROVE  C!ThroughMcp(tool, arguments) \in Called
<1> DEFINE caps == IF Registered[tool] # {} THEN Registered[tool] ELSE {C!DefaultBytes}
<1>1. C!AtMostOne(caps)
  BY DefaultIsOne DEF C!Answered
<1>2. C!ThroughMcp(tool, arguments)
        = C!Made(tool, arguments, C!Trimmed(Answers[arguments].size, caps), FALSE, FALSE)
  BY DEF C!ThroughMcp, C!budgeted
<1>3. caps = (IF Registered[tool] # {} THEN Registered[tool] ELSE IF FALSE THEN caps ELSE {C!DefaultBytes})
  OBVIOUS
<1> HIDE DEF caps
<1>4. C!Made(tool, arguments, C!Trimmed(Answers[arguments].size, caps), FALSE, FALSE) \in Called
  BY <1>1, <1>3, MadeIsCalled
<1> QED
  BY <1>2, <1>4

\* The kinds of processes, by where they are.
LEMMA ProcessesAt ==
    ASSUME C!Answered, NEW v \in Processes
    PROVE  /\ v.at \in {"off", "run", "serve", "trace", "serving", "record"}
           /\ v.at = "record" => v \in Recording
           /\ v.at = "serving" => v \in Serving
           /\ v.at \in {"run", "serve", "trace"} => v \in Starting
<1>1. CASE v = C!Off
  BY <1>1 DEF C!Off
<1>2. CASE v \in Starting
  <2>1. PICK i \in Loaded : v = [at |-> i.does, run |-> i.run, config |-> C!Effective(i.file, i.environment)]
    BY <1>2 DEF Starting
  <2>2. i.does \in {"run", "serve", "trace"}
    BY DEF Loaded, C!Answered
  <2> QED
    BY <1>2, <2>1, <2>2
<1>3. CASE v \in Serving
  BY <1>3 DEF Serving
<1>4. CASE v \in Recording
  BY <1>4 DEF Recording
<1> QED
  BY <1>1, <1>2, <1>3, <1>4 DEF Processes

(***************************************************************************)
(* The four things a step of a shell can mean for the trace: nothing, a    *)
(* call that has come back, a call written to it and one that is lost.     *)
(***************************************************************************)
AsRecorded(c) == [tool |-> c.tool, outcome |-> c.outcome, produced |-> c.produced, delivered |-> c.delivered]

Untold(s, v) ==
    /\ shell[s].at # "record" /\ v.at # "record"
    /\ UNCHANGED <<ledger, killed, made>>
    /\ told' = {} \/ told' = {C!by_tool}
Returned(s, v) ==
    /\ shell[s].at # "record" /\ UNCHANGED <<ledger, killed>> /\ told' = {}
    /\ \E call \in Called :
          \/ v \in Recording /\ v.call = call /\ made' = Append(made, [call |-> call, traced |-> TRUE])
          \/ v.at # "record" /\ made' = Append(made, [call |-> call, traced |-> FALSE])
Entered(s, v) ==
    /\ shell[s] \in Recording /\ v.at # "record"
    /\ ledger' = Append(ledger, AsRecorded(shell[s].call))
    /\ UNCHANGED <<killed, made>> /\ told' = {}
Died(s, v) ==
    /\ shell[s] \in Recording /\ v.at # "record"
    /\ killed' = Append(killed, shell[s].call)
    /\ UNCHANGED <<ledger, made>> /\ told' = {}

LineStep ==
    \E s \in Shells, v \in Processes :
        /\ shell' = [shell EXCEPT ![s] = v]
        /\ Untold(s, v) \/ Returned(s, v) \/ Entered(s, v) \/ Died(s, v)

LEMMA ReturnSteps ==
    ASSUME C!Answered, LineTypeOK, NEW s \in Shells, NEW call \in Called, NEW recording \in BOOLEAN,
           NEW next \in {C!Off} \union Serving, shell[s].at # "record", C!Return(s, call, recording, next)
    PROVE  LineStep
<1>1. next \in Processes /\ next.at # "record"
  BY DEF Processes, Serving, C!Off
<1>2. CASE recording
  <2> DEFINE v == [at |-> "record", call |-> call, next |-> next]
  <2>1. v \in Recording /\ v.call = call
    BY DEF Recording
  <2>2. shell' = [shell EXCEPT ![s] = v] /\ UNCHANGED <<ledger, killed>> /\ told' = {}
    BY <1>2 DEF C!Return
  <2>3. made' = Append(made, [call |-> call, traced |-> TRUE])
    BY <1>2, Zenon DEF C!Return
  <2> HIDE DEF v
  <2>4. Returned(s, v)
    BY <2>1, <2>2, <2>3 DEF Returned
  <2> QED
    BY <2>1, <2>2, <2>4 DEF LineStep, Processes
<1>3. CASE ~recording
  <2>1. shell' = [shell EXCEPT ![s] = next] /\ UNCHANGED <<ledger, killed>> /\ told' = {}
    BY <1>3 DEF C!Return
  <2>2. recording = FALSE
    BY <1>3
  <2>3. made' = Append(made, [call |-> call, traced |-> FALSE])
    BY <2>2, Zenon DEF C!Return
  <2>4. Returned(s, next)
    BY <1>1, <2>1, <2>3 DEF Returned
  <2> QED
    BY <1>1, <2>1, <2>4 DEF LineStep
<1> QED
  BY <1>2, <1>3

LEMMA LineSteps ==
    ASSUME C!Answered, LineTypeOK, C!LineNext
    PROVE  LineStep
<1>1. PICK s \in Shells : \/ C!Start(s) \/ C!Run(s) \/ C!Serve(s) \/ C!AgentCalls(s) \/ C!Record(s) \/ C!Kill(s)
                          \/ C!Trace(s)
  BY DEF C!LineNext
<1>2. shell[s] \in Processes /\ C!Off \in Processes /\ C!Off.at = "off"
  BY DEF LineTypeOK, Processes, C!Off
<1>3. /\ shell[s].at = "record" => shell[s] \in Recording
      /\ shell[s].at = "serving" => shell[s] \in Serving
      /\ shell[s].at \in {"run", "serve", "trace"} => shell[s] \in Starting
  BY <1>2, ProcessesAt
<1>4. CASE C!Start(s)
  <2>1. PICK i \in {j \in Invocations : C!Loads(j)} :
          shell' = [shell EXCEPT ![s] = [at |-> i.does, run |-> i.run, config |-> C!Effective(i.file, i.environment)]]
    BY <1>4 DEF C!Start
  <2> DEFINE v == [at |-> i.does, run |-> i.run, config |-> C!Effective(i.file, i.environment)]
  <2>2. v \in Processes /\ v.at # "record"
    <3>1. i.does \in {"run", "serve", "trace"}
      BY DEF C!Answered
    <3>2. v \in Starting
      BY DEF Starting, Loaded
    <3> QED
      BY <3>1, <3>2 DEF Processes
  <2>3. shell[s].at # "record" /\ UNCHANGED <<ledger, killed, made>> /\ told' = {}
    BY <1>2, <1>4 DEF C!Start
  <2> HIDE DEF v
  <2>4. Untold(s, v)
    BY <2>2, <2>3 DEF Untold
  <2> QED
    BY <2>1, <2>2, <2>4 DEF LineStep, v
<1>5. CASE C!Run(s)
  <2>1. shell[s].at = "run" /\ shell[s] \in Starting
    BY <1>3, <1>5 DEF C!Run
  <2>2. PICK i \in Loaded : shell[s] = [at |-> i.does, run |-> i.run, config |-> C!Effective(i.file, i.environment)]
    BY <2>1 DEF Starting
  <2>3. shell[s].run = i.run /\ shell[s].config = C!Effective(i.file, i.environment)
    BY <2>2
  <2>4. CASE /\ i.run.tool \in DOMAIN Registered
             /\ \E arguments \in C!build_arguments(i.run) :
                   IF i.run.through_mcp THEN C!Return(s, C!ThroughMcp(i.run.tool, arguments), FALSE, C!Off)
                   ELSE \E r \in C!recorder(shell[s].config) :
                          C!Return(s, C!Direct(i.run.tool, arguments, shell[s].config, i.run), r, C!Off)
    <3>1. PICK arguments \in C!build_arguments(i.run) :
             IF i.run.through_mcp THEN C!Return(s, C!ThroughMcp(i.run.tool, arguments), FALSE, C!Off)
             ELSE \E r \in C!recorder(shell[s].config) :
                    C!Return(s, C!Direct(i.run.tool, arguments, shell[s].config, i.run), r, C!Off)
      BY <2>4
    <3>2. arguments \in DOMAIN Answers /\ i.run.through_mcp \in BOOLEAN
      BY DEF Loaded, C!Answered
    <3>3. C!ThroughMcp(i.run.tool, arguments) \in Called
      BY <2>4, <3>2, ThroughMcpIsCalled
    <3>4. C!Direct(i.run.tool, arguments, shell[s].config, i.run) \in Called
      BY <2>3, <2>4, <3>2, DirectIsCalled
    <3>5. CASE i.run.through_mcp
      <4>1. C!Return(s, C!ThroughMcp(i.run.tool, arguments), FALSE, C!Off)
        BY <3>1, <3>5
      <4> QED
        BY <2>1, <3>3, <4>1, ReturnSteps
    <3>6. CASE ~i.run.through_mcp
      <4>1. PICK r \in C!recorder(shell[s].config) :
               C!Return(s, C!Direct(i.run.tool, arguments, shell[s].config, i.run), r, C!Off)
        BY <3>1, <3>6
      <4>2. r \in BOOLEAN
        BY DEF C!recorder
      <4> QED
        BY <2>1, <3>4, <4>1, <4>2, ReturnSteps
    <3> QED
      BY <3>5, <3>6
  <2>5. CASE shell' = [shell EXCEPT ![s] = C!Off] /\ UNCHANGED <<ledger, killed, made>> /\ told' = {}
    <3>1. Untold(s, C!Off)
      BY <1>2, <2>1, <2>5 DEF Untold
    <3> QED
      BY <1>2, <2>5, <3>1 DEF LineStep
  <2> QED
    BY <1>5, <2>3, <2>4, <2>5 DEF C!Run
<1>6. CASE C!Serve(s)
  <2>1. PICK r \in C!recorder(shell[s].config) : shell' = [shell EXCEPT ![s] = [at |-> "serving", recording |-> r]]
    BY <1>6 DEF C!Serve
  <2> DEFINE v == [at |-> "serving", recording |-> r]
  <2>2. v \in Serving
    BY DEF Serving, C!recorder
  <2>3. v \in Processes /\ v.at # "record"
    BY <2>2 DEF Processes
  <2>4. shell[s].at # "record" /\ UNCHANGED <<ledger, killed, made>> /\ told' = {}
    BY <1>6 DEF C!Serve
  <2> HIDE DEF v
  <2>5. Untold(s, v)
    BY <2>3, <2>4 DEF Untold
  <2> QED
    BY <2>1, <2>3, <2>5 DEF LineStep, v
<1>7. CASE C!AgentCalls(s)
  <2>1. shell[s].at = "serving" /\ shell[s] \in Serving
    BY <1>3, <1>7 DEF C!AgentCalls
  <2>2. PICK tool \in DOMAIN Registered, arguments \in DOMAIN Answers :
           C!Return(s, C!ThroughMcp(tool, arguments), shell[s].recording, shell[s])
    BY <1>7 DEF C!AgentCalls
  <2>3. shell[s].recording \in BOOLEAN
    BY <2>1 DEF Serving
  <2>4. C!ThroughMcp(tool, arguments) \in Called
    BY ThroughMcpIsCalled
  <2> QED
    BY <2>1, <2>2, <2>3, <2>4, ReturnSteps
<1>8. CASE C!Record(s)
  <2>1. shell[s] \in Recording
    BY <1>3, <1>8 DEF C!Record
  <2>2. shell[s].next \in Processes /\ shell[s].next.at # "record"
    BY <1>2, <2>1 DEF Recording, Processes, Serving
  <2>3. Entered(s, shell[s].next)
    BY <1>8, <2>1, <2>2 DEF C!Record, Entered, AsRecorded
  <2> QED
    BY <1>8, <2>2, <2>3 DEF C!Record, LineStep
<1>9. CASE C!Kill(s)
  <2>1. shell' = [shell EXCEPT ![s] = C!Off] /\ UNCHANGED <<ledger, made>> /\ told' = {}
    BY <1>9 DEF C!Kill
  <2>2. CASE shell[s].at = "record"
    <3>1. killed' = Append(killed, shell[s].call)
      BY <1>9, <2>2 DEF C!Kill
    <3>2. Died(s, C!Off)
      BY <1>2, <1>3, <2>1, <2>2, <3>1 DEF Died
    <3> QED
      BY <1>2, <2>1, <3>2 DEF LineStep
  <2>3. CASE shell[s].at # "record"
    <3>1. killed' = killed
      BY <1>9, <2>3 DEF C!Kill
    <3>2. Untold(s, C!Off)
      BY <1>2, <2>1, <2>3, <3>1 DEF Untold
    <3> QED
      BY <1>2, <2>1, <3>2 DEF LineStep
  <2> QED
    BY <2>2, <2>3
<1>10. CASE C!Trace(s)
  <2>1. /\ shell' = [shell EXCEPT ![s] = C!Off] /\ UNCHANGED <<ledger, killed, made>> /\ told' = {C!by_tool}
        /\ shell[s].at # "record"
    BY <1>10 DEF C!Trace
  <2>2. Untold(s, C!Off)
    BY <1>2, <2>1 DEF Untold
  <2> QED
    BY <1>2, <2>1, <2>2 DEF LineStep
<1> QED
  BY <1>1, <1>4, <1>5, <1>6, <1>7, <1>8, <1>9, <1>10

LEMMA LineInit ==
    C!Init => LineTypeOK
<1> SUFFICES ASSUME C!Init PROVE LineTypeOK
  OBVIOUS
<1>1. shell \in [Shells -> Processes]
  BY DEF C!Init, Processes
<1>2. ledger \in Seq(LedgerRecords) /\ killed \in Seq(Called) /\ made \in Seq([call : Called, traced : BOOLEAN])
  BY EmptySeq DEF C!Init
<1> QED
  BY <1>1, <1>2 DEF LineTypeOK

LEMMA LineTypes ==
    ASSUME LineTypeOK, LineStep
    PROVE  LineTypeOK'
<1>1. PICK s \in Shells, v \in Processes :
        /\ shell' = [shell EXCEPT ![s] = v]
        /\ Untold(s, v) \/ Returned(s, v) \/ Entered(s, v) \/ Died(s, v)
  BY DEF LineStep
<1>2. shell' \in [Shells -> Processes]
  BY <1>1 DEF LineTypeOK
<1>3. CASE Untold(s, v)
  BY <1>2, <1>3 DEF LineTypeOK, Untold
<1>4. CASE Returned(s, v)
  <2>1. PICK call \in Called, traced \in BOOLEAN : made' = Append(made, [call |-> call, traced |-> traced])
    BY <1>4, Zenon DEF Returned
  <2>2. [call |-> call, traced |-> traced] \in [call : Called, traced : BOOLEAN]
    OBVIOUS
  <2>3. made' \in Seq([call : Called, traced : BOOLEAN])
    BY <2>1, <2>2, AppendProperties DEF LineTypeOK
  <2> QED
    BY <1>2, <1>4, <2>3 DEF LineTypeOK, Returned
<1>5. CASE Entered(s, v)
  <2>1. shell[s].call \in Called
    BY <1>5 DEF Entered, Recording
  <2>2. AsRecorded(shell[s].call) \in LedgerRecords
    BY <2>1 DEF AsRecorded, LedgerRecords, Called, Honest
  <2>3. ledger' \in Seq(LedgerRecords)
    BY <1>5, <2>2, AppendProperties DEF LineTypeOK, Entered
  <2> QED
    BY <1>2, <1>5, <2>3 DEF LineTypeOK, Entered
<1>6. CASE Died(s, v)
  <2>1. shell[s].call \in Called
    BY <1>6 DEF Died, Recording
  <2>2. killed' \in Seq(Called)
    BY <1>6, <2>1, AppendProperties DEF LineTypeOK, Died
  <2> QED
    BY <1>2, <1>6, <2>2 DEF LineTypeOK, Died
<1> QED
  BY <1>1, <1>3, <1>4, <1>5, <1>6

LEMMA SurfacesAre ==
    ASSUME C!Answered
    PROVE  C!LineSpec => []C!SurfacesDeliverAlike
<1>1. C!Init => LineTypeOK
  BY LineInit
<1>2. LineTypeOK /\ [C!LineNext]_(C!lineVars) => LineTypeOK'
  <2>1. CASE C!LineNext
    BY <2>1, LineSteps, LineTypes
  <2>2. CASE UNCHANGED C!lineVars
    BY <2>2 DEF C!lineVars, LineTypeOK
  <2> QED
    BY <2>1, <2>2
<1>3. LineTypeOK => C!SurfacesDeliverAlike
  <2> SUFFICES ASSUME LineTypeOK PROVE C!SurfacesDeliverAlike
    OBVIOUS
  <2> DEFINE calls == {made[i].call : i \in DOMAIN made}
             unasked == {c \in calls : ~c.flag /\ c.outcome = "ok"}
  <2>1. calls \subseteq Called
    <3>1. \A i \in DOMAIN made : made[i] \in [call : Called, traced : BOOLEAN]
      <4> USE DEF LineTypeOK
      <4>1. made \in Seq([call : Called, traced : BOOLEAN])
        OBVIOUS
      <4>2. DOMAIN made = 1..Len(made)
        OBVIOUS
      <4> QED
        BY <4>1, <4>2, ElementOfSeq
    <3> QED
      BY <3>1
  <2>2. \A c \in calls : Honest(c) /\ c.tool \in DOMAIN Registered /\ c.arguments \in DOMAIN Answers
    BY <2>1 DEF Called
  <2>3. \A c, d \in calls : c.tool = d.tool /\ c.arguments = d.arguments => c.outcome = d.outcome /\ c.produced = d.produced
    BY <2>2 DEF Honest
  <2>4. \A c, d \in unasked : c.tool = d.tool /\ c.arguments = d.arguments /\ c.delivered # d.delivered =>
              Registered[c.tool] = {} /\ (c.configured \/ d.configured)
    BY <2>2 DEF Honest
  <2>5. \A c \in unasked : \A top \in Registered[c.tool] : c.delivered <= top
    <3> SUFFICES ASSUME NEW c \in unasked, NEW top \in Registered[c.tool] PROVE c.delivered <= top
      OBVIOUS
    <3>1. c.delivered = C!Trimmed(Answers[c.arguments].size, Registered[c.tool])
      BY <2>2 DEF Honest
    <3>2. C!AtMostOne(Registered[c.tool]) /\ Answers[c.arguments].size \in Nat
      BY <2>2 DEF C!Answered
    <3> QED
      BY <3>1, <3>2, TrimmedIs
  <2> QED
    BY <2>3, <2>4, <2>5 DEF C!SurfacesDeliverAlike
<1> QED
  BY <1>1, <1>2, <1>3, PTL DEF C!LineSpec

(***************************************************************************)
(* The bill.  Of every tool and outcome, the calls that were traced are    *)
(* those in the trace, those whose process died and those about to be      *)
(* written; and what the first and the last of these saved is no more than *)
(* what the calls did.  Sums over the shells follow one order of them.     *)
(***************************************************************************)
InList(l, t, o) == {i \in DOMAIN l : l[i].tool = t /\ l[i].outcome = o}
InMade(m, t, o) == {i \in DOMAIN m : m[i].traced /\ m[i].call.tool = t /\ m[i].call.outcome = o}
InShells(sh, t, o) == {s \in Shells : sh[s].at = "record" /\ sh[s].call.tool = t /\ sh[s].call.outcome = o}

Size == Cardinality(Shells)
IsOrder(e) ==
    /\ e \in [1..Size -> Shells]
    /\ \A s \in Shells : \E k \in 1..Size : e[k] = s
    /\ \A j, k \in 1..Size : e[j] = e[k] => j = k
Order == CHOOSE e : IsOrder(e)

Saving(c, t) == IF c.tool = t /\ c.outcome = "ok" THEN c.produced - c.delivered ELSE 0
OfProcess(v, t) == IF v.at = "record" THEN Saving(v.call, t) ELSE 0
OfMade(x, t) == IF x.traced THEN Saving(x.call, t) ELSE 0
InTrace(l, t) == [i \in DOMAIN l |-> Saving(l[i], t)]
InCalls(m, t) == [i \in DOMAIN m |-> OfMade(m[i], t)]
InOrder(sh, t) == [k \in 1..Size |-> OfProcess(sh[Order[k]], t)]

Counted(l, d, sh, m) ==
    \A t \in DOMAIN Registered : \A o \in C!Outcomes :
        Cardinality(InList(l, t, o)) + Cardinality(InList(d, t, o)) + Cardinality(InShells(sh, t, o))
            = Cardinality(InMade(m, t, o))
Saved(l, sh, m) ==
    \A t \in DOMAIN Registered : C!Sum(InTrace(l, t)) + C!Sum(InOrder(sh, t)) <= C!Sum(InCalls(m, t))

LineInv ==
    /\ LineTypeOK /\ told \subseteq {C!by_tool}
    /\ Counted(ledger, killed, shell, made) /\ Saved(ledger, shell, made)

LEMMA OrderIs ==
    ASSUME C!Answered
    PROVE  Size \in Nat /\ IsOrder(Order)
<1>1. IsFiniteSet(Shells)
  BY LineSizes DEF C!Answered
<1>2. Size \in Nat /\ ExistsBijection(1..Size, Shells)
  BY <1>1, FS_CardinalityType DEF Size
<1>3. PICK e \in Bijection(1..Size, Shells) : TRUE
  BY <1>2 DEF ExistsBijection
<1>4. IsOrder(e)
  BY <1>3 DEF IsOrder, Bijection, Injection, IsInjective, Surjection
<1> QED
  BY <1>2, <1>4 DEF Order

\* Positions of a list are one more where the item added is one of them.
LEMMA OneMore ==
    ASSUME NEW n \in Nat, NEW A \in SUBSET (1..n)
    PROVE  Cardinality(A) \in Nat /\ Cardinality(A \union {n + 1}) = Cardinality(A) + 1
<1>1. IsFiniteSet(A)
  <2>1. IsFiniteSet(1..n)
    BY FS_Interval
  <2> QED
    BY <2>1, FS_Subset
<1>2. n + 1 \notin A
  OBVIOUS
<1> QED
  BY <1>1, <1>2, FS_AddElement, FS_CardinalityType

LEMMA ListCounts ==
    ASSUME NEW X, NEW l \in Seq(X), NEW t, NEW o
    PROVE  Cardinality(InList(l, t, o)) \in Nat
<1>1. Len(l) \in Nat /\ DOMAIN l = 1..Len(l)
  OBVIOUS
<1>2. InList(l, t, o) \in SUBSET (1..Len(l))
  BY <1>1 DEF InList
<1> QED
  BY <1>1, <1>2, OneMore

LEMMA ListGrows ==
    ASSUME NEW X, NEW l \in Seq(X), NEW x \in X, NEW t, NEW o
    PROVE  /\ Cardinality(InList(l, t, o)) \in Nat
           /\ Cardinality(InList(Append(l, x), t, o))
                = Cardinality(InList(l, t, o)) + (IF x.tool = t /\ x.outcome = o THEN 1 ELSE 0)
<1> DEFINE n == Len(l)
           l2 == Append(l, x)
           A == InList(l, t, o)
           A2 == InList(l2, t, o)
<1>1. n \in Nat /\ DOMAIN l = 1..n /\ DOMAIN l2 = 1..(n + 1) /\ l2[n + 1] = x /\ \A i \in 1..n : l2[i] = l[i]
  OBVIOUS
<1> HIDE DEF n, l2
<1>2. A \in SUBSET (1..n)
  BY <1>1 DEF InList
<1>3. A2 = IF x.tool = t /\ x.outcome = o THEN A \union {n + 1} ELSE A
  <2>1. \A i : i \in 1..(n + 1) <=> i \in 1..n \/ i = n + 1
    BY <1>1
  <2>2. A2 = {i \in 1..(n + 1) : l2[i].tool = t /\ l2[i].outcome = o} /\ A = {i \in 1..n : l[i].tool = t /\ l[i].outcome = o}
    BY <1>1 DEF InList
  <2>3. n + 1 \notin 1..n
    BY <1>1
  <2> HIDE DEF A, A2
  <2>4. ASSUME NEW i PROVE i \in A2 <=> i \in IF x.tool = t /\ x.outcome = o THEN A \union {n + 1} ELSE A
    <3>1. CASE i \in 1..n
      BY <1>1, <2>1, <2>2, <2>3, <3>1
    <3>2. CASE i = n + 1
      BY <1>1, <2>1, <2>2, <2>3, <3>2
    <3>3. CASE i \notin 1..n /\ i # n + 1
      BY <2>1, <2>2, <3>3
    <3> QED
      BY <3>1, <3>2, <3>3
  <2> QED
    BY <2>4
<1> HIDE DEF A, A2
<1>4. Cardinality(A) \in Nat /\ Cardinality(A \union {n + 1}) = Cardinality(A) + 1
  BY <1>1, <1>2, OneMore
<1>5. Cardinality(A2) = Cardinality(A) + (IF x.tool = t /\ x.outcome = o THEN 1 ELSE 0)
  BY <1>3, <1>4
<1> QED
  BY <1>4, <1>5 DEF A, A2, l2

CallGrows(m, c, traced, m2, t, o) ==
    /\ Cardinality(InMade(m, t, o)) \in Nat
    /\ Cardinality(InMade(m2, t, o))
         = Cardinality(InMade(m, t, o)) + (IF traced /\ c.tool = t /\ c.outcome = o THEN 1 ELSE 0)
LEMMA CallsGrow ==
    ASSUME NEW m \in Seq([call : Called, traced : BOOLEAN]), NEW c \in Called, NEW traced \in BOOLEAN, NEW t, NEW o,
           NEW m2, m2 = Append(m, [call |-> c, traced |-> traced])
    PROVE  CallGrows(m, c, traced, m2, t, o)
<1> DEFINE n == Len(m)
           x == [call |-> c, traced |-> traced]
           A == InMade(m, t, o)
           A2 == InMade(m2, t, o)
<1>1. n \in Nat /\ DOMAIN m = 1..n /\ DOMAIN m2 = 1..(n + 1) /\ m2[n + 1] = x /\ \A i \in 1..n : m2[i] = m[i]
  <2>1. x \in [call : Called, traced : BOOLEAN] /\ m2 = Append(m, x)
    OBVIOUS
  <2> HIDE DEF x
  <2> QED
    BY <2>1
<1>2. x.call = c
  OBVIOUS
<1>3. x.traced = traced
  BY Zenon
<1> HIDE DEF n, x
<1> DEFINE One(y) == y.traced /\ y.call.tool = t /\ y.call.outcome = o
<1>4. One(x) <=> traced /\ c.tool = t /\ c.outcome = o
  BY <1>2, <1>3, Zenon
<1>5. A = {i \in 1..n : One(m[i])} /\ A2 = {i \in 1..(n + 1) : One(m2[i])}
  BY <1>1, Zenon DEF InMade
<1> HIDE DEF One, A, A2
<1>6. A2 = IF One(x) THEN A \union {n + 1} ELSE A
  <2>1. \A i : i \in 1..(n + 1) <=> i \in 1..n \/ i = n + 1
    BY <1>1
  <2>2. n + 1 \notin 1..n
    BY <1>1
  <2>3. ASSUME NEW i PROVE i \in A2 <=> i \in IF One(x) THEN A \union {n + 1} ELSE A
    <3>1. CASE i \in 1..n
      BY <1>1, <1>5, <2>1, <2>2, <3>1
    <3>2. CASE i = n + 1
      BY <1>1, <1>5, <2>1, <2>2, <3>2
    <3>3. CASE i \notin 1..n /\ i # n + 1
      BY <1>5, <2>1, <3>3
    <3> QED
      BY <3>1, <3>2, <3>3
  <2> QED
    BY <2>3
<1>7. A \in SUBSET (1..n)
  BY <1>5
<1>8. Cardinality(A) \in Nat /\ Cardinality(A \union {n + 1}) = Cardinality(A) + 1
  BY <1>1, <1>7, OneMore
<1>9. Cardinality(A2) = Cardinality(A) + (IF One(x) THEN 1 ELSE 0)
  BY <1>6, <1>8
<1>10. Cardinality(A2) = Cardinality(A) + (IF traced /\ c.tool = t /\ c.outcome = o THEN 1 ELSE 0)
  BY <1>4, <1>9
<1> QED
  BY <1>8, <1>10 DEF A, A2, x, CallGrows

\* A shell that moves: what is pending changes by what it had and what it has.
Awaits(v, t, o) == v.at = "record" /\ v.call.tool = t /\ v.call.outcome = o
ShellMoved(sh, s, v, sh2, t, o) ==
    /\ Cardinality(InShells(sh, t, o)) \in Nat /\ Cardinality(InShells(sh2, t, o)) \in Nat
    /\ Cardinality(InShells(sh2, t, o)) + (IF Awaits(sh[s], t, o) THEN 1 ELSE 0)
         = Cardinality(InShells(sh, t, o)) + (IF Awaits(v, t, o) THEN 1 ELSE 0)
LEMMA ShellMoves ==
    ASSUME C!Answered, NEW sh \in [Shells -> Processes], NEW s \in Shells, NEW v \in Processes, NEW t, NEW o,
           NEW sh2, sh2 = [sh EXCEPT ![s] = v]
    PROVE  ShellMoved(sh, s, v, sh2, t, o)
<1> DEFINE rest == {p \in Shells \ {s} : Awaits(sh[p], t, o)}
<1>1. sh2[s] = v /\ \A p \in Shells \ {s} : sh2[p] = sh[p]
  OBVIOUS
<1>2. IsFiniteSet(rest) /\ s \notin rest
  <2>1. IsFiniteSet(Shells)
    BY LineSizes DEF C!Answered
  <2> QED
    BY <2>1, FS_Subset
<1>3. InShells(sh, t, o) = IF Awaits(sh[s], t, o) THEN rest \union {s} ELSE rest
  BY DEF InShells, Awaits
<1>4. InShells(sh2, t, o) = IF Awaits(v, t, o) THEN rest \union {s} ELSE rest
  BY <1>1 DEF InShells, Awaits
<1> HIDE DEF rest
<1>5. Cardinality(rest) \in Nat /\ Cardinality(rest \union {s}) = Cardinality(rest) + 1
  BY <1>2, FS_AddElement, FS_CardinalityType
<1> QED
  BY <1>3, <1>4, <1>5 DEF ShellMoved

\* What calls save: nothing is negative, and the sums grow with the lists.
LEMMA SavingIs ==
    ASSUME C!Answered, NEW t
    PROVE  /\ \A c \in Called : Saving(c, t) \in Int /\ Saving(c, t) >= 0 /\ Saving(AsRecorded(c), t) = Saving(c, t)
           /\ \A r \in LedgerRecords : Saving(r, t) \in Int
           /\ \A v \in Processes : OfProcess(v, t) \in Int
           /\ \A x \in [call : Called, traced : BOOLEAN] : OfMade(x, t) \in Int /\ OfMade(x, t) >= 0
<1>1. ASSUME NEW c \in Called
      PROVE  Saving(c, t) \in Int /\ Saving(c, t) >= 0 /\ Saving(AsRecorded(c), t) = Saving(c, t)
  <2>1. c.produced \in Nat /\ c.delivered \in Nat /\ (c.outcome = "ok" => c.delivered <= c.produced)
    BY DEF Called, Honest
  <2>2. LET w == AsRecorded(c)
        IN  w.tool = c.tool /\ w.outcome = c.outcome /\ w.produced = c.produced /\ w.delivered = c.delivered
    BY DEF AsRecorded
  <2>3. Saving(AsRecorded(c), t) = Saving(c, t)
    BY <2>2 DEF Saving
  <2> QED
    BY <2>1, <2>3 DEF Saving
<1>2. ASSUME NEW r \in LedgerRecords PROVE Saving(r, t) \in Int
  BY DEF LedgerRecords, Saving
<1>3. ASSUME NEW v \in Processes PROVE OfProcess(v, t) \in Int
  <2>1. CASE v.at = "record"
    <3>1. v.call \in Called
      BY <2>1, ProcessesAt DEF Recording
    <3> QED
      BY <1>1, <2>1, <3>1 DEF OfProcess
  <2> QED
    BY <2>1 DEF OfProcess
<1>4. ASSUME NEW x \in [call : Called, traced : BOOLEAN] PROVE OfMade(x, t) \in Int /\ OfMade(x, t) >= 0
  <2>1. x.call \in Called
    OBVIOUS
  <2> QED
    BY <1>1, <2>1 DEF OfMade
<1> QED
  BY <1>1, <1>2, <1>3, <1>4

LEMMA ListOf ==
    ASSUME NEW X, NEW n \in Nat, NEW f \in [1..n -> X]
    PROVE  f \in Seq(X) /\ Len(f) = n
OBVIOUS

LEMMA TraceGrows ==
    ASSUME C!Answered, NEW l \in Seq(LedgerRecords), NEW r \in LedgerRecords, NEW t
    PROVE  /\ InTrace(l, t) \in Seq(Int) /\ C!Sum(InTrace(l, t)) \in Int
           /\ C!Sum(InTrace(Append(l, r), t)) = C!Sum(InTrace(l, t)) + Saving(r, t)
<1>1. \A i \in DOMAIN l : l[i] \in LedgerRecords
  OBVIOUS
<1>2. Len(l) \in Nat /\ DOMAIN l = 1..Len(l)
  OBVIOUS
<1>3. InTrace(l, t) \in Seq(Int) /\ Len(InTrace(l, t)) = Len(l)
  <2>1. \A i \in 1..Len(l) : Saving(l[i], t) \in Int
    BY <1>1, <1>2, SavingIs
  <2>2. InTrace(l, t) = [i \in 1..Len(l) |-> Saving(l[i], t)]
    BY <1>2 DEF InTrace
  <2>3. InTrace(l, t) \in [1..Len(l) -> Int]
    BY <2>1, <2>2
  <2> QED
    BY <1>2, <2>3, ListOf
<1>4. InTrace(Append(l, r), t) = Append(InTrace(l, t), Saving(r, t))
  BY <1>1, <1>2, SavingIs DEF InTrace
<1>5. Saving(r, t) \in Int
  BY SavingIs
<1> QED
  BY <1>3, <1>4, <1>5, SumOfMore

LEMMA MadeGrows ==
    ASSUME C!Answered, NEW m \in Seq([call : Called, traced : BOOLEAN]), NEW x \in [call : Called, traced : BOOLEAN], NEW t
    PROVE  /\ InCalls(m, t) \in Seq(Int) /\ C!Sum(InCalls(m, t)) \in Int
           /\ C!Sum(InCalls(Append(m, x), t)) = C!Sum(InCalls(m, t)) + OfMade(x, t)
<1> DEFINE Kinds == [call : Called, traced : BOOLEAN]
<1>0. m \in Seq(Kinds) /\ x \in Kinds /\ \A y \in Kinds : OfMade(y, t) \in Int
  BY SavingIs
<1> HIDE DEF Kinds
<1>1. \A i \in DOMAIN m : m[i] \in Kinds
  BY <1>0
<1>2. Len(m) \in Nat /\ DOMAIN m = 1..Len(m)
  BY <1>0
<1>3. InCalls(m, t) \in Seq(Int) /\ Len(InCalls(m, t)) = Len(m)
  BY <1>0, <1>1, <1>2 DEF InCalls
<1>4. InCalls(Append(m, x), t) = Append(InCalls(m, t), OfMade(x, t))
  BY <1>0, <1>1, <1>2 DEF InCalls
<1> QED
  BY <1>0, <1>3, <1>4, SumOfMore

LEMMA PendingMoves ==
    ASSUME C!Answered, NEW sh \in [Shells -> Processes], NEW s \in Shells, NEW v \in Processes, NEW t
    PROVE  /\ C!Sum(InOrder(sh, t)) \in Int /\ C!Sum(InOrder([sh EXCEPT ![s] = v], t)) \in Int
           /\ C!Sum(InOrder([sh EXCEPT ![s] = v], t)) + OfProcess(sh[s], t)
                = C!Sum(InOrder(sh, t)) + OfProcess(v, t)
<1> DEFINE sh2 == [sh EXCEPT ![s] = v]
           a == InOrder(sh, t)
           b == InOrder(sh2, t)
<1>1. Size \in Nat /\ IsOrder(Order)
  BY OrderIs
<1>2. PICK j \in 1..Size : Order[j] = s
  BY <1>1 DEF IsOrder
<1>3. /\ \A k \in 1..Size : Order[k] \in Shells
      /\ \A k \in 1..Size : k # j => Order[k] # s
  BY <1>1, <1>2 DEF IsOrder
<1>4. sh2 \in [Shells -> Processes] /\ sh2[s] = v /\ \A p \in Shells : p # s => sh2[p] = sh[p]
  OBVIOUS
<1> HIDE DEF sh2
<1>5. \A p \in Shells : OfProcess(sh[p], t) \in Int /\ OfProcess(sh2[p], t) \in Int
  BY <1>4, SavingIs
<1>6. a \in Seq(Int) /\ Len(a) = Size /\ b \in Seq(Int) /\ Len(b) = Size
  <2>1. a \in [1..Size -> Int] /\ b \in [1..Size -> Int]
    BY <1>3, <1>5 DEF InOrder
  <2> QED
    BY <1>1, <2>1, ListOf
<1>7. /\ \A i \in 1..Size : i # j => b[i] = a[i]
      /\ a[j] = OfProcess(sh[s], t) /\ b[j] = OfProcess(v, t)
  BY <1>2, <1>3, <1>4 DEF InOrder
<1> HIDE DEF a, b
<1>8. Len(b) = Len(a) /\ j \in 1..Len(a) /\ \A i \in 1..Len(a) : i # j => b[i] = a[i]
  BY <1>2, <1>6, <1>7
<1>9. C!Sum(b) \in Int /\ C!Sum(a) \in Int /\ C!Sum(b) + a[j] = C!Sum(a) + b[j]
  BY <1>6, <1>8, SumOfReplaced
<1> QED
  BY <1>7, <1>9 DEF a, b, sh2

\* Lists of nothing, and lists that are nowhere negative.
LEMMA SumOfNaturals ==
    ASSUME NEW s \in Seq(Int), \A i \in 1..Len(s) : s[i] >= 0
    PROVE  C!Sum(s) \in Int /\ C!Sum(s) >= 0 /\ ((\A i \in 1..Len(s) : s[i] = 0) => C!Sum(s) = 0)
<1> DEFINE z == [i \in 1..Len(s) |-> 0]
<1>1. Len(s) \in Nat /\ z \in Seq(Int) /\ Len(z) = Len(s) /\ \A i \in 1..Len(s) : z[i] = 0
  OBVIOUS
<1> HIDE DEF z
<1>2. C!Sum(z) = 0
  <2>1. C!Sum(z) \in Int
    BY <1>1, LineSum
  <2>2. Len(z) = Len(z) /\ \A i \in 1..Len(z) : z[i] = z[i] - z[i]
    BY <1>1
  <2>3. C!Sum(z) = C!Sum(z) - C!Sum(z)
    BY <1>1, <2>2, SumOfDifferences
  <2> QED
    BY <2>1, <2>3
<1>3. \A i \in 1..Len(s) : z[i] <= s[i]
  BY <1>1
<1>4. C!Sum(z) <= C!Sum(s) /\ C!Sum(s) \in Int
  BY <1>1, <1>3, SumOfSmaller, LineSum
<1>5. ASSUME \A i \in 1..Len(s) : s[i] = 0 PROVE C!Sum(s) = 0
  <2>1. Len(s) = Len(z) /\ \A i \in 1..Len(z) : s[i] <= z[i]
    BY <1>1, <1>5
  <2>2. C!Sum(s) <= C!Sum(z)
    BY <1>1, <2>1, SumOfSmaller
  <2> QED
    BY <1>2, <1>4, <2>2
<1> QED
  BY <1>2, <1>4, <1>5

\* Nothing has been called yet, and a process that is off awaits nothing.
LEMMA NothingCounted ==
    ASSUME C!Answered, C!Init
    PROVE  LineInv
<1>1. LineTypeOK /\ told \subseteq {C!by_tool}
  BY LineInit DEF C!Init
<1>2. ledger = <<>> /\ killed = <<>> /\ made = <<>> /\ DOMAIN <<>> = {} /\ \A s \in Shells : shell[s].at = "off"
  BY DEF C!Init, C!Off
<1>3. Counted(ledger, killed, shell, made)
  <2> SUFFICES ASSUME NEW t \in DOMAIN Registered, NEW o \in C!Outcomes
               PROVE  Cardinality(InList(ledger, t, o)) + Cardinality(InList(killed, t, o))
                        + Cardinality(InShells(shell, t, o)) = Cardinality(InMade(made, t, o))
    BY DEF Counted
  <2>1. /\ InList(ledger, t, o) = {} /\ InList(killed, t, o) = {}
        /\ InShells(shell, t, o) = {} /\ InMade(made, t, o) = {}
    BY <1>2 DEF InList, InShells, InMade
  <2> QED
    BY <2>1, FS_EmptySet
<1>4. Saved(ledger, shell, made)
  <2> SUFFICES ASSUME NEW t \in DOMAIN Registered
               PROVE  C!Sum(InTrace(ledger, t)) + C!Sum(InOrder(shell, t)) <= C!Sum(InCalls(made, t))
    BY DEF Saved
  <2>1. InTrace(ledger, t) = <<>> /\ InCalls(made, t) = <<>>
    BY <1>2 DEF InTrace, InCalls
  <2>2. C!Sum(<<>>) = 0
    <3>1. <<>> \in Seq(Int) /\ 0 \in Int
      BY EmptySeq
    <3> QED
      BY <3>1, SumOfMore
  <2>3. Size \in Nat /\ \A k \in 1..Size : Order[k] \in Shells
    BY OrderIs DEF IsOrder
  <2>4. InOrder(shell, t) \in [1..Size -> Int] /\ \A k \in 1..Size : InOrder(shell, t)[k] = 0
    BY <1>2, <2>3 DEF InOrder, OfProcess
  <2>5. InOrder(shell, t) \in Seq(Int) /\ Len(InOrder(shell, t)) = Size
    BY <2>3, <2>4, ListOf
  <2>6. C!Sum(InOrder(shell, t)) = 0
    <3>1. \A k \in 1..Len(InOrder(shell, t)) : InOrder(shell, t)[k] = 0 /\ InOrder(shell, t)[k] >= 0
      BY <2>4, <2>5
    <3> QED
      BY <2>5, <3>1, SumOfNaturals
  <2> QED
    BY <2>1, <2>2, <2>6
<1> QED
  BY <1>1, <1>3, <1>4 DEF LineInv

\* Every step keeps the account of calls.
LEMMA StepCounts ==
    ASSUME C!Answered, LineTypeOK, Counted(ledger, killed, shell, made), LineStep
    PROVE  Counted(ledger', killed', shell', made')
<1>1. PICK s \in Shells, v \in Processes :
        /\ shell' = [shell EXCEPT ![s] = v]
        /\ Untold(s, v) \/ Returned(s, v) \/ Entered(s, v) \/ Died(s, v)
  BY DEF LineStep
<1> SUFFICES ASSUME NEW t \in DOMAIN Registered, NEW o \in C!Outcomes
             PROVE  Cardinality(InList(ledger', t, o)) + Cardinality(InList(killed', t, o))
                      + Cardinality(InShells(shell', t, o)) = Cardinality(InMade(made', t, o))
  BY DEF Counted
<1> DEFINE l == Cardinality(InList(ledger, t, o))
           d == Cardinality(InList(killed, t, o))
           p == Cardinality(InShells(shell, t, o))
           m == Cardinality(InMade(made, t, o))
           p2 == Cardinality(InShells(shell', t, o))
           Mine(c) == c.tool = t /\ c.outcome = o
<1>2. /\ shell \in [Shells -> Processes] /\ ledger \in Seq(LedgerRecords) /\ killed \in Seq(Called)
      /\ made \in Seq([call : Called, traced : BOOLEAN])
  BY DEF LineTypeOK
<1>3. l + d + p = m
  BY DEF Counted
<1>4. /\ p \in Nat /\ p2 \in Nat
      /\ p2 + (IF Awaits(shell[s], t, o) THEN 1 ELSE 0) = p + (IF Awaits(v, t, o) THEN 1 ELSE 0)
  <2>1. shell' = [shell EXCEPT ![s] = v] /\ shell \in [Shells -> Processes]
    BY <1>1, <1>2
  <2>2. ShellMoved(shell, s, v, shell', t, o)
    BY <2>1, ShellMoves
  <2> QED
    BY <2>2 DEF ShellMoved
<1>5. CASE Untold(s, v)
  <2>1. ledger' = ledger /\ killed' = killed /\ made' = made /\ ~Awaits(shell[s], t, o) /\ ~Awaits(v, t, o)
    BY <1>5 DEF Untold, Awaits
  <2> HIDE DEF l, d, p, m, p2
  <2>2. p2 = p
    BY <1>4, <2>1
  <2> QED
    BY <1>3, <2>1, <2>2 DEF l, d, p, m, p2
<1>6. CASE Returned(s, v)
  <2>1. PICK c \in Called :
          \/ v \in Recording /\ v.call = c /\ made' = Append(made, [call |-> c, traced |-> TRUE])
          \/ v.at # "record" /\ made' = Append(made, [call |-> c, traced |-> FALSE])
    BY <1>6 DEF Returned
  <2>2. ledger' = ledger /\ killed' = killed /\ ~Awaits(shell[s], t, o)
    BY <1>6 DEF Returned, Awaits
  <2>3. CASE v \in Recording /\ v.call = c /\ made' = Append(made, [call |-> c, traced |-> TRUE])
    <3>1. Awaits(v, t, o) <=> Mine(c)
      BY <2>3 DEF Awaits, Recording
    <3>2. m \in Nat /\ Cardinality(InMade(made', t, o)) = m + (IF TRUE /\ c.tool = t /\ c.outcome = o THEN 1 ELSE 0)
      <4>1. TRUE \in BOOLEAN /\ made' = Append(made, [call |-> c, traced |-> TRUE])
        BY <2>3
      <4>2. CallGrows(made, c, TRUE, made', t, o)
        BY <1>2, <4>1, CallsGrow
      <4> QED
        BY <4>2 DEF CallGrows
    <3> HIDE DEF l, d, p, m, p2
    <3>3. Cardinality(InMade(made', t, o)) = m + (IF Mine(c) THEN 1 ELSE 0)
      BY <3>2
    <3>4. p2 = p + (IF Mine(c) THEN 1 ELSE 0)
      BY <1>4, <2>2, <3>1
    <3>5. l \in Nat /\ d \in Nat
      BY <1>2, ListCounts DEF l, d
    <3>6. l + d + p2 = Cardinality(InMade(made', t, o))
      BY <1>3, <1>4, <3>2, <3>3, <3>4, <3>5
    <3> QED
      BY <2>2, <3>6 DEF l, d, p2
  <2>4. CASE v.at # "record" /\ made' = Append(made, [call |-> c, traced |-> FALSE])
    <3>1. ~Awaits(v, t, o)
      BY <2>4 DEF Awaits
    <3>2. m \in Nat /\ Cardinality(InMade(made', t, o)) = m + (IF FALSE /\ c.tool = t /\ c.outcome = o THEN 1 ELSE 0)
      <4>1. FALSE \in BOOLEAN /\ made' = Append(made, [call |-> c, traced |-> FALSE])
        BY <2>4
      <4>2. CallGrows(made, c, FALSE, made', t, o)
        BY <1>2, <4>1, CallsGrow
      <4> QED
        BY <4>2 DEF CallGrows
    <3> HIDE DEF l, d, p, m, p2
    <3>3. Cardinality(InMade(made', t, o)) = m /\ p2 = p
      BY <1>4, <2>2, <3>1, <3>2
    <3> QED
      BY <1>3, <2>2, <3>3 DEF l, d, p2
  <2> QED
    BY <2>1, <2>3, <2>4
<1>7. CASE Entered(s, v)
  <2> DEFINE c == shell[s].call
             r == AsRecorded(c)
  <2>1. /\ shell[s] \in Recording /\ v.at # "record" /\ ledger' = Append(ledger, r)
        /\ killed' = killed /\ made' = made
    BY <1>7 DEF Entered
  <2>2. c \in Called /\ shell[s].at = "record"
    BY <2>1 DEF Recording
  <2>3. r \in LedgerRecords /\ (r.tool = c.tool /\ r.outcome = c.outcome)
    BY <2>2 DEF AsRecorded, LedgerRecords, Called, Honest
  <2>4. (Awaits(shell[s], t, o) <=> Mine(c)) /\ ~Awaits(v, t, o)
    BY <2>1, <2>2 DEF Awaits
  <2> HIDE DEF c, r
  <2>5. l \in Nat /\ Cardinality(InList(ledger', t, o)) = l + (IF r.tool = t /\ r.outcome = o THEN 1 ELSE 0)
    BY <1>2, <2>1, <2>3, ListGrows
  <2>6. Cardinality(InList(ledger', t, o)) = l + (IF Mine(c) THEN 1 ELSE 0)
    BY <2>3, <2>5
  <2>7. d \in Nat
    BY <1>2, ListCounts
  <2> HIDE DEF l, d, p, m, p2
  <2>8. p2 + (IF Mine(c) THEN 1 ELSE 0) = p
    BY <1>4, <2>4
  <2> HIDE DEF Mine
  <2>9. Cardinality(InList(ledger', t, o)) + d + p2 = m
    BY <1>3, <1>4, <2>5, <2>6, <2>7, <2>8
  <2> QED
    BY <2>1, <2>9 DEF d, p2, m
<1>8. CASE Died(s, v)
  <2> DEFINE c == shell[s].call
  <2>1. /\ shell[s] \in Recording /\ v.at # "record" /\ killed' = Append(killed, c)
        /\ ledger' = ledger /\ made' = made
    BY <1>8 DEF Died
  <2>2. c \in Called /\ shell[s].at = "record"
    BY <2>1 DEF Recording
  <2>4. (Awaits(shell[s], t, o) <=> Mine(c)) /\ ~Awaits(v, t, o)
    BY <2>1, <2>2 DEF Awaits
  <2> HIDE DEF c
  <2>5. d \in Nat /\ Cardinality(InList(killed', t, o)) = d + (IF c.tool = t /\ c.outcome = o THEN 1 ELSE 0)
    BY <1>2, <2>1, <2>2, ListGrows
  <2>6. l \in Nat
    BY <1>2, ListCounts
  <2> HIDE DEF l, d, p, m, p2
  <2>7. p2 + (IF Mine(c) THEN 1 ELSE 0) = p
    BY <1>4, <2>4
  <2>8. Cardinality(InList(killed', t, o)) = d + (IF Mine(c) THEN 1 ELSE 0)
    BY <2>5
  <2> HIDE DEF Mine
  <2>9. l + Cardinality(InList(killed', t, o)) + p2 = m
    BY <1>3, <1>4, <2>5, <2>6, <2>7, <2>8
  <2> QED
    BY <2>1, <2>9 DEF l, p2, m
<1> QED
  BY <1>1, <1>5, <1>6, <1>7, <1>8

\* And of what they saved.
LEMMA StepSaves ==
    ASSUME C!Answered, LineTypeOK, Saved(ledger, shell, made), LineStep
    PROVE  Saved(ledger', shell', made')
<1>1. PICK s \in Shells, v \in Processes :
        /\ shell' = [shell EXCEPT ![s] = v]
        /\ Untold(s, v) \/ Returned(s, v) \/ Entered(s, v) \/ Died(s, v)
  BY DEF LineStep
<1> SUFFICES ASSUME NEW t \in DOMAIN Registered
             PROVE  C!Sum(InTrace(ledger', t)) + C!Sum(InOrder(shell', t)) <= C!Sum(InCalls(made', t))
  BY DEF Saved
<1> DEFINE l == C!Sum(InTrace(ledger, t))
           p == C!Sum(InOrder(shell, t))
           m == C!Sum(InCalls(made, t))
           l2 == C!Sum(InTrace(ledger', t))
           p2 == C!Sum(InOrder(shell', t))
           m2 == C!Sum(InCalls(made', t))
           x == OfProcess(shell[s], t)
           y == OfProcess(v, t)
<1>2. /\ shell \in [Shells -> Processes] /\ ledger \in Seq(LedgerRecords)
      /\ made \in Seq([call : Called, traced : BOOLEAN])
  BY DEF LineTypeOK
<1>3. l + p <= m
  BY DEF Saved
<1>4. p \in Int /\ p2 \in Int /\ p2 + x = p + y
  BY <1>1, <1>2, PendingMoves
<1>5. x \in Int /\ y \in Int
  BY <1>2, SavingIs
<1>6. CASE Untold(s, v)
  <2>1. ledger' = ledger /\ made' = made /\ x = 0 /\ y = 0
    BY <1>6 DEF Untold, OfProcess
  <2>2. l2 = l /\ m2 = m
    BY <2>1
  <2> HIDE DEF l, p, m, l2, p2, m2, x, y
  <2>3. p2 = p
    BY <1>4, <2>1
  <2>4. l2 + p2 <= m2
    BY <1>3, <2>2, <2>3
  <2> QED
    BY <2>4 DEF l2, p2, m2
<1>7. CASE Returned(s, v)
  <2>1. PICK c \in Called :
          \/ v \in Recording /\ v.call = c /\ made' = Append(made, [call |-> c, traced |-> TRUE])
          \/ v.at # "record" /\ made' = Append(made, [call |-> c, traced |-> FALSE])
    BY <1>7 DEF Returned
  <2>2. ledger' = ledger /\ x = 0
    BY <1>7 DEF Returned, OfProcess
  <2>3. l2 = l
    BY <2>2
  <2>4. Saving(c, t) \in Int
    BY SavingIs
  <2>5. m \in Int /\ m2 = m + y
    <3>1. CASE v \in Recording /\ v.call = c /\ made' = Append(made, [call |-> c, traced |-> TRUE])
      <4> DEFINE z == [call |-> c, traced |-> TRUE]
      <4>1. z \in [call : Called, traced : BOOLEAN] /\ OfMade(z, t) = Saving(c, t)
        BY DEF OfMade
      <4>2. y = Saving(c, t)
        BY <3>1 DEF OfProcess, Recording
      <4> HIDE DEF z
      <4>3. m \in Int /\ C!Sum(InCalls(Append(made, z), t)) = m + OfMade(z, t)
        BY <1>2, <4>1, MadeGrows
      <4>4. made' = Append(made, z)
        BY <3>1 DEF z
      <4> QED
        BY <4>1, <4>2, <4>3, <4>4
    <3>2. CASE v.at # "record" /\ made' = Append(made, [call |-> c, traced |-> FALSE])
      <4> DEFINE z == [call |-> c, traced |-> FALSE]
      <4>1. z \in [call : Called, traced : BOOLEAN] /\ OfMade(z, t) = 0
        BY DEF OfMade
      <4>2. y = 0
        BY <3>2 DEF OfProcess
      <4> HIDE DEF z
      <4>3. m \in Int /\ C!Sum(InCalls(Append(made, z), t)) = m + OfMade(z, t)
        BY <1>2, <4>1, MadeGrows
      <4>4. made' = Append(made, z)
        BY <3>2 DEF z
      <4> QED
        BY <4>1, <4>2, <4>3, <4>4
    <3> QED
      BY <2>1, <3>1, <3>2
  <2>6. l \in Int
    <3>1. AsRecorded(c) \in LedgerRecords
      BY DEF AsRecorded, LedgerRecords, Called, Honest
    <3> QED
      BY <1>2, <3>1, TraceGrows
  <2> HIDE DEF l, p, m, l2, p2, m2, x, y
  <2>7. l2 + p2 <= m2
    BY <1>3, <1>4, <1>5, <2>2, <2>3, <2>5, <2>6
  <2> QED
    BY <2>7 DEF l2, p2, m2
<1>8. CASE Entered(s, v)
  <2> DEFINE c == shell[s].call
             r == AsRecorded(c)
  <2>1. /\ shell[s] \in Recording /\ v.at # "record" /\ ledger' = Append(ledger, r) /\ made' = made
    BY <1>8 DEF Entered
  <2>2. c \in Called /\ shell[s].at = "record"
    BY <2>1 DEF Recording
  <2>3. r \in LedgerRecords
    BY <2>2 DEF AsRecorded, LedgerRecords, Called, Honest
  <2>4. x = Saving(r, t) /\ y = 0
    BY <2>1, <2>2, SavingIs DEF OfProcess
  <2>5. m2 = m
    BY <2>1
  <2> HIDE DEF c, r
  <2>6. l \in Int /\ l2 = l + Saving(r, t)
    BY <1>2, <2>1, <2>3, TraceGrows
  <2> HIDE DEF l, p, m, l2, p2, m2, x, y
  <2>7. l2 + p2 <= m2
    <3>1. l2 = l + x /\ p2 + x = p
      BY <1>4, <2>4, <2>6
    <3> QED
      BY <1>3, <1>4, <1>5, <2>5, <2>6, <3>1
  <2> QED
    BY <2>7 DEF l2, p2, m2
<1>9. CASE Died(s, v)
  <2>1. shell[s] \in Recording /\ v.at # "record" /\ ledger' = ledger /\ made' = made
    BY <1>9 DEF Died
  <2>2. shell[s].call \in Called /\ shell[s].at = "record"
    BY <2>1 DEF Recording
  <2>3. x >= 0 /\ y = 0
    BY <2>1, <2>2, SavingIs DEF OfProcess
  <2>4. l2 = l /\ m2 = m
    BY <2>1
  <2>5. l \in Int /\ m \in Int
    <3>1. AsRecorded(shell[s].call) \in LedgerRecords
      BY <2>2 DEF AsRecorded, LedgerRecords, Called, Honest
    <3>2. l \in Int
      BY <1>2, <3>1, TraceGrows
    <3>3. [call |-> shell[s].call, traced |-> TRUE] \in [call : Called, traced : BOOLEAN]
      BY <2>2
    <3>4. m \in Int
      BY <1>2, <3>3, MadeGrows
    <3> QED
      BY <3>2, <3>4
  <2> HIDE DEF l, p, m, l2, p2, m2, x, y
  <2>6. l2 + p2 <= m2
    <3>1. p2 <= p
      BY <1>4, <1>5, <2>3
    <3> QED
      BY <1>3, <1>4, <2>4, <2>5, <3>1
  <2> QED
    BY <2>6 DEF l2, p2, m2
<1> QED
  BY <1>1, <1>6, <1>7, <1>8, <1>9

LEMMA LineInvKept ==
    ASSUME C!Answered, LineInv, [C!LineNext]_(C!lineVars)
    PROVE  LineInv'
<1>1. LineTypeOK /\ told \subseteq {C!by_tool} /\ Counted(ledger, killed, shell, made) /\ Saved(ledger, shell, made)
  BY DEF LineInv
<1>2. CASE C!LineNext
  <2>1. LineStep
    BY <1>1, <1>2, LineSteps
  <2>2. LineTypeOK'
    BY <1>1, <2>1, LineTypes
  <2>3. Counted(ledger', killed', shell', made') /\ Saved(ledger', shell', made')
    BY <1>1, <2>1, StepCounts, StepSaves
  <2>4. (told \subseteq {C!by_tool})'
    <3>1. PICK s \in Shells, v \in Processes : Untold(s, v) \/ Returned(s, v) \/ Entered(s, v) \/ Died(s, v)
      BY <2>1 DEF LineStep
    <3>2. CASE Untold(s, v)
      <4>1. ledger' = ledger /\ (told' = {} \/ told' = {C!by_tool})
        BY <3>2 DEF Untold
      <4>2. (C!by_tool)' = C!by_tool
        BY <4>1 DEF C!by_tool, C!Summary
      <4> QED
        BY <4>1, <4>2
    <3>3. CASE told' = {}
      BY <3>3
    <3> QED
      BY <3>1, <3>2, <3>3 DEF Returned, Entered, Died
  <2> QED
    BY <2>2, <2>3, <2>4 DEF LineInv
<1>3. CASE UNCHANGED C!lineVars
  <2>1. shell' = shell /\ ledger' = ledger /\ killed' = killed /\ made' = made /\ told' = told
    BY <1>3 DEF C!lineVars
  <2>2. (C!by_tool)' = C!by_tool
    BY <2>1 DEF C!by_tool, C!Summary
  <2>3. LineTypeOK'
    BY <1>1, <2>1 DEF LineTypeOK
  <2> QED
    BY <1>1, <2>1, <2>2, <2>3 DEF LineInv
<1> QED
  BY <1>2, <1>3

\* The bill of a tool is of its records, outcome by outcome.
Claims(l, t, a, b, saved) ==
    /\ Len(a) = Len(l) /\ Len(b) = Len(l)
    /\ \A i \in DOMAIN l : /\ a[i] = (IF l[i].tool = t THEN l[i].produced ELSE 0)
                           /\ b[i] = (IF l[i].tool = t THEN l[i].delivered ELSE 0)
    /\ saved = C!Max({0, C!Sum(a) - C!Sum(b)})
LEMMA SummaryIs ==
    ASSUME LineTypeOK, NEW t
    PROVE  /\ \A o \in C!Outcomes : C!Summary(t)[o] = Cardinality(InList(ledger, t, o))
           /\ C!Summary(t).calls = C!Summary(t).ok + C!Summary(t).rejected + C!Summary(t).failed
           /\ \E a, b \in Seq(Int) : Claims(ledger, t, a, b, C!Summary(t).saved)
<1> DEFINE line == C!Summary(t)
           all == {i \in DOMAIN ledger : ledger[i].tool = t}
           a == [i \in DOMAIN ledger |-> IF ledger[i].tool = t THEN ledger[i].produced ELSE 0]
           b == [i \in DOMAIN ledger |-> IF ledger[i].tool = t THEN ledger[i].delivered ELSE 0]
<1>1. /\ line.calls = C!Cardinality(all)
      /\ line.ok = C!Cardinality(InList(ledger, t, "ok"))
      /\ line.rejected = C!Cardinality(InList(ledger, t, "rejected"))
      /\ line.failed = C!Cardinality(InList(ledger, t, "failed"))
      /\ line.saved = C!Max({0, C!Sum(a) - C!Sum(b)})
  BY DEF C!Summary, InList
<1>2. /\ line.calls = Cardinality(all)
      /\ line.ok = Cardinality(InList(ledger, t, "ok"))
      /\ line.rejected = Cardinality(InList(ledger, t, "rejected"))
      /\ line.failed = Cardinality(InList(ledger, t, "failed"))
  BY <1>1, LineSizes
<1>3. Len(ledger) \in Nat /\ DOMAIN ledger = 1..Len(ledger) /\ \A i \in DOMAIN ledger : ledger[i] \in LedgerRecords
  BY DEF LineTypeOK
<1> HIDE DEF line
<1>4. \A o \in C!Outcomes : line[o] = Cardinality(InList(ledger, t, o))
  BY <1>2 DEF C!Outcomes
<1>5. line.calls = line.ok + line.rejected + line.failed
  <2> DEFINE A == InList(ledger, t, "ok")
             B2 == InList(ledger, t, "rejected")
             D == InList(ledger, t, "failed")
  <2>1. all = (A \union B2) \union D /\ A \intersect B2 = {} /\ (A \union B2) \intersect D = {}
    BY <1>3 DEF InList, LedgerRecords, C!Outcomes
  <2>2. A \in SUBSET (1..Len(ledger)) /\ B2 \in SUBSET (1..Len(ledger)) /\ D \in SUBSET (1..Len(ledger))
    BY <1>3 DEF InList
  <2> HIDE DEF A, B2, D, all
  <2>3. IsFiniteSet(1..Len(ledger))
    BY <1>3, FS_Interval
  <2>4. IsFiniteSet(A) /\ IsFiniteSet(B2) /\ IsFiniteSet(D)
    BY <2>2, <2>3, FS_Subset
  <2>5. /\ Cardinality(A) \in Nat /\ Cardinality(B2) \in Nat /\ Cardinality(D) \in Nat
        /\ IsFiniteSet(A \union B2) /\ Cardinality(A \union B2) = Cardinality(A) + Cardinality(B2)
    <3>1. /\ IsFiniteSet(A \union B2)
          /\ Cardinality(A \union B2) = Cardinality(A) + Cardinality(B2) - Cardinality(A \intersect B2)
      BY <2>4, FS_Union
    <3>2. Cardinality(A) \in Nat /\ Cardinality(B2) \in Nat /\ Cardinality(D) \in Nat /\ Cardinality(A \intersect B2) = 0
      BY <2>1, <2>4, FS_CardinalityType, FS_EmptySet
    <3> QED
      BY <3>1, <3>2
  <2>6. Cardinality(all) = Cardinality(A \union B2) + Cardinality(D)
    <3>1. Cardinality((A \union B2) \union D)
            = Cardinality(A \union B2) + Cardinality(D) - Cardinality((A \union B2) \intersect D)
      BY <2>4, <2>5, FS_Union
    <3>2. Cardinality((A \union B2) \intersect D) = 0 /\ Cardinality(A \union B2) \in Nat
      BY <2>1, <2>5, FS_EmptySet
    <3> QED
      BY <2>1, <2>5, <3>1, <3>2
  <2> QED
    BY <1>2, <2>5, <2>6 DEF A, B2, D
<1>6. a \in Seq(Int) /\ b \in Seq(Int) /\ Len(a) = Len(ledger) /\ Len(b) = Len(ledger)
  <2>1. a \in [1..Len(ledger) -> Int] /\ b \in [1..Len(ledger) -> Int]
    BY <1>3 DEF LedgerRecords
  <2> HIDE DEF a, b
  <2> QED
    BY <1>3, <2>1, ListOf
<1>7. \A i \in DOMAIN ledger : /\ a[i] = (IF ledger[i].tool = t THEN ledger[i].produced ELSE 0)
                               /\ b[i] = (IF ledger[i].tool = t THEN ledger[i].delivered ELSE 0)
  OBVIOUS
<1>8. line.saved = C!Max({0, C!Sum(a) - C!Sum(b)})
  BY <1>1
<1> HIDE DEF a, b
<1>9. Claims(ledger, t, a, b, line.saved)
  BY <1>6, <1>7, <1>8 DEF Claims
<1> QED
  BY <1>4, <1>5, <1>6, <1>9 DEF line

\* What the bill of a tool claims was saved is no more than what its records and the ones
\* to come save.
LEMMA ClaimIs ==
    ASSUME C!Answered, LineInv, NEW t \in DOMAIN Registered
    PROVE  /\ C!Sum(InCalls(made, t)) \in Int /\ C!Sum(InCalls(made, t)) >= 0
           /\ C!Summary(t).saved <= C!Sum(InCalls(made, t))
<1>1. LineTypeOK /\ Saved(ledger, shell, made)
  BY DEF LineInv
<1>2. PICK a \in Seq(Int), b \in Seq(Int) : Claims(ledger, t, a, b, C!Summary(t).saved)
  BY <1>1, SummaryIs
<1>2a. /\ Len(a) = Len(ledger) /\ Len(b) = Len(ledger)
       /\ \A i \in DOMAIN ledger : /\ a[i] = (IF ledger[i].tool = t THEN ledger[i].produced ELSE 0)
                                   /\ b[i] = (IF ledger[i].tool = t THEN ledger[i].delivered ELSE 0)
       /\ C!Summary(t).saved = C!Max({0, C!Sum(a) - C!Sum(b)})
  BY <1>2 DEF Claims
<1>3. /\ Len(ledger) \in Nat /\ DOMAIN ledger = 1..Len(ledger)
      /\ \A i \in 1..Len(ledger) : ledger[i] \in LedgerRecords
  BY <1>1 DEF LineTypeOK
<1> DEFINE c == [i \in 1..Len(ledger) |-> a[i] - b[i]]
           w == InTrace(ledger, t)
<1>4. c \in Seq(Int) /\ Len(c) = Len(ledger) /\ \A i \in 1..Len(ledger) : c[i] = a[i] - b[i]
  <2>1. \A i \in 1..Len(ledger) : a[i] \in Int /\ b[i] \in Int
    BY <1>2a
  <2>2. c \in [1..Len(ledger) -> Int]
    BY <2>1
  <2> HIDE DEF c
  <2>3. c \in Seq(Int) /\ Len(c) = Len(ledger)
    BY <1>3, <2>2, ListOf
  <2> QED
    BY <2>3 DEF c
<1>5. w \in Seq(Int) /\ Len(w) = Len(ledger) /\ \A i \in 1..Len(ledger) : w[i] = Saving(ledger[i], t)
  <2>1. \A i \in 1..Len(ledger) : Saving(ledger[i], t) \in Int
    BY <1>3, SavingIs
  <2>2. w \in [1..Len(ledger) -> Int] /\ \A i \in 1..Len(ledger) : w[i] = Saving(ledger[i], t)
    BY <1>3, <2>1 DEF InTrace
  <2> HIDE DEF w
  <2> QED
    BY <1>3, <2>2, ListOf
<1> HIDE DEF c, w
<1>6. \A i \in 1..Len(ledger) : c[i] <= w[i]
  <2> SUFFICES ASSUME NEW i \in 1..Len(ledger) PROVE c[i] <= w[i]
    OBVIOUS
  <2>1. /\ ledger[i].produced \in Nat /\ ledger[i].delivered \in Nat
        /\ ledger[i].outcome # "ok" => ledger[i].produced = 0
    BY <1>3 DEF LedgerRecords
  <2>2. /\ a[i] = (IF ledger[i].tool = t THEN ledger[i].produced ELSE 0)
        /\ b[i] = (IF ledger[i].tool = t THEN ledger[i].delivered ELSE 0)
    BY <1>3, <1>2a
  <2>3. c[i] = a[i] - b[i] /\ w[i] = Saving(ledger[i], t)
    BY <1>4, <1>5
  <2> QED
    BY <2>1, <2>2, <2>3 DEF Saving
<1>7. C!Sum(c) = C!Sum(a) - C!Sum(b)
  <2>1. Len(b) = Len(a) /\ Len(c) = Len(a) /\ \A i \in 1..Len(a) : c[i] = a[i] - b[i]
    BY <1>4, <1>2a
  <2> QED
    BY <1>4, <2>1, SumOfDifferences
<1>8. C!Sum(c) <= C!Sum(w)
  <2>1. Len(c) = Len(w) /\ \A i \in 1..Len(w) : c[i] <= w[i]
    BY <1>4, <1>5, <1>6
  <2> QED
    BY <1>4, <1>5, <2>1, SumOfSmaller
<1>9. C!Sum(InOrder(shell, t)) \in Int /\ C!Sum(InOrder(shell, t)) >= 0
  <2>1. Size \in Nat /\ \A k \in 1..Size : Order[k] \in Shells
    BY OrderIs DEF IsOrder
  <2>2. \A s \in Shells : OfProcess(shell[s], t) \in Int /\ OfProcess(shell[s], t) >= 0
    <3> SUFFICES ASSUME NEW s \in Shells PROVE OfProcess(shell[s], t) \in Int /\ OfProcess(shell[s], t) >= 0
      OBVIOUS
    <3>1. shell[s] \in Processes
      BY <1>1 DEF LineTypeOK
    <3>2. CASE shell[s].at = "record"
      <4>1. shell[s].call \in Called
        BY <3>1, <3>2, ProcessesAt DEF Recording
      <4> QED
        BY <3>2, <4>1, SavingIs DEF OfProcess
    <3> QED
      BY <3>2 DEF OfProcess
  <2>3. /\ InOrder(shell, t) \in [1..Size -> Int]
        /\ \A k \in 1..Size : InOrder(shell, t)[k] >= 0
    BY <2>1, <2>2 DEF InOrder
  <2>4. InOrder(shell, t) \in Seq(Int) /\ Len(InOrder(shell, t)) = Size
    BY <2>1, <2>3, ListOf
  <2>5. \A k \in 1..Len(InOrder(shell, t)) : InOrder(shell, t)[k] >= 0
    BY <2>3, <2>4
  <2> QED
    BY <2>4, <2>5, SumOfNaturals
<1> DEFINE m == InCalls(made, t)
<1>10. C!Sum(m) \in Int /\ C!Sum(m) >= 0
  <2>1. /\ Len(made) \in Nat /\ DOMAIN made = 1..Len(made)
        /\ \A i \in 1..Len(made) : made[i] \in [call : Called, traced : BOOLEAN]
    <3> DEFINE Kinds == [call : Called, traced : BOOLEAN]
    <3>1. made \in Seq(Kinds)
      BY <1>1 DEF LineTypeOK
    <3> HIDE DEF Kinds, m
    <3>2. Len(made) \in Nat /\ DOMAIN made = 1..Len(made) /\ \A i \in 1..Len(made) : made[i] \in Kinds
      BY <3>1, ElementOfSeq
    <3> QED
      BY <3>2 DEF Kinds
  <2>2. \A i \in 1..Len(made) : OfMade(made[i], t) \in Int /\ OfMade(made[i], t) >= 0
    BY <2>1, SavingIs
  <2>3. m \in [1..Len(made) -> Int] /\ \A i \in 1..Len(made) : m[i] >= 0
    BY <2>1, <2>2 DEF InCalls
  <2> HIDE DEF m
  <2>4. m \in Seq(Int) /\ Len(m) = Len(made)
    BY <2>1, <2>3, ListOf
  <2>5. \A i \in 1..Len(m) : m[i] >= 0
    BY <2>3, <2>4
  <2> QED
    BY <2>4, <2>5, SumOfNaturals
<1>11. C!Sum(w) + C!Sum(InOrder(shell, t)) <= C!Sum(m)
  BY <1>1 DEF Saved, w
<1>12. C!Sum(a) \in Int /\ C!Sum(b) \in Int /\ C!Sum(w) \in Int
  BY <1>5, LineSum
<1> DEFINE x == C!Sum(a) - C!Sum(b)
<1>13. x \in Int /\ x <= C!Sum(m)
  <2> DEFINE p == C!Sum(InOrder(shell, t))
             k == C!Sum(m)
             y == C!Sum(w)
  <2>1. x \in Int
    BY <1>12
  <2>2. x <= y
    BY <1>7, <1>8
  <2>3. y \in Int /\ p \in Int /\ p >= 0 /\ k \in Int /\ y + p <= k
    BY <1>9, <1>10, <1>11, <1>12
  <2> HIDE DEF x, p, k, y
  <2>4. x <= k
    BY <2>1, <2>2, <2>3
  <2> QED
    BY <2>1, <2>4 DEF k
<1>14. C!Max({0, x}) = IF x <= 0 THEN 0 ELSE x
  <2> HIDE DEF x
  <2>1. \E z \in {0, x} : \A u \in {0, x} : z >= u
    BY <1>13
  <2> QED
    BY <1>13, <2>1 DEF C!Max
<1>15. C!Summary(t).saved <= C!Sum(m)
  <2>1. C!Summary(t).saved = C!Max({0, x})
    BY <1>2a
  <2> HIDE DEF x, m
  <2> QED
    BY <1>10, <1>13, <1>14, <2>1
<1> QED
  BY <1>10, <1>15 DEF m

LEMMA BillsAre ==
    ASSUME C!Answered
    PROVE  C!LineSpec => []C!BillIsTrue
<1>1. C!Init => LineInv
  BY NothingCounted
<1>2. LineInv /\ [C!LineNext]_(C!lineVars) => LineInv'
  BY LineInvKept
<1>3. LineInv => C!BillIsTrue
  <2> SUFFICES ASSUME LineInv PROVE C!BillIsTrue
    OBVIOUS
  <2>1. LineTypeOK /\ told \subseteq {C!by_tool} /\ Counted(ledger, killed, shell, made)
    BY DEF LineInv
  <2> DEFINE Traced(t, o) == {i \in DOMAIN made : made[i].traced /\ (made[i].call.tool = t /\ made[i].call.outcome = o)}
             Lost(t, o) == {i \in DOMAIN killed : killed[i].tool = t /\ killed[i].outcome = o}
             Pending(t, o) == {s \in Shells : shell[s].at = "record" /\ (shell[s].call.tool = t /\ shell[s].call.outcome = o)}
             Kept(t) == C!Sum([i \in DOMAIN made |->
                            IF i \in Traced(t, "ok") THEN made[i].call.produced - made[i].call.delivered ELSE 0])
             Tools == {ledger[i].tool : i \in DOMAIN ledger}
             Line(t) == IF t \in Tools THEN C!Summary(t) ELSE C!Nothing
  <2>2. Tools \subseteq DOMAIN Registered
    <3>1. \A i \in DOMAIN ledger : ledger[i] \in LedgerRecords
      BY <2>1 DEF LineTypeOK
    <3> QED
      BY <3>1 DEF LedgerRecords
  <2>3. ASSUME NEW t \in DOMAIN Registered, NEW o \in C!Outcomes
        PROVE  Line(t)[o] + C!Cardinality(Lost(t, o)) + C!Cardinality(Pending(t, o)) = C!Cardinality(Traced(t, o))
    <3>1. Line(t)[o] = Cardinality(InList(ledger, t, o))
      <4>1. CASE t \in Tools
        BY <2>1, <4>1, SummaryIs
      <4>2. CASE t \notin Tools
        <5>1. InList(ledger, t, o) = {}
          BY <4>2 DEF InList
        <5>2. C!Nothing[o] = 0
          BY DEF C!Nothing, C!Outcomes
        <5> QED
          BY <4>2, <5>1, <5>2, FS_EmptySet
      <4> QED
        BY <4>1, <4>2
    <3>2. Lost(t, o) = InList(killed, t, o)
      BY DEF InList
    <3>3. Pending(t, o) = InShells(shell, t, o)
      BY Zenon DEF InShells
    <3>4. Traced(t, o) = InMade(made, t, o)
      BY Zenon DEF InMade
    <3>5. Cardinality(InList(ledger, t, o)) + Cardinality(InList(killed, t, o)) + Cardinality(InShells(shell, t, o))
            = Cardinality(InMade(made, t, o))
      BY <2>1 DEF Counted
    <3> HIDE DEF Line, Lost, Pending, Traced
    <3>6. /\ C!Cardinality(Lost(t, o)) = Cardinality(InList(killed, t, o))
          /\ C!Cardinality(Pending(t, o)) = Cardinality(InShells(shell, t, o))
          /\ C!Cardinality(Traced(t, o)) = Cardinality(InMade(made, t, o))
      BY <3>2, <3>3, <3>4, LineSizes
    <3> QED
      BY <3>1, <3>5, <3>6
  <2>4. ASSUME NEW t \in DOMAIN Registered PROVE Line(t).calls = Line(t).ok + Line(t).rejected + Line(t).failed
    <3>1. CASE t \in Tools
      BY <2>1, <3>1, SummaryIs
    <3>2. CASE t \notin Tools
      BY <3>2 DEF C!Nothing
    <3> QED
      BY <3>1, <3>2
  <2>5. ASSUME NEW t \in DOMAIN Registered PROVE Line(t).saved <= Kept(t)
    <3>1. [i \in DOMAIN made |-> IF i \in Traced(t, "ok") THEN made[i].call.produced - made[i].call.delivered ELSE 0]
            = InCalls(made, t)
      <4> SUFFICES ASSUME NEW i \in DOMAIN made
                   PROVE  (IF i \in Traced(t, "ok") THEN made[i].call.produced - made[i].call.delivered ELSE 0)
                            = OfMade(made[i], t)
        BY DEF InCalls
      <4>1. CASE i \in Traced(t, "ok")
        <5>1. made[i].traced /\ made[i].call.tool = t /\ made[i].call.outcome = "ok"
          BY <4>1, Zenon
        <5> QED
          BY <4>1, <5>1 DEF OfMade, Saving
      <4>2. CASE i \notin Traced(t, "ok")
        <5>1. ~made[i].traced \/ ~(made[i].call.tool = t /\ made[i].call.outcome = "ok")
          BY <4>2, Zenon
        <5> QED
          BY <4>2, <5>1 DEF OfMade, Saving
      <4> QED
        BY <4>1, <4>2
    <3>2. Kept(t) = C!Sum(InCalls(made, t))
      BY <3>1
    <3> HIDE DEF Kept
    <3>3. C!Summary(t).saved <= Kept(t) /\ Kept(t) >= 0
      BY <3>2, ClaimIs
    <3>4. CASE t \in Tools
      BY <3>3, <3>4
    <3>5. CASE t \notin Tools
      <4>1. Line(t).saved = 0
        BY <3>5 DEF C!Nothing
      <4> HIDE DEF Line
      <4> QED
        BY <3>2, <3>3, <4>1, ClaimIs
    <3> QED
      BY <3>4, <3>5
  <2>6. C!by_tool = [t \in Tools |-> C!Summary(t)]
    BY DEF C!by_tool
  <2> SUFFICES ASSUME NEW bill \in told
               PROVE  /\ DOMAIN bill \subseteq DOMAIN Registered
                      /\ \A t \in DOMAIN Registered :
                            LET line == IF t \in DOMAIN bill THEN bill[t] ELSE C!Nothing
                            IN  /\ \A o \in C!Outcomes :
                                     line[o] + C!Cardinality(Lost(t, o)) + C!Cardinality(Pending(t, o))
                                        = C!Cardinality(Traced(t, o))
                                /\ line.calls = line.ok + line.rejected + line.failed
                                /\ line.saved <= Kept(t)
    BY DEF C!BillIsTrue
  <2>7. bill = [t \in Tools |-> C!Summary(t)]
    BY <2>1, <2>6
  <2>8. DOMAIN bill = Tools /\ \A t : (IF t \in DOMAIN bill THEN bill[t] ELSE C!Nothing) = Line(t)
    BY <2>7
  <2> HIDE DEF Line, Lost, Pending, Traced, Kept, Tools
  <2> QED
    BY <2>2, <2>3, <2>4, <2>5, <2>8
<1> QED
  BY <1>1, <1>2, <1>3, PTL DEF C!LineSpec

-----------------------------------------------------------------------------
(***************************************************************************)
(* Side by side.  The server and the commands take their own steps there,  *)
(* and rest while another way of calling is taken.                         *)
(***************************************************************************)
LEMMA FramesRun == CallsSpec => M!Init /\ [][M!Next]_M!vars
<1>1. CallsInit => M!Init
  BY DEF CallsInit
<1>2. [CallsNext]_callsVars => [M!Next]_M!vars
  BY DEF CallsNext, callsVars, mcpVars, M!vars
<1> QED
  BY <1>1, <1>2, PTL DEF CallsSpec

LEMMA CommandsRun == CallsSpec => C!LineSpec
<1>1. CallsInit => C!Init
  BY DEF CallsInit
<1>2. [CallsNext]_callsVars => [C!LineNext]_(C!lineVars)
  BY DEF CallsNext, callsVars, lineVars, C!lineVars
<1> QED
  BY <1>1, <1>2, PTL DEF CallsSpec, C!LineSpec

\* Every frame that is owed a reply gets one, to its own id and in the order of the
\* requests, and nothing else is written (server.rs handle_value), whatever the frames.
THEOREM RepliesInOrder == ASSUME M!FramesAreFrames PROVE CallsSpec => []RepliesMatchRequests
BY FramesRun, RepliesAre, PTL DEF RepliesMatchRequests

\* Each call of a known tool is recorded exactly once, notifications included, as what it
\* was, and its reply says the same (server.rs call_tool).
THEOREM CallsRecordedOnce == ASSUME M!FramesAreFrames PROVE CallsSpec => []EveryCallRecordedOnce
BY FramesRun, CallsAreRecorded, PTL DEF EveryCallRecordedOnce

\* The same call comes to the same on every surface: SurfacesDeliverAlike, for every
\* registry of tools, every configuration and every set of flags (lib.rs:135).
THEOREM SurfacesAlike == ASSUME C!Answered PROVE CallsSpec => []SurfacesDeliverAlike
BY CommandsRun, SurfacesAre, PTL DEF SurfacesDeliverAlike

\* What trace prints is true of the calls that were traced: BillIsTrue, for every number of
\* shells, registry and sequence of commands, and with processes killed at any moment.
THEOREM BillsAreTrue == ASSUME C!Answered PROVE CallsSpec => []BillIsTrue
BY CommandsRun, BillsAre, PTL DEF BillIsTrue
=============================================================================
