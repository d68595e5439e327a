----------------------------- MODULE McpServer -----------------------------
(***************************************************************************)
(* The MCP server on stdio (src/mcp/src/lib.rs, server.rs, protocol.rs)    *)
(* over the registry's gate (src/core/src/registry.rs).                    *)
(*                                                                         *)
(* A host writes frames, one to a line, whenever it likes; the server      *)
(* reads them one at a time, dispatches each to its end, records what a    *)
(* tool call cost, and writes the reply before it reads on.                *)
(*                                                                         *)
(* A frame says what the code distinguishes: whether its line is text,     *)
(* JSON and a request; its method; whether it has an id; and, of a tool    *)
(* call, whether its parameters are well formed, the tool exists, the      *)
(* arguments have its shape and the names in them resolve.  A tool that    *)
(* was called returns a value, refuses its input, or fails; it may take    *)
(* for ever only where MayHang says so.                                    *)
(***************************************************************************)
EXTENDS Integers, Sequences, FiniteSets

CONSTANTS
    FrameKinds,     \* the frames hosts send
    MaxFrames,      \* bound: frames in one session
    OutputMayBreak, \* the host may close its end of stdout
    MayHang         \* a tool may never return

Methods == {"initialize", "ping", "tools/list", "tools/call", "notifications/x", "other"}
Lines == {"blank", "not_utf8", "not_json", "batch", "not_request", "request"}
\* What a tool call meets on its way: the first check it fails, or none.
Faults == {"params", "arguments", "unknown_tool", "shape", "names", "none"}
Frame == [line : Lines, method : Methods, id : BOOLEAN, fault : Faults]
FramesAreFrames == FrameKinds \subseteq Frame

NoId == 0

VARIABLES
    sent,       \* the frames the host has written; the id of a frame is its position
    closed,     \* the host has closed its end of stdin
    read,       \* how many frames the server has read
    pc,         \* read, call, write, hung, or the way the server ended: closed, down
    reply,      \* what is about to be written, when pc is write
    replies,    \* everything written: [to, kind]
    ran,        \* the frames whose tool was run
    trace       \* the recorder: [frame, outcome]

vars == <<sent, closed, read, pc, reply, replies, ran, trace>>

Init ==
    /\ sent = <<>>
    /\ closed = FALSE
    /\ read = 0
    /\ pc = "read"
    /\ reply = [to |-> NoId, kind |-> "none"]
    /\ replies = <<>>
    /\ ran = <<>>
    /\ trace = <<>>

(***************************************************************************)
(* The host.                                                               *)
(***************************************************************************)
Send ==
    /\ ~closed /\ Len(sent) < MaxFrames
    /\ \E f \in FrameKinds : sent' = Append(sent, f)
    /\ UNCHANGED <<closed, read, pc, reply, replies, ran, trace>>

Close ==
    /\ ~closed
    /\ closed' = TRUE
    /\ UNCHANGED <<sent, read, pc, reply, replies, ran, trace>>

(***************************************************************************)
(* dispatch.                                                               *)
(***************************************************************************)
\* Calls that dispatch answers itself, before the timer starts.
Protocol(f) == f.method # "tools/call" \/ f.fault \in {"params", "arguments", "unknown_tool"}

ProtocolReply(f) ==
    IF f.method = "other" \/ f.method = "tools/call" THEN "rpc_error" ELSE "result"

\* Registry::call lets a call through to the tool when its shape and its names pass.
Admitted(f) == f.fault \notin {"shape", "names"}

\* handle_value answers with the request's id; a notification gets no reply.
AnswerMutant(n, f, kind) ==
    IF f.id \/ kind = "rpc_error"
    THEN pc' = "write" /\ reply' = [to |-> n, kind |-> kind]
    ELSE pc' = "read" /\ UNCHANGED reply

Answer(n, f, kind) ==
    IF f.id
    THEN pc' = "write" /\ reply' = [to |-> n, kind |-> kind]
    ELSE pc' = "read" /\ UNCHANGED reply

(***************************************************************************)
(* The server.                                                             *)
(***************************************************************************)
\* next_line, handle_line, handle_value and dispatch, up to a tool call.
ReadLine ==
    /\ pc = "read" /\ read < Len(sent)
    /\ read' = read + 1
    /\ LET f == sent[read']
       IN CASE f.line = "blank" -> pc' = "read" /\ UNCHANGED reply
            [] f.line = "not_utf8" -> pc' = "down" /\ UNCHANGED reply
            [] f.line \in {"not_json", "batch", "not_request"} ->
                  pc' = "write" /\ reply' = [to |-> NoId, kind |-> "rpc_error"]
            [] f.line = "request" /\ Protocol(f) -> Answer(read', f, ProtocolReply(f))
            [] OTHER -> pc' = "call" /\ UNCHANGED reply
    /\ UNCHANGED <<sent, closed, replies, ran, trace>>

\* registry.call refuses: recorded as a rejection, answered in band.
Refuse ==
    /\ pc = "call" /\ ~Admitted(sent[read])
    /\ trace' = Append(trace, [frame |-> read, outcome |-> "rejected"])
    /\ Answer(read, sent[read], "tool_error")
    /\ UNCHANGED <<sent, closed, read, replies, ran>>

\* The tool runs: a value is trimmed and recorded, an error is recorded as the
\* caller's fault or the tool's, and both are answered in band.
RunMutant ==
    /\ pc = "call" /\ Admitted(sent[read])
    /\ ran' = Append(ran, read)
    /\ \E outcome \in {"ok", "rejected", "failed"} :
          /\ trace' = IF sent[read].id THEN Append(trace, [frame |-> read, outcome |-> outcome]) ELSE trace
          /\ Answer(read, sent[read], IF outcome = "ok" THEN "tool_value" ELSE "tool_error")
    /\ UNCHANGED <<sent, closed, read, replies>>

Run ==
    /\ pc = "call" /\ Admitted(sent[read])
    /\ ran' = Append(ran, read)
    /\ \E outcome \in {"ok", "rejected", "failed"} :
          /\ trace' = Append(trace, [frame |-> read, outcome |-> outcome])
          /\ Answer(read, sent[read], IF outcome = "ok" THEN "tool_value" ELSE "tool_error")
    /\ UNCHANGED <<sent, closed, read, replies>>

Hang ==
    /\ MayHang /\ pc = "call" /\ Admitted(sent[read])
    /\ pc' = "hung"
    /\ ran' = Append(ran, read)
    /\ UNCHANGED <<sent, closed, read, reply, replies, trace>>

\* write_all and flush, or an error that ends serve_stdio.
WriteMutant ==
    /\ pc = "write"
    /\ replies' = Append(replies, reply)
    /\ pc' = IF reply.kind = "rpc_error" THEN "down" ELSE "read"
    /\ UNCHANGED <<sent, closed, read, reply, ran, trace>>

Write ==
    /\ pc = "write"
    /\ \/ replies' = Append(replies, reply) /\ pc' = "read"
       \/ OutputMayBreak /\ UNCHANGED replies /\ pc' = "down"
    /\ UNCHANGED <<sent, closed, read, reply, ran, trace>>

\* End of input, once every frame has been read.
End ==
    /\ pc = "read" /\ closed /\ read = Len(sent)
    /\ pc' = "closed"
    /\ UNCHANGED <<sent, closed, read, reply, replies, ran, trace>>

Server == ReadLine \/ Refuse \/ Run \/ Write \/ End

Next == Send \/ Close \/ Server \/ Hang

\* The server is one loop on its own process: it takes the step it can take.
Spec == Init /\ [][Next]_vars /\ WF_vars(Server)

(***************************************************************************)
(* Properties.                                                             *)
(***************************************************************************)
\* A frame is owed a reply when it is a request with an id, or no request at all;
\* what is no request is answered to no id.
Owed(n) == sent[n].line \in {"not_json", "batch", "not_request"} \/ (sent[n].line = "request" /\ sent[n].id)
Addressee(n) == IF sent[n].line = "request" THEN n ELSE NoId
\* Frames dealt with to the end.
Handled == IF pc \in {"read", "closed"} THEN 1..read ELSE 1..(read - 1)

\* Every frame that is owed a reply gets one, to its own id and in the order of the
\* requests, and nothing else is written: no notification is answered (server.rs:141).
RepliesMatchRequests ==
    LET owed == {n \in Handled : Owed(n)}
    IN /\ Len(replies) = Cardinality(owed)
       /\ \A n \in owed : replies[Cardinality({m \in owed : m <= n})].to = Addressee(n)

\* Each call of a known tool is recorded exactly once, notifications included, as what it
\* was: rejected when it did not reach its tool (server.rs:276), and as succeeded when,
\* and only when, its reply says so.
EveryCallRecordedOnce ==
    LET calls == {n \in Handled : sent[n].line = "request" /\ ~Protocol(sent[n])}
        Records(n) == {i \in DOMAIN trace : trace[i].frame = n}
    IN /\ \A n \in calls :
             /\ Cardinality(Records(n)) = 1
             /\ (\A i \in DOMAIN ran : ran[i] # n) => \A i \in Records(n) : trace[i].outcome = "rejected"
       /\ \A i \in DOMAIN replies : \A j \in DOMAIN trace :
             replies[i].to = trace[j].frame => ((replies[i].kind = "tool_value") <=> (trace[j].outcome = "ok"))

\* What may keep the server from its frames: a tool that never returns, a host that
\* closed its end of stdout, and one line that is not UTF-8 (lib.rs:41).
OutputBroke == Len(replies) < Cardinality({n \in 1..read : Owed(n)})
BadBytes == \E n \in 1..read : sent[n].line = "not_utf8"
Excused == pc = "hung" \/ (pc = "down" /\ (OutputBroke \/ BadBytes))

\* Every frame the host sends is dealt with (lib.rs:49), whatever refused, failing,
\* malformed or unknown frame came before it: nothing but the above leaves it waiting.
EveryFrameHandled == \A n \in 1..MaxFrames : n <= Len(sent) ~> (n \in Handled \/ Excused)
=============================================================================
