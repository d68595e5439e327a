------------------------------ MODULE MCCalls ------------------------------
(* Small instances of the ways a tool is called, for TLC. *)
EXTENDS Calls, MCPluginCall

(***************************************************************************)
(* The frames a host may send: every kind of line, of method and of fault, *)
(* with and without an id where the code looks at it.                      *)
(***************************************************************************)
LineOf(l) == [line |-> l, method |-> "other", id |-> FALSE, fault |-> "none"]
Plain(m, id) == [line |-> "request", method |-> m, id |-> id, fault |-> "none"]
ToolCall(fault, id) == [line |-> "request", method |-> "tools/call", id |-> id, fault |-> fault]

Text == {LineOf(l) : l \in {"blank", "not_utf8", "not_json", "batch"}}
Requests == {Plain("ping", TRUE), Plain("other", TRUE), Plain("other", FALSE), Plain("notifications/x", FALSE)}
ToolCalls == {ToolCall(f, TRUE) : f \in {"params", "arguments", "unknown_tool", "shape", "names", "none"}} \union
             {ToolCall(f, FALSE) : f \in {"unknown_tool", "names", "none"}}
MCFrames == Text \union Requests \union ToolCalls

(***************************************************************************)
(* Two tools, one with a budget of its own; a size asked for in the input  *)
(* file, in --arg or in both; a file that sets the budget, one that turns  *)
(* tracing on, one that is not there, and an environment over them.        *)
(***************************************************************************)
MCRegistered == [t \in {"bounded", "plain"} |-> IF t = "bounded" THEN {2} ELSE {}]
Size(n) == [k \in {"size"} |-> n]
None == [k \in {} |-> 0]
Arg(n) == [key |-> "size", value |-> n]
MCAnswers == [a \in {None, Size(1), Size(5)} |->
    IF a = None THEN [kind |-> "rejected", size |-> 1]
    ELSE IF a = Size(1) THEN [kind |-> "failed", size |-> 1] ELSE [kind |-> "ok", size |-> 5]]

RunOf(tool, input, args) == [tool |-> tool, input |-> input, args |-> args, through_mcp |-> FALSE, budget |-> {}, full |-> FALSE]
Large(tool) == RunOf(tool, None, <<Arg(5)>>)
Runs == {Large("plain"), RunOf("plain", Size(5), <<Arg(1)>>), RunOf("bounded", None, <<>>),
         [Large("bounded") EXCEPT !.full = TRUE], [Large("plain") EXCEPT !.budget = {4}],
         RunOf("gone", None, <<>>), RunOf("plain", [malformed |-> TRUE], <<>>)} \union
        {[r EXCEPT !.through_mcp = TRUE] : r \in {Large("plain"), Large("bounded")}}

Tracing == [k \in {"enabled"} |-> {TRUE}]
Bounding == [max_bytes |-> {1}, enabled |-> {TRUE}]
Files == {Tracing, Bounding, [missing |-> TRUE]}
Environments == {[k \in {"max_bytes"} |-> {4}], [k \in {"enabled"} |-> {}]}
Typed(does, run, file, environment) == [does |-> does, run |-> run, file |-> file, environment |-> environment]
MCInvocations ==
    {Typed("run", r, Tracing, None) : r \in Runs} \union
    {Typed("run", Large("plain"), f, e) : f \in Files \union {None}, e \in Environments} \union
    {Typed("run", Large("bounded"), Bounding, None)} \union
    {Typed("serve", Large("plain"), Tracing, None), Typed("trace", Large("plain"), Tracing, None)}

\* What the theorems about McpServer and CommandLine assume.
ASSUME HostFrames == M!FramesAreFrames
ASSUME ToolsAnswer == C!Answered
=============================================================================
