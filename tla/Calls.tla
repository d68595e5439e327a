------------------------------- MODULE Calls -------------------------------
(***************************************************************************)
(* The ways a tool is called, side by side: a plugin as a child process    *)
(* (PluginCall), the server's frames (McpServer), and the commands of pk   *)
(* (CommandLine).  They share nothing here: a behaviour is about one of    *)
(* them, and the variables of the others rest.                             *)
(***************************************************************************)
EXTENDS PluginCall

CONSTANTS
    Ways,                                             \* which of them a behaviour may be about
    FrameKinds, MaxFrames, OutputMayBreak, MayHang,   \* McpServer's
    Shells, Invocations, Registered, Answers, MaxMade \* CommandLine's

VARIABLES
    way,
    written, closed, read, loop, reply, replies, ran, trace,
    shell, ledger, killed, made, told

M == INSTANCE McpServer WITH sent <- written, pc <- loop
C == INSTANCE CommandLine

(***************************************************************************)
(* One of them.                                                            *)
(***************************************************************************)
mcpVars == <<written, closed, read, loop, reply, replies, ran, trace>>
lineVars == <<shell, ledger, killed, made, told>>

\* Each begins, and rests, where its own module does; a plugin's timer is chosen only
\* where it matters.
CallsInit ==
    /\ way \in Ways
    /\ Init /\ (way = "plugin" \/ slow = CHOOSE b \in TimerFires : TRUE)
    /\ M!Init /\ C!Init

CallsNext ==
    /\ UNCHANGED way
    /\ \/ way = "plugin" /\ Next /\ UNCHANGED <<mcpVars, lineVars>>
       \/ way = "frames" /\ M!Next /\ UNCHANGED <<vars, lineVars>>
       \/ way = "commands" /\ C!LineNext /\ UNCHANGED <<vars, mcpVars>>

callsVars == <<way, vars, mcpVars, lineVars>>

\* Each by the fairness of its own module.
CallsSpec ==
    /\ CallsInit /\ [][CallsNext]_callsVars
    /\ WF_vars(way = "plugin" /\ Parent) /\ WF_vars(way = "plugin" /\ Timeout) /\ WF_vars(way = "plugin" /\ Child)
    /\ WF_mcpVars(way = "frames" /\ M!Server)

(***************************************************************************)
(* The properties of the modules, by their names there.  AnswersAreKept is  *)
(* PluginCall's own: it holds of a call that has not begun.                *)
(***************************************************************************)

\* A call that takes longer than its timeout returns (tool.rs); of a plugin that reads.
EveryPluginCallReturns == way = "plugin" => EveryCallReturns

\* Every frame that is owed a reply gets one, in order (server.rs).
RepliesMatchRequests == way = "frames" => M!RepliesMatchRequests

\* Each call of a known tool is recorded once, as what it was (server.rs).
EveryCallRecordedOnce == way = "frames" => M!EveryCallRecordedOnce

\* Every frame the host sends is dealt with (lib.rs).
EveryFrameHandled == way = "frames" => M!EveryFrameHandled

\* The same call comes to the same on every surface (commands.rs).
SurfacesDeliverAlike == way = "commands" => C!SurfacesDeliverAlike

\* What trace prints is true of the calls that were traced (commands.rs).
BillIsTrue == way = "commands" => C!BillIsTrue
=============================================================================
