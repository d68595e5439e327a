----------------------------- MODULE MCWatcher -----------------------------
(* Small instances of Watcher. *)
EXTENDS Watcher, TLC

Call(tool, target, bytes) == [tool |-> tool, target |-> target, bytes |-> bytes]

\* Two files, and one large result that may also be a page.
MCThree == {Call("Read", "a", 1), Call("Read", "b", 1), Call("WebFetch", "x", 3)}
Targets == {"a", "b", "x", "read-chain"}
MCPlain == [t \in Targets |-> <<t>>]

\* What the theorems about Watcher assume.
ASSUME PlainTargets == OneLine

CONSTANTS s1, s2

\* One session makes most of the calls, the other is there to share the trace with it.
MCCalls == (s1 :> 3) @@ (s2 :> 1)
MCAdvice == (s1 :> 2) @@ (s2 :> 0)
=============================================================================
