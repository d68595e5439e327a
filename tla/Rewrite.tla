------------------------------ MODULE Rewrite ------------------------------
(***************************************************************************)
(* The PreToolUse hook: a search for a definition that is made often is    *)
(* replaced by a lookup of the symbol (src/cli/src/hook.rs).  What is read *)
(* in a command is in Commands; the trial of a replacement may fail, and   *)
(* what it runs is in SymbolIndex.                                         *)
(***************************************************************************)
EXTENDS Commands

CONSTANTS
    Typed,       \* what an agent is about to run
    Pasts,       \* what the day's trace holds: [of : command, times, each : bytes]
    Opening      \* bound: the pieces of the first twelve bytes of a shape

\* Commands are made of pieces, and a reader's name and a blank are fewer than twelve bytes.
Legible ==
    /\ \A c \in Typed : c \in Seq(ToSet(c))
    /\ \A p \in Pasts : p.of \in Seq(ToSet(p.of))
    /\ Opening \in Nat /\ Opening >= 2

VARIABLES command, past, replaced

vars == <<command, past, replaced>>

MIN_REPEATS == 3
MIN_TOTAL_BYTES == 4096

\* The target begins the shape, or begins as the shape does.
IsOfShapeMutant(target, shape) == target = shape
IsOfShape(target, shape) == IsPrefix(target, shape) \/ IsPrefix(SubSeq(shape, 1, Min({Opening, Len(shape)})), target)

\* How often commands of its shape were run, and what they cost.
is_hot(s) ==
    /\ IsOfShape(target_of(past.of), fingerprint(s))
    /\ past.times >= MIN_REPEATS /\ past.times * past.each >= MIN_TOTAL_BYTES

Init ==
    /\ command \in Typed
    /\ past \in Pasts
    /\ replaced = {}

rewrite ==
    /\ replaced = {}
    /\ is_hot(command)
    /\ replaced' = detect_definition_search(command) /\ replaced' # {}
    /\ UNCHANGED <<command, past>>

Next == rewrite

Spec == Init /\ [][Next]_vars

(***************************************************************************)
(* Properties.                                                             *)
(***************************************************************************)
\* A command that is replaced is one search by a program that only reads: nothing else the
\* shell would do is dropped with it (rewrite.rs:70, "A rewrite has to be safe to apply
\* without understanding the whole line").
OneSearchIsReplaced == replaced # {} => OneSearch(command)

\* For commands as they are mostly written: and one of its arguments, as the shell reads it, is
\* a declaration of the name that is looked up instead.
TheNameWasSought ==
    replaced # {} /\ Plain(command) => OneSearch(command) /\ \A name \in replaced : Seeks(command, name)

\* A habit is noticed whatever is quoted and wherever its paths lead (rewrite.rs:32), if its
\* first two words are themselves neither; and a replacement rests on calls of its program.
HabitsAreNoticed ==
    /\ /\ fingerprint(past.of) = fingerprint(command)
       /\ ToSet(target_of(past.of)) \intersect (Quotes \union {"/"}) = {}
       /\ past.times >= 3 /\ past.times * past.each >= 4096
       => is_hot(command)
    /\ replaced # {} /\ Inked(past.of) # {} => past.times >= 3 /\ FirstWord(past.of) = FirstWord(command)
=============================================================================
