--------------------------- MODULE MCReadLedger ---------------------------
(* Instances of ReadLedger for TLC. *)
EXTENDS ReadLedger, TLC

CONSTANTS f1, v1, v2, a1, s1, p1, p2

\* v2 is a truncated v1, so a range can lie past the end of the new content.
MCLength == (v1 :> 2) @@ (v2 :> 1)

MCOverlap == {<<1, 2>>, <<1, 1>>}

MCOne == (a1 :> s1)

MCCallSymmetry == Permutations(Calls)
=============================================================================
