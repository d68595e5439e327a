------------------------------ MODULE Judging -------------------------------
(***************************************************************************)
(* Parity, and beside it the comparison of documents that a replay judges  *)
(* by (Diff).  They share nothing here: a behaviour is about one of them,  *)
(* and the variables of the other rest.                                    *)
(***************************************************************************)
EXTENDS Parity

CONSTANTS
    Judged,                                             \* which of them
    Documents, Options, SerialOrder, Indices, MaxDepth  \* Diff's

VARIABLES judged, expected, actual, opts, found, compared

D == INSTANCE Diff

\* Parity begins, and rests, where it does by itself.
RestingDiff == expected = <<>> /\ actual = <<>> /\ opts = <<>> /\ found = {} /\ compared = FALSE

diffVars == <<expected, actual, opts, found, compared>>

JudgedInit ==
    /\ judged \in Judged
    /\ Init /\ (judged = "port" \/ cases = CHOOSE c \in CaseFiles : TRUE)
    /\ IF judged = "documents" THEN D!Init ELSE RestingDiff

\* A comparison comes to its end; a capture and its replays never do.
JudgedNext ==
    /\ UNCHANGED judged
    /\ \/ judged = "port" /\ Next /\ UNCHANGED diffVars
       \/ judged = "documents" /\ D!Next /\ UNCHANGED vars
       \/ judged = "documents" /\ compared /\ UNCHANGED <<vars, diffVars>>

JudgedSpec == JudgedInit /\ [][JudgedNext]_<<judged, vars, diffVars>>

(***************************************************************************)
(* The properties of Diff, by their names there; those of Parity are       *)
(* extended.                                                               *)
(***************************************************************************)
\* Every difference is reported where it is, and no other, unordered arrays being compared
\* as multisets (diff.rs, diff, DiffOptions).
DifferencesAreTold == judged = "documents" => D!DifferencesAreTold /\ D!MultisetsAreTold
=============================================================================
