----------------------------- MODULE WhatIsKept -----------------------------
(***************************************************************************)
(* What is kept of a world that moves on, side by side: cached             *)
(* introspections of a database (IntrospectionCache), the snapshot of one  *)
(* (Capture) and the symbol index of a tree (SymbolIndex).  They share     *)
(* nothing: a behaviour is about one of them, and the variables of the     *)
(* others rest.                                                            *)
(***************************************************************************)
EXTENDS IntrospectionCache

CONSTANTS
    Kept,                                                        \* which of them a behaviour may be about
    Requested, Connections, Beginnings, Migrated(_), MaxMigrations,  \* Capture's
    WalkOrder, Texts, Names, PartOf, Resembles, MaxEdits         \* SymbolIndex's

VARIABLES subject, history, pull, file, server, past, indexFile, asked

Snap == INSTANCE Capture
Sym == INSTANCE SymbolIndex WITH cache <- indexFile, call <- asked

(***************************************************************************)
(* One of them.  The cache begins, and rests, empty.                       *)
(***************************************************************************)
RestingCapture == history = <<>> /\ pull = <<>> /\ file = <<>> /\ server = <<>>
RestingIndex == past = <<>> /\ indexFile = <<>> /\ asked = <<>>

captureVars == <<history, pull, file, server>>
indexVars == <<past, indexFile, asked>>

KeptInit ==
    /\ subject \in Kept
    /\ Init
    /\ IF subject = "snapshot" THEN Snap!Init ELSE RestingCapture
    /\ IF subject = "index" THEN Sym!Init ELSE RestingIndex

KeptNext ==
    /\ UNCHANGED subject
    /\ \/ subject = "introspections" /\ Next /\ UNCHANGED <<captureVars, indexVars>>
       \/ subject = "snapshot" /\ Snap!Next /\ UNCHANGED <<vars, indexVars>>
       \/ subject = "index" /\ Sym!Next /\ UNCHANGED <<vars, captureVars>>

keptVars == <<subject, vars, captureVars, indexVars>>

KeptSpec == KeptInit /\ [][KeptNext]_keptVars

(***************************************************************************)
(* The properties of the modules, by their names there; those of           *)
(* IntrospectionCache are extended.                                        *)
(***************************************************************************)
\* What a server says of a database was so while the snapshot was captured (lib.rs).
WhatIsSaidWas == subject = "snapshot" => Snap!WhatIsSaidWas

\* What stood while the snapshot was captured, a server says (introspect.rs).
WhatStoodIsSaid == subject = "snapshot" => Snap!WhatStoodIsSaid

\* With no edit since its index was begun, an answer is the truth (tools.rs).
QuietAnswersAreTrue == subject = "index" => Sym!QuietAnswersAreTrue

\* A hit is something its file defined while the index was built (index.rs).
EveryHitWasTrue == subject = "index" => Sym!EveryHitWasTrue

\* A rewritten search is answered (hook.rs).
RewriteIsAnswered == subject = "index" => Sym!RewriteIsAnswered
=============================================================================
