-------------------------- MODULE DeliveryPromise ---------------------------
(***************************************************************************)
(* What a delivery ledger promises, without files, processes or hashes:    *)
(* callers hold lines, and a ledger vouches only for lines that its        *)
(* callers hold.  ReadLedger implements it while no compaction takes lines *)
(* out of a context.                                                       *)
(***************************************************************************)
CONSTANTS Callers, Ledgers, LedgerOf, AllLines

VARIABLES
    held,     \* held[a]: the lines caller a holds
    promise   \* promise[s]: the lines ledger s vouches for

vars == <<held, promise>>

HeldVia(s) == UNION {held[a] : a \in {b \in Callers : LedgerOf[b] = s}}

Init == /\ held = [a \in Callers |-> {}]
        /\ promise = [s \in Ledgers |-> {}]

\* A caller is sent lines and loses none.
Send(a) ==
    /\ held[a] \subseteq held'[a] /\ held'[a] \subseteq AllLines
    /\ \A b \in Callers \ {a} : held'[b] = held[b]
    /\ UNCHANGED promise

\* A ledger may forget anything, but takes on only what its callers hold.
Save(s) ==
    /\ promise'[s] \subseteq HeldVia(s)
    /\ \A t \in Ledgers \ {s} : promise'[t] = promise[t]
    /\ UNCHANGED held

Next == (\E a \in Callers : Send(a)) \/ (\E s \in Ledgers : Save(s))

Spec == Init /\ [][Next]_vars
=============================================================================
