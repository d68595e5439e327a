------------------------------- MODULE Budget -------------------------------
(***************************************************************************)
(* Trimming a tool's result to its output budget (src/core/src/budget.rs). *)
(*                                                                         *)
(* A result is an object with lists; an item of a list is an object of its *)
(* own, with bytes of its own and one list of scalars in it.  A list is    *)
(* named by its path, <<field>> or <<field, item>>.  Sizes are those of    *)
(* the serialized JSON: two brackets and the commas around the items.      *)
(*                                                                         *)
(* apply is a loop that drops items from the largest list, with the number *)
(* of items to drop estimated from the average item.  apply_annotated runs *)
(* it once to learn what the note about the elisions costs, and again,     *)
(* from the start, with that much less to spend.                           *)
(***************************************************************************)
EXTENDS Integers, Sequences, FiniteSets, SequencesExt

CONSTANTS
    Documents,     \* the results tools produce: sequences of lists of [own, sub]
    Budgets,       \* the budgets in force: [max_bytes, min_items]
    BaseBytes,     \* bytes of a result besides its lists
    NoteBase,      \* bytes of an empty note
    NoteEach       \* bytes of one elision in the note, hint and all

VARIABLES
    value,      \* what the tool returned
    budget,     \* the budget in force
    out,        \* the copy being trimmed
    elisions,   \* what was dropped: [path, kept, total], in the order found
    cap,        \* the bytes this pass may use
    pass,       \* 1 to cost the note, 2 to trim with room for it
    pc

vars == <<value, budget, out, elisions, cap, pass, pc>>

(***************************************************************************)
(* Sizes.                                                                  *)
(***************************************************************************)
Sum(sizes) ==
    LET upto[n \in 0..Len(sizes)] == IF n = 0 THEN 0 ELSE upto[n - 1] + sizes[n] IN upto[Len(sizes)]
ListBytes(sizes) == 2 + Sum(sizes) + (IF sizes = <<>> THEN 0 ELSE Len(sizes) - 1)
ItemBytes(item) == item.own + ListBytes(item.sub)
Sizes(list) == [i \in DOMAIN list |-> ItemBytes(list[i])]
measure(doc) == BaseBytes + Sum([f \in DOMAIN doc |-> ListBytes(Sizes(doc[f]))])
NoteBytes(notes) == IF notes = <<>> THEN 0 ELSE NoteBase + NoteEach * Len(notes)

(***************************************************************************)
(* Lists and their paths.                                                  *)
(***************************************************************************)
Paths(doc) == UNION {{<<f>>} \union {<<f, i>> : i \in DOMAIN doc[f]} : f \in DOMAIN doc}
Length(doc, p) == IF Len(p) = 1 THEN Len(doc[p[1]]) ELSE Len(doc[p[1]][p[2]].sub)
PathBytes(doc, p) ==
    IF Len(p) = 1 THEN ListBytes(Sizes(doc[p[1]])) ELSE ListBytes(doc[p[1]][p[2]].sub)

\* The order of largest_array's walk: a field before what is in it, fields and items in order.
Earlier(p, q) ==
    \/ p[1] < q[1]
    \/ p[1] = q[1] /\ Len(p) < Len(q)
    \/ p[1] = q[1] /\ Len(p) = 2 /\ Len(q) = 2 /\ p[2] < q[2]

\* The lists of more than one item that no other one exceeds; of equals, the first.
Candidates(doc) == {p \in Paths(doc) : Length(doc, p) > 1}
largest_array(doc) ==
    CHOOSE p \in Candidates(doc) : \A q \in Candidates(doc) \ {p} :
        \/ PathBytes(doc, q) < PathBytes(doc, p)
        \/ PathBytes(doc, q) = PathBytes(doc, p) /\ Earlier(p, q)

Truncate(doc, p, keep) ==
    IF Len(p) = 1 THEN [doc EXCEPT ![p[1]] = SubSeq(@, 1, keep)]
    ELSE [doc EXCEPT ![p[1]][p[2]].sub = SubSeq(@, 1, keep)]

\* How many items trim_at leaves at p when it has `over' bytes to free.
KeepMutant(doc, p, over) ==
    LET total == Length(doc, p)
        per_item == Max({PathBytes(doc, p) \div total, 1})
    IN total - Min({over \div per_item, total - budget.min_items})

Keep(doc, p, over) ==
    LET total == Length(doc, p)
        per_item == Max({PathBytes(doc, p) \div total, 1})
    IN total - Min({over \div per_item + 1, total - budget.min_items})

ElideMutant(notes, p, kept, total) ==
    Append(SelectSeq(notes, LAMBDA e : e.path # p), [path |-> p, kept |-> kept, total |-> total])

\* A list trimmed twice is one elision, with the total of the first time.
Elide(notes, p, kept, total) ==
    IF \E i \in DOMAIN notes : notes[i].path = p
    THEN [i \in DOMAIN notes |-> IF notes[i].path = p THEN [notes[i] EXCEPT !.kept = kept] ELSE notes[i]]
    ELSE Append(notes, [path |-> p, kept |-> kept, total |-> total])

(***************************************************************************)
(* The two passes.                                                         *)
(***************************************************************************)
Init ==
    /\ value \in Documents
    /\ budget \in Budgets
    /\ out = value
    /\ elisions = <<>>
    /\ cap = budget.max_bytes
    /\ pass = 1
    /\ pc = "trim"

\* One turn of apply's loop: drop items from the largest list.
Trim ==
    /\ pc = "trim"
    /\ measure(out) > cap
    /\ Candidates(out) # {}
    /\ LET p == largest_array(out)
           total == Length(out, p)
           kept == Keep(out, p, measure(out) - cap)
       IN /\ total > budget.min_items
          /\ out' = Truncate(out, p, kept)
          /\ elisions' = Elide(elisions, p, kept, total)
          /\ pc' = IF kept <= budget.min_items THEN "trimmed" ELSE "trim"
    /\ UNCHANGED <<value, budget, cap, pass>>

\* The loop ends: the result fits, or its largest list has nothing to give.
Stop ==
    /\ pc = "trim"
    /\ \/ measure(out) <= cap
       \/ Candidates(out) = {}
       \/ Candidates(out) # {} /\ Length(out, largest_array(out)) <= budget.min_items
    /\ pc' = "trimmed"
    /\ UNCHANGED <<value, budget, out, elisions, cap, pass>>

\* apply_annotated trims again from the start, with the note's bytes set aside.
ReserveMutant ==
    /\ pc = "trimmed" /\ pass = 1 /\ elisions # <<>>
    /\ out' = value
    /\ elisions' = <<>>
    /\ cap' = budget.max_bytes
    /\ pass' = 2
    /\ pc' = "trim"
    /\ UNCHANGED <<value, budget>>

Reserve ==
    /\ pc = "trimmed" /\ pass = 1 /\ elisions # <<>>
    /\ out' = value
    /\ elisions' = <<>>
    /\ cap' = Max({0, budget.max_bytes - NoteBytes(elisions)})
    /\ pass' = 2
    /\ pc' = "trim"
    /\ UNCHANGED <<value, budget>>

\* annotate, when something was dropped.
Annotate ==
    /\ pc = "trimmed" /\ (pass = 2 \/ elisions = <<>>)
    /\ pc' = "done"
    /\ UNCHANGED <<value, budget, out, elisions, cap, pass>>

Next == Trim \/ Stop \/ Reserve \/ Annotate

Spec == Init /\ [][Next]_vars

(***************************************************************************)
(* Properties.                                                             *)
(***************************************************************************)
Done == pc = "done"
Delivered == measure(out) + NoteBytes(elisions)
PathIn(doc, p) == p \in Paths(doc)

\* The note tells the truth: what it lists was that long and is now this long, and
\* every list that is still there and has become shorter is listed once (budget.rs:77).
NoteIsTruthful ==
    /\ \A i \in DOMAIN elisions :
          /\ elisions[i].total = Length(value, elisions[i].path)
          /\ elisions[i].kept < elisions[i].total
          /\ PathIn(out, elisions[i].path) => elisions[i].kept = Length(out, elisions[i].path)
    /\ \A p \in Paths(out) : Length(out, p) < Length(value, p) =>
          Cardinality({i \in DOMAIN elisions : elisions[i].path = p}) = 1

\* A result whose budget its one list can meet, note included, meets it (budget.rs:285):
\* with one flat list the reservation is exact.  The last item is never dropped on its
\* own, whatever the minimum: a list of one is not considered (budget.rs:195).
OneListFits ==
    LET least == Truncate(value, <<1>>, Min({Length(value, <<1>>), Max({1, budget.min_items})}))
    IN /\ Done
       /\ Len(value) = 1
       /\ \A i \in DOMAIN value[1] : Len(value[1][i].sub) <= 1
       /\ measure(least) + NoteBase + NoteEach <= budget.max_bytes
       => Delivered <= budget.max_bytes

\* Every turn of the loop makes the result smaller, so the loop ends however poor its
\* estimate of the items to drop (budget.rs:235).
EveryTurnShrinks == [][pc = "trim" /\ pass' = pass /\ elisions' # elisions => measure(out') < measure(out)]_vars

\* What the theorems assume of the constants: sizes are numbers, and so are the budgets.
Sized ==
    /\ Documents \subseteq Seq(Seq([own : Nat, sub : Seq(Nat)]))
    /\ Budgets \subseteq [max_bytes : Nat, min_items : Nat]
    /\ {BaseBytes, NoteBase, NoteEach} \subseteq Nat
=============================================================================
