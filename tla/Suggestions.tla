---------------------------- MODULE Suggestions ----------------------------
(***************************************************************************)
(* What a question about an unknown name is answered: the names that were  *)
(* probably meant (src/schema/src/resolve.rs, tools.rs).  Schemas, tables  *)
(* and columns are called by sequences of letters here, and a text with a  *)
(* dot is a schema and a table.                                            *)
(***************************************************************************)
EXTENDS SchemaSnapshot, SequencesExt

CONSTANTS
    Databases,   \* the snapshots
    Questions,   \* [table : a table's name or its last part, column : a set of at most one]
    Alphabet     \* the letters in their order

\* A database has finitely many tables, and these finitely many columns; what is called
\* something, or asked for, is called by letters.
Words == Seq(Range(Alphabet))
Spelt ==
    /\ Alphabet \in Seq(Range(Alphabet)) /\ "." \in Range(Alphabet)
    /\ \A d \in Databases :
          /\ IsFiniteSet(DOMAIN d.tables) /\ DOMAIN d.tables \subseteq Words \X Words
          /\ \A t \in DOMAIN d.tables : IsFiniteSet(d.tables[t].columns) /\ \A c \in d.tables[t].columns : c.name \in Words
    /\ \A q \in Questions :
          /\ q.table \in Seq(Words) /\ Len(q.table) \in 1..2
          /\ \A c \in q.column : c \in Words

VARIABLES snapshot, question, answers

vars == <<snapshot, question, answers>>

Text(name) == IF Len(name) = 1 THEN name[1] ELSE name[1] \o <<".">> \o name[2]

Capitals == [A |-> "a", B |-> "b"]
Lower(s) == [i \in DOMAIN s |-> IF s[i] \in DOMAIN Capitals THEN Capitals[s[i]] ELSE s[i]]
Precedes(s, t) ==
    LET differ == {i \in DOMAIN s \intersect DOMAIN t : s[i] # t[i]}
        Place(letter) == CHOOSE i \in DOMAIN Alphabet : Alphabet[i] = letter
    IN IF differ = {} THEN Len(s) < Len(t) ELSE Place(s[Min(differ)]) < Place(t[Min(differ)])

\* One row after the other, each made from the one before.
Row(a, b, prev, i, first) ==
    FoldLeft(LAMBDA cur, j : Append(cur, Min({prev[j + 1] + 1, Last(cur) + 1, prev[j] + (IF a[i] = b[j] THEN 0 ELSE 1)})),
             <<first>>, [j \in DOMAIN b |-> j])

edit_distanceMutant(a, b) ==
    Last(FoldLeft(LAMBDA prev, i : Row(a, b, prev, i, 0), [j \in 1..(Len(b) + 1) |-> j - 1], [i \in DOMAIN a |-> i]))

edit_distance(a, b) ==
    Last(FoldLeft(LAMBDA prev, i : Row(a, b, prev, i, i), [j \in 1..(Len(b) + 1) |-> j - 1], [i \in DOMAIN a |-> i]))

threshold(name) == CASE Len(name) <= 4 -> 1 [] Len(name) \in 5..8 -> 2 [] OTHER -> 3

Within(s, t) == \E i \in 0..(Len(t) - Len(s)) : SubSeq(t, i + 1, i + Len(s)) = s
Contained(s, t) ==
    LET short == IF Len(s) <= Len(t) THEN s ELSE t
        long == IF Len(s) <= Len(t) THEN t ELSE s
    IN Len(short) >= 4 /\ Len(short) * 2 >= Len(long) /\ Within(short, long)

\* Candidates are [name, of]; one text may be a candidate of several tables.
Scored(text, candidates) ==
    {s \in {[name |-> Text(c.name), of |-> c.of, distance |-> edit_distance(Lower(text), Lower(Text(c.name)))] : c \in candidates} :
        s.distance <= threshold(text) \/ Contained(Lower(text), Lower(s.name))}

\* Where something is clearly meant, what is farther is dropped.
Close(scored) ==
    LET best == Min({s.distance : s \in scored})
    IN IF scored # {} /\ best <= 2 THEN {s \in scored : s.distance <= best + 1} ELSE scored

Before(s, t) == s.distance < t.distance \/ (s.distance = t.distance /\ Precedes(s.name, t.name))
First(scored) == CHOOSE s \in scored : \A t \in scored : ~Before(t, s)

best_matches(text, candidates) ==
    LET close == Close(Scored(text, candidates))
        sorted[n \in 0..Cardinality(close)] ==
            IF n = 0 THEN <<>> ELSE Append(sorted[n - 1], First(close \ Range(sorted[n - 1])))
    IN sorted[Min({3, Cardinality(close)})]

\* Each table by its full name and by its last part.
TableNames == {[name |-> t, of |-> t] : t \in DOMAIN snapshot.tables} \union {[name |-> <<t[2]>>, of |-> t] : t \in DOMAIN snapshot.tables}
ColumnNames(table) == {[name |-> <<c>>, of |-> table] : c \in Columns(snapshot, table)}

UnknownTable == [name |-> Text(question.table), suggestions |-> best_matches(Text(question.table), TableNames)]
UnknownColumn(column) ==
    [name |-> column, suggestions |-> best_matches(column, ColumnNames(Table(snapshot, question.table)))]

rejection ==
    IF ~resolve_table(snapshot, question.table) THEN {UnknownTable}
    ELSE {UnknownColumn(c) : c \in {c \in question.column : ~resolve_column(snapshot, question.table, c)}}

Init ==
    /\ snapshot \in Databases
    /\ question \in Questions
    /\ answers = {}

check ==
    /\ answers = {}
    /\ answers' = {[exists |-> schema_check(snapshot, question.table, question.column), unknown |-> rejection]}
    /\ UNCHANGED <<snapshot, question>>

Next == check

Spec == Init /\ [][Next]_vars

(***************************************************************************)
(* Properties.                                                             *)
(***************************************************************************)
Refused == UNION {a.unknown : a \in answers}
Offered(u) == {u.suggestions[i].name : i \in DOMAIN u.suggestions}
\* The names there are: of the columns, where the table is known; else of the tables.
Candidates == IF resolve_table(snapshot, question.table) THEN {c.name : c \in snapshot.tables[Table(snapshot, question.table)].columns}
         ELSE UNION {{t[1] \o <<".">> \o t[2], t[2]} : t \in DOMAIN snapshot.tables}

\* Capitals count as small letters; a slip is a letter too many, too few or wrong.
Same(s, t) == Lower(s) = Lower(t)
Slip(s, t) ==
    \/ \E i \in DOMAIN s : Same(RemoveAt(s, i), t)
    \/ \E i \in DOMAIN t : Same(s, RemoveAt(t, i))
    \/ Len(s) = Len(t) /\ \E i \in DOMAIN s : ~Same(s, t) /\ Same(RemoveAt(s, i), RemoveAt(t, i))

\* A refusal offers names that are there, at most three, and a slip is always put right:
\* a name that is one away from what was asked is offered before any that is farther, and
\* next to one that only its capitals tell apart nothing farther is offered (resolve.rs:3,
\* "giving the model something it can act on in one round trip").
SlipsArePutRight ==
    \A u \in Refused :
        LET Near(n) == Same(u.name, n) \/ Slip(u.name, n)
        IN /\ Len(u.suggestions) <= 3 /\ Offered(u) \subseteq Candidates
           /\ \A n \in Candidates : Near(n) /\ n \notin Offered(u) =>
                 Len(u.suggestions) = 3 /\ \A m \in Offered(u) : Near(m)
           /\ \A i, j \in DOMAIN u.suggestions : i < j =>
                 /\ Near(u.suggestions[j].name) => Near(u.suggestions[i].name)
                 /\ Same(u.name, u.suggestions[i].name) => Near(u.suggestions[j].name)
=============================================================================
