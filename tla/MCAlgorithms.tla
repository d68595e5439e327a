---------------------------- MODULE MCAlgorithms ----------------------------
(* Bounded inputs of the algorithms, for TLC. *)
EXTENDS Algorithms

(***************************************************************************)
(* Results with one or two lists: even items, items that grow small        *)
(* towards the end, where trimming starts, and items with a list in them.  *)
(***************************************************************************)
Items(n, own, inner) == [i \in 1..n |-> [own |-> own, sub |-> [j \in 1..inner |-> 2]]]
Flat == {Items(n, own, 0) : n \in {0, 2, 5}, own \in {1, 6}} \union
        {[i \in 1..n |-> [own |-> IF i = 1 THEN 16 ELSE 1, sub |-> <<>>]] : n \in {3, 5}}
Nested == {Items(n, 1, inner) : n \in 1..3, inner \in {1, 4}}

MCDocuments == {<<l>> : l \in Flat \union Nested} \union {<<l, m>> : l, m \in Flat \union Nested}
MCBudgets == [max_bytes : {12, 24, 36, 48, 60}, min_items : 0..2]

(***************************************************************************)
(* Two databases of up to three tables, and the annotations on one object  *)
(* of arguments or on two.                                                 *)
(***************************************************************************)
NoRef == [form |-> "none", source |-> "", kind |-> "", parent |-> FALSE, via |-> "walked"]
Ref(kind, parent) == [form |-> "ref", source |-> "db", kind |-> kind, parent |-> parent, via |-> "walked"]
Malformed == [NoRef EXCEPT !.form = "malformed"]
Unwalked == [Ref("table", FALSE) EXCEPT !.via = "alternative"]
TableRefs == {NoRef, Malformed, Unwalked, Ref("table", FALSE), Ref("view", FALSE),
              [Ref("table", FALSE) EXCEPT !.source = "other"]}
ColumnRefs == {NoRef, Malformed, Ref("column", TRUE), Ref("column", FALSE), Ref("enum", FALSE), Ref("function", FALSE)}
Plain == [table |-> NoRef, columns |-> NoRef]
Checked == [table |-> Ref("table", FALSE), columns |-> Ref("column", TRUE)]

MCSchemas == {[root |-> r, query |-> Plain] : r \in [table : TableRefs, columns : ColumnRefs]} \union
             {[root |-> r, query |-> Checked] : r \in {Plain, Checked}}

Arguments == [table : {<<>>, <<"s", "t">>, <<"t">>, <<"v">>, <<"x">>}, columns : {<<>>, <<<<"a">>>>, <<<<"a">>, <<"b">>>>}]
Queries == {[table |-> <<>>, columns |-> <<>>], [table |-> <<"v">>, columns |-> <<<<"b">>>>]}
MCInputs == {[root |-> r, query |-> q] : r \in Arguments, q \in Queries}

Tables == {<<"s", "t">>, <<"u", "t">>, <<"s", "v">>}
Named(names) == [columns |-> {[name |-> n] : n \in names}]
Database(names) ==
    {[tables |-> f, enums |-> [e \in {<<"a">>} |-> <<>>], functions |-> {<<"b">>}] :
        f \in [names -> {Named({<<"a">>}), Named({<<"a">>, <<"b">>})}]}
MCSnapshots == {[s \in sources |-> d] : sources \in SUBSET {"db", "other"}, d \in UNION {Database(n) : n \in SUBSET Tables}}

(***************************************************************************)
(* One command with any pair of short texts under each class, and ledgers  *)
(* of two days with commands that pass, fail, are gone or do not match.    *)
(***************************************************************************)
Word(n) == [name |-> n, slash |-> FALSE]
Line(words) == [gutter |-> FALSE, trail |-> FALSE, words |-> words]
Empty == Line(<<>>)
A == Line(<<Word("a")>>)
C == Line(<<Word("c")>>)
Marker == Line(<<Word("KNOWN"), Word("c")>>)
More == [Line(<<Word("c"), Word("more")>>) EXCEPT !.gutter = TRUE]

Originals == BoundedSeq({A, C, Empty}, 3)
Shortened == BoundedSeq({A, C, Empty, Marker, More, [A EXCEPT !.gutter = TRUE], [C EXCEPT !.trail = TRUE]}, 3)
Spaced == BoundedSeq({A, Empty, [A EXCEPT !.trail = TRUE]}, 4)
Listed == BoundedSeq({Line(<<Word("total"), Word("2")>>), Line(<<Word("x"), Word("a")>>), Line(<<Word("x"), Word(".")>>),
                      Line(<<Word("x"), [Word("c") EXCEPT !.slash = TRUE]>>)}, 3)
Entries == BoundedSeq({A, C, Line(<<Word("x"), Word("a")>>), Line(<<Word("("), Word("c")>>)}, 2)

Runs(texts) == [runs : {TRUE}, text : texts]
Gone == [runs |-> FALSE]
Pairs(a, b) == [matches : {TRUE}, original : a, rewritten : b]
Record(target) == [tool |-> "Bash", target |-> target]
Day(records) == [torn |-> FALSE, records |-> records]
TornDay == [torn |-> TRUE]
Rule(fidelity, normalizer) == [compiles |-> TRUE, fidelity |-> fidelity, normalizer |-> normalizer]

OnePair(rules, a, b) ==
    [rules |-> rules, days |-> {<<Day(<<Record("c1")>>)>>}, windows |-> {1}, apply |-> {TRUE},
     targets |-> {"c1"}, outcomes |-> Pairs(Runs(a), Runs(b))]

Records == {Record("c1"), Record("c2"), Record("none"), [Record("c1") EXCEPT !.tool = "Read"]}
Days == {TornDay} \union {Day(s) : s \in BoundedSeq(Records, 2)}
Either == {[runs |-> TRUE, text |-> <<A>>], Gone}
Outcomes == Pairs(Either, Either) \union Pairs(Runs({<<A>>}), Runs({<<C>>})) \union {[matches |-> FALSE]}

MCFamilies ==
    {OnePair({Rule("subset-declared", "none")}, Originals, Shortened),
     OnePair({Rule("normalized", "trim")}, Spaced, Spaced),
     OnePair({Rule("keyset", "none")}, Listed, Entries),
     OnePair({Rule(f, "none") : f \in {"exact", "normalized", "reference"}}, BoundedSeq({A, C, Empty}, 2), BoundedSeq({A, C, Empty}, 2)),
     [rules |-> {Rule("exact", "none"), Rule("reference", "none"), [Rule("exact", "none") EXCEPT !.compiles = FALSE]},
      days |-> {<<d, e>> : d \in Days, e \in {TornDay, Day(<<Record("c1")>>), Day(<<Record("c2"), Record("none")>>)}},
      windows |-> 1..2, apply |-> BOOLEAN, targets |-> {"c1", "c2"}, outcomes |-> Outcomes]}

(***************************************************************************)
(* Searches for a declaration or for another text, quoted within quotes or *)
(* not, with words before and behind; and commands that ran before.        *)
(***************************************************************************)
Heads == {<<"grep">>, <<"grep", " ", "-rn">>, <<"grep", " ", " ", "-rn">>, <<"cat">>}
Patterns == {<<"fn", " ", "run">>, <<"Fn", " ", " ", "run", "_all", "(">>, <<"fn", " ", "run", ".", "all">>, <<"proto", "type", " ", "run">>,
             <<"run">>, <<"fn", " ", "x">>, <<"fn", " ">>, <<"def", " ", "fn", " ", "run">>, <<"a", " ", "'", " ", "fn", " ", "run", " ", "'">>,
             <<" ", "\"", " ">>}
Quoted == {<<q>> \o p \o <<q>> : q \in {"\"", "'"}, p \in Patterns}
Tails == {<<>>, <<" ", "src">>, <<" ", "/", "src">>, <<"src">>, <<" ", "'", "src", "'">>, <<" ", "src", "\n", "rm", " ", "src">>, <<" ", "rm", " ", "src">>,
          <<" ", "fn", " ", "run", " ", "\"", "a", "\"">>} \union
         {<<" ", o, " ", "ls">> : o \in {";", "|", ">", "&", "$("}}
Joined(head, middle, tail) == head \o <<" ">> \o middle \o tail
MCCommands == {Joined(h, m, t) : h \in Heads, m \in Quoted \union {<<"x", " ">> \o q : q \in Quoted}, t \in Tails}
Ran == {<<>>, <<"grep">>, <<"ls", " ", "src">>, <<"rg", " ", "-rn", " ", "'", "a", "'">>} \union
       {Joined(h, <<q, "a", " ", "b", q>>, t) : h \in {<<"grep">>, <<"grep", " ", " ", "-rn">>}, q \in {"\"", "'"}, t \in {<<>>, <<" ", "src">>, <<" ", "/", "x">>}}
MCPasts == [of : Ran, times : {2, 3}, each : {1000, 1366}]

(***************************************************************************)
(* Names of few letters, short ones that are a slip apart and long ones    *)
(* that hold each other; up to three tables with columns called so.        *)
(***************************************************************************)
Short == BoundedSeq({"a", "b"}, 2) \ {<<>>}
Long == {<<"a", "b", "a", "b">>, <<"a", "b", "b", "a", "b", "a">>, <<"A", "b", "a", "b", "b">>, <<"b", "a", "b", "a", "b", "a", "b">>}
MCAlphabet == <<".", "A", "a", "b">>
Schema2 == {<<"a">>, <<"b">>}
TableSets == {s \in SUBSET (Schema2 \X {<<"a">>, <<"a", "b">>, <<"a", "b", "a", "b">>, <<"a", "b", "a", "b", "a", "a">>}) : Cardinality(s) \in 1..3}
WithColumns(tables, columns) == [tables |-> [t \in tables |-> [columns |-> {[name |-> c] : c \in columns}]], enums |-> <<>>, functions |-> {}]
MCDatabases == {WithColumns(s, {}) : s \in TableSets} \union
           {WithColumns({<<<<"a">>, <<"a">>>>}, c) : c \in {c \in SUBSET (Short \union Long) : Cardinality(c) <= 3}}
MCQuestions ==
    {[table |-> <<t>>, column |-> {}] : t \in Short \union Long} \union
    {[table |-> <<s, t>>, column |-> {}] : s \in Schema2 \union {<<"b", "b">>}, t \in Short \union Long} \union
    {[table |-> <<<<"a">>>>, column |-> {c}] : c \in Short \union Long}

\* What the theorems about the modules assume.
ASSUME SnapshotsAreIntrospected == R!Introspected
ASSUME PluginsAreNamed == L!Named
ASSUME ResultsAreSized == B!Sized
ASSUME RunsAreFormed == P!Formed
ASSUME NamesAreSpelt == G!Spelt
ASSUME CommandsAreLegible == W!Legible
=============================================================================
