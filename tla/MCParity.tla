------------------------------ MODULE MCParity ------------------------------
(***************************************************************************)
(* Small instances of Parity, and of the comparison of documents that a    *)
(* replay judges by.                                                       *)
(***************************************************************************)
EXTENDS Judging

ASSUME DocumentsAreWritten == D!Written

(***************************************************************************)
(* A tool that fails on an input, and one whose list is all the MCP        *)
(* surface leaves.                                                         *)
(***************************************************************************)
MCNumbered == <<"001", "002">>
Case3(tool, id, input) == [tool |-> tool, id |-> id, input |-> input]

\* Numbered cases; an id that is also a number; another tool put first.
MCCaseFiles == {<<Case3("t", NoId, 1), Case3("t", NoId, 2)>>,
                <<Case3("t", NoId, 2), Case3("t", "001", 1)>>,
                <<Case3("u", NoId, 1), Case3("t", NoId, 1)>>}

Right == Answer("x", <<"x", "x">>)
Short == Answer("x", <<"x">>)
MCReference == [ti \in {"t", "u"} \X {1, 2} |-> IF ti = <<"t", 2>> THEN Fails ELSE IF ti[1] = "u" THEN Short ELSE Right]

\* Right; wrong in the scalar, at the end of the list, or short of an item.
MCAnswers == {Fails, Right, Answer("y", <<"x", "x">>), Answer("x", <<"x", "y">>), Short}
MCAccept == {<<"list">>, <<"_elided">>}

(***************************************************************************)
(* Documents over scalars of every type, with numbers that are near and    *)
(* integers no i64 holds, as objects, arrays and one in another; the key   *)
(* "0" is also an index.                                                   *)
(***************************************************************************)
Number(kind, v) == [type |-> "number", kind |-> kind, v |-> v]
Text(t) == [type |-> "string", text |-> t]
Array(items) == [type |-> "array", items |-> items]
Object(fields) == [type |-> "object", fields |-> fields]
One == Number("int", 10)
Half == Number("float", 15)
Two == Number("int", 20)
Near == {One, Half, Two}

Scalars == Near \union {[type |-> "null"], [type |-> "bool", is |-> TRUE], Text("a"), Text("b"),
                        Number("float", 10), Number("float", 22), Number("wide", 1000), Number("wide", 1010)}
Objects == {Object(f) : f \in UNION {[keys -> Near] : keys \in SUBSET {"a", "0"}}}
Arrays == {Array(s) : s \in BoundedSeq(Near, 2)}
Deep == {Object([k \in {"a"} |-> v]) : v \in Objects \union Arrays} \union
        {Array(<<One, Text("a"), v>>) : v \in Near \union {Text("a"), Text("b")}} \union
        {Array(<<Array(<<m, n>>), Array(<<n>>)>>) : m, n \in Near} \union {Array(<<Array(<<>>), One>>), Array(<<One, Array(<<>>)>>)}
MCDocuments == Scalars \union Objects \union Arrays \union Deep

Option(epsilon, rel, ignored, unordered) ==
    [epsilon |-> epsilon, epsilon_rel |-> rel, ignore_paths |-> ignored, unordered_arrays |-> unordered]
MCOptions == {Option(0, 0, {}, u) : u \in BOOLEAN} \union {Option(5, 0, {}, TRUE), Option(0, 10, {}, FALSE)} \union
             {Option(10, 0, i, FALSE) : i \in {{<<"a">>}, {<<"0">>, <<"a", "a">>}, {<<"a", "0">>}, {<<>>}}}

\* Quotes come before digits and brackets; "," before "." before "]".
MCSerialOrder ==
    <<Text("a"), Text("b"), One, Half, Two,
      Array(<<One, Half>>), Array(<<One, One>>), Array(<<One, Two>>),
      Array(<<Half, Half>>), Array(<<Half, One>>), Array(<<Half, Two>>), Array(<<Half>>), Array(<<One>>),
      Array(<<Two, Half>>), Array(<<Two, One>>), Array(<<Two, Two>>), Array(<<Two>>), Array(<<>>)>>

MCIndices == <<"0", "1", "2">>

=============================================================================
