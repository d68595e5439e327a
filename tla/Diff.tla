-------------------------------- MODULE Diff --------------------------------
(***************************************************************************)
(* The structural comparison of two JSON documents (src/core/src/diff.rs), *)
(* by which a replay judges the port.                                      *)
(*                                                                         *)
(* A document is a record with its type; a number is counted in tenths and *)
(* knows whether as_i64 returns it.  A path is the sequence of its keys:   *)
(* escape makes the joined text one to one.  The walk is described by the  *)
(* places it comes to, a level of nesting after the other.  The order in   *)
(* which differences are reported is left out, and so are NaN and the      *)
(* infinities, which no JSON number is.                                    *)
(***************************************************************************)
EXTENDS Integers, SequencesExt

CONSTANTS
    Documents,   \* the documents compared
    Options,     \* [epsilon, epsilon_rel (in percent), ignore_paths, unordered_arrays]
    SerialOrder, \* the items of arrays, in the order of their serialized form
    Indices,     \* the key of each item of an array: its index, as text
    MaxDepth     \* how deep a document nests at most (the parser has a limit)

VARIABLES
    expected, actual, opts,
    found,       \* the differences
    compared     \* has diff returned?

vars == <<expected, actual, opts, found, compared>>

\* DiffOptions::is_ignored.
is_ignored(o, path) == \E p \in o.ignore_paths : IsPrefix(p, path)

Abs(n) == IF n < 0 THEN -n ELSE n

\* Beyond i64, as_f64 loses the last digits of an integer.
AsFloat(n) == IF n.kind = "wide" THEN (n.v \div 20) * 20 ELSE n.v

close_enough(a, b, o) ==
    \/ Abs(a - b) <= o.epsilon
    \/ 100 * Abs(a - b) <= o.epsilon_rel * Max({Abs(a), Abs(b)})

\* Mutant: integers are given the tolerance too.
AgreeMutant(e, a, o) ==
    IF e.type # "number" THEN e = a ELSE close_enough(AsFloat(e), AsFloat(a), o)

\* Two scalars of one type: integers are compared exactly.
Agree(e, a, o) ==
    IF e.type # "number" \/ (e.kind = "int" /\ a.kind = "int")
    THEN e = a
    ELSE close_enough(AsFloat(e), AsFloat(a), o)

Rank(v) == CHOOSE r \in DOMAIN SerialOrder : SerialOrder[r] = v

\* The items of an array in the order they are compared in; the sort does not reach into them.
Arrangements(s) == {[i \in DOMAIN s |-> s[p[i]]] : p \in Bijection(DOMAIN s, DOMAIN s)}
Sorted(s) == CHOOSE t \in Arrangements(s) : \A i, j \in DOMAIN t : i < j => Rank(t[i]) <= Rank(t[j])
Items(v, o) == IF o.unordered_arrays THEN Sorted(v.items) ELSE v.items

\* What a document's parts go by, and the part that goes by a key.
Steps(v) ==
    CASE v.type = "object" -> DOMAIN v.fields
      [] v.type = "array" -> {Indices[i] : i \in DOMAIN v.items}
      [] OTHER -> {}
PlaceOf(k) == CHOOSE i \in DOMAIN Indices : Indices[i] = k
Part(v, k, o) == IF v.type = "object" THEN v.fields[k] ELSE Items(v, o)[PlaceOf(k)]

\* The places of a walk: a path, and what the documents have there.  From one that is not
\* ignored, where the types are the same, it goes on to the parts both have.
GoesOn(x, o) == ~is_ignored(o, x.path) /\ x.expected.type = x.actual.type
Below(x, o) ==
    {[path |-> Append(x.path, k), expected |-> Part(x.expected, k, o), actual |-> Part(x.actual, k, o)] :
        k \in Steps(x.expected) \intersect Steps(x.actual)}
Places(e, a, o) ==
    LET level[n \in 0..MaxDepth] ==
            IF n = 0 THEN {[path |-> <<>>, expected |-> e, actual |-> a]}
            ELSE UNION {Below(x, o) : x \in {y \in level[n - 1] : GoesOn(y, o)}}
    IN level

Difference(path, kind) == [path |-> path, kind |-> kind]

\* The fields one side lacks.
Absences(path, keys, kind, o) ==
    {Difference(Append(path, k), kind) : k \in {k \in keys : ~is_ignored(o, Append(path, k))}}

\* What is reported at a place.
Told(x, o) ==
    LET e == x.expected
        a == x.actual
    IN CASE is_ignored(o, x.path) -> {}
         [] ~is_ignored(o, x.path) /\ e.type # a.type -> {Difference(x.path, "type")}
         [] GoesOn(x, o) /\ e.type = "object" ->
               Absences(x.path, DOMAIN e.fields \ DOMAIN a.fields, "missing", o)
               \union Absences(x.path, DOMAIN a.fields \ DOMAIN e.fields, "unexpected", o)
         [] GoesOn(x, o) /\ e.type = "array" -> IF Len(e.items) = Len(a.items) THEN {} ELSE {Difference(x.path, "length")}
         [] GoesOn(x, o) /\ e.type \notin {"object", "array"} -> IF Agree(e, a, o) THEN {} ELSE {Difference(x.path, "value")}

walk(e, a, o) == UNION {UNION {Told(x, o) : x \in Places(e, a, o)[n]} : n \in 0..MaxDepth}

Init ==
    /\ expected \in Documents
    /\ actual \in Documents
    /\ opts \in Options
    /\ found = {}
    /\ compared = FALSE

diff ==
    /\ ~compared
    /\ found' = walk(expected, actual, opts)
    /\ compared' = TRUE
    /\ UNCHANGED <<expected, actual, opts>>

Next == diff

-----------------------------------------------------------------------------
\* The nodes of a document, level by level: a path, and what is there.
Child(v, k) == IF v.type = "object" THEN v.fields[k] ELSE v.items[PlaceOf(k)]
Levels(v) ==
    LET level[n \in 0..MaxDepth] ==
            IF n = 0 THEN {[path |-> <<>>, at |-> v]}
            ELSE UNION {{[path |-> Append(x.path, k), at |-> Child(x.at, k)] : k \in Steps(x.at)} : x \in level[n - 1]}
    IN level
Nodes(v) == UNION {Levels(v)[n] : n \in 0..MaxDepth}
Paths(v) == {x.path : x \in Nodes(v)}
At(v, p) == (CHOOSE x \in Nodes(v) : x.path = p).at
Parts(v) == {x.at : x \in Nodes(v)}

\* What documents and options are: nothing nests deeper than it may, and what is in an
\* array has an index and a serialized form.
Written ==
    /\ MaxDepth \in Nat
    /\ SerialOrder \in Seq(Range(SerialOrder)) /\ Indices \in Seq(Range(Indices)) /\ IsInjective(Indices)
    /\ \A d \in Documents : \A x \in Nodes(d) :
          /\ Len(x.path) = MaxDepth => Steps(x.at) = {}
          /\ x.at.type = "object" =>
                x.at = [type |-> "object", fields |-> [k \in DOMAIN x.at.fields |-> x.at.fields[k]]]
          /\ x.at.type = "array" =>
                /\ x.at = [type |-> "array", items |-> x.at.items]
                /\ x.at.items \in Seq(Range(SerialOrder)) /\ Len(x.at.items) <= Len(Indices)
          /\ x.at.type = "number" => x.at.v \in Int
    /\ \A o \in Options : o.epsilon \in Nat /\ o.epsilon_rel \in Nat /\ o.unordered_arrays \in BOOLEAN

\* What two scalars of one type have to be: equal, or numbers within the tolerance of
\* which one at least is no exact integer.
Exact(v) == v.type # "number" \/ v.kind = "int"
SameScalar(e, a) ==
    \/ e = a
    \/ e.type = "number" /\ ~(Exact(e) /\ Exact(a)) /\ close_enough(AsFloat(e), AsFloat(a), opts)

\* What the two documents disagree about at a path, looked at on its own.
Disagreement(p) ==
    IF p \notin Paths(actual) THEN "missing"
    ELSE IF p \notin Paths(expected) THEN "unexpected"
    ELSE LET e == At(expected, p)
             a == At(actual, p)
         IN  CASE e.type # a.type -> "type"
               [] e.type = "array" /\ a.type = "array" -> IF Len(e.items) = Len(a.items) THEN "none" ELSE "length"
               [] e.type = "object" /\ a.type = "object" -> "none"
               [] OTHER -> IF SameScalar(e, a) THEN "none" ELSE "value"

\* With ordered arrays, every difference reported is there, of that kind and at that path,
\* and every disagreement outside the ignored paths is reported, at its path or at one
\* above it; none is reported exactly when the documents agree (diff.rs, diff).
DifferencesAreTold ==
    compared /\ ~opts.unordered_arrays =>
        /\ \A d \in found : ~is_ignored(opts, d.path) /\ Disagreement(d.path) = d.kind
        /\ \A p \in Paths(expected) \union Paths(actual) :
              Disagreement(p) # "none" /\ (\A i \in 0..Len(p) : ~is_ignored(opts, SubSeq(p, 1, i)))
              => \E d \in found : IsPrefix(d.path, p)

\* Equality with arrays as multisets: of documents whose parts are equal so.
Alike(x, y, same) ==
    /\ x.type = y.type
    /\ CASE x.type = "object" ->
              DOMAIN x.fields = DOMAIN y.fields /\ \A k \in DOMAIN x.fields : <<x.fields[k], y.fields[k]>> \in same
         [] x.type = "array" ->
              \E f \in Bijection(DOMAIN x.items, DOMAIN y.items) : \A i \in DOMAIN x.items : <<x.items[i], y.items[f[i]]>> \in same
         [] OTHER -> SameScalar(x, y)
SameUpTo(e, a) ==
    LET same[n \in 0..(MaxDepth + 1)] ==
            IF n = 0 THEN {}
            ELSE LET parts == same[n - 1] IN {pair \in Parts(e) \X Parts(a) : Alike(pair[1], pair[2], parts)}
    IN same
SameBag(e, a) == <<e, a>> \in SameUpTo(e, a)[MaxDepth + 1]

\* All arrays in it hold exact scalars only: items within the tolerance of one another, or
\* with an array inside, may be sorted apart.
Plain(v) ==
    \A x \in Parts(v) : x.type = "array" => \A i \in DOMAIN x.items : Steps(x.items[i]) = {} /\ Exact(x.items[i])

\* With unordered arrays and nothing ignored, documents without differences are equal as
\* multisets; and two that are equal so have none, if their arrays hold exact scalars
\* (diff.rs, DiffOptions::unordered_arrays).
MultisetsAreTold ==
    compared /\ opts.unordered_arrays /\ opts.ignore_paths = {} =>
        /\ found = {} => SameBag(expected, actual)
        /\ SameBag(expected, actual) /\ Plain(expected) /\ Plain(actual) => found = {}
=============================================================================
