--------------------------- MODULE Parity_proofs ----------------------------
(***************************************************************************)
(* Proofs about Parity, for every set of tools, inputs, cases files and    *)
(* answers, every budget, and people who accept differences at any path;   *)
(* and about the comparison it judges by, for every two documents, however *)
(* deep, every tolerance, and every set of paths to ignore.                *)
(***************************************************************************)
EXTENDS Judging, Lists_proofs

AnswerOf(k, input) == Reference[k[1], input]

\* A fixture that was written holds what the reference answers to its input.
Fixtures ==
    [file : {"absent", "torn"}] \union
    [file : {"whole"}, input : Inputs, expected : Answers, accepted : SUBSET AcceptPaths]

TypeOK ==
    /\ cases \in CaseFiles
    /\ fixtures \in [Keys -> Fixtures] /\ before \in [Keys -> Fixtures]
    /\ DOMAIN port \subseteq Tools /\ \A t \in DOMAIN port : port[t] \in [Inputs -> Answers]
    /\ capture \in [pc : {"idle", "case", "write", "done"}, todo : CaseFiles \union {<<>>}, at : Nat,
                    fail_fast : BOOLEAN, captured : SUBSET Nat, failures : SUBSET Nat]
    /\ capture.pc # "idle" => capture.todo \in CaseFiles /\ capture.at \in 1..Len(capture.todo)

FromReference ==
    \A k \in Keys : Whole(k) =>
        fixtures[k].expected = AnswerOf(k, fixtures[k].input) /\ fixtures[k].expected.ok

-----------------------------------------------------------------------------
\* A case of a cases file, and the file it goes to.
LEMMA CaseType ==
    ASSUME NEW todo \in CaseFiles, NEW n \in 1..Len(todo)
    PROVE  /\ todo[n] \in [tool : Tools, id : Ids \union {NoId}, input : Inputs]
           /\ KeyOf(todo, n) \in Keys /\ KeyOf(todo, n)[1] = todo[n].tool
           /\ AnswerOf(KeyOf(todo, n), todo[n].input) = Reference[todo[n].tool, todo[n].input]
           /\ Reference[todo[n].tool, todo[n].input] \in Answers
<1>1. todo \in Seq([tool : Tools, id : Ids \union {NoId}, input : Inputs]) /\ Len(todo) \in Nat
  BY ParityAssumption, LenProperties DEF ParityAssumption
<1>2. todo[n] \in [tool : Tools, id : Ids \union {NoId}, input : Inputs]
  BY <1>1, ElementOfSeq
<1>3. Numbered \in Seq(Ids) /\ n \in 1..Len(Numbered)
  <2>1. Numbered \in Seq(Ids) /\ Len(todo) <= Len(Numbered)
    BY ParityAssumption DEF ParityAssumption
  <2> QED
    BY <1>1, <2>1, LenProperties
<1>4. Numbered[n] \in Ids
  BY <1>3, ElementOfSeq
<1>5. KeyOf(todo, n) \in Keys /\ KeyOf(todo, n)[1] = todo[n].tool
  BY <1>2, <1>4 DEF KeyOf, Keys
<1>6. Reference[todo[n].tool, todo[n].input] \in Answers
  BY <1>2, ParityAssumption DEF ParityAssumption
<1> QED
  BY <1>2, <1>5, <1>6 DEF AnswerOf

\* Where a running capture is.
LEMMA AtCase ==
    ASSUME TypeOK, capture.pc # "idle"
    PROVE  /\ capture.todo \in CaseFiles /\ capture.at \in 1..Len(capture.todo) /\ Len(capture.todo) \in Nat
           /\ Case \in [tool : Tools, id : Ids \union {NoId}, input : Inputs] /\ Key \in Keys
           /\ Response \in Answers /\ Response = AnswerOf(Key, Case.input)
<1>1. capture.todo \in CaseFiles /\ capture.at \in 1..Len(capture.todo)
  BY DEF TypeOK
<1>2. capture.todo \in Seq([tool : Tools, id : Ids \union {NoId}, input : Inputs])
  BY <1>1, ParityAssumption DEF ParityAssumption
<1> QED
  BY <1>1, <1>2, CaseType, LenProperties DEF Case, Key, Response

-----------------------------------------------------------------------------
(***************************************************************************)
(* Types, and where the expected answers come from.                        *)
(***************************************************************************)
LEMMA OnwardType ==
    ASSUME TypeOK, capture.pc # "idle", NEW stop \in BOOLEAN,
           NEW got \in SUBSET Nat, NEW failed \in SUBSET Nat,
           capture' = Onward([capture EXCEPT !.captured = got, !.failures = failed], stop), UNCHANGED <<cases, port>>,
           fixtures' \in [Keys -> Fixtures], before' \in [Keys -> Fixtures]
    PROVE  TypeOK'
<1> DEFINE c == [capture EXCEPT !.captured = got, !.failures = failed]
<1>1. /\ capture.todo \in CaseFiles /\ capture.at \in 1..Len(capture.todo) /\ Len(capture.todo) \in Nat
  BY AtCase
<1>2. /\ c.todo = capture.todo /\ c.at = capture.at /\ c.fail_fast = capture.fail_fast
      /\ c \in [pc : {"idle", "case", "write", "done"}, todo : CaseFiles \union {<<>>}, at : Nat,
                fail_fast : BOOLEAN, captured : SUBSET Nat, failures : SUBSET Nat]
  BY DEF TypeOK
<1> HIDE DEF c
<1>3. CASE stop \/ c.at = Len(c.todo)
  <2>1. capture' = [c EXCEPT !.pc = "done"]
    BY <1>3 DEF Onward, c
  <2> QED
    BY <1>1, <1>2, <2>1 DEF TypeOK
<1>4. CASE ~(stop \/ c.at = Len(c.todo))
  <2> DEFINE next == capture.at + 1
  <2>1. capture' = [c EXCEPT !.pc = "case", !.at = next] /\ next \in Nat
    BY <1>1, <1>2, <1>4 DEF Onward, c
  <2> HIDE DEF next
  <2>2. capture' \in [pc : {"idle", "case", "write", "done"}, todo : CaseFiles \union {<<>>}, at : Nat,
                      fail_fast : BOOLEAN, captured : SUBSET Nat, failures : SUBSET Nat]
    BY <1>2, <2>1
  <2>3. capture'.todo = capture.todo /\ capture'.at = next
    BY <1>2, <2>1
  <2>4. capture'.at \in 1..Len(capture'.todo)
    BY <1>1, <1>2, <1>4, <2>3 DEF next
  <2> QED
    BY <1>1, <2>2, <2>3, <2>4 DEF TypeOK
<1> QED
  BY <1>3, <1>4

LEMMA TypeOKStep == TypeOK /\ [Next]_vars => TypeOK'
<1> SUFFICES ASSUME TypeOK, [Next]_vars PROVE TypeOK'
  OBVIOUS
<1>1. CASE Start
  <2>1. PICK fail_fast \in BOOLEAN :
           capture' = [Idle EXCEPT !.pc = "case", !.todo = cases, !.at = 1, !.fail_fast = fail_fast]
    BY <1>1 DEF Start
  <2>2. UNCHANGED <<cases, fixtures, port, ports>> /\ before' = fixtures
    BY <1>1 DEF Start
  <2>3. cases \in CaseFiles /\ 1 \in 1..Len(cases)
    <3>1. cases \in Seq([tool : Tools, id : Ids \union {NoId}, input : Inputs]) /\ cases # <<>>
      BY ParityAssumption DEF ParityAssumption, TypeOK
    <3>2. Len(cases) \in Nat \ {0}
      BY <3>1, EmptySeq
    <3> QED
      BY <3>2 DEF TypeOK
  <2> QED
    BY <2>1, <2>2, <2>3 DEF TypeOK, Idle
<1>2. CASE CaseFails
  <2> DEFINE failed == capture.failures \union {capture.at}
  <2>1. /\ capture.pc # "idle" /\ UNCHANGED <<cases, port>> /\ UNCHANGED <<fixtures, before>>
        /\ capture' = Onward([capture EXCEPT !.failures = failed], capture.fail_fast)
    BY <1>2 DEF CaseFails, TypeOK
  <2>2. [capture EXCEPT !.failures = failed] = [capture EXCEPT !.captured = capture.captured, !.failures = failed]
    BY DEF TypeOK
  <2>3. /\ fixtures' \in [Keys -> Fixtures] /\ before' \in [Keys -> Fixtures] /\ capture.fail_fast \in BOOLEAN
        /\ capture.captured \in SUBSET Nat /\ failed \in SUBSET Nat
    BY <2>1 DEF TypeOK
  <2> HIDE DEF failed
  <2> QED
    BY <2>1, <2>2, <2>3, OnwardType
<1>3. CASE Truncate
  <2>1. Torn \in Fixtures
    BY DEF Torn, Fixtures
  <2> QED
    BY <1>3, <2>1 DEF Truncate, TypeOK
<1>4. CASE Write
  <2> DEFINE got == capture.captured \union {capture.at}
             w == Fixture(Case.input, Response, {})
  <2>1. /\ capture.pc # "idle" /\ UNCHANGED <<cases, port>> /\ UNCHANGED before
        /\ capture' = Onward([capture EXCEPT !.captured = got], FALSE) /\ fixtures' = [fixtures EXCEPT ![Key] = w]
    BY <1>4 DEF Write, TypeOK
  <2>2. [capture EXCEPT !.captured = got] = [capture EXCEPT !.captured = got, !.failures = capture.failures]
    BY DEF TypeOK
  <2>3. w \in Fixtures
    BY <2>1, AtCase DEF Fixture, Fixtures
  <2>4. capture.failures \in SUBSET Nat /\ got \in SUBSET Nat
    BY DEF TypeOK
  <2> HIDE DEF got, w
  <2>5. fixtures' \in [Keys -> Fixtures] /\ before' \in [Keys -> Fixtures]
    BY <2>1, <2>3 DEF TypeOK
  <2> QED
    BY <2>1, <2>2, <2>4, <2>5, OnwardType
<1>5. CASE Exit
  BY <1>5 DEF Exit, TypeOK, Idle
<1>6. CASE EditCases
  BY <1>6 DEF EditCases, TypeOK
<1>7. ASSUME NEW k \in Keys, NEW p \in AcceptPaths, Accept(k, p) PROVE TypeOK'
  <2>1. /\ fixtures' = [fixtures EXCEPT ![k].accepted = @ \union {p}] /\ before' = fixtures'
        /\ Whole(k) /\ UNCHANGED <<cases, port, ports, capture>>
    BY <1>7 DEF Accept
  <2>2. fixtures[k] \in [file : {"whole"}, input : Inputs, expected : Answers, accepted : SUBSET AcceptPaths]
    BY <2>1 DEF Whole, TypeOK, Fixtures
  <2>3. [fixtures[k] EXCEPT !.accepted = @ \union {p}] \in Fixtures
    BY <2>2 DEF Fixtures
  <2>4. fixtures' \in [Keys -> Fixtures]
    BY <2>1, <2>3 DEF TypeOK
  <2> QED
    BY <2>1, <2>4 DEF TypeOK
<1>8. ASSUME NEW t \in Tools, NEW i \in Inputs, NEW a \in Answers, Rewrite(t, i, a) PROVE TypeOK'
  <2>1. /\ port' = [u \in DOMAIN port \union {t} |->
              IF u = t THEN [j \in Inputs |-> IF j = i \/ t \notin DOMAIN port THEN a ELSE port[t][j]] ELSE port[u]]
        /\ UNCHANGED <<cases, fixtures, capture, before>>
    BY <1>8 DEF Rewrite
  <2>2. DOMAIN port' \subseteq Tools
    BY <2>1 DEF TypeOK
  <2>3. \A u \in DOMAIN port' : port'[u] \in [Inputs -> Answers]
    BY <2>1 DEF TypeOK
  <2> QED
    BY <2>1, <2>2, <2>3 DEF TypeOK
<1>9. CASE UNCHANGED vars
  BY <1>9 DEF vars, TypeOK
<1> QED
  BY <1>1, <1>2, <1>3, <1>4, <1>5, <1>6, <1>7, <1>8, <1>9 DEF Next

LEMMA TypeOKInit == Init => TypeOK
<1> SUFFICES ASSUME Init PROVE TypeOK
  OBVIOUS
<1>1. fixtures \in [Keys -> Fixtures] /\ before = fixtures
  BY DEF Init, Absent, Fixtures
<1>2. DOMAIN port = {}
  <2>1. Len(<<>>) = 0 /\ <<>> \in Seq({}) /\ DOMAIN <<>> = 1..Len(<<>>)
    BY EmptySeq, LenProperties
  <2> QED
    BY <2>1 DEF Init
<1>3. capture.pc = "idle" /\ capture \in [pc : {"idle", "case", "write", "done"}, todo : CaseFiles \union {<<>>},
          at : Nat, fail_fast : BOOLEAN, captured : SUBSET Nat, failures : SUBSET Nat]
  BY DEF Init, Idle
<1> QED
  BY <1>1, <1>2, <1>3 DEF Init, TypeOK

-----------------------------------------------------------------------------
(***************************************************************************)
(* What every fixture holds, and what a successful replay then shows.      *)
(***************************************************************************)
AnswersKept == FromReference /\ (capture.pc = "write" => Response.ok)

LEMMA AnswersKeptStep == TypeOK /\ AnswersKept /\ [Next]_vars => AnswersKept'
<1> SUFFICES ASSUME TypeOK, AnswersKept, [Next]_vars PROVE AnswersKept'
  OBVIOUS
<1>1. CASE Start
  BY <1>1 DEF Start, AnswersKept, FromReference, Whole, Idle
<1>2. CASE CaseFails
  <2>1. capture'.pc # "write" /\ UNCHANGED fixtures
    BY <1>2 DEF CaseFails, Onward, TypeOK
  <2> QED
    BY <2>1 DEF AnswersKept, FromReference, Whole
<1>3. CASE Truncate
  <2>1. Response.ok /\ Response' = Response
    BY <1>3 DEF Truncate, Response, Case, TypeOK
  <2>2. \A k \in Keys : Whole(k)' => Whole(k) /\ fixtures'[k] = fixtures[k]
    BY <1>3 DEF Truncate, Whole, Torn, TypeOK
  <2> QED
    BY <2>1, <2>2 DEF AnswersKept, FromReference
<1>4. CASE Write
  <2> DEFINE w == Fixture(Case.input, Response, {})
  <2>1. capture.pc = "write" /\ fixtures' = [fixtures EXCEPT ![Key] = w] /\ capture'.pc # "write"
    BY <1>4 DEF Write, Onward, TypeOK
  <2>2. w.expected = AnswerOf(Key, w.input) /\ w.expected.ok
    BY <2>1, AtCase DEF AnswersKept, Fixture
  <2> HIDE DEF w
  <2>3. \A k \in Keys : (fixtures'[k] = w /\ k = Key) \/ fixtures'[k] = fixtures[k]
    BY <2>1 DEF TypeOK
  <2> QED
    BY <2>1, <2>2, <2>3 DEF AnswersKept, FromReference, Whole
<1>5. CASE Exit
  BY <1>5 DEF Exit, AnswersKept, FromReference, Whole, Idle
<1>6. CASE EditCases
  BY <1>6 DEF EditCases, AnswersKept, FromReference, Whole, Response, Case
<1>7. ASSUME NEW k \in Keys, NEW p \in AcceptPaths, Accept(k, p) PROVE AnswersKept'
  <2>1. /\ fixtures' = [fixtures EXCEPT ![k].accepted = @ \union {p}] /\ UNCHANGED capture
        /\ Whole(k)
    BY <1>7 DEF Accept
  <2>2. fixtures[k] \in [file : {"whole"}, input : Inputs, expected : Answers, accepted : SUBSET AcceptPaths]
    BY <2>1 DEF Whole, TypeOK, Fixtures
  <2>3. /\ fixtures'[k].file = fixtures[k].file /\ fixtures'[k].input = fixtures[k].input
        /\ fixtures'[k].expected = fixtures[k].expected
        /\ \A j \in Keys \ {k} : fixtures'[j] = fixtures[j]
    BY <2>1, <2>2 DEF TypeOK
  <2> QED
    BY <2>1, <2>3 DEF AnswersKept, FromReference, Whole, Response, Case
<1>8. ASSUME NEW t \in Tools, NEW i \in Inputs, NEW a \in Answers, Rewrite(t, i, a) PROVE AnswersKept'
  BY <1>8 DEF Rewrite, AnswersKept, FromReference, Whole, Response, Case
<1>9. CASE UNCHANGED vars
  BY <1>9 DEF vars, AnswersKept, FromReference, Whole, Response, Case
<1> QED
  BY <1>1, <1>2, <1>3, <1>4, <1>5, <1>6, <1>7, <1>8, <1>9 DEF Next

LEMMA AnswersAreNoFailures ==
    ASSUME NEW a, a.ok PROVE a # Fails
BY DEF Fails

\* Every answer that is not a failure is an object with a scalar and a list, and no note.
LEMMA AnswerShape ==
    ASSUME NEW a \in Answers, a # Fails
    PROVE  a.list \in Seq(STRING) /\ a.n \in STRING /\ a.elided = FALSE /\ a = [ok |-> TRUE, n |-> a.n, list |-> a.list, elided |-> FALSE]
<1>1. a = Answer(a.n, a.list) /\ a.n \in STRING /\ a.list \in Seq(STRING)
  BY ParityAssumption DEF ParityAssumption
<1>2. a.elided = FALSE
  BY <1>1 DEF Answer
<1> QED
  BY <1>1, <1>2 DEF Answer

\* A path is below another one exactly when it begins with it.
LEMMA BeginsWith ==
    ASSUME NEW S, NEW q \in Seq(S), NEW p \in Seq(S)
    PROVE  IsPrefix(q, p) <=> Len(q) <= Len(p) /\ \A i \in 1..Len(q) : q[i] = p[i]
<1>1. Len(q) \in Nat /\ Len(p) \in Nat /\ \A i \in 1..Len(q) : q[i] \in S
  BY LenProperties, ElementOfSeq
<1>2. CASE Len(q) <= Len(p)
  <2>1. \A i \in 1..Len(q) : p[i] \in S
    BY <1>1, <1>2, LenProperties, ElementOfSeq
  <2>2. /\ SubSeq(q, 1, Len(q)) \in Seq(S) /\ SubSeq(p, 1, Len(q)) \in Seq(S)
        /\ Len(SubSeq(q, 1, Len(q))) = Len(q) /\ Len(SubSeq(p, 1, Len(q))) = Len(q)
        /\ \A i \in 1..Len(q) : SubSeq(q, 1, Len(q))[i] = q[i] /\ SubSeq(p, 1, Len(q))[i] = p[i]
    <3>1. Len(q) = 0 \/ Len(q) >= 1
      BY <1>1
    <3> QED
      BY <1>1, <2>1, <3>1, SubSeqProperties
  <2>3. SubSeq(q, 1, Len(q)) = SubSeq(p, 1, Len(q)) <=> \A i \in 1..Len(q) : q[i] = p[i]
    BY <2>2, SeqEqual
  <2> QED
    BY <1>2, <2>3 DEF IsPrefix
<1>3. CASE ~(Len(q) <= Len(p))
  BY <1>1, <1>3 DEF IsPrefix
<1> QED
  BY <1>2, <1>3

\* Where acceptances may be: at the whole answer, a field of it, the note, or an item.
LEMMA AcceptanceCovers ==
    ASSUME NEW q \in AcceptPaths
    PROVE  /\ IsPrefix(q, <<"list">>) => \A i : IsPrefix(q, <<"list", i>>)
           /\ IsPrefix(q, <<"_elided">>) => q = <<"_elided">> \/ \A i : IsPrefix(q, <<"list", i>>)
<1> SUFFICES ASSUME NEW i
             PROVE  /\ IsPrefix(q, <<"list">>) => IsPrefix(q, <<"list", i>>)
                    /\ IsPrefix(q, <<"_elided">>) => q = <<"_elided">> \/ IsPrefix(q, <<"list", i>>)
  OBVIOUS
<1> DEFINE S == {"n", "list", "_elided"} \union Nat \union {i}
           list == <<"list">>
           item == <<"list", i>>
           note == <<"_elided">>
<1>1. \/ q = <<>>
      \/ q = <<"n">>
      \/ q = list
      \/ q = note
      \/ q \in {"list"} \X (Nat \ {0})
  BY ParityAssumption DEF ParityAssumption
<1>2. /\ list \in Seq(S) /\ Len(list) = 1 /\ list[1] = "list"
      /\ note \in Seq(S) /\ Len(note) = 1 /\ note[1] = "_elided"
      /\ item \in Seq(S) /\ Len(item) = 2 /\ item[1] = "list"
  OBVIOUS
<1>3. q \in Seq(S)
  <2>1. <<>> \in Seq(S)
    BY EmptySeq
  <2>2. <<"n">> \in Seq(S)
    OBVIOUS
  <2>3. \A j \in Nat : <<"list", j>> \in Seq(S)
    OBVIOUS
  <2>4. q \in {"list"} \X (Nat \ {0}) => q = <<"list", q[2]>> /\ q[2] \in Nat
    OBVIOUS
  <2> HIDE DEF S, list, note, item
  <2> QED
    BY <1>1, <1>2, <2>1, <2>2, <2>3, <2>4
<1> HIDE DEF S
<1>4. \A x, y \in Seq(S) : IsPrefix(x, y) <=> (Len(x) <= Len(y) /\ \A j \in 1..Len(x) : x[j] = y[j])
  BY BeginsWith
<1>5. /\ q = list => Len(q) = 1 /\ q[1] = "list"
      /\ q = <<"n">> => Len(q) = 1 /\ q[1] = "n"
      /\ q \in {"list"} \X (Nat \ {0}) => Len(q) = 2
      /\ q = <<>> => Len(q) = 0
  OBVIOUS
<1> HIDE DEF list, item, note
<1>6. ~IsPrefix(note, list)
  BY <1>2, <1>4
<1>7. IsPrefix(q, list) \/ IsPrefix(q, note) => q = note \/ IsPrefix(q, item)
  BY <1>1, <1>2, <1>3, <1>4, <1>5
<1>8. /\ IsPrefix(q, list) => IsPrefix(q, item)
      /\ IsPrefix(q, note) => q = note \/ IsPrefix(q, item)
  BY <1>6, <1>7
<1> QED
  BY <1>8 DEF list, item, note

\* What the surface gives agrees with the expected answer, or is covered at every position.
LEMMA ComparedAtEveryPosition ==
    ASSUME NEW surface \in {"direct", "mcp"}, NEW e \in Answers, e # Fails, NEW g \in Answers, g # Fails,
           NEW accepted \in SUBSET AcceptPaths,
           \A x \in diff(e, Given(surface, g)) : \E q \in accepted : IsPrefix(q, x),
           NEW p \in Positions
    PROVE  \/ At(g, p) = At(e, p)
           \/ \E q \in accepted : IsPrefix(q, p)
           \/ Dropped(surface, accepted, p)
<1> DEFINE a == Given(surface, g)
           trimmed == surface = "mcp" /\ Len(g.list) > Budget
<1>1. /\ e.list \in Seq(STRING) /\ g.list \in Seq(STRING) /\ e.elided = FALSE
      /\ Len(e.list) \in Nat /\ Len(g.list) \in Nat /\ Budget \in Nat
      /\ DOMAIN e.list = 1..Len(e.list) /\ DOMAIN g.list = 1..Len(g.list)
  BY AnswerShape, LenProperties, ParityAssumption DEF ParityAssumption
<1>2. ~trimmed => a = g
  BY DEF Given
<1>3. trimmed => /\ a.n = g.n /\ a.elided = TRUE /\ a.list \in Seq(STRING) /\ Len(a.list) = Budget
                 /\ DOMAIN a.list = 1..Budget /\ \A i \in 1..Budget : a.list[i] = g.list[i]
  <2> SUFFICES ASSUME trimmed PROVE /\ a.n = g.n /\ a.elided = TRUE /\ a.list \in Seq(STRING) /\ Len(a.list) = Budget
                 /\ DOMAIN a.list = 1..Budget /\ \A i \in 1..Budget : a.list[i] = g.list[i]
    OBVIOUS
  <2>1. g = [ok |-> TRUE, n |-> g.n, list |-> g.list, elided |-> FALSE]
    BY AnswerShape
  <2>2. a = [g EXCEPT !.list = SubSeq(@, 1, Budget), !.elided = TRUE]
    <3>1. g.ok
      BY <2>1
    <3> QED
      BY <3>1 DEF Given
  <2>3. a.n = g.n /\ a.elided = TRUE /\ a.list = SubSeq(g.list, 1, Budget)
    BY <2>1, <2>2
  <2>4. \A i \in 1..Budget : g.list[i] \in STRING
    BY <1>1, ElementOfSeq
  <2>5. /\ SubSeq(g.list, 1, Budget) \in Seq(STRING)
        /\ Len(SubSeq(g.list, 1, Budget)) = IF 1 <= Budget THEN Budget - 1 + 1 ELSE 0
        /\ \A i \in 1..Budget - 1 + 1 : SubSeq(g.list, 1, Budget)[i] = g.list[1 + i - 1]
    BY <1>1, <2>4, SubSeqProperties
  <2>6. a.list \in Seq(STRING) /\ Len(a.list) = Budget /\ \A i \in 1..Budget : a.list[i] = g.list[i]
    BY <1>1, <2>3, <2>5
  <2> QED
    BY <2>3, <2>6, LenProperties
<1> HIDE DEF a
<1>4. /\ e.n # a.n => <<"n">> \in diff(e, a)
      /\ e.elided # a.elided => <<"_elided">> \in diff(e, a)
      /\ Len(e.list) # Len(a.list) => <<"list">> \in diff(e, a)
      /\ \A i \in DOMAIN e.list \intersect DOMAIN a.list : e.list[i] # a.list[i] => <<"list", i>> \in diff(e, a)
  BY DEF diff
<1>5. \A x \in diff(e, a) : \E q \in accepted : IsPrefix(q, x)
  BY DEF a
<1>6. CASE p = <<"n">>
  <2>1. At(g, p) = g.n /\ At(e, p) = e.n
    BY <1>6 DEF At
  <2> QED
    BY <1>2, <1>3, <1>4, <1>5, <1>6, <2>1
<1>7. ASSUME NEW i, p = <<"list", i>>
      PROVE  \/ At(g, p) = At(e, p)
             \/ \E q \in accepted : IsPrefix(q, p)
             \/ Dropped(surface, accepted, p)
  <2>1. /\ At(g, p) = IF i \in DOMAIN g.list THEN g.list[i] ELSE "missing"
        /\ At(e, p) = IF i \in DOMAIN e.list THEN e.list[i] ELSE "missing"
    BY <1>7 DEF At
  <2>2. CASE Len(e.list) # Len(a.list)
    BY <1>4, <1>5, <1>7, <2>2, AcceptanceCovers
  <2>3. CASE i \in DOMAIN e.list \intersect DOMAIN a.list /\ e.list[i] # a.list[i]
    BY <1>4, <1>5, <1>7, <2>3
  <2>4. CASE /\ Len(e.list) = Len(a.list)
             /\ i \in DOMAIN e.list \intersect DOMAIN a.list => e.list[i] = a.list[i]
    <3>1. CASE ~trimmed
      BY <1>1, <1>2, <2>1, <2>4, <3>1
    <3>2. CASE trimmed /\ i \in 1..Budget
      BY <1>1, <1>3, <2>1, <2>4, <3>2
    <3>3. CASE trimmed /\ i \notin 1..Budget /\ i \notin DOMAIN g.list
      BY <1>1, <1>3, <2>1, <2>4, <3>3
    <3>4. CASE trimmed /\ i \notin 1..Budget /\ i \in DOMAIN g.list
      <4>1. PICK q \in accepted : IsPrefix(q, <<"_elided">>)
        BY <1>1, <1>3, <1>4, <1>5, <3>4
      <4>2. CASE q = <<"_elided">>
        <5>1. i > Budget /\ Len(p) = 2 /\ p[2] = i
          BY <1>1, <1>7, <3>4
        <5> QED
          BY <3>4, <4>2, <5>1 DEF Dropped
      <4>3. CASE q # <<"_elided">>
        BY <1>7, <4>1, <4>3, AcceptanceCovers
      <4> QED
        BY <4>2, <4>3
    <3> QED
      BY <3>1, <3>2, <3>3, <3>4
  <2> QED
    BY <2>2, <2>3, <2>4
<1> QED
  BY <1>6, <1>7 DEF Positions

\* A replay that succeeds vouches for the port (replay.rs replay_one, is_success): what the
\* reference answered is what the port answers, at every position nobody accepted, whatever
\* captures were killed and whichever fixtures were written over.
THEOREM SuccessVouches == Spec => []SuccessIsParity
<1>1. TypeOK /\ AnswersKept => SuccessIsParity
  <2> SUFFICES ASSUME TypeOK, AnswersKept, NEW surface \in {"direct", "mcp"}, NEW tools \in SUBSET Tools,
                      is_success(surface, tools), NEW k \in Keys, Whole(k), k[1] \in tools
               PROVE  /\ k[1] \in DOMAIN port
                      /\ \A p \in Positions :
                            \/ At(port[k[1]][fixtures[k].input], p) = At(Reference[k[1], fixtures[k].input], p)
                            \/ \E q \in fixtures[k].accepted : IsPrefix(q, p)
                            \/ Dropped(surface, fixtures[k].accepted, p)
    BY DEF SuccessIsParity
  <2> DEFINE f == fixtures[k]
             g == port[k[1]][f.input]
             a == Given(surface, g)
             Apart == {p \in diff(f.expected, a) : \A q \in f.accepted : ~covers(q, p)}
  <2>1. f.input \in Inputs /\ f.expected \in Answers /\ f.accepted \in SUBSET AcceptPaths
    BY DEF Whole, TypeOK, Fixtures
  <2>2. f.expected = Reference[k[1], f.input] /\ f.expected.ok
    BY DEF AnswersKept, FromReference, AnswerOf
  <2>3. replay_one(surface, k) \in {"pass", "accepted"}
    BY SMTT(30) DEF is_success
  <2>4. k[1] \in DOMAIN port /\ a.ok /\ Apart = {}
    BY <2>3, Zenon DEF replay_one
  <2>5. f.expected # Fails /\ g \in Answers /\ g # Fails
    <3>1. g \in Answers
      BY <2>1, <2>4 DEF TypeOK
    <3>2. g = Fails => a = g
      BY DEF Given, Fails
    <3>3. f.expected # Fails
      BY <2>2, AnswersAreNoFailures
    <3>4. a # Fails
      BY <2>4, AnswersAreNoFailures
    <3> QED
      BY <3>1, <3>2, <3>3, <3>4
  <2>6. \A x \in diff(f.expected, a) : \E q \in f.accepted : IsPrefix(q, x)
    BY <2>4 DEF covers
  <2> HIDE DEF f, g, Apart
  <2>7. \A p \in Positions :
           \/ At(g, p) = At(f.expected, p)
           \/ \E q \in f.accepted : IsPrefix(q, p)
           \/ Dropped(surface, f.accepted, p)
    BY <2>1, <2>2, <2>5, <2>6, ComparedAtEveryPosition
  <2>8. \A p \in Positions :
           \/ At(g, p) = At(Reference[k[1], f.input], p)
           \/ \E q \in f.accepted : IsPrefix(q, p)
           \/ Dropped(surface, f.accepted, p)
    <3>1. f.expected = Reference[k[1], f.input]
      BY <2>2
    <3> QED
      BY ONLY <2>7, <3>1
  <2>9. k[1] \in DOMAIN port
    BY <2>4
  <2> QED
    BY ONLY <2>8, <2>9 DEF f, g
<1>2. Init => AnswersKept
  BY DEF Init, Idle, AnswersKept, FromReference, Whole, Absent
<1> QED
  BY <1>1, <1>2, TypeOKInit, TypeOKStep, AnswersKeptStep, PTL DEF Spec

-----------------------------------------------------------------------------
(***************************************************************************)
(* The report of a capture.                                                *)
(***************************************************************************)
Answered(todo, n) == Reference[todo[n].tool, todo[n].input]
Unique(todo) == \A m, n \in 1..Len(todo) : KeyOf(todo, m) = KeyOf(todo, n) => m = n

\* The cases come to are those captured and those that failed, one of which may end it.
Came(c) ==
    /\ c.pc \in {"case", "write"} =>
          c.captured \union c.failures = 1..(c.at - 1) /\ (c.fail_fast => c.failures = {})
    /\ c.pc = "done" =>
          /\ c.captured \union c.failures = 1..c.at
          /\ c.at = Len(c.todo) \/ (c.fail_fast /\ c.failures = {c.at})

\* Each is what the reference made of it.
Verdicts(c) ==
    /\ \A n \in c.captured : Answered(c.todo, n) # Fails
    /\ \A n \in c.failures : Answered(c.todo, n) = Fails

\* The files of the cases captured are written, those of the others as they were.
Files(c, now, then) ==
    Unique(c.todo) =>
        /\ \A n \in c.captured : now[KeyOf(c.todo, n)] = Fixture(c.todo[n].input, Answered(c.todo, n), {})
        /\ \A n \in 1..Len(c.todo) :
              n \in c.failures \/ n > c.at \/ (n = c.at /\ c.pc = "case") => now[KeyOf(c.todo, n)] = then[KeyOf(c.todo, n)]

Accounted == capture.pc # "idle" => Came(capture) /\ Verdicts(capture) /\ Files(capture, fixtures, before)

LEMMA OnwardCame ==
    ASSUME TypeOK, Accounted, capture.pc \in {"case", "write"}, NEW stop \in BOOLEAN,
           NEW got \in SUBSET Nat, NEW failed \in SUBSET Nat,
           got \union failed = capture.captured \union capture.failures \union {capture.at},
           stop => capture.fail_fast /\ failed = {capture.at},
           ~stop => (capture.fail_fast => failed = {}),
           capture' = Onward([capture EXCEPT !.captured = got, !.failures = failed], stop)
    PROVE  /\ Came(capture') /\ capture'.todo = capture.todo /\ capture'.captured = got /\ capture'.failures = failed
           /\ \A n \in 1..Len(capture.todo) :
                 n > capture'.at \/ (n = capture'.at /\ capture'.pc = "case") => n > capture.at
           /\ capture'.pc # "idle"
<1> DEFINE c == [capture EXCEPT !.captured = got, !.failures = failed]
           next == capture.at + 1
<1>1. /\ c.todo = capture.todo /\ c.at = capture.at /\ c.fail_fast = capture.fail_fast
      /\ c.captured = got /\ c.failures = failed
      /\ c \in [pc : {"idle", "case", "write", "done"}, todo : CaseFiles \union {<<>>}, at : Nat,
                fail_fast : BOOLEAN, captured : SUBSET Nat, failures : SUBSET Nat]
  BY DEF TypeOK
<1>2. capture.at \in 1..Len(capture.todo) /\ Len(capture.todo) \in Nat
  BY AtCase
<1>3. got \union failed = 1..capture.at
  <2>1. capture.captured \union capture.failures = 1..(capture.at - 1)
    BY DEF Accounted, Came
  <2> QED
    BY <1>2, <2>1
<1> HIDE DEF c
<1>4. CASE stop \/ c.at = Len(c.todo)
  <2>1. capture' = [c EXCEPT !.pc = "done"]
    BY <1>4 DEF Onward, c
  <2>2. /\ capture'.pc = "done" /\ capture'.todo = capture.todo /\ capture'.at = capture.at
        /\ capture'.captured = got /\ capture'.failures = failed /\ capture'.fail_fast = capture.fail_fast
    BY <1>1, <2>1
  <2> QED
    BY <1>1, <1>2, <1>3, <1>4, <2>2 DEF Came
<1>5. CASE ~(stop \/ c.at = Len(c.todo))
  <2>1. capture' = [c EXCEPT !.pc = "case", !.at = next]
    BY <1>1, <1>5 DEF Onward, c
  <2>2. /\ capture'.pc = "case" /\ capture'.todo = capture.todo /\ capture'.at = next
        /\ capture'.captured = got /\ capture'.failures = failed /\ capture'.fail_fast = capture.fail_fast
    BY <1>1, <2>1
  <2>3. capture'.at - 1 = capture.at
    BY <1>2, <2>2
  <2>4. Came(capture')
    BY <1>3, <1>5, <2>2, <2>3 DEF Came
  <2> QED
    BY <1>2, <2>2, <2>4
<1> QED
  BY <1>4, <1>5

LEMMA AccountedStep == TypeOK /\ AnswersKept /\ Accounted /\ [Next]_vars => Accounted'
<1> SUFFICES ASSUME TypeOK, AnswersKept, Accounted, [Next]_vars PROVE Accounted'
  OBVIOUS
<1>1. CASE Start
  <2>1. PICK fail_fast \in BOOLEAN :
           capture' = [Idle EXCEPT !.pc = "case", !.todo = cases, !.at = 1, !.fail_fast = fail_fast]
    BY <1>1 DEF Start
  <2>2. /\ capture'.pc = "case" /\ capture'.at = 1 /\ capture'.captured = {} /\ capture'.failures = {}
    BY <2>1 DEF Idle
  <2>3. fixtures' = fixtures /\ before' = fixtures
    BY <1>1 DEF Start
  <2> QED
    BY <2>2, <2>3 DEF Accounted, Came, Verdicts, Files
<1>2. CASE CaseFails
  <2> DEFINE failed == capture.failures \union {capture.at}
  <2>1. /\ capture.pc = "case" /\ ~Response.ok /\ UNCHANGED <<fixtures, before>>
        /\ capture' = Onward([capture EXCEPT !.captured = capture.captured, !.failures = failed], capture.fail_fast)
    <3>1. [capture EXCEPT !.failures = failed] = [capture EXCEPT !.captured = capture.captured, !.failures = failed]
      BY DEF TypeOK
    <3> QED
      BY <1>2, <3>1 DEF CaseFails, TypeOK
  <2>2. Response = Fails /\ Response = Answered(capture.todo, capture.at)
    <3>1. Response \in Answers
      BY <2>1, AtCase
    <3>2. ASSUME Response # Fails PROVE Response.ok
      <4>1. Response = [ok |-> TRUE, n |-> Response.n, list |-> Response.list, elided |-> FALSE]
        BY <3>1, <3>2, AnswerShape
      <4> QED
        BY <4>1
    <3> QED
      BY <2>1, <3>2 DEF Response, Case, Answered
  <2>3. /\ capture.captured \in SUBSET Nat /\ failed \in SUBSET Nat /\ capture.fail_fast \in BOOLEAN
        /\ capture.captured \union failed = capture.captured \union capture.failures \union {capture.at}
        /\ capture.fail_fast => failed = {capture.at}
    BY <2>1 DEF TypeOK, Accounted, Came
  <2> HIDE DEF failed
  <2>4. /\ Came(capture') /\ capture'.todo = capture.todo /\ capture'.captured = capture.captured /\ capture'.failures = failed
        /\ \A n \in 1..Len(capture.todo) :
              n > capture'.at \/ (n = capture'.at /\ capture'.pc = "case") => n > capture.at
    BY <2>1, <2>3, OnwardCame
  <2>5. Verdicts(capture')
    BY <2>1, <2>2, <2>4 DEF Accounted, Verdicts, failed
  <2>6. Files(capture', fixtures', before')
    BY <2>1, <2>4 DEF Accounted, Files, failed
  <2> QED
    BY <2>4, <2>5, <2>6 DEF Accounted
<1>3. CASE Truncate
  <2>1. /\ capture.pc = "case" /\ fixtures' = [fixtures EXCEPT ![Key] = Torn] /\ UNCHANGED before
        /\ capture' = [capture EXCEPT !.pc = "write"]
    BY <1>3 DEF Truncate
  <2>2. /\ capture'.todo = capture.todo /\ capture'.at = capture.at /\ capture'.captured = capture.captured
        /\ capture'.failures = capture.failures /\ capture'.fail_fast = capture.fail_fast /\ capture'.pc = "write"
    BY <2>1 DEF TypeOK
  <2>3. Came(capture') /\ Verdicts(capture')
    BY <2>1, <2>2 DEF Accounted, Came, Verdicts
  <2>4. /\ capture.at \in 1..Len(capture.todo) /\ capture.captured \union capture.failures = 1..(capture.at - 1)
    BY <2>1, AtCase DEF Accounted, Came
  <2>5. ASSUME Unique(capture.todo), NEW n \in 1..Len(capture.todo), n # capture.at
        PROVE  fixtures'[KeyOf(capture.todo, n)] = fixtures[KeyOf(capture.todo, n)]
    <3>1. KeyOf(capture.todo, n) # Key
      BY <2>4, <2>5 DEF Unique, Key
    <3>2. KeyOf(capture.todo, n) \in Keys
      BY <2>1, AtCase, CaseType
    <3> QED
      BY <2>1, <3>1, <3>2 DEF TypeOK
  <2>6. Files(capture', fixtures', before')
    BY <2>1, <2>2, <2>4, <2>5 DEF Accounted, Files
  <2> QED
    BY <2>3, <2>6 DEF Accounted
<1>4. CASE Write
  <2> DEFINE got == capture.captured \union {capture.at}
             w == Fixture(Case.input, Response, {})
  <2>1. /\ capture.pc = "write" /\ Response.ok /\ fixtures' = [fixtures EXCEPT ![Key] = w] /\ UNCHANGED before
        /\ capture' = Onward([capture EXCEPT !.captured = got, !.failures = capture.failures], FALSE)
    <3>1. [capture EXCEPT !.captured = got] = [capture EXCEPT !.captured = got, !.failures = capture.failures]
      BY DEF TypeOK
    <3>2. capture.pc = "write"
      BY <1>4 DEF Write
    <3>3. Response.ok
      BY <3>2 DEF AnswersKept
    <3>4. /\ fixtures' = [fixtures EXCEPT ![Key] = w] /\ UNCHANGED before
          /\ capture' = Onward([capture EXCEPT !.captured = got], FALSE)
      BY <1>4 DEF Write, TypeOK
    <3> QED
      BY <3>1, <3>2, <3>3, <3>4
  <2>2. Response # Fails /\ Response = Answered(capture.todo, capture.at)
    BY <2>1, AnswersAreNoFailures DEF Response, Case, Answered
  <2>3. w = Fixture(capture.todo[capture.at].input, Answered(capture.todo, capture.at), {})
    BY <2>2 DEF Case
  <2>4. /\ got \in SUBSET Nat /\ capture.failures \in SUBSET Nat
        /\ got \union capture.failures = capture.captured \union capture.failures \union {capture.at}
        /\ capture.fail_fast => capture.failures = {}
    BY <2>1 DEF TypeOK, Accounted, Came
  <2> HIDE DEF got, w
  <2>5. /\ Came(capture') /\ capture'.todo = capture.todo /\ capture'.captured = got /\ capture'.failures = capture.failures
        /\ \A n \in 1..Len(capture.todo) :
              n > capture'.at \/ (n = capture'.at /\ capture'.pc = "case") => n > capture.at
    BY <2>1, <2>4, OnwardCame
  <2>6. Verdicts(capture')
    BY <2>1, <2>2, <2>5 DEF Accounted, Verdicts, got
  <2>7. /\ capture.at \in 1..Len(capture.todo) /\ capture.captured \union capture.failures = 1..(capture.at - 1)
        /\ Len(capture.todo) \in Nat
    BY <2>1, AtCase DEF Accounted, Came
  <2>8. ASSUME Unique(capture.todo), NEW n \in 1..Len(capture.todo), n # capture.at
        PROVE  fixtures'[KeyOf(capture.todo, n)] = fixtures[KeyOf(capture.todo, n)]
    <3>1. KeyOf(capture.todo, n) # Key
      BY <2>7, <2>8 DEF Unique, Key
    <3>2. KeyOf(capture.todo, n) \in Keys
      BY <2>1, AtCase, CaseType
    <3> QED
      BY <2>1, <3>1, <3>2 DEF TypeOK
  <2>9. fixtures'[KeyOf(capture.todo, capture.at)] = w
    BY <2>1, AtCase DEF Key, TypeOK
  <2>10. ASSUME Unique(capture.todo), NEW n \in got
         PROVE  fixtures'[KeyOf(capture.todo, n)] = Fixture(capture.todo[n].input, Answered(capture.todo, n), {})
    <3>1. CASE n = capture.at
      BY <2>3, <2>9, <3>1
    <3>2. CASE n # capture.at
      <4>1. n \in capture.captured /\ n \in 1..Len(capture.todo)
        BY <2>7, <3>2 DEF got
      <4> QED
        BY <2>1, <2>8, <2>10, <3>2, <4>1 DEF Accounted, Files
    <3> QED
      BY <3>1, <3>2
  <2>11. ASSUME Unique(capture.todo), NEW n \in 1..Len(capture.todo), n \in capture.failures \/ n > capture.at
         PROVE  fixtures'[KeyOf(capture.todo, n)] = before[KeyOf(capture.todo, n)]
    <3>1. n # capture.at
      BY <2>7, <2>11
    <3> QED
      BY <2>1, <2>8, <2>11, <3>1 DEF Accounted, Files
  <2>12. Files(capture', fixtures', before')
    <3> SUFFICES ASSUME Unique(capture.todo)
                 PROVE  /\ \A n \in got : fixtures'[KeyOf(capture.todo, n)] = Fixture(capture.todo[n].input, Answered(capture.todo, n), {})
                        /\ \A n \in 1..Len(capture.todo) :
                              n \in capture.failures \/ n > capture'.at \/ (n = capture'.at /\ capture'.pc = "case") =>
                                 fixtures'[KeyOf(capture.todo, n)] = before[KeyOf(capture.todo, n)]
      <4>1. before' = before
        BY <2>1
      <4> QED
        BY <2>5, <4>1 DEF Files
    <3>1. ASSUME NEW n \in got
          PROVE  fixtures'[KeyOf(capture.todo, n)] = Fixture(capture.todo[n].input, Answered(capture.todo, n), {})
      BY <2>10
    <3>2. ASSUME NEW n \in 1..Len(capture.todo),
                 n \in capture.failures \/ n > capture'.at \/ (n = capture'.at /\ capture'.pc = "case")
          PROVE  fixtures'[KeyOf(capture.todo, n)] = before[KeyOf(capture.todo, n)]
      <4>1. n \in capture.failures \/ n > capture.at
        BY <2>5, <3>2
      <4> QED
        BY <2>11, <4>1
    <3> QED
      BY <3>1, <3>2
  <2> QED
    BY <2>5, <2>6, <2>12 DEF Accounted
<1>5. CASE Exit
  BY <1>5 DEF Exit, Accounted, Idle
<1>6. CASE \E k \in Keys, p \in AcceptPaths : Accept(k, p)
  BY <1>6 DEF Accept, Accounted
<1>7. CASE UNCHANGED <<fixtures, capture, before>>
  BY <1>7 DEF Accounted
<1> QED
  BY <1>1, <1>2, <1>3, <1>4, <1>5, <1>6, <1>7 DEF Next, EditCases, Rewrite, vars

\* When a capture has ended (capture.rs capture), each of its cases is in its report of
\* failures, its file as it was, or captured, its file holding what the reference
\* answered; and it came to every case, or to one that failed.
THEOREM CasesAccounted == Spec => []EveryCaseAccounted
<1>1. TypeOK /\ Accounted => EveryCaseAccounted
  <2> SUFFICES ASSUME TypeOK, Accounted, capture.pc = "done",
                      \A m, n \in DOMAIN capture.todo : KeyOf(capture.todo, m) = KeyOf(capture.todo, n) => m = n
               PROVE  /\ \A n \in DOMAIN capture.todo :
                            LET k == KeyOf(capture.todo, n)
                            IN CASE n \in capture.captured ->
                                      fixtures[k] = Fixture(capture.todo[n].input, Reference[capture.todo[n].tool, capture.todo[n].input], {})
                                 [] n \in capture.failures ->
                                      fixtures[k] = before[k] /\ ~Reference[capture.todo[n].tool, capture.todo[n].input].ok
                                 [] OTHER -> \E m \in capture.failures : m < n
                      /\ capture.failures = {} \/ ~capture.fail_fast =>
                            capture.captured \union capture.failures = DOMAIN capture.todo
    BY DEF EveryCaseAccounted
  <2>1. /\ capture.todo \in CaseFiles /\ capture.at \in 1..Len(capture.todo) /\ Len(capture.todo) \in Nat
        /\ DOMAIN capture.todo = 1..Len(capture.todo)
    <3>1. capture.todo \in Seq([tool : Tools, id : Ids \union {NoId}, input : Inputs])
      BY AtCase, ParityAssumption DEF ParityAssumption
    <3> QED
      BY <3>1, AtCase, LenProperties
  <2>2. Came(capture) /\ Verdicts(capture) /\ Files(capture, fixtures, before) /\ Unique(capture.todo)
    BY <2>1 DEF Accounted, Unique
  <2>3. capture.captured \union capture.failures = 1..capture.at
    BY <2>2 DEF Came
  <2>4. capture.at = Len(capture.todo) \/ (capture.fail_fast /\ capture.failures = {capture.at})
    BY <2>2 DEF Came
  <2>5. ASSUME NEW n \in capture.captured
        PROVE  fixtures[KeyOf(capture.todo, n)] = Fixture(capture.todo[n].input, Answered(capture.todo, n), {}) /\ n \notin capture.failures
    BY <2>2 DEF Files, Verdicts
  <2>6. ASSUME NEW n \in DOMAIN capture.todo, n \in capture.failures
        PROVE  fixtures[KeyOf(capture.todo, n)] = before[KeyOf(capture.todo, n)] /\ ~Answered(capture.todo, n).ok
    <3>1. Answered(capture.todo, n) = Fails
      BY <2>2, <2>6 DEF Verdicts
    <3> QED
      BY <2>1, <2>2, <2>6, <3>1, AnswersAreNoFailures DEF Files
  <2>7. ASSUME NEW n \in DOMAIN capture.todo, n \notin capture.captured, n \notin capture.failures
        PROVE  \E m \in capture.failures : m < n
    BY <2>1, <2>3, <2>4, <2>7
  <2>8. capture.failures = {} \/ ~capture.fail_fast => capture.captured \union capture.failures = DOMAIN capture.todo
    BY <2>1, <2>3, <2>4
  <2> QED
    BY <2>5, <2>6, <2>7, <2>8 DEF Answered
<1>2. Init => Accounted
  BY DEF Init, Idle, Accounted
<1>3. Init => AnswersKept
  BY DEF Init, Idle, AnswersKept, FromReference, Whole, Absent
<1> QED
  BY <1>1, <1>2, <1>3, TypeOKInit, TypeOKStep, AnswersKeptStep, AccountedStep, PTL DEF Spec

-----------------------------------------------------------------------------
(***************************************************************************)
(* The comparison of documents (Diff). Levels of documents and of walks    *)
(* are made one from the other; the recursive functions they are defined   *)
(* as exist.                                                               *)
(***************************************************************************)
\* What is below the nodes of a level, and where the walk goes on to from its places.
NodesBelow(s) == UNION {{[path |-> Append(x.path, k), at |-> D!Child(x.at, k)] : k \in D!Steps(x.at)} : x \in s}
Onwards(s, o) == UNION {D!Below(x, o) : x \in {y \in s : D!GoesOn(y, o)}}

\* The levels of a document are what they are defined to be.
LEMMA LevelsAre ==
    ASSUME MaxDepth \in Nat, NEW v
    PROVE  /\ D!Levels(v)[0] = {[path |-> <<>>, at |-> v]}
           /\ \A n \in 1..MaxDepth : D!Levels(v)[n] = NodesBelow(D!Levels(v)[n - 1])
<1> DEFINE body(f, n) == IF n = 0 THEN {[path |-> <<>>, at |-> v]} ELSE NodesBelow(f[n - 1])
           Made(f, m) == f = [n \in 0..m |-> body(f, n)]
           T == {m \in Nat : \E f : Made(f, m)}
           chosen == CHOOSE f : f = [n \in 0..MaxDepth |-> body(f, n)]
<1>1. 0 \in T
  <2> DEFINE f == [n \in 0..0 |-> {[path |-> <<>>, at |-> v]}]
  <2>1. f = [n \in 0..0 |-> body(f, n)]
    OBVIOUS
  <2> QED
    BY <2>1
<1>2. ASSUME NEW m \in T PROVE m + 1 \in T
  <2>1. PICK f : Made(f, m)
    OBVIOUS
  <2> DEFINE g == [n \in 0..(m + 1) |-> body(f, n)]
  <2>2. m \in Nat /\ \A n \in 0..m : f[n] = body(f, n)
    BY <2>1
  <2>3. \A n \in 0..m : g[n] = f[n]
    <3> HIDE DEF body
    <3> QED
      BY <2>2
  <2>4. ASSUME NEW n \in 0..(m + 1) PROVE body(f, n) = body(g, n)
    <3>1. CASE n = 0
      BY <3>1
    <3>2. CASE n # 0
      <4>1. n - 1 \in 0..m
        BY <2>2, <3>2
      <4>2. g[n - 1] = f[n - 1]
        BY <2>3, <4>1
      <4> HIDE DEF g
      <4> QED
        BY <3>2, <4>2
    <3> QED
      BY <3>1, <3>2
  <2>5. Made(g, m + 1)
    <3> HIDE DEF body
    <3> QED
      BY <2>4
  <2> HIDE DEF Made, g
  <2> QED
    BY <2>2, <2>5
<1>3. T = Nat
  <2> HIDE DEF Made
  <2>1. T \in SUBSET Nat
    OBVIOUS
  <2> HIDE DEF T
  <2> QED
    BY <1>1, <1>2, <2>1, InductiveSet
<1>4. \E f : f = [n \in 0..MaxDepth |-> body(f, n)]
  <2> HIDE DEF body
  <2> QED
    BY <1>3
<1>5. chosen = [n \in 0..MaxDepth |-> body(chosen, n)]
  <2> HIDE DEF body
  <2> QED
    BY <1>4
<1>6. D!Levels(v) = chosen
  BY DEF D!Levels, NodesBelow
<1>7. \A n \in 0..MaxDepth : chosen[n] = body(chosen, n)
  <2> HIDE DEF chosen, body
  <2> QED
    BY <1>5
<1> HIDE DEF chosen
<1> QED
  BY <1>6, <1>7

\* So are the levels of a walk.
LEMMA PlacesAre ==
    ASSUME MaxDepth \in Nat, NEW e, NEW a, NEW o
    PROVE  /\ D!Places(e, a, o)[0] = {[path |-> <<>>, expected |-> e, actual |-> a]}
           /\ \A n \in 1..MaxDepth : D!Places(e, a, o)[n] = Onwards(D!Places(e, a, o)[n - 1], o)
<1> DEFINE body(f, n) == IF n = 0 THEN {[path |-> <<>>, expected |-> e, actual |-> a]} ELSE Onwards(f[n - 1], o)
           Made(f, m) == f = [n \in 0..m |-> body(f, n)]
           T == {m \in Nat : \E f : Made(f, m)}
           chosen == CHOOSE f : f = [n \in 0..MaxDepth |-> body(f, n)]
<1>1. 0 \in T
  <2> DEFINE f == [n \in 0..0 |-> {[path |-> <<>>, expected |-> e, actual |-> a]}]
  <2>1. f = [n \in 0..0 |-> body(f, n)]
    OBVIOUS
  <2> QED
    BY <2>1
<1>2. ASSUME NEW m \in T PROVE m + 1 \in T
  <2>1. PICK f : Made(f, m)
    OBVIOUS
  <2> DEFINE g == [n \in 0..(m + 1) |-> body(f, n)]
  <2>2. m \in Nat /\ \A n \in 0..m : f[n] = body(f, n)
    BY <2>1
  <2>3. \A n \in 0..m : g[n] = f[n]
    <3> HIDE DEF body
    <3> QED
      BY <2>2
  <2>4. ASSUME NEW n \in 0..(m + 1) PROVE body(f, n) = body(g, n)
    <3>1. CASE n = 0
      BY <3>1
    <3>2. CASE n # 0
      <4>1. n - 1 \in 0..m
        BY <2>2, <3>2
      <4>2. g[n - 1] = f[n - 1]
        BY <2>3, <4>1
      <4> HIDE DEF g
      <4> QED
        BY <3>2, <4>2
    <3> QED
      BY <3>1, <3>2
  <2>5. Made(g, m + 1)
    <3> HIDE DEF body
    <3> QED
      BY <2>4
  <2> HIDE DEF Made, g
  <2> QED
    BY <2>2, <2>5
<1>3. T = Nat
  <2> HIDE DEF Made
  <2>1. T \in SUBSET Nat
    OBVIOUS
  <2> HIDE DEF T
  <2> QED
    BY <1>1, <1>2, <2>1, InductiveSet
<1>4. \E f : f = [n \in 0..MaxDepth |-> body(f, n)]
  <2> HIDE DEF body
  <2> QED
    BY <1>3
<1>5. chosen = [n \in 0..MaxDepth |-> body(chosen, n)]
  <2> HIDE DEF body
  <2> QED
    BY <1>4
<1>6. D!Places(e, a, o) = chosen
  BY DEF D!Places, Onwards
<1>7. \A n \in 0..MaxDepth : chosen[n] = body(chosen, n)
  <2> HIDE DEF chosen, body
  <2> QED
    BY <1>5
<1> HIDE DEF chosen
<1> QED
  BY <1>6, <1>7

\* And the documents that are the same up to a depth.
LEMMA SameIs ==
    ASSUME MaxDepth \in Nat, NEW e, NEW a
    PROVE  /\ D!SameUpTo(e, a)[0] = {}
           /\ \A n \in 1..(MaxDepth + 1) : D!SameUpTo(e, a)[n] =
                 {pair \in D!Parts(e) \X D!Parts(a) : D!Alike(pair[1], pair[2], D!SameUpTo(e, a)[n - 1])}
<1> DEFINE Further(same) == {pair \in D!Parts(e) \X D!Parts(a) : D!Alike(pair[1], pair[2], same)}
           body(f, n) == IF n = 0 THEN {} ELSE Further(f[n - 1])
           Made(f, m) == f = [n \in 0..m |-> body(f, n)]
           T == {m \in Nat : \E f : Made(f, m)}
           chosen == CHOOSE f : f = [n \in 0..(MaxDepth + 1) |-> body(f, n)]
<1>6. D!SameUpTo(e, a) = chosen
  BY DEF D!SameUpTo
<1> HIDE DEF Further
<1>1. 0 \in T
  <2> DEFINE f == [n \in 0..0 |-> {}]
  <2>1. f = [n \in 0..0 |-> body(f, n)]
    OBVIOUS
  <2> QED
    BY <2>1
<1>2. ASSUME NEW m \in T PROVE m + 1 \in T
  <2>1. PICK f : Made(f, m)
    OBVIOUS
  <2> DEFINE g == [n \in 0..(m + 1) |-> body(f, n)]
  <2>2. m \in Nat /\ \A n \in 0..m : f[n] = body(f, n)
    BY <2>1
  <2>3. \A n \in 0..m : g[n] = f[n]
    <3> HIDE DEF body
    <3> QED
      BY <2>2
  <2>4. ASSUME NEW n \in 0..(m + 1) PROVE body(f, n) = body(g, n)
    <3>1. CASE n = 0
      BY <3>1
    <3>2. CASE n # 0
      <4>1. n - 1 \in 0..m
        BY <2>2, <3>2
      <4>2. g[n - 1] = f[n - 1]
        BY <2>3, <4>1
      <4> HIDE DEF g
      <4> QED
        BY <3>2, <4>2
    <3> QED
      BY <3>1, <3>2
  <2>5. Made(g, m + 1)
    <3> HIDE DEF body
    <3> QED
      BY <2>4
  <2> HIDE DEF Made, g
  <2> QED
    BY <2>2, <2>5
<1>3. T = Nat
  <2> HIDE DEF Made
  <2>1. T \in SUBSET Nat
    OBVIOUS
  <2> HIDE DEF T
  <2> QED
    BY <1>1, <1>2, <2>1, InductiveSet
<1>4. \E f : f = [n \in 0..(MaxDepth + 1) |-> body(f, n)]
  <2>1. MaxDepth + 1 \in T
    <3> HIDE DEF T
    <3> QED
      BY <1>3
  <2> HIDE DEF body
  <2> QED
    BY <2>1
<1>5. chosen = [n \in 0..(MaxDepth + 1) |-> body(chosen, n)]
  <2> HIDE DEF body
  <2> QED
    BY <1>4
<1>7. \A n \in 0..(MaxDepth + 1) : chosen[n] = body(chosen, n)
  <2> HIDE DEF chosen, body
  <2> QED
    BY <1>5
<1> HIDE DEF chosen
<1>8. chosen[0] = {} /\ \A n \in 1..(MaxDepth + 1) : chosen[n] = Further(chosen[n - 1])
  <2>1. 0 \in 0..(MaxDepth + 1) /\ \A n \in 1..(MaxDepth + 1) : n \in 0..(MaxDepth + 1) /\ n # 0
    OBVIOUS
  <2>2. chosen[0] = {}
    BY <1>7, <2>1
  <2>3. ASSUME NEW n \in 1..(MaxDepth + 1) PROVE chosen[n] = Further(chosen[n - 1])
    BY <1>7, <2>1
  <2> QED
    BY <2>2, <2>3
<1>9. ASSUME NEW n \in 1..(MaxDepth + 1)
      PROVE  chosen[n] = {pair \in D!Parts(e) \X D!Parts(a) : D!Alike(pair[1], pair[2], chosen[n - 1])}
  <2>1. chosen[n] = Further(chosen[n - 1])
    BY <1>8
  <2> QED
    BY <2>1 DEF Further
<1> QED
  BY <1>6, <1>8, <1>9, Zenon

\* A document whose keys are all in a set; and a node.
Keyed(v, K) == \A x \in D!Nodes(v) : D!Steps(x.at) \subseteq K
Node(p, v) == [path |-> p, at |-> v]

\* What is on a level is a node.
LEMMA InNodes ==
    ASSUME NEW v, NEW n \in 0..MaxDepth, NEW x \in D!Levels(v)[n]
    PROVE  x \in D!Nodes(v)
BY DEF D!Nodes

\* A level holds the parts of what the one above holds.
LEMMA LevelBelow ==
    ASSUME MaxDepth \in Nat, NEW v, NEW n \in Nat, n + 1 \in 1..MaxDepth
    PROVE  D!Levels(v)[n + 1] = NodesBelow(D!Levels(v)[n])
<1>1. D!Levels(v)[n + 1] = NodesBelow(D!Levels(v)[(n + 1) - 1]) /\ (n + 1) - 1 = n
  BY LevelsAre
<1> QED
  BY <1>1

\* What a part is, as a node.
LEMMA ChildBelow ==
    ASSUME NEW s, NEW x \in s, NEW k \in D!Steps(x.at)
    PROVE  Node(Append(x.path, k), D!Child(x.at, k)) \in NodesBelow(s)
<1> DEFINE of(y) == {[path |-> Append(y.path, l), at |-> D!Child(y.at, l)] : l \in D!Steps(y.at)}
<1>1. Node(Append(x.path, k), D!Child(x.at, k)) \in of(x)
  BY DEF Node
<1>2. NodesBelow(s) = UNION {of(y) : y \in s}
  BY DEF NodesBelow
<1> HIDE DEF of
<1> QED
  BY <1>1, <1>2

\* A node of a level is made from one of the level above.
LEMMA NodeFrom ==
    ASSUME MaxDepth \in Nat, NEW v, NEW n \in Nat, n + 1 \in 1..MaxDepth, NEW x \in D!Levels(v)[n + 1]
    PROVE  \E y \in D!Levels(v)[n] : \E k \in D!Steps(y.at) : x = Node(Append(y.path, k), D!Child(y.at, k))
<1>1. x \in NodesBelow(D!Levels(v)[n])
  BY LevelBelow
<1> QED
  BY <1>1 DEF NodesBelow, Node

\* A node of a level is a path that long, and what is there.
LEMMA NodeShape ==
    ASSUME MaxDepth \in Nat, NEW v, NEW K, Keyed(v, K), NEW n \in 0..MaxDepth, NEW x \in D!Levels(v)[n]
    PROVE  x = Node(x.path, x.at) /\ x.path \in Seq(K) /\ Len(x.path) = n
<1> DEFINE Good(m) == \A y \in D!Levels(v)[m] : y = Node(y.path, y.at) /\ y.path \in Seq(K) /\ Len(y.path) = m
           T == {m \in Nat : m <= MaxDepth => Good(m)}
<1>1. 0 \in T
  <2>1. ASSUME NEW y \in D!Levels(v)[0] PROVE y = Node(y.path, y.at) /\ y.path \in Seq(K) /\ Len(y.path) = 0
    <3>1. y = [path |-> <<>>, at |-> v]
      BY LevelsAre
    <3>2. y.path = <<>> /\ y.at = v
      BY <3>1
    <3> QED
      BY <3>1, <3>2 DEF Node
  <2> QED
    BY <2>1
<1>2. ASSUME NEW m \in Nat, m + 1 <= MaxDepth, Good(m) PROVE Good(m + 1)
  <2> HIDE DEF Good
  <2>1. m + 1 \in 1..MaxDepth /\ m \in 0..MaxDepth
    BY <1>2
  <2>2. ASSUME NEW y \in D!Levels(v)[m + 1] PROVE y = Node(y.path, y.at) /\ y.path \in Seq(K) /\ Len(y.path) = m + 1
    <3>1. PICK z \in D!Levels(v)[m] : \E k \in D!Steps(z.at) : y = Node(Append(z.path, k), D!Child(z.at, k))
      BY <2>1, NodeFrom
    <3>k. PICK k \in D!Steps(z.at) : y = Node(Append(z.path, k), D!Child(z.at, k))
      BY <3>1
    <3>2. z.path \in Seq(K) /\ Len(z.path) = m
      BY <1>2 DEF Good
    <3>3. k \in K
      BY <2>1, InNodes DEF Keyed
    <3>4. Append(z.path, k) \in Seq(K) /\ Len(Append(z.path, k)) = m + 1
      BY <3>2, <3>3, AppendProperties
    <3> QED
      BY <3>k, <3>4 DEF Node
  <2> QED
    BY <2>2 DEF Good
<1>3. T = Nat
  <2> HIDE DEF Good
  <2>1. T \in SUBSET Nat
    OBVIOUS
  <2>2. ASSUME NEW m \in T PROVE m + 1 \in T
    BY <1>2
  <2> HIDE DEF T
  <2> QED
    BY <1>1, <2>1, <2>2, InductiveSet
<1>4. Good(n)
  <2> HIDE DEF Good
  <2> QED
    BY <1>3
<1> QED
  BY <1>4

\* There is one node at a path.
LEMMA NodeUnique ==
    ASSUME MaxDepth \in Nat, NEW v, NEW K, Keyed(v, K), NEW n \in 0..MaxDepth,
           NEW x \in D!Levels(v)[n], NEW y \in D!Levels(v)[n], x.path = y.path
    PROVE  x.at = y.at
<1> DEFINE Good(m) == \A s, t \in D!Levels(v)[m] : s.path = t.path => s.at = t.at
           T == {m \in Nat : m <= MaxDepth => Good(m)}
<1>1. 0 \in T
  <2>1. Good(0)
    BY LevelsAre
  <2> QED
    BY <2>1
<1>2. ASSUME NEW m \in Nat, m + 1 <= MaxDepth, Good(m) PROVE Good(m + 1)
  <2> HIDE DEF Good
  <2>1. m + 1 \in 1..MaxDepth /\ m \in 0..MaxDepth
    BY <1>2
  <2>2. ASSUME NEW s \in D!Levels(v)[m + 1], NEW t \in D!Levels(v)[m + 1], s.path = t.path PROVE s.at = t.at
    <3>1. PICK z \in D!Levels(v)[m] : \E k \in D!Steps(z.at) : s = Node(Append(z.path, k), D!Child(z.at, k))
      BY <2>1, NodeFrom
    <3>k. PICK k \in D!Steps(z.at) : s = Node(Append(z.path, k), D!Child(z.at, k))
      BY <3>1
    <3>2. PICK w \in D!Levels(v)[m] : \E l \in D!Steps(w.at) : t = Node(Append(w.path, l), D!Child(w.at, l))
      BY <2>1, NodeFrom
    <3>l. PICK l \in D!Steps(w.at) : t = Node(Append(w.path, l), D!Child(w.at, l))
      BY <3>2
    <3>3. z.path \in Seq(K) /\ w.path \in Seq(K)
      BY <2>1, NodeShape
    <3>4. k \in K /\ l \in K
      BY <2>1, InNodes DEF Keyed
    <3>5. Append(z.path, k) = Append(w.path, l)
      BY <2>2, <3>k, <3>l DEF Node
    <3>6. z.path = w.path /\ k = l
      BY <3>3, <3>4, <3>5, SameLonger
    <3>7. z.at = w.at
      BY <1>2, <3>6 DEF Good
    <3> QED
      BY <3>k, <3>l, <3>6, <3>7 DEF Node
  <2> QED
    BY <2>2 DEF Good
<1>3. T = Nat
  <2> HIDE DEF Good
  <2>1. T \in SUBSET Nat
    OBVIOUS
  <2>2. ASSUME NEW m \in T PROVE m + 1 \in T
    BY <1>2
  <2> HIDE DEF T
  <2> QED
    BY <1>1, <2>1, <2>2, InductiveSet
<1>4. Good(n)
  <2> HIDE DEF Good
  <2> QED
    BY <1>3
<1> QED
  BY <1>4

\* So what is at a path is what its node holds.
LEMMA NodeAt ==
    ASSUME MaxDepth \in Nat, NEW v, NEW K, Keyed(v, K), NEW n \in 0..MaxDepth, NEW x \in D!Levels(v)[n]
    PROVE  x.path \in D!Paths(v) /\ D!At(v, x.path) = x.at
<1>1. x \in D!Nodes(v)
  BY InNodes
<1>2. ASSUME NEW y \in D!Nodes(v), y.path = x.path PROVE y.at = x.at
  <2>1. PICK m \in 0..MaxDepth : y \in D!Levels(v)[m]
    BY DEF D!Nodes
  <2>2. m = n
    BY <1>2, <2>1, NodeShape
  <2> QED
    BY <1>2, <2>1, <2>2, NodeUnique
<1> DEFINE chosen == CHOOSE y \in D!Nodes(v) : y.path = x.path
<1>3. chosen \in D!Nodes(v) /\ chosen.path = x.path
  BY <1>1
<1> HIDE DEF chosen
<1>4. chosen.at = x.at
  BY <1>2, <1>3
<1>5. D!At(v, x.path) = chosen.at
  BY DEF D!At, chosen
<1> QED
  BY <1>1, <1>4, <1>5 DEF D!Paths

\* A node on the way to another, and the key that leads on.
LEMMA NodeOnWay ==
    ASSUME MaxDepth \in Nat, NEW v, NEW K, Keyed(v, K), NEW n \in 0..MaxDepth, NEW x \in D!Levels(v)[n], NEW m \in 0..n
    PROVE  \E y \in D!Levels(v)[m] : y.path = SubSeq(x.path, 1, m) /\ (m < n => x.path[m + 1] \in D!Steps(y.at))
<1> DEFINE Way(s, t, i, j) == t.path = SubSeq(s.path, 1, i) /\ (i < j => s.path[i + 1] \in D!Steps(t.at))
           Good(j) == \A s \in D!Levels(v)[j] : \A i \in 0..j : \E t \in D!Levels(v)[i] : Way(s, t, i, j)
           T == {j \in Nat : j <= MaxDepth => Good(j)}
<1>0. ASSUME NEW j \in 0..MaxDepth, NEW s \in D!Levels(v)[j] PROVE Way(s, s, j, j)
  <2>1. s.path \in Seq(K) /\ Len(s.path) = j
    BY NodeShape
  <2> QED
    BY <2>1
<1>1. 0 \in T
  <2>1. Good(0)
    <3> HIDE DEF Way
    <3> QED
      BY <1>0
  <2> QED
    BY <2>1
<1>2. ASSUME NEW j \in Nat, j + 1 <= MaxDepth, Good(j) PROVE Good(j + 1)
  <2> HIDE DEF Good
  <2>1. j + 1 \in 1..MaxDepth /\ j \in 0..MaxDepth /\ j + 1 \in 0..MaxDepth
    BY <1>2
  <2>2. ASSUME NEW s \in D!Levels(v)[j + 1], NEW i \in 0..(j + 1) PROVE \E t \in D!Levels(v)[i] : Way(s, t, i, j + 1)
    <3>1. PICK z \in D!Levels(v)[j] : \E k \in D!Steps(z.at) : s = Node(Append(z.path, k), D!Child(z.at, k))
      BY <2>1, NodeFrom
    <3>k. PICK k \in D!Steps(z.at) : s = Node(Append(z.path, k), D!Child(z.at, k))
      BY <3>1
    <3>2. z.path \in Seq(K) /\ Len(z.path) = j /\ s.path = Append(z.path, k) /\ k \in K
      BY <2>1, <3>k, NodeShape, InNodes DEF Keyed, Node
    <3>3. CASE i = j + 1
      <4> HIDE DEF Way
      <4> QED
        BY <1>0, <2>1, <3>3
    <3>4. CASE i = j
      <4>1. Way(s, z, i, j + 1)
        BY <2>1, <3>2, <3>4
      <4> QED
        BY <3>4, <4>1
    <3>5. CASE i < j
      <4>1. i \in 0..j
        BY <2>1, <3>5
      <4>2. PICK t \in D!Levels(v)[i] : Way(z, t, i, j)
        BY <1>2, <4>1 DEF Good
      <4>3. SubSeq(s.path, 1, i) = SubSeq(z.path, 1, i) /\ s.path[i + 1] = z.path[i + 1]
        BY <2>1, <3>2, <3>5, <4>1
      <4>4. Way(s, t, i, j + 1)
        BY <3>5, <4>2, <4>3
      <4> QED
        BY <4>4
    <3> QED
      BY <2>1, <3>3, <3>4, <3>5
  <2>3. Good(j + 1)
    <3> HIDE DEF Way
    <3> QED
      BY <2>2 DEF Good
  <2> QED
    BY <2>3
<1>3. T = Nat
  <2> HIDE DEF Good
  <2>1. T \in SUBSET Nat
    OBVIOUS
  <2>2. ASSUME NEW j \in T PROVE j + 1 \in T
    BY <1>2
  <2> HIDE DEF T
  <2> QED
    BY <1>1, <2>1, <2>2, InductiveSet
<1>4. Good(n)
  <2> HIDE DEF Good
  <2> QED
    BY <1>3
<1> QED
  BY <1>4

\* What is in a document that may be compared: indices are keys of one item each, and
\* below every node there is a level for its parts.
LEMMA NodeGoesOn ==
    ASSUME D!Written, NEW v \in Documents, NEW K, Keyed(v, K), NEW n \in 0..MaxDepth, NEW x \in D!Levels(v)[n],
           NEW k \in D!Steps(x.at)
    PROVE  n + 1 \in 1..MaxDepth /\ Node(Append(x.path, k), D!Child(x.at, k)) \in D!Levels(v)[n + 1]
<1>1. MaxDepth \in Nat /\ (Len(x.path) = MaxDepth => D!Steps(x.at) = {})
  BY InNodes DEF D!Written
<1>2. n # MaxDepth
  BY <1>1, NodeShape
<1>3. n \in Nat /\ n + 1 \in 1..MaxDepth
  BY <1>1, <1>2
<1>4. Node(Append(x.path, k), D!Child(x.at, k)) \in NodesBelow(D!Levels(v)[n])
  BY ChildBelow
<1>5. D!Levels(v)[n + 1] = NodesBelow(D!Levels(v)[n])
  BY <1>1, <1>3, LevelBelow
<1> QED
  BY <1>3, <1>4, <1>5

\* A place of a walk.
Place(p, e, a) == [path |-> p, expected |-> e, actual |-> a]

\* A place is come to from one of the level above, and from a place the walk goes on.
LEMMA PlaceFrom ==
    ASSUME MaxDepth \in Nat, NEW e, NEW a, NEW o, NEW n \in Nat, n + 1 \in 1..MaxDepth, NEW x \in D!Places(e, a, o)[n + 1]
    PROVE  \E y \in D!Places(e, a, o)[n] : D!GoesOn(y, o) /\ \E k \in D!Steps(y.expected) \intersect D!Steps(y.actual) :
              x = Place(Append(y.path, k), D!Part(y.expected, k, o), D!Part(y.actual, k, o))
<1>1. x \in Onwards(D!Places(e, a, o)[n], o)
  <2>1. D!Places(e, a, o)[n + 1] = Onwards(D!Places(e, a, o)[(n + 1) - 1], o) /\ (n + 1) - 1 = n
    BY PlacesAre
  <2> QED
    BY <2>1
<1>2. PICK y \in D!Places(e, a, o)[n] : D!GoesOn(y, o) /\ x \in D!Below(y, o)
  BY <1>1 DEF Onwards
<1>3. \E k \in D!Steps(y.expected) \intersect D!Steps(y.actual) :
         x = Place(Append(y.path, k), D!Part(y.expected, k, o), D!Part(y.actual, k, o))
  BY <1>2 DEF D!Below, Place
<1> QED
  BY <1>2, <1>3

\* And from a place the walk goes on to every part both documents have there.
LEMMA PlaceTo ==
    ASSUME MaxDepth \in Nat, NEW e, NEW a, NEW o, NEW n \in Nat, n + 1 \in 1..MaxDepth,
           NEW y \in D!Places(e, a, o)[n], D!GoesOn(y, o), NEW k \in D!Steps(y.expected) \intersect D!Steps(y.actual)
    PROVE  Place(Append(y.path, k), D!Part(y.expected, k, o), D!Part(y.actual, k, o)) \in D!Places(e, a, o)[n + 1]
<1> DEFINE x == Place(Append(y.path, k), D!Part(y.expected, k, o), D!Part(y.actual, k, o))
<1>1. x \in D!Below(y, o)
  BY DEF D!Below, Place
<1> HIDE DEF x
<1>2. x \in Onwards(D!Places(e, a, o)[n], o)
  BY <1>1 DEF Onwards
<1>3. D!Places(e, a, o)[n + 1] = Onwards(D!Places(e, a, o)[n], o)
  <2>1. D!Places(e, a, o)[n + 1] = Onwards(D!Places(e, a, o)[(n + 1) - 1], o) /\ (n + 1) - 1 = n
    BY PlacesAre
  <2> QED
    BY <2>1
<1>4. x \in D!Places(e, a, o)[n + 1]
  BY <1>2, <1>3
<1> QED
  BY <1>4 DEF x

\* What is reported was reported at some place.
LEMMA ToldSomewhere ==
    ASSUME NEW e, NEW a, NEW o, NEW d \in D!walk(e, a, o)
    PROVE  \E n \in 0..MaxDepth : \E y \in D!Places(e, a, o)[n] : d \in D!Told(y, o)
BY DEF D!walk

\* And what is reported at a place is found.
LEMMA ToldThere ==
    ASSUME NEW e, NEW a, NEW o, NEW n \in 0..MaxDepth, NEW y \in D!Places(e, a, o)[n], NEW d \in D!Told(y, o)
    PROVE  d \in D!walk(e, a, o)
BY DEF D!walk

\* With ordered arrays, a place has the nodes that are at its path.
LEMMA PlaceIsThere ==
    ASSUME MaxDepth \in Nat, NEW e, NEW a, NEW o, ~o.unordered_arrays, NEW n \in 0..MaxDepth, NEW x \in D!Places(e, a, o)[n]
    PROVE  Node(x.path, x.expected) \in D!Levels(e)[n] /\ Node(x.path, x.actual) \in D!Levels(a)[n]
<1> DEFINE Good(m) == \A y \in D!Places(e, a, o)[m] : Node(y.path, y.expected) \in D!Levels(e)[m] /\ Node(y.path, y.actual) \in D!Levels(a)[m]
           T == {m \in Nat : m <= MaxDepth => Good(m)}
<1>1. 0 \in T
  <2>1. ASSUME NEW y \in D!Places(e, a, o)[0] PROVE Node(y.path, y.expected) \in D!Levels(e)[0] /\ Node(y.path, y.actual) \in D!Levels(a)[0]
    <3>1. y = [path |-> <<>>, expected |-> e, actual |-> a]
      BY PlacesAre
    <3>2. y.path = <<>> /\ y.expected = e /\ y.actual = a
      BY <3>1
    <3> QED
      BY <3>2, LevelsAre DEF Node
  <2> QED
    BY <2>1
<1>2. ASSUME NEW m \in Nat, m + 1 <= MaxDepth, Good(m) PROVE Good(m + 1)
  <2> HIDE DEF Good
  <2>1. m + 1 \in 1..MaxDepth
    BY <1>2
  <2>2. ASSUME NEW z \in D!Places(e, a, o)[m + 1]
        PROVE  Node(z.path, z.expected) \in D!Levels(e)[m + 1] /\ Node(z.path, z.actual) \in D!Levels(a)[m + 1]
    <3>1. PICK y \in D!Places(e, a, o)[m] : \E k \in D!Steps(y.expected) \intersect D!Steps(y.actual) :
              z = Place(Append(y.path, k), D!Part(y.expected, k, o), D!Part(y.actual, k, o))
      BY <2>1, PlaceFrom
    <3>2. PICK k \in D!Steps(y.expected) \intersect D!Steps(y.actual) :
              z = Place(Append(y.path, k), D!Part(y.expected, k, o), D!Part(y.actual, k, o))
      BY <3>1
    <3>3. Node(y.path, y.expected) \in D!Levels(e)[m] /\ Node(y.path, y.actual) \in D!Levels(a)[m]
      BY <1>2 DEF Good
    <3>4. z.path = Append(y.path, k) /\ z.expected = D!Child(y.expected, k) /\ z.actual = D!Child(y.actual, k)
      BY <3>2 DEF Place, D!Part, D!Child, D!Items
    <3> DEFINE E == Node(y.path, y.expected)
               A == Node(y.path, y.actual)
    <3>5. E.path = y.path /\ E.at = y.expected /\ A.path = y.path /\ A.at = y.actual
      BY DEF Node
    <3>6. Node(z.path, z.expected) \in NodesBelow(D!Levels(e)[m])
      <4> HIDE DEF E, A
      <4>1. E \in D!Levels(e)[m] /\ k \in D!Steps(E.at)
        BY <3>3, <3>5 DEF E
      <4> QED
        BY <3>4, <3>5, <4>1, ChildBelow
    <3>7. Node(z.path, z.actual) \in NodesBelow(D!Levels(a)[m])
      <4> HIDE DEF E, A
      <4>1. A \in D!Levels(a)[m] /\ k \in D!Steps(A.at)
        BY <3>3, <3>5 DEF A
      <4> QED
        BY <3>4, <3>5, <4>1, ChildBelow
    <3> QED
      BY <2>1, <3>6, <3>7, LevelBelow
  <2> QED
    BY <2>2 DEF Good
<1>3. T = Nat
  <2> HIDE DEF Good
  <2>1. T \in SUBSET Nat
    OBVIOUS
  <2>2. ASSUME NEW m \in T PROVE m + 1 \in T
    BY <1>2
  <2> HIDE DEF T
  <2> QED
    BY <1>1, <2>1, <2>2, InductiveSet
<1>4. Good(n)
  <2> HIDE DEF Good
  <2> QED
    BY <1>3
<1> QED
  BY <1>4

-----------------------------------------------------------------------------
(***************************************************************************)
(* Ordered arrays: what is found is so, and what is so is found.           *)
(***************************************************************************)
\* Numbers are as near to themselves as anything may be, so scalars agree where they are
\* the same.
LEMMA AgreeIsSame ==
    ASSUME NEW e, NEW a, e.type = a.type, e.type = "number" => e.v \in Int, opts.epsilon \in Nat
    PROVE  D!Agree(e, a, opts) <=> D!SameScalar(e, a)
<1>1. CASE e.type # "number"
  BY <1>1 DEF D!Agree, D!SameScalar
<1>2. CASE e.type = "number"
  <2>1. D!Exact(e) = (e.kind = "int") /\ D!Exact(a) = (a.kind = "int")
    BY <1>2 DEF D!Exact
  <2>2. ASSUME e = a PROVE D!close_enough(D!AsFloat(e), D!AsFloat(a), opts)
    <3> DEFINE f == D!AsFloat(e)
    <3>1. f \in Int
      BY <1>2 DEF D!AsFloat
    <3> HIDE DEF f
    <3>2. D!Abs(f - f) <= opts.epsilon
      BY <3>1 DEF D!Abs
    <3>3. D!close_enough(f, f, opts)
      BY <3>2 DEF D!close_enough
    <3> QED
      BY <2>2, <3>3 DEF f
  <2> QED
    BY <1>2, <2>1, <2>2 DEF D!Agree, D!SameScalar
<1> QED
  BY <1>1, <1>2

\* What the proofs of this section assume: a comparison of two documents.
Comparing(ordered) ==
    /\ D!Written /\ MaxDepth \in Nat
    /\ expected \in Documents /\ actual \in Documents /\ opts \in Options
    /\ ordered = ~opts.unordered_arrays
    /\ found = D!walk(expected, actual, opts)

\* The places of one of its levels.
CameTo(n) == D!Places(expected, actual, opts)[n]

\* Two documents have their keys in one set.
LEMMA KeysOfBoth ==
    ASSUME NEW v, NEW w
    PROVE  \E K : Keyed(v, K) /\ Keyed(w, K)
<1> DEFINE K == UNION {D!Steps(x.at) : x \in D!Nodes(v) \union D!Nodes(w)}
<1>1. Keyed(v, K) /\ Keyed(w, K)
  BY DEF Keyed
<1> QED
  BY <1>1

\* A place holds what is at its path.
LEMMA PlaceHolds ==
    ASSUME Comparing(TRUE), NEW n \in 0..MaxDepth, NEW y \in CameTo(n)
    PROVE  /\ y.path \in D!Paths(expected) /\ D!At(expected, y.path) = y.expected
           /\ y.path \in D!Paths(actual) /\ D!At(actual, y.path) = y.actual
           /\ y.expected.type = "number" => y.expected.v \in Int
<1>1. PICK K : Keyed(expected, K) /\ Keyed(actual, K)
  BY KeysOfBoth
<1>2. Node(y.path, y.expected) \in D!Levels(expected)[n] /\ Node(y.path, y.actual) \in D!Levels(actual)[n]
  BY PlaceIsThere DEF Comparing, CameTo
<1>3. Node(y.path, y.expected).path = y.path /\ Node(y.path, y.expected).at = y.expected
  BY DEF Node
<1>4. Node(y.path, y.actual).path = y.path /\ Node(y.path, y.actual).at = y.actual
  BY DEF Node
<1>5. y.path \in D!Paths(expected) /\ D!At(expected, y.path) = y.expected
  BY <1>1, <1>2, <1>3, NodeAt DEF Comparing
<1>6. y.path \in D!Paths(actual) /\ D!At(actual, y.path) = y.actual
  BY <1>1, <1>2, <1>4, NodeAt DEF Comparing
<1>7. y.expected.type = "number" => y.expected.v \in Int
  <2>1. Node(y.path, y.expected) \in D!Nodes(expected)
    BY <1>2, InNodes
  <2> QED
    BY <1>3, <2>1 DEF Comparing, D!Written
<1> QED
  BY <1>5, <1>6, <1>7

\* What is reported at a place that is not ignored, and what the documents disagree about
\* at its path.
LEMMA ToldIs ==
    ASSUME Comparing(TRUE), NEW n \in 0..MaxDepth, NEW y \in CameTo(n), ~D!is_ignored(opts, y.path)
    PROVE  /\ y.expected.type # y.actual.type =>
                 D!Told(y, opts) = {D!Difference(y.path, "type")} /\ D!Disagreement(y.path) = "type"
           /\ D!GoesOn(y, opts) /\ y.expected.type = "object" => D!Disagreement(y.path) = "none"
           /\ D!GoesOn(y, opts) /\ y.expected.type = "array" =>
                 IF Len(y.expected.items) = Len(y.actual.items)
                 THEN D!Told(y, opts) = {} /\ D!Disagreement(y.path) = "none"
                 ELSE D!Told(y, opts) = {D!Difference(y.path, "length")} /\ D!Disagreement(y.path) = "length"
           /\ D!GoesOn(y, opts) /\ y.expected.type \notin {"object", "array"} =>
                 \/ D!Told(y, opts) = {} /\ D!Disagreement(y.path) = "none"
                 \/ D!Told(y, opts) = {D!Difference(y.path, "value")} /\ D!Disagreement(y.path) = "value"
<1> DEFINE e == y.expected
           a == y.actual
<1>1. /\ y.path \in D!Paths(expected) /\ D!At(expected, y.path) = e
      /\ y.path \in D!Paths(actual) /\ D!At(actual, y.path) = a
      /\ e.type = "number" => e.v \in Int
  BY PlaceHolds
<1>2. D!Disagreement(y.path) =
         CASE e.type # a.type -> "type"
           [] e.type = "array" /\ a.type = "array" -> IF Len(e.items) = Len(a.items) THEN "none" ELSE "length"
           [] e.type = "object" /\ a.type = "object" -> "none"
           [] OTHER -> IF D!SameScalar(e, a) THEN "none" ELSE "value"
  BY <1>1 DEF D!Disagreement
<1>3. CASE e.type # a.type
  BY <1>2, <1>3 DEF D!Told, D!GoesOn
<1>4. CASE e.type = a.type
  <2>1. opts.epsilon \in Nat
    BY DEF Comparing, D!Written
  <2>2. D!Agree(e, a, opts) <=> D!SameScalar(e, a)
    BY <1>1, <1>4, <2>1, AgreeIsSame
  <2>3. CASE e.type = "object"
    <3>1. D!Disagreement(y.path) = "none"
      BY <1>2, <1>4, <2>3
    <3> QED
      BY <1>4, <2>3, <3>1
  <2>4. CASE e.type = "array"
    <3>1. D!Disagreement(y.path) = IF Len(e.items) = Len(a.items) THEN "none" ELSE "length"
      BY <1>2, <1>4, <2>4
    <3>2. D!Told(y, opts) = IF Len(e.items) = Len(a.items) THEN {} ELSE {D!Difference(y.path, "length")}
      BY <1>4, <2>4 DEF D!Told, D!GoesOn
    <3> QED
      BY <1>4, <2>4, <3>1, <3>2
  <2>5. CASE e.type \notin {"object", "array"}
    <3>1. D!Disagreement(y.path) = IF D!SameScalar(e, a) THEN "none" ELSE "value"
      BY <1>2, <1>4, <2>5
    <3>2. D!Told(y, opts) = IF D!Agree(e, a, opts) THEN {} ELSE {D!Difference(y.path, "value")}
      BY <1>4, <2>5 DEF D!Told, D!GoesOn
    <3> QED
      BY <1>4, <2>2, <2>5, <3>1, <3>2
  <2> QED
    BY <2>3, <2>4, <2>5
<1> QED
  BY <1>3, <1>4

\* A key that leads on from a path leads on from the node there.
LEMMA StepFrom ==
    ASSUME MaxDepth \in Nat, NEW v, NEW K, Keyed(v, K), NEW n \in 0..MaxDepth, NEW x \in D!Levels(v)[n],
           NEW k, Append(x.path, k) \in D!Paths(v)
    PROVE  k \in D!Steps(x.at)
<1>1. PICK m \in 0..MaxDepth : \E z \in D!Levels(v)[m] : z.path = Append(x.path, k)
  BY DEF D!Paths, D!Nodes
<1>2. PICK z \in D!Levels(v)[m] : z.path = Append(x.path, k)
  BY <1>1
<1>3. x.path \in Seq(K) /\ Len(x.path) = n /\ Len(z.path) = m
  BY NodeShape
<1>4. m = n + 1 /\ n \in 0..m /\ n < m
  BY <1>2, <1>3
<1>5. PICK y \in D!Levels(v)[n] : y.path = SubSeq(z.path, 1, n) /\ z.path[n + 1] \in D!Steps(y.at)
  BY <1>4, NodeOnWay
<1>6. SubSeq(z.path, 1, n) = x.path /\ z.path[n + 1] = k
  BY <1>2, <1>3
<1>7. y.at = x.at
  BY <1>5, <1>6, NodeUnique
<1> QED
  BY <1>5, <1>6, <1>7

\* The same, at a place.
LEMMA StepFromPlace ==
    ASSUME Comparing(TRUE), NEW n \in 0..MaxDepth, NEW y \in CameTo(n), NEW k
    PROVE  /\ Append(y.path, k) \in D!Paths(expected) <=> k \in D!Steps(y.expected)
           /\ Append(y.path, k) \in D!Paths(actual) <=> k \in D!Steps(y.actual)
<1>1. PICK K : Keyed(expected, K) /\ Keyed(actual, K)
  BY KeysOfBoth
<1> DEFINE E == Node(y.path, y.expected)
           A == Node(y.path, y.actual)
<1>2. E \in D!Levels(expected)[n] /\ A \in D!Levels(actual)[n]
  BY PlaceIsThere DEF Comparing, CameTo
<1>3. E.path = y.path /\ E.at = y.expected /\ A.path = y.path /\ A.at = y.actual
  BY DEF Node
<1> HIDE DEF E, A
<1>4. Append(y.path, k) \in D!Paths(expected) => k \in D!Steps(y.expected)
  BY <1>1, <1>2, <1>3, StepFrom DEF Comparing
<1>5. Append(y.path, k) \in D!Paths(actual) => k \in D!Steps(y.actual)
  BY <1>1, <1>2, <1>3, StepFrom DEF Comparing
<1>6. ASSUME k \in D!Steps(y.expected) PROVE Append(y.path, k) \in D!Paths(expected)
  <2>1. k \in D!Steps(E.at)
    BY <1>3, <1>6
  <2>2. n + 1 \in 1..MaxDepth /\ Node(Append(E.path, k), D!Child(E.at, k)) \in D!Levels(expected)[n + 1]
    BY <1>1, <1>2, <2>1, NodeGoesOn DEF Comparing
  <2>3. n + 1 \in 0..MaxDepth
    BY <2>2
  <2>4. Node(Append(E.path, k), D!Child(E.at, k)).path = Append(y.path, k)
    BY <1>3 DEF Node
  <2>5. Node(Append(E.path, k), D!Child(E.at, k)) \in D!Nodes(expected)
    BY <2>2, <2>3, InNodes
  <2> QED
    BY <2>4, <2>5 DEF D!Paths
<1>7. ASSUME k \in D!Steps(y.actual) PROVE Append(y.path, k) \in D!Paths(actual)
  <2>1. k \in D!Steps(A.at)
    BY <1>3, <1>7
  <2>2. n + 1 \in 1..MaxDepth /\ Node(Append(A.path, k), D!Child(A.at, k)) \in D!Levels(actual)[n + 1]
    BY <1>1, <1>2, <2>1, NodeGoesOn DEF Comparing
  <2>3. n + 1 \in 0..MaxDepth
    BY <2>2
  <2>4. Node(Append(A.path, k), D!Child(A.at, k)).path = Append(y.path, k)
    BY <1>3 DEF Node
  <2>5. Node(Append(A.path, k), D!Child(A.at, k)) \in D!Nodes(actual)
    BY <2>2, <2>3, InNodes
  <2> QED
    BY <2>4, <2>5 DEF D!Paths
<1> QED
  BY <1>4, <1>5, <1>6, <1>7

\* Nothing is reported that is not so.
LEMMA FoundIsSo ==
    ASSUME Comparing(TRUE), NEW d \in found
    PROVE  ~D!is_ignored(opts, d.path) /\ D!Disagreement(d.path) = d.kind
<1>0. d \in D!walk(expected, actual, opts)
  BY DEF Comparing
<1>1. PICK n \in 0..MaxDepth : \E y \in CameTo(n) : d \in D!Told(y, opts)
  <2>1. \E n \in 0..MaxDepth : \E y \in D!Places(expected, actual, opts)[n] : d \in D!Told(y, opts)
    BY <1>0, ToldSomewhere, Zenon
  <2> QED
    BY <2>1 DEF CameTo
<1>2. PICK y \in CameTo(n) : d \in D!Told(y, opts)
  BY <1>1
<1>3. ~D!is_ignored(opts, y.path)
  BY <1>2 DEF D!Told, D!GoesOn
<1> DEFINE e == y.expected
           a == y.actual
           Here(kind) == D!Difference(y.path, kind)
<1>4. \A p, kind : D!Difference(p, kind).path = p /\ D!Difference(p, kind).kind = kind
  BY DEF D!Difference
<1>5. CASE e.type # a.type
  <2>1. D!Told(y, opts) = {D!Difference(y.path, "type")} /\ D!Disagreement(y.path) = "type"
    BY <1>3, <1>5, ToldIs
  <2> QED
    BY <1>2, <1>3, <1>4, <2>1
<1>6. CASE e.type = a.type /\ e.type = "object"
  <2>1. d \in D!Absences(y.path, DOMAIN e.fields \ DOMAIN a.fields, "missing", opts)
              \union D!Absences(y.path, DOMAIN a.fields \ DOMAIN e.fields, "unexpected", opts)
    BY <1>2, <1>3, <1>6 DEF D!Told, D!GoesOn
  <2>2. D!Steps(e) = DOMAIN e.fields /\ D!Steps(a) = DOMAIN a.fields
    BY <1>6 DEF D!Steps
  <2>3. CASE d \in D!Absences(y.path, DOMAIN e.fields \ DOMAIN a.fields, "missing", opts)
    <3>1. PICK k \in DOMAIN e.fields \ DOMAIN a.fields :
             ~D!is_ignored(opts, Append(y.path, k)) /\ d = D!Difference(Append(y.path, k), "missing")
      BY <2>3 DEF D!Absences
    <3>2. Append(y.path, k) \notin D!Paths(actual)
      BY <2>2, StepFromPlace
    <3> QED
      BY <1>4, <3>1, <3>2 DEF D!Disagreement
  <2>4. CASE d \in D!Absences(y.path, DOMAIN a.fields \ DOMAIN e.fields, "unexpected", opts)
    <3>1. PICK k \in DOMAIN a.fields \ DOMAIN e.fields :
             ~D!is_ignored(opts, Append(y.path, k)) /\ d = D!Difference(Append(y.path, k), "unexpected")
      BY <2>4 DEF D!Absences
    <3>2. Append(y.path, k) \notin D!Paths(expected) /\ Append(y.path, k) \in D!Paths(actual)
      BY <2>2, StepFromPlace
    <3> QED
      BY <1>4, <3>1, <3>2 DEF D!Disagreement
  <2> QED
    BY <2>1, <2>3, <2>4
<1>7. CASE e.type = a.type /\ e.type = "array"
  <2>1. D!GoesOn(y, opts)
    BY <1>3, <1>7 DEF D!GoesOn
  <2>2. D!Told(y, opts) = {} \/ (D!Told(y, opts) = {D!Difference(y.path, "length")} /\ D!Disagreement(y.path) = "length")
    BY <1>3, <1>7, <2>1, ToldIs
  <2> QED
    BY <1>2, <1>3, <1>4, <2>2
<1>8. CASE e.type = a.type /\ e.type \notin {"object", "array"}
  <2>1. D!GoesOn(y, opts)
    BY <1>3, <1>8 DEF D!GoesOn
  <2>2. D!Told(y, opts) = {} \/ (D!Told(y, opts) = {D!Difference(y.path, "value")} /\ D!Disagreement(y.path) = "value")
    BY <1>3, <1>8, <2>1, ToldIs
  <2> QED
    BY <1>2, <1>3, <1>4, <2>2
<1> QED
  BY <1>5, <1>6, <1>7, <1>8

\* Items have indices.
LEMMA ItemsAtPlace ==
    ASSUME Comparing(TRUE), NEW n \in 0..MaxDepth, NEW y \in CameTo(n)
    PROVE  /\ y.expected.type = "array" => DOMAIN y.expected.items = 1..Len(y.expected.items)
           /\ y.actual.type = "array" => DOMAIN y.actual.items = 1..Len(y.actual.items)
<1> DEFINE E == Node(y.path, y.expected)
           A == Node(y.path, y.actual)
<1>1. E \in D!Levels(expected)[n] /\ A \in D!Levels(actual)[n]
  BY PlaceIsThere DEF Comparing, CameTo
<1>2. E.at = y.expected /\ A.at = y.actual
  BY DEF Node
<1> HIDE DEF E, A
<1>3. E \in D!Nodes(expected) /\ A \in D!Nodes(actual)
  BY <1>1, InNodes
<1>4. E.at.type = "array" => E.at.items \in Seq(D!Range(SerialOrder))
  BY <1>3 DEF Comparing, D!Written
<1>5. A.at.type = "array" => A.at.items \in Seq(D!Range(SerialOrder))
  BY <1>3 DEF Comparing, D!Written
<1> QED
  BY <1>2, <1>4, <1>5

\* Where nothing is reported, the walk goes on to every part either document has.
LEMMA QuietGoesOn ==
    ASSUME Comparing(TRUE), NEW n \in 0..MaxDepth, NEW y \in CameTo(n), NEW k \in D!Steps(y.expected) \union D!Steps(y.actual),
           ~D!is_ignored(opts, y.path), ~D!is_ignored(opts, Append(y.path, k)),
           \A d \in D!Told(y, opts) : d.path \notin {y.path, Append(y.path, k)}
    PROVE  D!GoesOn(y, opts) /\ k \in D!Steps(y.expected) \intersect D!Steps(y.actual)
<1> DEFINE e == y.expected
           a == y.actual
<1>1. \A p, kind : D!Difference(p, kind).path = p
  BY DEF D!Difference
<1>2. e.type = a.type
  <2> SUFFICES ASSUME e.type # a.type PROVE FALSE
    OBVIOUS
  <2>1. D!Told(y, opts) = {D!Difference(y.path, "type")}
    BY ToldIs
  <2> QED
    BY <1>1, <2>1
<1>3. D!GoesOn(y, opts)
  BY <1>2 DEF D!GoesOn
<1>4. CASE e.type = "object"
  <2>1. D!Told(y, opts) = D!Absences(y.path, DOMAIN e.fields \ DOMAIN a.fields, "missing", opts)
                          \union D!Absences(y.path, DOMAIN a.fields \ DOMAIN e.fields, "unexpected", opts)
    BY <1>2, <1>3, <1>4 DEF D!Told, D!GoesOn
  <2>2. D!Steps(e) = DOMAIN e.fields /\ D!Steps(a) = DOMAIN a.fields
    BY <1>2, <1>4 DEF D!Steps
  <2>3. ASSUME k \in DOMAIN e.fields \ DOMAIN a.fields PROVE FALSE
    <3>1. D!Difference(Append(y.path, k), "missing") \in D!Told(y, opts)
      BY <2>1, <2>3 DEF D!Absences
    <3> QED
      BY <1>1, <3>1
  <2>4. ASSUME k \in DOMAIN a.fields \ DOMAIN e.fields PROVE FALSE
    <3>1. D!Difference(Append(y.path, k), "unexpected") \in D!Told(y, opts)
      BY <2>1, <2>4 DEF D!Absences
    <3> QED
      BY <1>1, <3>1
  <2> QED
    BY <1>3, <2>2, <2>3, <2>4
<1>5. CASE e.type = "array"
  <2>1. Len(e.items) = Len(a.items)
    <3> SUFFICES ASSUME Len(e.items) # Len(a.items) PROVE FALSE
      OBVIOUS
    <3>1. D!Told(y, opts) = {D!Difference(y.path, "length")}
      BY <1>3, <1>5, ToldIs
    <3> QED
      BY <1>1, <3>1
  <2>2. DOMAIN e.items = DOMAIN a.items
    BY <1>2, <1>5, <2>1, ItemsAtPlace
  <2>3. D!Steps(e) = D!Steps(a)
    BY <1>2, <1>5, <2>2 DEF D!Steps
  <2> QED
    BY <1>3, <2>3
<1>6. CASE e.type \notin {"object", "array"}
  <2>1. D!Steps(e) = {} /\ D!Steps(a) = {}
    BY <1>2, <1>6 DEF D!Steps
  <2> QED
    BY <2>1
<1> QED
  BY <1>4, <1>5, <1>6

\* What the documents disagree about is reported, there or on the way there.
LEMMA DisagreementIsFound ==
    ASSUME Comparing(TRUE), NEW p \in D!Paths(expected) \union D!Paths(actual), D!Disagreement(p) # "none",
           \A i \in 0..Len(p) : ~D!is_ignored(opts, SubSeq(p, 1, i))
    PROVE  \E d \in found : D!IsPrefix(d.path, p)
<1> SUFFICES ASSUME \A d \in found : ~D!IsPrefix(d.path, p) PROVE FALSE
  OBVIOUS
<1>1. PICK K : Keyed(expected, K) /\ Keyed(actual, K)
  BY KeysOfBoth
<1>2. PICK w \in {expected, actual} : p \in D!Paths(w)
  OBVIOUS
<1>3. Keyed(w, K) /\ MaxDepth \in Nat
  BY <1>1 DEF Comparing
<1> DEFINE N == Len(p)
<1>4. N \in 0..MaxDepth /\ p \in Seq(K) /\ \E x \in D!Levels(w)[N] : x.path = p
  <2>1. PICK n \in 0..MaxDepth : \E z \in D!Levels(w)[n] : z.path = p
    BY <1>2 DEF D!Paths, D!Nodes
  <2>2. PICK z \in D!Levels(w)[n] : z.path = p
    BY <2>1
  <2>3. p \in Seq(K) /\ Len(p) = n
    BY <1>3, <2>2, NodeShape
  <2> QED
    BY <2>2, <2>3
<1>5. PICK x \in D!Levels(w)[N] : x.path = p
  BY <1>4
<1>6. \A i \in 0..N : D!IsPrefix(SubSeq(p, 1, i), p)
  BY <1>4 DEF D!IsPrefix
<1>7. ASSUME NEW i \in 0..N PROVE SubSeq(p, 1, i) \in D!Paths(w)
  <2> HIDE DEF N
  <2>1. PICK y \in D!Levels(w)[i] : y.path = SubSeq(p, 1, i)
    <3>1. \E y \in D!Levels(w)[i] : y.path = SubSeq(x.path, 1, i) /\ (i < N => x.path[i + 1] \in D!Steps(y.at))
      BY <1>3, <1>4, NodeOnWay
    <3> QED
      BY <1>5, <3>1
  <2>2. i \in 0..MaxDepth
    BY <1>3, <1>4
  <2>3. y \in D!Nodes(w)
    BY <2>2, InNodes
  <2> QED
    BY <2>1, <2>3 DEF D!Paths
<1>8. \A n \in 0..MaxDepth : \A y \in CameTo(n) : \A d \in D!Told(y, opts) : \A i \in 0..N : d.path # SubSeq(p, 1, i)
  BY <1>6, ToldThere DEF Comparing, CameTo
<1> DEFINE Reached(m) == \E y \in CameTo(m) : y.path = SubSeq(p, 1, m)
           T == {m \in Nat : m <= N => Reached(m)}
<1>9. Reached(0)
  <2>1. CameTo(0) = {Place(<<>>, expected, actual)}
    BY PlacesAre DEF Comparing, CameTo, Place
  <2>2. SubSeq(p, 1, 0) = <<>>
    BY <1>4
  <2>3. Place(<<>>, expected, actual).path = <<>>
    BY DEF Place
  <2> QED
    BY <2>1, <2>2, <2>3
<1>10. ASSUME NEW m \in Nat, m + 1 <= N, Reached(m) PROVE Reached(m + 1)
  <2>1. PICK y \in CameTo(m) : y.path = SubSeq(p, 1, m)
    BY <1>10
  <2> DEFINE k == p[m + 1]
  <2>2. Append(y.path, k) = SubSeq(p, 1, m + 1)
    BY <1>4, <1>10, <2>1
  <2>3. m \in 0..MaxDepth /\ m + 1 \in 1..MaxDepth /\ m \in 0..N /\ m + 1 \in 0..N
    BY <1>3, <1>4, <1>10
  <2> HIDE DEF k, N
  <2>4. k \in D!Steps(y.expected) \union D!Steps(y.actual)
    <3>1. Append(y.path, k) \in D!Paths(w)
      BY <1>7, <2>2, <2>3
    <3> QED
      BY <2>3, <3>1, <1>2, StepFromPlace
  <2>5. ~D!is_ignored(opts, y.path) /\ ~D!is_ignored(opts, Append(y.path, k))
    BY <2>1, <2>2, <2>3 DEF N
  <2>6. \A d \in D!Told(y, opts) : d.path \notin {y.path, Append(y.path, k)}
    BY <1>8, <2>1, <2>2, <2>3
  <2>7. D!GoesOn(y, opts) /\ k \in D!Steps(y.expected) \intersect D!Steps(y.actual)
    BY <2>3, <2>4, <2>5, <2>6, QuietGoesOn
  <2> DEFINE z == Place(Append(y.path, k), D!Part(y.expected, k, opts), D!Part(y.actual, k, opts))
  <2>8. z \in CameTo(m + 1)
    BY <1>3, <2>3, <2>7, PlaceTo DEF CameTo
  <2>9. z.path = Append(y.path, k)
    BY DEF Place
  <2> HIDE DEF z
  <2> QED
    BY <2>2, <2>8, <2>9
<1>11. T = Nat
  <2> HIDE DEF Reached
  <2>1. T \in SUBSET Nat /\ 0 \in T
    BY <1>9
  <2>2. ASSUME NEW m \in T PROVE m + 1 \in T
    <3>1. N \in Nat
      BY <1>3, <1>4
    <3> QED
      BY <1>10, <3>1
  <2> HIDE DEF T
  <2> QED
    BY <2>1, <2>2, InductiveSet
<1>12. Reached(N)
  <2> HIDE DEF Reached
  <2> QED
    BY <1>4, <1>11
<1>13. PICK y \in CameTo(N) : y.path = p
  <2>1. SubSeq(p, 1, N) = p
    BY <1>4
  <2> HIDE DEF N
  <2> QED
    BY <1>12, <2>1
<1>14. ~D!is_ignored(opts, p) /\ p = SubSeq(p, 1, N) /\ N \in 0..N
  <2>1. p = SubSeq(p, 1, N) /\ N \in 0..N
    BY <1>4
  <2>2. ~D!is_ignored(opts, SubSeq(p, 1, N))
    BY <2>1
  <2> HIDE DEF N
  <2> QED
    BY <2>1, <2>2, Zenon
<1>15. \A d \in D!Told(y, opts) : d.path # p
  <2> HIDE DEF N
  <2> QED
    BY <1>4, <1>8, <1>14
<1>16. \A kind : D!Difference(p, kind).path = p
  BY DEF D!Difference
<1> HIDE DEF N
<1>17. y.expected.type = y.actual.type
  BY <1>4, <1>13, <1>14, <1>15, <1>16, ToldIs
<1>18. D!GoesOn(y, opts)
  BY <1>13, <1>14, <1>17 DEF D!GoesOn
<1>19. D!Disagreement(p) = "none"
  <2>1. CASE y.expected.type = "object"
    BY <1>4, <1>13, <1>14, <1>18, <2>1, ToldIs
  <2>2. CASE y.expected.type = "array"
    BY <1>4, <1>13, <1>14, <1>15, <1>16, <1>18, <2>2, ToldIs
  <2>3. CASE y.expected.type \notin {"object", "array"}
    BY <1>4, <1>13, <1>14, <1>15, <1>16, <1>18, <2>3, ToldIs
  <2> QED
    BY <2>1, <2>2, <2>3
<1> QED
  BY <1>19

-----------------------------------------------------------------------------
(***************************************************************************)
(* Unordered arrays: the items are the same in another order, whatever     *)
(* that order is.                                                          *)
(***************************************************************************)
\* The comparison speaks of the same bijections.
LEMMA BijectionsAre ==
    ASSUME NEW S, NEW T
    PROVE  D!Bijection(S, T) = Bijection(S, T)
BY DEF D!Bijection, D!Injection, D!Surjection, D!IsInjective, Bijection, Injection, Surjection, IsInjective

\* Items with a serialized form have a rank.
LEMMA RankIsNat ==
    ASSUME D!Written, NEW v \in D!Range(SerialOrder)
    PROVE  D!Rank(v) \in Nat
<1>1. SerialOrder \in Seq(D!Range(SerialOrder))
  BY DEF D!Written
<1>2. PICK r \in DOMAIN SerialOrder : SerialOrder[r] = v
  BY DEF D!Range
<1>3. D!Rank(v) \in DOMAIN SerialOrder
  BY <1>2 DEF D!Rank
<1>4. DOMAIN SerialOrder = 1..Len(SerialOrder) /\ Len(SerialOrder) \in Nat
  BY <1>1
<1> QED
  BY <1>3, <1>4

\* A list in another order.
Arranged(s, p) == [i \in DOMAIN s |-> s[p[i]]]

\* An array's items, sorted, are its items in another order.
LEMMA SortedIs ==
    ASSUME D!Written, NEW s \in Seq(D!Range(SerialOrder))
    PROVE  \E p \in Bijection(DOMAIN s, DOMAIN s) : D!Sorted(s) = Arranged(s, p)
<1> DEFINE n == Len(s)
           h == [i \in 1..n |-> D!Rank(s[i])]
<1>1. n \in Nat /\ DOMAIN s = 1..n /\ \A i \in 1..n : s[i] \in D!Range(SerialOrder)
  OBVIOUS
<1>2. h \in [1..n -> Nat]
  BY <1>1, RankIsNat
<1>3. PICK p \in Orders(n, h) : TRUE
  <2> HIDE DEF n, h
  <2> QED
    BY <1>1, <1>2, OrderExists
<1>4. /\ p \in Bijection(1..n, 1..n) /\ p \in [1..n -> 1..n]
      /\ \A i, j \in 1..n : i < j => h[p[i]] <= h[p[j]]
  <2> HIDE DEF n, h
  <2> QED
    BY <1>3, Fun_BijectionProperties DEF Orders
<1> DEFINE t == Arranged(s, p)
           InOrder(u) == \A i, j \in DOMAIN u : i < j => D!Rank(u[i]) <= D!Rank(u[j])
<1>5. DOMAIN t = 1..n /\ \A i \in 1..n : t[i] = s[p[i]] /\ h[p[i]] = D!Rank(t[i])
  <2>1. DOMAIN t = 1..n /\ \A i \in 1..n : t[i] = s[p[i]]
    BY <1>1 DEF Arranged
  <2>2. \A i \in 1..n : p[i] \in 1..n
    BY <1>4
  <2> HIDE DEF t, n
  <2> QED
    BY <2>1, <2>2
<1> HIDE DEF h
<1>6. InOrder(t)
  <2> HIDE DEF t, n
  <2> QED
    BY <1>4, <1>5
<1>7. D!Arrangements(s) = {Arranged(s, q) : q \in Bijection(DOMAIN s, DOMAIN s)}
  BY BijectionsAre DEF D!Arrangements, Arranged
<1>8. t \in D!Arrangements(s)
  <2>1. p \in Bijection(DOMAIN s, DOMAIN s)
    BY <1>1, <1>4
  <2> QED
    BY <1>7, <2>1
<1>9. D!Sorted(s) \in D!Arrangements(s)
  <2> HIDE DEF t
  <2>1. \E u \in D!Arrangements(s) : \A i, j \in DOMAIN u : i < j => D!Rank(u[i]) <= D!Rank(u[j])
    BY <1>6, <1>8
  <2> HIDE DEF InOrder
  <2> QED
    BY <2>1 DEF D!Sorted
<1> QED
  BY <1>7, <1>9

\* Arrays of the same items, in another order, are sorted the same.
LEMMA SortedAlike ==
    ASSUME NEW s, NEW t, NEW f \in Bijection(DOMAIN s, DOMAIN t), DOMAIN s = DOMAIN t,
           \A i \in DOMAIN s : s[i] = t[f[i]]
    PROVE  D!Sorted(s) = D!Sorted(t)
<1> DEFINE I == DOMAIN s
<1>1. ASSUME NEW g \in Bijection(I, I), NEW u, NEW w, DOMAIN u = I, DOMAIN w = I, \A i \in I : u[i] = w[g[i]]
      PROVE  D!Arrangements(u) \subseteq D!Arrangements(w)
  <2> HIDE DEF I
  <2> SUFFICES ASSUME NEW p \in Bijection(I, I) PROVE Arranged(u, p) \in D!Arrangements(w)
    BY <1>1, BijectionsAre DEF D!Arrangements, Arranged
  <2> DEFINE q == [i \in I |-> g[p[i]]]
  <2>1. q \in Bijection(I, I)
    BY Fun_BijTransitive
  <2>2. Arranged(u, p) = Arranged(w, q)
    <3>1. p \in [I -> I]
      BY Fun_BijectionProperties
    <3> QED
      BY <1>1, <3>1 DEF Arranged
  <2> HIDE DEF q
  <2>3. D!Arrangements(w) = {Arranged(w, r) : r \in Bijection(I, I)}
    BY <1>1, BijectionsAre DEF D!Arrangements, Arranged
  <2> QED
    BY <2>1, <2>2, <2>3
<1>2. PICK g \in Bijection(I, I) : \A i \in I : g[f[i]] = i
  <2>1. f \in Bijection(I, I)
    OBVIOUS
  <2> HIDE DEF I
  <2>2. Inverse(f, I, I) \in Bijection(I, I) /\ \A i \in I : Inverse(f, I, I)[f[i]] = i
    BY <2>1, Fun_BijInverse
  <2> QED
    BY <2>2
<1>3. \A i \in I : t[i] = s[g[i]]
  <2>1. \A i \in I : \E j \in I : f[j] = i
    BY Fun_BijectionProperties
  <2>2. ASSUME NEW i \in I PROVE t[i] = s[g[i]]
    <3>1. PICK j \in I : f[j] = i
      BY <2>1
    <3> QED
      BY <1>2, <3>1
  <2> QED
    BY <2>2
<1>4. D!Arrangements(s) \subseteq D!Arrangements(t)
  BY <1>1
<1>5. D!Arrangements(t) \subseteq D!Arrangements(s)
  BY <1>1, <1>2, <1>3
<1>6. D!Arrangements(s) = D!Arrangements(t)
  BY <1>4, <1>5
<1> QED
  BY <1>6 DEF D!Sorted

\* What there is to know of a node that is so deep in a document.
Sound(v, n) ==
    /\ n = MaxDepth => D!Steps(v) = {}
    /\ v.type = "object" => v = [type |-> "object", fields |-> [k \in DOMAIN v.fields |-> v.fields[k]]]
    /\ v.type = "array" =>
          /\ v = [type |-> "array", items |-> v.items]
          /\ v.items \in Seq(D!Range(SerialOrder)) /\ Len(v.items) <= Len(Indices)
    /\ v.type = "number" => v.v \in Int

\* All nodes are so, and parts of their document.
LEMMA NodeIsSound ==
    ASSUME D!Written, NEW v \in Documents, NEW n \in 0..MaxDepth, NEW x \in D!Levels(v)[n]
    PROVE  Sound(x.at, n) /\ x.at \in D!Parts(v)
<1>1. x \in D!Nodes(v) /\ MaxDepth \in Nat
  BY InNodes DEF D!Written
<1>2. PICK K : Keyed(v, K) /\ Keyed(v, K)
  BY KeysOfBoth
<1>3. Len(x.path) = n
  BY <1>1, <1>2, NodeShape
<1>4. Sound(x.at, n)
  BY <1>1, <1>3 DEF D!Written, Sound
<1> QED
  BY <1>1, <1>4 DEF D!Parts

\* Each item of an array has its own key.
LEMMA ItemsAreKeyed ==
    ASSUME D!Written, NEW n, NEW v, Sound(v, n), v.type = "array"
    PROVE  /\ DOMAIN v.items = 1..Len(v.items) /\ Len(v.items) \in Nat
           /\ \A i \in DOMAIN v.items : Indices[i] \in D!Steps(v) /\ D!PlaceOf(Indices[i]) = i
           /\ \A k \in D!Steps(v) : D!PlaceOf(k) \in DOMAIN v.items /\ Indices[D!PlaceOf(k)] = k
<1>1. DOMAIN v.items = 1..Len(v.items) /\ Len(v.items) \in Nat
  BY DEF Sound
<1>2. Indices \in Seq(D!Range(Indices)) /\ Len(v.items) <= Len(Indices)
  BY DEF Sound, D!Written
<1>3. DOMAIN v.items \subseteq DOMAIN Indices
  BY <1>1, <1>2
<1>4. \A i, j \in DOMAIN Indices : Indices[i] = Indices[j] => i = j
  BY DEF D!Written, D!IsInjective
<1>5. ASSUME NEW i \in DOMAIN v.items PROVE D!PlaceOf(Indices[i]) = i
  BY <1>3, <1>4 DEF D!PlaceOf
<1>6. D!Steps(v) = {Indices[i] : i \in DOMAIN v.items}
  BY DEF D!Steps
<1> QED
  BY <1>1, <1>5, <1>6

\* Unordered, the items of an array are compared in another order.
LEMMA ItemsAreArranged ==
    ASSUME D!Written, NEW n, NEW v, Sound(v, n), v.type = "array", NEW o, o.unordered_arrays \in BOOLEAN
    PROVE  \E p \in Bijection(DOMAIN v.items, DOMAIN v.items) : D!Items(v, o) = Arranged(v.items, p)
<1>1. v.items \in Seq(D!Range(SerialOrder))
  BY DEF Sound
<1>2. CASE o.unordered_arrays
  BY <1>1, <1>2, SortedIs DEF D!Items
<1>3. CASE ~o.unordered_arrays
  <2> DEFINE I == DOMAIN v.items
             p == [i \in I |-> i]
  <2>1. p \in Bijection(I, I)
    BY DEF Bijection, Injection, Surjection, IsInjective
  <2>2. Arranged(v.items, p) = v.items
    <3>1. v.items = [i \in I |-> v.items[i]]
      BY <1>1
    <3>2. Arranged(v.items, p) = [i \in I |-> v.items[i]]
      BY DEF Arranged
    <3> QED
      BY <3>1, <3>2
  <2>3. D!Items(v, o) = v.items
    BY <1>3 DEF D!Items
  <2> HIDE DEF p
  <2> QED
    BY <2>1, <2>2, <2>3
<1> QED
  BY <1>2, <1>3

\* What goes by a key in the comparison is a part of the document, if not the one that
\* goes by that key in the document.
LEMMA PartIsChild ==
    ASSUME D!Written, NEW n, NEW v, Sound(v, n), NEW o, o.unordered_arrays \in BOOLEAN, NEW k \in D!Steps(v)
    PROVE  \E l \in D!Steps(v) : D!Part(v, k, o) = D!Child(v, l)
<1>1. CASE v.type = "object"
  BY <1>1 DEF D!Part, D!Child
<1>2. CASE v.type = "array"
  <2>1. PICK p \in Bijection(DOMAIN v.items, DOMAIN v.items) : D!Items(v, o) = Arranged(v.items, p)
    BY <1>2, ItemsAreArranged
  <2>2. p \in [DOMAIN v.items -> DOMAIN v.items]
    BY Fun_BijectionProperties
  <2> DEFINE i == D!PlaceOf(k)
  <2>3. i \in DOMAIN v.items
    BY <1>2, ItemsAreKeyed
  <2> HIDE DEF i
  <2>4. p[i] \in DOMAIN v.items
    BY <2>2, <2>3
  <2>5. Indices[p[i]] \in D!Steps(v) /\ D!PlaceOf(Indices[p[i]]) = p[i]
    BY <1>2, <2>4, ItemsAreKeyed
  <2>6. D!Part(v, k, o) = v.items[p[i]]
    <3>1. D!Part(v, k, o) = D!Items(v, o)[i]
      BY <1>2 DEF D!Part, i
    <3> QED
      BY <2>1, <2>3, <3>1 DEF Arranged
  <2>7. D!Child(v, Indices[p[i]]) = v.items[p[i]]
    BY <1>2, <2>5 DEF D!Child
  <2> QED
    BY <2>5, <2>6, <2>7
<1>3. CASE v.type \notin {"object", "array"}
  BY <1>3 DEF D!Steps
<1> QED
  BY <1>1, <1>2, <1>3

\* However arrays are compared, what is compared is in the documents, as deep in them as
\* the walk has come.
LEMMA PlaceHasNodes ==
    ASSUME NEW u, Comparing(u), NEW n \in 0..MaxDepth, NEW y \in CameTo(n)
    PROVE  /\ \E x \in D!Levels(expected)[n] : x.at = y.expected
           /\ \E x \in D!Levels(actual)[n] : x.at = y.actual
<1> DEFINE In(v, w, m) == \E x \in D!Levels(w)[m] : x.at = v
           Good(m) == \A z \in CameTo(m) : In(z.expected, expected, m) /\ In(z.actual, actual, m)
           T == {m \in Nat : m <= MaxDepth => Good(m)}
<1>0. MaxDepth \in Nat /\ D!Written /\ opts.unordered_arrays \in BOOLEAN /\ expected \in Documents /\ actual \in Documents
  BY DEF Comparing, D!Written
<1>1. 0 \in T
  <2>1. ASSUME NEW z \in CameTo(0) PROVE In(z.expected, expected, 0) /\ In(z.actual, actual, 0)
    <3>1. z = [path |-> <<>>, expected |-> expected, actual |-> actual]
      BY <1>0, PlacesAre DEF CameTo
    <3>2. z.expected = expected /\ z.actual = actual
      BY <3>1
    <3>3. ASSUME NEW w PROVE In(w, w, 0)
      <4>1. D!Levels(w)[0] = {[path |-> <<>>, at |-> w]}
        BY <1>0, LevelsAre
      <4>2. [path |-> <<>>, at |-> w].at = w
        OBVIOUS
      <4> QED
        BY <4>1, <4>2
    <3> HIDE DEF In
    <3> QED
      BY <3>2, <3>3
  <2> HIDE DEF In
  <2> QED
    BY <2>1
<1>2. ASSUME NEW m \in Nat, m + 1 <= MaxDepth, NEW w \in Documents, NEW v, In(v, w, m), NEW k \in D!Steps(v)
      PROVE  In(D!Part(v, k, opts), w, m + 1)
  <2>1. m \in 0..MaxDepth /\ m + 1 \in 1..MaxDepth
    BY <1>0, <1>2
  <2>2. PICK x \in D!Levels(w)[m] : x.at = v
    BY <1>2
  <2>3. Sound(v, m)
    BY <1>0, <2>1, <2>2, NodeIsSound
  <2>4. PICK l \in D!Steps(v) : D!Part(v, k, opts) = D!Child(v, l)
    BY <1>0, <2>3, PartIsChild
  <2> DEFINE child == Node(Append(x.path, l), D!Child(x.at, l))
  <2>5. child \in NodesBelow(D!Levels(w)[m])
    BY <2>2, ChildBelow
  <2>6. child.at = D!Part(v, k, opts)
    BY <2>2, <2>4 DEF Node
  <2>7. D!Levels(w)[m + 1] = NodesBelow(D!Levels(w)[m])
    BY <1>0, <2>1, LevelBelow
  <2> HIDE DEF child
  <2> QED
    BY <2>5, <2>6, <2>7
<1>3. ASSUME NEW m \in Nat, m + 1 <= MaxDepth, Good(m) PROVE Good(m + 1)
  <2> SUFFICES ASSUME NEW z \in CameTo(m + 1) PROVE In(z.expected, expected, m + 1) /\ In(z.actual, actual, m + 1)
    OBVIOUS
  <2> HIDE DEF In
  <2>1. m + 1 \in 1..MaxDepth
    BY <1>0, <1>3
  <2>2. PICK w \in CameTo(m) : \E k \in D!Steps(w.expected) \intersect D!Steps(w.actual) :
            z = Place(Append(w.path, k), D!Part(w.expected, k, opts), D!Part(w.actual, k, opts))
    BY <1>0, <2>1, PlaceFrom DEF CameTo
  <2>3. PICK k \in D!Steps(w.expected) \intersect D!Steps(w.actual) :
            z = Place(Append(w.path, k), D!Part(w.expected, k, opts), D!Part(w.actual, k, opts))
    BY <2>2
  <2>4. z.expected = D!Part(w.expected, k, opts) /\ z.actual = D!Part(w.actual, k, opts)
    BY <2>3 DEF Place
  <2>5. In(w.expected, expected, m) /\ In(w.actual, actual, m)
    BY <1>3
  <2>6. k \in D!Steps(w.expected) /\ k \in D!Steps(w.actual)
    OBVIOUS
  <2>7. In(D!Part(w.expected, k, opts), expected, m + 1)
    BY <1>0, <1>2, <1>3, <2>5, <2>6
  <2>8. In(D!Part(w.actual, k, opts), actual, m + 1)
    BY <1>0, <1>2, <1>3, <2>5, <2>6
  <2> QED
    BY <2>4, <2>7, <2>8
<1>4. T = Nat
  <2> HIDE DEF Good
  <2>1. T \in SUBSET Nat
    OBVIOUS
  <2>2. ASSUME NEW m \in T PROVE m + 1 \in T
    BY <1>0, <1>3
  <2> HIDE DEF T
  <2> QED
    BY <1>1, <2>1, <2>2, InductiveSet
<1>5. Good(n)
  <2> HIDE DEF Good
  <2> QED
    BY <1>0, <1>4
<1> QED
  BY <1>5

\* So what is compared at a place is sound, and a part of the documents.
LEMMA PlaceIsSound ==
    ASSUME NEW u, Comparing(u), NEW n \in 0..MaxDepth, NEW y \in CameTo(n)
    PROVE  /\ Sound(y.expected, n) /\ y.expected \in D!Parts(expected)
           /\ Sound(y.actual, n) /\ y.actual \in D!Parts(actual)
<1>1. D!Written /\ expected \in Documents /\ actual \in Documents
  BY DEF Comparing
<1>2. PICK e \in D!Levels(expected)[n] : e.at = y.expected
  BY PlaceHasNodes
<1>3. PICK a \in D!Levels(actual)[n] : a.at = y.actual
  BY PlaceHasNodes
<1>4. Sound(e.at, n) /\ e.at \in D!Parts(expected)
  BY <1>1, NodeIsSound
<1>5. Sound(a.at, n) /\ a.at \in D!Parts(actual)
  BY <1>1, NodeIsSound
<1> QED
  BY <1>2, <1>3, <1>4, <1>5

-----------------------------------------------------------------------------
(***************************************************************************)
(* Unordered arrays, compared as multisets.                                *)
(***************************************************************************)
\* A comparison that ignores nothing and does not mind the order of arrays.
Unordered == Comparing(FALSE) /\ opts.ignore_paths = {}

\* What such a comparison has.
LEMMA NothingIsIgnored ==
    ASSUME Unordered
    PROVE  /\ \A p : ~D!is_ignored(opts, p)
           /\ D!Written /\ MaxDepth \in Nat /\ opts.unordered_arrays \in BOOLEAN /\ opts.epsilon \in Nat
           /\ found = D!walk(expected, actual, opts)
BY DEF Unordered, Comparing, D!is_ignored, D!Written

\* What is reported at a place, type by type.
LEMMA ToldUnordered ==
    ASSUME Unordered, NEW y
    PROVE  /\ y.expected.type # y.actual.type => D!Told(y, opts) # {}
           /\ y.expected.type = y.actual.type =>
                 /\ D!GoesOn(y, opts)
                 /\ y.expected.type = "object" =>
                       (D!Told(y, opts) = {} <=> DOMAIN y.expected.fields = DOMAIN y.actual.fields)
                 /\ y.expected.type = "array" =>
                       (D!Told(y, opts) = {} <=> Len(y.expected.items) = Len(y.actual.items))
                 /\ y.expected.type \notin {"object", "array"} =>
                       (D!Told(y, opts) = {} <=> D!Agree(y.expected, y.actual, opts))
<1> DEFINE e == y.expected
           a == y.actual
<1>1. \A p : ~D!is_ignored(opts, p)
  BY NothingIsIgnored
<1>2. CASE e.type # a.type
  BY <1>1, <1>2 DEF D!Told, D!GoesOn
<1>3. CASE e.type = a.type
  <2>1. D!GoesOn(y, opts)
    BY <1>1, <1>3 DEF D!GoesOn
  <2>2. CASE e.type = "object"
    <3>1. D!Told(y, opts) = D!Absences(y.path, DOMAIN e.fields \ DOMAIN a.fields, "missing", opts)
                            \union D!Absences(y.path, DOMAIN a.fields \ DOMAIN e.fields, "unexpected", opts)
      BY <1>1, <1>3, <2>1, <2>2 DEF D!Told
    <3>2. \A keys, kind : D!Absences(y.path, keys, kind, opts) = {} <=> keys = {}
      BY <1>1 DEF D!Absences
    <3>3. D!Told(y, opts) = {} <=> DOMAIN e.fields \ DOMAIN a.fields = {} /\ DOMAIN a.fields \ DOMAIN e.fields = {}
      BY <3>1, <3>2
    <3>4. D!Told(y, opts) = {} <=> DOMAIN e.fields = DOMAIN a.fields
      BY <3>3
    <3> QED
      BY <1>3, <2>1, <2>2, <3>4
  <2>3. CASE e.type = "array"
    <3>1. D!Told(y, opts) = IF Len(e.items) = Len(a.items) THEN {} ELSE {D!Difference(y.path, "length")}
      BY <1>1, <1>3, <2>1, <2>3 DEF D!Told
    <3> QED
      BY <1>3, <2>1, <2>3, <3>1
  <2>4. CASE e.type \notin {"object", "array"}
    <3>1. D!Told(y, opts) = IF D!Agree(e, a, opts) THEN {} ELSE {D!Difference(y.path, "value")}
      BY <1>1, <1>3, <2>1, <2>4 DEF D!Told
    <3> QED
      BY <1>3, <2>1, <2>4, <3>1
  <2> QED
    BY <2>2, <2>3, <2>4
<1> QED
  BY <1>2, <1>3

\* Scalars agree where they are the same.
LEMMA ScalarsAgree ==
    ASSUME Unordered, NEW n \in 0..MaxDepth, NEW y \in CameTo(n), y.expected.type = y.actual.type
    PROVE  D!Agree(y.expected, y.actual, opts) <=> D!SameScalar(y.expected, y.actual)
<1>1. y.expected.type = "number" => y.expected.v \in Int
  BY PlaceIsSound DEF Unordered, Sound
<1> QED
  BY <1>1, NothingIsIgnored, AgreeIsSame

\* Arrays are alike whose sorted items are.
LEMMA SortedIsAlike ==
    ASSUME D!Written, NEW n, NEW e, Sound(e, n), e.type = "array", NEW a, Sound(a, n), a.type = "array",
           NEW o, o.unordered_arrays \in BOOLEAN, Len(e.items) = Len(a.items), NEW same,
           \A k \in D!Steps(e) \intersect D!Steps(a) : <<D!Part(e, k, o), D!Part(a, k, o)>> \in same
    PROVE  D!Alike(e, a, same)
<1> DEFINE I == DOMAIN e.items
<1>1. I = DOMAIN a.items
  BY ItemsAreKeyed
<1>2. PICK p \in Bijection(I, I) : D!Items(e, o) = Arranged(e.items, p)
  BY ItemsAreArranged
<1>3. PICK q \in Bijection(I, I) : D!Items(a, o) = Arranged(a.items, q)
  BY <1>1, ItemsAreArranged
<1> HIDE DEF I
<1> DEFINE back == Inverse(p, I, I)
<1>4. back \in Bijection(I, I)
  BY Fun_BijInverse
<1>5. \A i \in I : p[i] \in I /\ back[p[i]] = i
  BY Fun_BijInverse, Fun_BijectionProperties
<1>6. ASSUME NEW j \in I PROVE back[j] \in I /\ p[back[j]] = j
  <2>1. PICK i \in I : p[i] = j
    BY Fun_BijectionProperties
  <2> HIDE DEF back
  <2> QED
    BY <1>5, <2>1
<1> HIDE DEF back
<1> DEFINE f == [j \in I |-> q[back[j]]]
<1>7. f \in Bijection(I, I)
  BY <1>4, Fun_BijTransitive
<1>8. ASSUME NEW j \in I PROVE <<e.items[j], a.items[f[j]]>> \in same
  <2> DEFINE i == back[j]
             k == Indices[i]
  <2>1. i \in I /\ p[i] = j /\ f[j] = q[i]
    BY <1>6
  <2> HIDE DEF i
  <2>2. k \in D!Steps(e) /\ k \in D!Steps(a) /\ D!PlaceOf(k) = i
    <3>1. i \in DOMAIN e.items /\ i \in DOMAIN a.items
      BY <1>1, <2>1 DEF I
    <3> QED
      BY <3>1, ItemsAreKeyed
  <2> HIDE DEF k, f
  <2>3. D!Part(e, k, o) = e.items[j]
    BY <1>2, <2>1, <2>2 DEF D!Part, Arranged, I
  <2>4. D!Part(a, k, o) = a.items[f[j]]
    <3>1. i \in DOMAIN a.items
      BY <1>1, <2>1
    <3> QED
      BY <1>3, <2>1, <2>2, <3>1 DEF D!Part, Arranged
  <2> QED
    BY <2>2, <2>3, <2>4
<1> HIDE DEF f
<1>9. f \in D!Bijection(DOMAIN e.items, DOMAIN a.items)
  BY <1>1, <1>7, BijectionsAre DEF I
<1>10. \A j \in DOMAIN e.items : <<e.items[j], a.items[f[j]]>> \in same
  BY <1>8 DEF I
<1> QED
  BY <1>9, <1>10 DEF D!Alike

\* What is at a place where nothing is reported is alike, if its parts are the same.
LEMMA QuietIsAlike ==
    ASSUME Unordered, NEW n \in 0..MaxDepth, NEW y \in CameTo(n), D!Told(y, opts) = {}, NEW same,
           \A k \in D!Steps(y.expected) \intersect D!Steps(y.actual) :
              <<D!Part(y.expected, k, opts), D!Part(y.actual, k, opts)>> \in same
    PROVE  D!Alike(y.expected, y.actual, same)
<1> DEFINE e == y.expected
           a == y.actual
<1>1. e.type = a.type
  BY ToldUnordered
<1>2. Sound(e, n) /\ Sound(a, n) /\ D!Written /\ opts.unordered_arrays \in BOOLEAN
  BY PlaceIsSound, NothingIsIgnored DEF Unordered
<1>3. CASE e.type = "object"
  <2>1. DOMAIN e.fields = DOMAIN a.fields
    BY <1>1, <1>3, ToldUnordered
  <2>2. D!Steps(e) = DOMAIN e.fields /\ D!Steps(a) = DOMAIN e.fields
    BY <1>1, <1>3, <2>1 DEF D!Steps
  <2>3. \A k : D!Part(e, k, opts) = e.fields[k] /\ D!Part(a, k, opts) = a.fields[k]
    BY <1>1, <1>3 DEF D!Part
  <2>4. ASSUME NEW k \in DOMAIN e.fields PROVE <<e.fields[k], a.fields[k]>> \in same
    <3>1. <<D!Part(e, k, opts), D!Part(a, k, opts)>> \in same
      BY <2>2
    <3> QED
      BY <2>3, <3>1
  <2> QED
    BY <1>1, <1>3, <2>1, <2>4 DEF D!Alike
<1>4. CASE e.type = "array"
  <2>1. Len(e.items) = Len(a.items)
    BY <1>1, <1>4, ToldUnordered
  <2>2. e.type = "array" /\ a.type = "array"
    BY <1>1, <1>4
  <2>3. \A k \in D!Steps(e) \intersect D!Steps(a) : <<D!Part(e, k, opts), D!Part(a, k, opts)>> \in same
    OBVIOUS
  <2> HIDE DEF e, a
  <2>4. D!Alike(e, a, same)
    BY <1>2, <2>1, <2>2, <2>3, SortedIsAlike
  <2> QED
    BY <2>4 DEF e, a
<1>5. CASE e.type \notin {"object", "array"}
  <2>1. D!SameScalar(e, a)
    BY <1>1, <1>5, ToldUnordered, ScalarsAgree
  <2> QED
    BY <1>1, <1>5, <2>1 DEF D!Alike
<1> QED
  BY <1>3, <1>4, <1>5

\* What is the same down to so many levels.
Same(n) == D!SameUpTo(expected, actual)[n]

\* What is the same to one level more.
LEMMA SameAbove ==
    ASSUME MaxDepth \in Nat, NEW n \in 0..MaxDepth
    PROVE  Same(n + 1) = {pair \in D!Parts(expected) \X D!Parts(actual) : D!Alike(pair[1], pair[2], Same(n))}
<1>1. n + 1 \in 1..(MaxDepth + 1) /\ (n + 1) - 1 = n
  OBVIOUS
<1> QED
  BY <1>1, SameIs DEF Same

\* So documents in which nothing is reported are the same as multisets.
LEMMA QuietIsSame ==
    ASSUME Unordered, found = {}
    PROVE  D!SameBag(expected, actual)
<1>0. MaxDepth \in Nat /\ found = D!walk(expected, actual, opts)
  BY NothingIsIgnored
<1> DEFINE Good(j) == \A n \in 0..MaxDepth : n + j = MaxDepth => \A y \in CameTo(n) : <<y.expected, y.actual>> \in Same(j + 1)
           T == {j \in Nat : j <= MaxDepth => Good(j)}
<1>1. ASSUME NEW n \in 0..MaxDepth, NEW j \in 0..MaxDepth, NEW y \in CameTo(n),
             \A k \in D!Steps(y.expected) \intersect D!Steps(y.actual) :
                <<D!Part(y.expected, k, opts), D!Part(y.actual, k, opts)>> \in Same(j)
      PROVE  <<y.expected, y.actual>> \in Same(j + 1)
  <2>1. D!Told(y, opts) = {}
    BY <1>0, ToldThere DEF CameTo
  <2>2. D!Alike(y.expected, y.actual, Same(j))
    BY <1>1, <2>1, QuietIsAlike
  <2>3. y.expected \in D!Parts(expected) /\ y.actual \in D!Parts(actual)
    BY PlaceIsSound DEF Unordered
  <2> QED
    BY <1>0, <2>2, <2>3, SameAbove
<1>2. Good(0)
  <2> SUFFICES ASSUME NEW n \in 0..MaxDepth, n + 0 = MaxDepth, NEW y \in CameTo(n)
               PROVE  <<y.expected, y.actual>> \in Same(0 + 1)
    OBVIOUS
  <2>1. n = MaxDepth /\ 0 \in 0..MaxDepth
    BY <1>0
  <2>2. D!Steps(y.expected) = {}
    BY <2>1, PlaceIsSound DEF Unordered, Sound
  <2> QED
    BY <1>1, <2>1, <2>2
<1>3. ASSUME NEW j \in Nat, j + 1 <= MaxDepth, Good(j) PROVE Good(j + 1)
  <2> SUFFICES ASSUME NEW n \in 0..MaxDepth, n + (j + 1) = MaxDepth, NEW y \in CameTo(n)
               PROVE  <<y.expected, y.actual>> \in Same((j + 1) + 1)
    OBVIOUS
  <2>1. n \in Nat /\ n + 1 \in 1..MaxDepth /\ n + 1 \in 0..MaxDepth /\ (n + 1) + j = MaxDepth /\ j + 1 \in 0..MaxDepth
    BY <1>0, <1>3
  <2>2. ASSUME NEW k \in D!Steps(y.expected) \intersect D!Steps(y.actual)
        PROVE  <<D!Part(y.expected, k, opts), D!Part(y.actual, k, opts)>> \in Same(j + 1)
    <3> DEFINE z == Place(Append(y.path, k), D!Part(y.expected, k, opts), D!Part(y.actual, k, opts))
    <3>1. D!Told(y, opts) = {}
      BY <1>0, ToldThere DEF CameTo
    <3>2. D!GoesOn(y, opts)
      BY <3>1, ToldUnordered
    <3>3. z \in CameTo(n + 1)
      BY <1>0, <2>1, <3>2, PlaceTo DEF CameTo
    <3>4. z.expected = D!Part(y.expected, k, opts) /\ z.actual = D!Part(y.actual, k, opts)
      BY DEF Place
    <3> HIDE DEF z
    <3>5. <<z.expected, z.actual>> \in Same(j + 1)
      BY <1>3, <2>1, <3>3
    <3> QED
      BY <3>4, <3>5
  <2> HIDE DEF Good
  <2> QED
    BY <1>1, <2>1, <2>2
<1>4. T = Nat
  <2> HIDE DEF Good
  <2>1. T \in SUBSET Nat /\ 0 \in T
    BY <1>2
  <2>2. ASSUME NEW j \in T PROVE j + 1 \in T
    BY <1>0, <1>3
  <2> HIDE DEF T
  <2> QED
    BY <2>1, <2>2, InductiveSet
<1>5. Good(MaxDepth)
  <2> HIDE DEF Good
  <2> QED
    BY <1>0, <1>4
<1>6. Place(<<>>, expected, actual) \in CameTo(0)
  BY <1>0, PlacesAre DEF CameTo, Place
<1>7. Place(<<>>, expected, actual).expected = expected /\ Place(<<>>, expected, actual).actual = actual
  BY DEF Place
<1>8. 0 \in 0..MaxDepth /\ 0 + MaxDepth = MaxDepth
  BY <1>0
<1>9. <<expected, actual>> \in Same(MaxDepth + 1)
  BY <1>5, <1>6, <1>7, <1>8
<1> QED
  BY <1>9 DEF D!SameBag, Same

\* Parts of a document are sound.
LEMMA PartIsSound ==
    ASSUME D!Written, NEW w \in Documents, NEW v \in D!Parts(w)
    PROVE  \E n \in 0..MaxDepth : Sound(v, n)
<1>1. PICK x \in D!Nodes(w) : x.at = v
  BY DEF D!Parts
<1>2. PICK n \in 0..MaxDepth : x \in D!Levels(w)[n]
  BY DEF D!Nodes
<1> QED
  BY <1>1, <1>2, NodeIsSound

\* What is the same is alike.
LEMMA SameIsAlike ==
    ASSUME MaxDepth \in Nat, NEW n \in 0..(MaxDepth + 1), NEW v, NEW w, <<v, w>> \in Same(n)
    PROVE  v \in D!Parts(expected) /\ w \in D!Parts(actual) /\ \E same : D!Alike(v, w, same)
<1>1. n # 0
  BY SameIs DEF Same
<1>2. n - 1 \in 0..MaxDepth /\ (n - 1) + 1 = n
  BY <1>1
<1>3. <<v, w>> \in {pair \in D!Parts(expected) \X D!Parts(actual) : D!Alike(pair[1], pair[2], Same(n - 1))}
  <2>1. Same((n - 1) + 1) = {pair \in D!Parts(expected) \X D!Parts(actual) : D!Alike(pair[1], pair[2], Same(n - 1))}
    BY <1>2, SameAbove
  <2> QED
    BY <1>2, <2>1
<1> QED
  BY <1>3

\* Exact scalars, and empty containers, are the same only if they are equal.
LEMMA SameIsEqual ==
    ASSUME Unordered, NEW n \in 0..(MaxDepth + 1), NEW v, NEW w, <<v, w>> \in Same(n),
           D!Steps(v) = {}, D!Exact(v), D!Exact(w)
    PROVE  v = w
<1>1. MaxDepth \in Nat /\ D!Written /\ expected \in Documents /\ actual \in Documents
  BY DEF Unordered, Comparing
<1>2. v \in D!Parts(expected) /\ w \in D!Parts(actual)
  BY <1>1, SameIsAlike
<1>3. PICK same : D!Alike(v, w, same)
  BY <1>1, SameIsAlike
<1>4. PICK i \in 0..MaxDepth : Sound(v, i)
  BY <1>1, <1>2, PartIsSound
<1>5. PICK j \in 0..MaxDepth : Sound(w, j)
  BY <1>1, <1>2, PartIsSound
<1>6. v.type = w.type
  BY <1>3 DEF D!Alike
<1>7. CASE v.type = "object"
  <2>1. DOMAIN v.fields = {} /\ DOMAIN w.fields = {}
    BY <1>3, <1>7 DEF D!Alike, D!Steps
  <2>2. v = [type |-> "object", fields |-> [k \in {} |-> v.fields[k]]]
    BY <1>4, <1>7, <2>1 DEF Sound
  <2>3. w = [type |-> "object", fields |-> [k \in {} |-> w.fields[k]]]
    BY <1>5, <1>6, <1>7, <2>1 DEF Sound
  <2>4. [k \in {} |-> v.fields[k]] = [k \in {} |-> w.fields[k]]
    OBVIOUS
  <2> QED
    BY <2>2, <2>3, <2>4
<1>8. CASE v.type = "array"
  <2>1. v.items \in Seq(D!Range(SerialOrder)) /\ w.items \in Seq(D!Range(SerialOrder))
    BY <1>4, <1>5, <1>6, <1>8 DEF Sound
  <2>2. PICK f \in Bijection(DOMAIN v.items, DOMAIN w.items) : TRUE
    BY <1>3, <1>8, BijectionsAre DEF D!Alike
  <2>3. Len(v.items) = Len(w.items)
    BY <2>1, MatchedLength
  <2>4. Len(v.items) = 0
    <3>1. \A l \in DOMAIN v.items : Indices[l] \in D!Steps(v)
      BY <1>1, <1>4, <1>8, ItemsAreKeyed
    <3>2. 1 \notin DOMAIN v.items
      BY <3>1
    <3>3. DOMAIN v.items = 1..Len(v.items) /\ Len(v.items) \in Nat
      BY <2>1
    <3> QED
      BY <3>2, <3>3
  <2>5. v.items = <<>> /\ w.items = <<>>
    BY <2>1, <2>3, <2>4, EmptySeq
  <2>6. v = [type |-> "array", items |-> v.items] /\ w = [type |-> "array", items |-> w.items]
    BY <1>4, <1>5, <1>6, <1>8 DEF Sound
  <2> QED
    BY <2>5, <2>6
<1>9. CASE v.type \notin {"object", "array"}
  BY <1>3, <1>9 DEF D!Alike, D!SameScalar
<1> QED
  BY <1>7, <1>8, <1>9

\* Where what is at a place is the same, nothing is reported, and its parts are the same.
LEMMA SameIsQuiet ==
    ASSUME Unordered, D!Plain(expected), D!Plain(actual), NEW n \in 0..MaxDepth, NEW y \in CameTo(n),
           NEW m \in 0..MaxDepth, D!Alike(y.expected, y.actual, Same(m))
    PROVE  /\ D!Told(y, opts) = {}
           /\ \A k \in D!Steps(y.expected) \intersect D!Steps(y.actual) :
                 <<D!Part(y.expected, k, opts), D!Part(y.actual, k, opts)>> \in Same(m)
<1> DEFINE e == y.expected
           a == y.actual
<1>1. D!Written /\ MaxDepth \in Nat /\ opts.unordered_arrays \in BOOLEAN /\ opts.unordered_arrays
  BY NothingIsIgnored DEF Unordered, Comparing
<1>2. Sound(e, n) /\ Sound(a, n) /\ e \in D!Parts(expected) /\ a \in D!Parts(actual)
  BY PlaceIsSound DEF Unordered
<1>3. e.type = a.type
  BY DEF D!Alike
<1>4. CASE e.type = "object"
  <2>1. DOMAIN e.fields = DOMAIN a.fields /\ \A k \in DOMAIN e.fields : <<e.fields[k], a.fields[k]>> \in Same(m)
    BY <1>4 DEF D!Alike
  <2>2. D!Told(y, opts) = {}
    BY <1>3, <1>4, <2>1, ToldUnordered
  <2>3. \A k : D!Part(e, k, opts) = e.fields[k] /\ D!Part(a, k, opts) = a.fields[k]
    BY <1>3, <1>4 DEF D!Part
  <2>4. D!Steps(e) = DOMAIN e.fields
    BY <1>4 DEF D!Steps
  <2>5. ASSUME NEW k \in D!Steps(e) PROVE <<D!Part(e, k, opts), D!Part(a, k, opts)>> \in Same(m)
    <3>1. <<e.fields[k], a.fields[k]>> \in Same(m)
      BY <2>1, <2>4
    <3> QED
      BY <2>3, <3>1
  <2> QED
    BY <2>2, <2>5
<1>5. CASE e.type = "array"
  <2> DEFINE I == DOMAIN e.items
  <2>1. PICK f \in Bijection(I, DOMAIN a.items) : \A i \in I : <<e.items[i], a.items[f[i]]>> \in Same(m)
    BY <1>5, BijectionsAre DEF D!Alike
  <2>2. e.items \in Seq(D!Range(SerialOrder)) /\ a.items \in Seq(D!Range(SerialOrder))
    BY <1>2, <1>3, <1>5 DEF Sound
  <2>3. Len(e.items) = Len(a.items)
    BY <2>1, <2>2, MatchedLength
  <2>4. I = DOMAIN a.items
    BY <2>2, <2>3
  <2>5. D!Told(y, opts) = {}
    BY <1>3, <1>5, <2>3, ToldUnordered
  <2>6. ASSUME NEW i \in I PROVE e.items[i] = a.items[f[i]]
    <3>1. f[i] \in DOMAIN a.items
      BY <2>1, Fun_BijectionProperties
    <3>2. D!Steps(e.items[i]) = {} /\ D!Exact(e.items[i])
      BY <1>2, <1>5 DEF D!Plain
    <3>3. D!Exact(a.items[f[i]])
      BY <1>2, <1>3, <1>5, <3>1 DEF D!Plain
    <3>4. m \in 0..(MaxDepth + 1) /\ <<e.items[i], a.items[f[i]]>> \in Same(m)
      BY <1>1, <2>1
    <3> QED
      BY <3>2, <3>3, <3>4, SameIsEqual
  <2>7. D!Sorted(e.items) = D!Sorted(a.items)
    BY <2>1, <2>4, <2>6, SortedAlike
  <2>8. \A k : D!Part(e, k, opts) = D!Part(a, k, opts)
    BY <1>1, <1>3, <1>5, <2>7 DEF D!Part, D!Items
  <2>9. ASSUME NEW k \in D!Steps(e) PROVE <<D!Part(e, k, opts), D!Part(a, k, opts)>> \in Same(m)
    <3>1. PICK l \in D!Steps(e) : D!Part(e, k, opts) = D!Child(e, l)
      <4>1. D!Written /\ Sound(e, n) /\ opts.unordered_arrays \in BOOLEAN
        BY <1>1, <1>2
      <4> HIDE DEF e
      <4> QED
        BY <4>1, PartIsChild
    <3> DEFINE i == D!PlaceOf(l)
    <3>2. i \in I
      BY <1>1, <1>2, <1>5, ItemsAreKeyed
    <3>3. D!Part(e, k, opts) = e.items[i]
      BY <1>5, <3>1 DEF D!Child
    <3> HIDE DEF i
    <3>4. <<e.items[i], a.items[f[i]]>> \in Same(m) /\ e.items[i] = a.items[f[i]]
      BY <2>1, <2>6, <3>2
    <3> QED
      BY <2>8, <3>3, <3>4
  <2> QED
    BY <2>5, <2>9
<1>6. CASE e.type \notin {"object", "array"}
  <2>1. D!SameScalar(e, a)
    BY <1>6 DEF D!Alike
  <2>2. D!Told(y, opts) = {}
    BY <1>3, <1>6, <2>1, ToldUnordered, ScalarsAgree
  <2>3. D!Steps(e) = {}
    BY <1>6 DEF D!Steps
  <2> QED
    BY <2>2, <2>3
<1> QED
  BY <1>4, <1>5, <1>6

\* So in documents that are the same as multisets nothing is reported.
LEMMA BagIsQuiet ==
    ASSUME Unordered, D!SameBag(expected, actual), D!Plain(expected), D!Plain(actual)
    PROVE  found = {}
<1>0. MaxDepth \in Nat /\ found = D!walk(expected, actual, opts)
  BY NothingIsIgnored
<1> DEFINE Good(n) == \A y \in CameTo(n) : <<y.expected, y.actual>> \in Same((MaxDepth - n) + 1)
           T == {n \in Nat : n <= MaxDepth => Good(n)}
<1>1. ASSUME NEW n \in 0..MaxDepth, NEW y \in CameTo(n), <<y.expected, y.actual>> \in Same((MaxDepth - n) + 1)
      PROVE  /\ D!Told(y, opts) = {}
             /\ \A k \in D!Steps(y.expected) \intersect D!Steps(y.actual) :
                   <<D!Part(y.expected, k, opts), D!Part(y.actual, k, opts)>> \in Same(MaxDepth - n)
  <2>1. MaxDepth - n \in 0..MaxDepth
    BY <1>0
  <2>2. D!Alike(y.expected, y.actual, Same(MaxDepth - n))
    BY <1>0, <1>1, <2>1, SameAbove
  <2> QED
    BY <2>1, <2>2, SameIsQuiet
<1>2. Good(0)
  <2>1. CameTo(0) = {Place(<<>>, expected, actual)}
    BY <1>0, PlacesAre DEF CameTo, Place
  <2>2. Place(<<>>, expected, actual).expected = expected /\ Place(<<>>, expected, actual).actual = actual
    BY DEF Place
  <2>3. <<expected, actual>> \in Same((MaxDepth - 0) + 1)
    <3>1. (MaxDepth - 0) + 1 = MaxDepth + 1
      BY <1>0
    <3> QED
      BY <3>1 DEF D!SameBag, Same
  <2> QED
    BY <2>1, <2>2, <2>3
<1>3. ASSUME NEW n \in Nat, n + 1 <= MaxDepth, Good(n) PROVE Good(n + 1)
  <2> SUFFICES ASSUME NEW z \in CameTo(n + 1) PROVE <<z.expected, z.actual>> \in Same((MaxDepth - (n + 1)) + 1)
    OBVIOUS
  <2>1. n \in 0..MaxDepth /\ n + 1 \in 1..MaxDepth /\ (MaxDepth - (n + 1)) + 1 = MaxDepth - n
    BY <1>0, <1>3
  <2>2. PICK y \in CameTo(n) : \E k \in D!Steps(y.expected) \intersect D!Steps(y.actual) :
            z = Place(Append(y.path, k), D!Part(y.expected, k, opts), D!Part(y.actual, k, opts))
    BY <1>0, <2>1, PlaceFrom DEF CameTo
  <2>3. PICK k \in D!Steps(y.expected) \intersect D!Steps(y.actual) :
            z = Place(Append(y.path, k), D!Part(y.expected, k, opts), D!Part(y.actual, k, opts))
    BY <2>2
  <2>4. z.expected = D!Part(y.expected, k, opts) /\ z.actual = D!Part(y.actual, k, opts)
    BY <2>3 DEF Place
  <2>5. <<y.expected, y.actual>> \in Same((MaxDepth - n) + 1)
    BY <1>3
  <2>6. <<D!Part(y.expected, k, opts), D!Part(y.actual, k, opts)>> \in Same(MaxDepth - n)
    BY <1>1, <2>1, <2>5
  <2> QED
    BY <2>1, <2>4, <2>6
<1>4. T = Nat
  <2> HIDE DEF Good
  <2>1. T \in SUBSET Nat /\ 0 \in T
    BY <1>2
  <2>2. ASSUME NEW n \in T PROVE n + 1 \in T
    BY <1>0, <1>3
  <2> HIDE DEF T
  <2> QED
    BY <2>1, <2>2, InductiveSet
<1>5. \A n \in 0..MaxDepth : \A y \in CameTo(n) : D!Told(y, opts) = {}
  <2>1. ASSUME NEW n \in 0..MaxDepth PROVE Good(n)
    <3> HIDE DEF Good
    <3> QED
      BY <1>0, <1>4
  <2> QED
    BY <1>1, <2>1
<1> QED
  BY <1>0, <1>5, ToldSomewhere DEF CameTo

-----------------------------------------------------------------------------
(***************************************************************************)
(* What the comparison finds.                                              *)
(***************************************************************************)
\* A comparison, begun or done.
Compares ==
    judged = "documents" =>
        /\ expected \in Documents /\ actual \in Documents /\ opts \in Options
        /\ compared => found = D!walk(expected, actual, opts)

\* What is found is what there is (diff.rs, diff).
LEMMA ComparesIsRight ==
    ASSUME D!Written, Compares
    PROVE  DifferencesAreTold
<1> SUFFICES ASSUME judged = "documents", compared PROVE D!DifferencesAreTold /\ D!MultisetsAreTold
  BY DEF DifferencesAreTold, D!DifferencesAreTold, D!MultisetsAreTold
<1>1. /\ expected \in Documents /\ actual \in Documents /\ opts \in Options
      /\ found = D!walk(expected, actual, opts)
      /\ MaxDepth \in Nat /\ opts.unordered_arrays \in BOOLEAN
  BY DEF Compares, D!Written
<1>2. ASSUME ~opts.unordered_arrays PROVE D!DifferencesAreTold
  <2>1. Comparing(TRUE)
    BY <1>1, <1>2 DEF Comparing
  <2>2. \A d \in found : ~D!is_ignored(opts, d.path) /\ D!Disagreement(d.path) = d.kind
    BY <2>1, FoundIsSo
  <2>3. \A p \in D!Paths(expected) \union D!Paths(actual) :
           D!Disagreement(p) # "none" /\ (\A i \in 0..Len(p) : ~D!is_ignored(opts, SubSeq(p, 1, i)))
           => \E d \in found : D!IsPrefix(d.path, p)
    BY <2>1, DisagreementIsFound
  <2> QED
    BY <2>2, <2>3, Zenon DEF D!DifferencesAreTold
<1>3. ASSUME opts.unordered_arrays, opts.ignore_paths = {} PROVE D!MultisetsAreTold
  <2>1. Unordered
    BY <1>1, <1>3 DEF Comparing, Unordered
  <2>2. found = {} => D!SameBag(expected, actual)
    BY <2>1, QuietIsSame
  <2>3. D!SameBag(expected, actual) /\ D!Plain(expected) /\ D!Plain(actual) => found = {}
    BY <2>1, BagIsQuiet
  <2> QED
    BY <2>2, <2>3 DEF D!MultisetsAreTold
<1>4. opts.unordered_arrays => D!DifferencesAreTold
  BY DEF D!DifferencesAreTold
<1>5. ~(opts.unordered_arrays /\ opts.ignore_paths = {}) => D!MultisetsAreTold
  BY DEF D!MultisetsAreTold
<1> QED
  BY <1>2, <1>3, <1>4, <1>5

\* Of documents that are written as JSON is, every difference is reported where it is and
\* no other, whatever the documents, tolerances and ignored paths; unordered arrays are
\* compared as multisets (diff.rs, diff, DiffOptions).
THEOREM DifferencesTold == ASSUME D!Written PROVE JudgedSpec => []DifferencesAreTold
<1>1. JudgedInit => Compares
  BY DEF JudgedInit, D!Init, Compares
<1>2. Compares /\ [JudgedNext]_<<judged, vars, diffVars>> => Compares'
  <2> SUFFICES ASSUME Compares, [JudgedNext]_<<judged, vars, diffVars>> PROVE Compares'
    OBVIOUS
  <2>1. CASE UNCHANGED <<judged, diffVars>>
    BY <2>1 DEF Compares, diffVars
  <2>2. CASE judged = "documents" /\ D!Next /\ UNCHANGED judged
    BY <2>2 DEF Compares, D!Next, D!diff
  <2> QED
    BY <2>1, <2>2 DEF JudgedNext
<1>3. Compares => DifferencesAreTold
  BY ComparesIsRight
<1> QED
  BY <1>1, <1>2, <1>3, PTL DEF JudgedSpec
=============================================================================
