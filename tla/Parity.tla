------------------------------- MODULE Parity -------------------------------
(***************************************************************************)
(* The parity harness (src/port/src/capture.rs, fixture.rs, replay.rs):    *)
(* what a reference implementation answers is captured in fixtures, and    *)
(* the port is replayed against them, directly and through the MCP server. *)
(*                                                                         *)
(* A capture goes through its cases one by one and writes each fixture by  *)
(* truncating and writing its file.  It may be killed in between, and      *)
(* people edit the cases, accept differences on fixtures and change the    *)
(* port.  A replay writes nothing, and is an operator on the state.        *)
(*                                                                         *)
(* An answer is an object with a scalar and a list; a difference is its    *)
(* path.  Tolerance and ignored paths are module Diff's, and the MCP       *)
(* surface cuts a list at Budget items, as module Budget has it.           *)
(***************************************************************************)
EXTENDS Integers, Sequences, FiniteSets, SequencesExt

CONSTANTS
    Tools, Inputs,
    Ids,          \* names of fixture files, the numbers included
    Numbered,     \* Numbered[n]: the id of the n-th case when it names none
    CaseFiles,    \* what the cases file may hold: sequences of [tool, id, input]
    Reference,    \* Reference[t, i]: what the reference answers, or Fails
    Answers,      \* what the port may answer, Fails included
    AcceptPaths,  \* the paths at which people accept differences
    Budget,       \* the items the MCP server leaves in a list
    MaxPorts      \* bound: changes of the port

NoId == "none"
Fails == [ok |-> FALSE]
Answer(n, list) == [ok |-> TRUE, n |-> n, list |-> list, elided |-> FALSE]
Keys == Tools \X Ids

ASSUME ParityAssumption ==
    /\ CaseFiles \subseteq Seq([tool : Tools, id : Ids \union {NoId}, input : Inputs]) \ {<<>>}
    /\ \A cs \in CaseFiles : Len(cs) <= Len(Numbered)
    /\ Numbered \in Seq(Ids) /\ NoId \notin Ids
    /\ \A a \in Answers : a = Fails \/ (a = Answer(a.n, a.list) /\ a.n \in STRING /\ a.list \in Seq(STRING))
    /\ Fails \in Answers /\ \A t \in Tools, i \in Inputs : Reference[t, i] \in Answers
    /\ AcceptPaths \subseteq {<<>>, <<"n">>, <<"list">>, <<"_elided">>} \union ({"list"} \X (Nat \ {0}))
    /\ Budget \in Nat /\ MaxPorts \in Nat

VARIABLES
    cases,      \* the cases file
    fixtures,   \* key -> its file: absent, torn or a fixture
    port,       \* what the registered tools answer: tool -> input -> answer
    ports,      \* how often the port has changed
    capture,    \* the capture that runs, or ran last
    before      \* history: the fixtures when that capture began

vars == <<cases, fixtures, port, ports, capture, before>>

Absent == [file |-> "absent"]
Torn == [file |-> "torn"]
Fixture(input, expected, accepted) == [file |-> "whole", input |-> input, expected |-> expected, accepted |-> accepted]
Whole(k) == fixtures[k].file = "whole"

Idle == [pc |-> "idle", todo |-> <<>>, at |-> 0, fail_fast |-> FALSE, captured |-> {}, failures |-> {}]

Init ==
    /\ cases \in CaseFiles
    /\ fixtures = [k \in Keys |-> Absent]
    /\ port = <<>>
    /\ ports = 0
    /\ capture = Idle
    /\ before = fixtures

(***************************************************************************)
(* Capture.                                                                *)
(***************************************************************************)
Case == capture.todo[capture.at]
\* The file of a case: its id, or its place among the cases.
KeyOf(todo, n) == <<todo[n].tool, IF todo[n].id = NoId THEN Numbered[n] ELSE todo[n].id>>
Key == KeyOf(capture.todo, capture.at)
Response == Reference[Case.tool, Case.input]

\* The next case, or the end of the report.
Onward(c, stop) ==
    IF stop \/ c.at = Len(c.todo) THEN [c EXCEPT !.pc = "done"] ELSE [c EXCEPT !.pc = "case", !.at = @ + 1]

\* load_cases.
Start ==
    /\ capture.pc = "idle"
    /\ \E fail_fast \in BOOLEAN :
          capture' = [Idle EXCEPT !.pc = "case", !.todo = cases, !.at = 1, !.fail_fast = fail_fast]
    /\ before' = fixtures
    /\ UNCHANGED <<cases, fixtures, port, ports>>

\* run_case fails: the case is reported, and nothing is written.
CaseFailsMutant ==
    /\ capture.pc = "case" /\ ~Response.ok
    /\ capture' = Onward([capture EXCEPT !.failures = IF capture.fail_fast THEN @ ELSE @ \union {capture.at}], capture.fail_fast)
    /\ UNCHANGED <<cases, fixtures, port, ports, before>>

CaseFails ==
    /\ capture.pc = "case" /\ ~Response.ok
    /\ capture' = Onward([capture EXCEPT !.failures = @ \union {capture.at}], capture.fail_fast)
    /\ UNCHANGED <<cases, fixtures, port, ports, before>>

\* run_case answers, and fs::write truncates the fixture's file ...
Truncate ==
    /\ capture.pc = "case" /\ Response.ok
    /\ fixtures' = [fixtures EXCEPT ![Key] = Torn]
    /\ capture' = [capture EXCEPT !.pc = "write"]
    /\ UNCHANGED <<cases, port, ports, before>>

\* ... and writes the fixture, with nothing accepted yet.
Write ==
    /\ capture.pc = "write"
    /\ fixtures' = [fixtures EXCEPT ![Key] = Fixture(Case.input, Response, {})]
    /\ capture' = Onward([capture EXCEPT !.captured = @ \union {capture.at}], FALSE)
    /\ UNCHANGED <<cases, port, ports, before>>

\* The report is printed, the capture is killed, or a fixture cannot be written.
Exit ==
    /\ capture.pc # "idle"
    /\ capture' = Idle
    /\ before' = fixtures
    /\ UNCHANGED <<cases, fixtures, port, ports>>

(***************************************************************************)
(* People.                                                                 *)
(***************************************************************************)
EditCases ==
    /\ cases' \in CaseFiles \ {cases}
    /\ UNCHANGED <<fixtures, port, ports, capture, before>>

Accept(k, p) ==
    /\ capture.pc = "idle" /\ Whole(k) /\ p \notin fixtures[k].accepted
    /\ fixtures' = [fixtures EXCEPT ![k].accepted = @ \union {p}]
    /\ before' = fixtures'
    /\ UNCHANGED <<cases, port, ports, capture>>

\* Tool t is written, or answers input i differently from now on.
Rewrite(t, i, a) ==
    /\ ports < MaxPorts
    /\ port' = [u \in DOMAIN port \union {t} |->
          IF u = t THEN [j \in Inputs |-> IF j = i \/ t \notin DOMAIN port THEN a ELSE port[t][j]] ELSE port[u]]
    /\ ports' = ports + 1
    /\ UNCHANGED <<cases, fixtures, capture, before>>

Next ==
    \/ Start \/ CaseFails \/ Truncate \/ Write \/ Exit \/ EditCases
    \/ \E k \in Keys, p \in AcceptPaths : Accept(k, p)
    \/ \E t \in Tools, i \in Inputs, a \in Answers : Rewrite(t, i, a)

Spec == Init /\ [][Next]_vars

(***************************************************************************)
(* Replay.                                                                 *)
(***************************************************************************)
\* walk: a longer list is one difference at the list, and the common items are compared.
diffMutant(e, a) ==
    {p \in {<<"n">>} : e.n # a.n} \union
    {p \in {<<"list", i>> : i \in DOMAIN e.list \intersect DOMAIN a.list} : e.list[p[2]] # a.list[p[2]]}

diff(e, a) ==
    {p \in {<<"n">>} : e.n # a.n} \union
    {p \in {<<"_elided">>} : e.elided # a.elided} \union
    {p \in {<<"list">>} : Len(e.list) # Len(a.list)} \union
    {p \in {<<"list", i>> : i \in DOMAIN e.list \intersect DOMAIN a.list} : e.list[p[2]] # a.list[p[2]]}

\* An acceptance covers its path and what is below it.
covers(accepted, path) == IsPrefix(accepted, path)

\* The answer as a surface gives it: the MCP server trims, Registry::call does not.
Given(surface, a) ==
    IF surface = "mcp" /\ a.ok /\ Len(a.list) > Budget
    THEN [a EXCEPT !.list = SubSeq(@, 1, Budget), !.elided = TRUE]
    ELSE a

replay_one(surface, k) ==
    LET f == fixtures[k]
        actual == Given(surface, port[k[1]][f.input])
        found == diff(f.expected, actual)
        differences == {p \in found : \A q \in f.accepted : ~covers(q, p)}
    IN CASE k[1] \notin DOMAIN port -> "not_ported"
         [] k[1] \in DOMAIN port /\ ~actual.ok -> "error"
         [] k[1] \in DOMAIN port /\ actual.ok /\ differences # {} -> "fail"
         [] k[1] \in DOMAIN port /\ actual.ok /\ differences = {} /\ found # {} -> "accepted"
         [] OTHER -> "pass"

\* replay of the fixtures of `tools': no directory, or one torn file, of any tool, ends it
\* with an error.
is_success(surface, tools) ==
    /\ \E k \in Keys : fixtures[k] # Absent
    /\ \A k \in Keys : fixtures[k] # Torn
    /\ \A k \in Keys : Whole(k) /\ k[1] \in tools => replay_one(surface, k) \in {"pass", "accepted"}

(***************************************************************************)
(* Properties.                                                             *)
(***************************************************************************)
Positions == {<<"n">>} \union {<<"list", i>> : i \in 1..Max({0} \union {Len(a.list) : a \in {b \in Answers : b.ok}})}
At(a, p) == IF Len(p) = 1 THEN a.n ELSE IF p[2] \in DOMAIN a.list THEN a.list[p[2]] ELSE "missing"

\* What an accepted elision note leaves out of the comparison: the items the MCP server
\* drops from a list, when the reference's list is exactly what it leaves.
Dropped(surface, accepted, p) ==
    surface = "mcp" /\ <<"_elided">> \in accepted /\ Len(p) = 2 /\ p[2] > Budget

\* A replay that succeeds, of all tools or of one, on either surface, vouches for the
\* port: what the reference answered to a fixture's input is what the port answers, all
\* of it, except below a path somebody accepted (replay.rs:215, "accepting one field
\* never quietly excuses a regression elsewhere") and, on the MCP surface, what the note
\* somebody accepted says was dropped.  This holds whatever captures were killed,
\* whichever fixtures were written over, and although that surface compares a trimmed answer.
SuccessIsParity ==
    \A surface \in {"direct", "mcp"}, tools \in SUBSET Tools : is_success(surface, tools) =>
        \A k \in Keys : Whole(k) /\ k[1] \in tools =>
            LET f == fixtures[k]
            IN /\ k[1] \in DOMAIN port
               /\ \A p \in Positions :
                     \/ At(port[k[1]][f.input], p) = At(Reference[k[1], f.input], p)
                     \/ \E q \in f.accepted : IsPrefix(q, p)
                     \/ Dropped(surface, f.accepted, p)

\* When a capture has ended, each case it came to is either in its report of failures,
\* its fixture as it was before, or captured, its fixture holding its own input and what
\* the reference answered; and it came to every case, or to one that failed.  This takes
\* cases no two of which share a file: ids are not checked against each other, nor
\* against the numbers of cases without one (capture.rs:85).
EveryCaseAccounted ==
    LET todo == capture.todo
        Unique == \A m, n \in DOMAIN todo : KeyOf(todo, m) = KeyOf(todo, n) => m = n
    IN capture.pc = "done" /\ Unique =>
          /\ \A n \in DOMAIN todo :
                LET k == KeyOf(todo, n)
                IN CASE n \in capture.captured -> fixtures[k] = Fixture(todo[n].input, Reference[todo[n].tool, todo[n].input], {})
                     [] n \in capture.failures -> fixtures[k] = before[k] /\ ~Reference[todo[n].tool, todo[n].input].ok
                     [] OTHER -> \E m \in capture.failures : m < n
          /\ capture.failures = {} \/ ~capture.fail_fast => capture.captured \union capture.failures = DOMAIN todo

\* The two surfaces give a fixture the same verdict (replay.rs:16, "Both should agree").
SurfacesAgree == \A k \in Keys : Whole(k) => replay_one("direct", k) = replay_one("mcp", k)
=============================================================================
