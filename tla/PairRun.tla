------------------------------- MODULE PairRun -------------------------------
(***************************************************************************)
(* The verification of a rewrite rule (src/cli/src/verify.rs) and the gate *)
(* of its class (src/core/src/fidelity.rs): recent commands from the       *)
(* trace, each run beside its rewrite, and the status that is saved.       *)
(*                                                                         *)
(* A text is a sequence of lines, a line its words with the gutter and the *)
(* trailing blanks it may have; a word is a name with the slash it may end *)
(* in.  The regular expression of the rule, its captures and the shell are *)
(* what a command is to a situation: unmatched, or the pair of outputs.    *)
(***************************************************************************)
EXTENDS Integers, Sequences, FiniteSets, SequencesExt

CONSTANTS
    Families,    \* sets of situations: [rules, days, windows (positive), apply, targets, outcomes]
    Known        \* the normalizers that are known

VARIABLES
    situation,   \* the rule, the trace, the arguments, and what each command comes to
    todo,        \* the commands still to run
    cases, passed, skipped,
    status,      \* the rule's verified.status, in the manifest
    pc

vars == <<situation, todo, cases, passed, skipped, status, pc>>

-----------------------------------------------------------------------------
(***************************************************************************)
(* The classes.                                                            *)
(***************************************************************************)
Blank(l) == l.words = <<>> /\ ~l.gutter
Trimmed(text) == [i \in DOMAIN text |-> [text[i] EXCEPT !.trail = FALSE]]

\* Normalizer::apply, of the one that exists: lines trimmed, and runs of blank ones collapsed;
\* what it joins is the same text for a blank line alone as for none.
Collapse(done, l) == IF Blank(l) /\ done # <<>> /\ Blank(Last(done)) THEN done ELSE Append(done, l)

Collapsed(text) ==
    LET lines == FoldLeft(Collapse, <<>>, Trimmed(text))
    IN  IF Len(lines) = 1 /\ Blank(lines[1]) THEN <<>> ELSE lines

\* A word "KNOWN", "UNCHANGED" or "(" stands for all that begin so; the gutter hides them.
Says(l, names) == l.words # <<>> /\ Head(l.words).name \in names
is_marker(l) == ~l.gutter /\ Says(l, {"KNOWN", "UNCHANGED", "("})

declares_omission(text) ==
    \E i \in DOMAIN text : \E j \in DOMAIN text[i].words :
        text[i].words[j].name \in {"KNOWN", "UNCHANGED", "..."} \/ (j > 1 /\ text[i].words[j].name = "more")

\* Mutant: a line is looked for from the start of the original each time.
CursorMutant(source, cursor, l) ==
    IF Blank(l) \/ cursor = -1 THEN cursor
    ELSE IF \E i \in DOMAIN source : source[i] = l THEN 0 ELSE -1

\* Where the search for the next kept line starts, or -1.
Cursor(source, cursor, l) ==
    IF Blank(l) \/ cursor = -1 THEN cursor
    ELSE LET places == {i \in DOMAIN source : i > cursor /\ source[i] = l}
         IN  IF places = {} THEN -1 ELSE CHOOSE i \in places : \A j \in places : i <= j

\* Each line that is no marker is looked for, without its gutter, behind the one before.
subset_declared(original, rewritten) ==
    LET source == Trimmed(original)
        Follow(cursor, l) == IF is_marker(l) THEN cursor ELSE Cursor(source, cursor, [l EXCEPT !.gutter = FALSE])
    IN  /\ FoldLeft(Follow, 0, Trimmed(rewritten)) # -1
        /\ Cardinality({i \in DOMAIN rewritten : ~is_marker(rewritten[i])}) < Len(original) => declares_omission(rewritten)

tidy(w) == [w EXCEPT !.slash = FALSE]

\* The last word of each line, but for the header, the notes and the links.
key_tokens(text) ==
    {tidy(Last(l.words)) : l \in {l \in ToSet(text) :
        l.words # <<>> /\ ~(Says(l, {"total"}) /\ Len(l.words) > 1) /\ Last(l.words).name # "("}}
    \ {[name |-> ".", slash |-> FALSE], [name |-> "..", slash |-> FALSE]}

Words(text) == UNION {{tidy(w) : w \in ToSet(l.words)} : l \in ToSet(text)}

Verdict(holds) == IF holds THEN "pass" ELSE "fail"

check(rule, a, b) ==
    CASE rule.fidelity = "exact" -> Verdict(a = b)
      [] rule.fidelity = "normalized" -> Verdict(rule.normalizer \in Known /\ Collapsed(a) = Collapsed(b))
      [] rule.fidelity = "subset-declared" -> Verdict(subset_declared(a, b))
      [] rule.fidelity = "keyset" -> Verdict(key_tokens(a) \subseteq Words(b))
      [] rule.fidelity = "reference" -> "not applicable"

-----------------------------------------------------------------------------
(***************************************************************************)
(* The commands: distinct, the most recent first.                          *)
(***************************************************************************)
\* A day is a sequence of records, or it cannot be read.
Unread == [torn |-> TRUE]
Records(days) == FoldLeft(LAMBDA all, day : IF day = Unread THEN all ELSE all \o day.records, <<>>, days)

Recall(done, r) ==
    IF r.tool # "Bash" \/ r.target = "none" \/ r.target \in ToSet(done) THEN done ELSE Append(done, r.target)

recent_commands(days, window) ==
    LET distinct == FoldLeft(Recall, <<>>, Reverse(Records(days)))
    IN  SubSeq(distinct, 1, Min({Len(distinct), window}))

Fails == [runs |-> FALSE]
Commands == recent_commands(situation.days, situation.window)

\* No command is no verification; a rule whose expression does not compile has failed.
Init ==
    /\ \E f \in Families : situation \in [rule : f.rules, days : f.days, window : f.windows, apply : f.apply,
                                         ran : [f.targets -> f.outcomes]]
    /\ todo = Commands
    /\ cases = 0 /\ passed = 0 /\ skipped = 0
    /\ status \in {"pending", "pass"}
    /\ pc = IF Commands = <<>> THEN "done" ELSE "verify"

Ran == situation.ran[Head(todo)]
Verifying == pc = "verify" /\ situation.rule.compiles /\ todo # <<>>

PassOver ==
    /\ Verifying
    /\ ~Ran.matches
    /\ todo' = Tail(todo)
    /\ UNCHANGED <<situation, cases, passed, skipped, status, pc>>

\* Either half exits with an error: its target is gone.
Skip ==
    /\ Verifying
    /\ Ran.matches /\ Fails \in {Ran.original, Ran.rewritten}
    /\ skipped' = skipped + 1
    /\ todo' = Tail(todo)
    /\ UNCHANGED <<situation, cases, passed, status, pc>>

\* Mutant: what does not apply is counted as a case as well.
CompareMutant ==
    /\ Verifying
    /\ Ran.matches /\ Fails \notin {Ran.original, Ran.rewritten}
    /\ LET verdict == check(situation.rule, Ran.original.text, Ran.rewritten.text)
       IN  /\ cases' = cases + 1
           /\ passed' = passed + (IF verdict = "pass" THEN 1 ELSE 0)
           /\ skipped' = skipped + (IF verdict = "not applicable" THEN 1 ELSE 0)
    /\ todo' = Tail(todo)
    /\ UNCHANGED <<situation, status, pc>>

Compare ==
    /\ Verifying
    /\ Ran.matches /\ Fails \notin {Ran.original, Ran.rewritten}
    /\ LET verdict == check(situation.rule, Ran.original.text, Ran.rewritten.text)
       IN  /\ cases' = cases + (IF verdict = "not applicable" THEN 0 ELSE 1)
           /\ passed' = passed + (IF verdict = "pass" THEN 1 ELSE 0)
           /\ skipped' = skipped + (IF verdict = "not applicable" THEN 1 ELSE 0)
    /\ todo' = Tail(todo)
    /\ UNCHANGED <<situation, status, pc>>

Outcome ==
    IF ~situation.rule.compiles THEN "fail"
    ELSE IF cases = 0 THEN "pending"
    ELSE IF passed = cases THEN "pass" ELSE "fail"

\* Rule::may_rewrite.
may_rewrite == status = "pass"

\* A dry run records nothing.
Conclude ==
    /\ pc = "verify"
    /\ todo = <<>> \/ ~situation.rule.compiles
    /\ status' = IF situation.apply THEN Outcome ELSE status
    /\ pc' = "verified"
    /\ UNCHANGED <<situation, todo, cases, passed, skipped>>

Next == PassOver \/ Skip \/ Compare \/ Conclude

Spec == Init /\ [][Next]_vars

\* What the shell and the trace hand over: lines of words, days of records that name targets.
Line == [gutter : BOOLEAN, trail : BOOLEAN, words : Seq([name : STRING, slash : BOOLEAN])]
Output == [runs : {TRUE}, text : Seq(Line)] \cup {Fails}
Classes == {"exact", "normalized", "subset-declared", "keyset", "reference"}
Formed ==
    \A f \in Families :
        /\ f.rules \subseteq [compiles : BOOLEAN, fidelity : Classes, normalizer : STRING]
        /\ f.days \subseteq Seq({Unread} \cup [torn : {FALSE}, records : Seq([tool : STRING, target : f.targets \cup {"none"}])])
        /\ f.windows \subseteq Nat \ {0}
        /\ f.apply \subseteq BOOLEAN
        /\ \A o \in f.outcomes : o.matches \in BOOLEAN /\ (o.matches => {o.original, o.rewritten} \subseteq Output)

-----------------------------------------------------------------------------
(***************************************************************************)
(* What the classes promise, said without the gate.                        *)
(***************************************************************************)
\* The lines of content, by their numbers; which of them a line is; what lines show.
Held(text) == {i \in DOMAIN text : ~Blank(text[i])}
Nth(text, i) == Cardinality({j \in Held(text) : j < i})
Alike(k, l) == k.words = l.words /\ k.gutter = l.gutter

\* The same content, with blank lines in the same places.
AfterBlank(text, i) == i > 1 /\ Blank(text[i - 1])
SameSpaced(a, b) ==
    /\ Cardinality(Held(a)) = Cardinality(Held(b))
    /\ \A i \in Held(a), j \in Held(b) :
          Nth(a, i) = Nth(b, j) => Alike(a[i], b[j]) /\ (AfterBlank(a, i) <=> AfterBlank(b, j))
    /\ Held(a) # {} => (AfterBlank(a, Len(a) + 1) <=> AfterBlank(b, Len(b) + 1))

\* Each line shown is one of the original, in their order.
Shown(text) == {i \in DOMAIN text : text[i].words # <<>> /\ ~is_marker(text[i])}
Empty(text) == {i \in DOMAIN text : text[i].words = <<>>}
Stands(a, b, f) ==
    /\ \A i \in Shown(b) : Alike(a[f[i]], [b[i] EXCEPT !.gutter = FALSE])
    /\ \A i, j \in Shown(b) : i < j => f[i] < f[j]

KeepsPromise(rule, a, b) ==
    CASE rule.fidelity = "exact" -> a = b
      [] rule.fidelity = "normalized" -> rule.normalizer \in Known /\ SameSpaced(a, b)
      [] rule.fidelity = "subset-declared" ->
            \E f \in [Shown(b) -> Held(a)] :
                /\ Stands(a, b, f)
                /\ ~declares_omission(b) /\ Cardinality(Empty(b)) <= Cardinality(DOMAIN a \ Held(a))
                   => \A j \in Held(a) : \E i \in Shown(b) : f[i] = j
      [] rule.fidelity = "keyset" ->
            \A i \in DOMAIN a :
                \/ a[i].words = <<>> \/ Last(a[i].words).name \in {".", "..", "("}
                \/ Says(a[i], {"total"}) /\ Len(a[i].words) > 1
                \/ \E j \in DOMAIN b : \E w \in ToSet(b[j].words) : w.name = Last(a[i].words).name
      [] rule.fidelity = "reference" -> FALSE

\* The commands of a window, said without the loop: those of which fewer than that many
\* others have been recorded since.
Bash(n) == Records(situation.days)[n].tool = "Bash" /\ Records(situation.days)[n].target # "none"
Since(c) ==
    LET last == Max({n \in DOMAIN Records(situation.days) : Bash(n) /\ Records(situation.days)[n].target = c})
    IN  {Records(situation.days)[n].target : n \in {n \in DOMAIN Records(situation.days) : n > last /\ Bash(n)}}
Recorded == {Records(situation.days)[n].target : n \in {n \in DOMAIN Records(situation.days) : Bash(n)}}
InWindow == {c \in Recorded : Cardinality(Since(c)) < situation.window}
Matching == {c \in InWindow : situation.ran[c].matches}

\* A rule is cleared to rewrite by a verification only if some recent command ran beside its
\* rewrite, and each that did kept the promise of the class: nothing invented, reordered,
\* renamed or dropped without a word, and never on a class that only a later call can check
\* (fidelity.rs, check; manifest.rs, may_rewrite).
PassIsEarned ==
    pc = "verified" /\ situation.apply /\ may_rewrite =>
        LET ran == {c \in Matching : Fails \notin {situation.ran[c].original, situation.ran[c].rewritten}}
        IN  /\ ran # {}
            /\ \A c \in ran : KeepsPromise(situation.rule, situation.ran[c].original.text, situation.ran[c].rewritten.text)

\* Every recent command that the rule matches is a case or counted as skipped, and none
\* that nothing could be said about is a case (verify.rs, "skipped and counted rather than
\* quietly dropped").
SkipsAreCounted ==
    pc = "verified" /\ situation.rule.compiles =>
        /\ cases + skipped = Cardinality(Matching)
        /\ situation.rule.fidelity = "reference" => cases = 0
        /\ passed <= cases
=============================================================================
