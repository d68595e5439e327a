---------------------------- MODULE SymbolIndex ----------------------------
(***************************************************************************)
(* The cached symbol index (src/index/src/index.rs, tools.rs) and the hook *)
(* that rewrites a search for a definition into a call of it               *)
(* (src/cli/src/hook.rs rewrite, src/core/src/rewrite.rs).                 *)
(*                                                                         *)
(* A call of `sym' loads the index that is cached for the tree, or, when   *)
(* none parses, builds one by walking and reading the files and saves it   *)
(* by truncating and writing the cache.  Editors change the files          *)
(* meanwhile, calls overlap, and any of them may be killed.  No code       *)
(* compares a cached index with the files: its fingerprint is never read,  *)
(* and is left out here.                                                   *)
(*                                                                         *)
(* A text is the definitions a parse of it yields.  Limits of 20000 files  *)
(* and of ten fuzzy hits are not reached.  Which searches are seen as      *)
(* definition searches and are hot enough is the choice of Search.         *)
(***************************************************************************)
EXTENDS Integers, Sequences, FiniteSets, SequencesExt

CONSTANTS
    WalkOrder,   \* the paths of the tree, in the order in which the walk sorts them
    Texts,       \* what a file may hold: [lines, symbols : set of [name, first, last]]
    Names,       \* names that are asked for
    PartOf,      \* pairs of names: the first is part of the second
    Resembles,   \* the same, letter case apart
    Callers,     \* concurrent calls
    MaxEdits     \* bound: edits of the tree

Paths == ToSet(WalkOrder)
Gone == [lines |-> 0, symbols |-> {}]
Now(past) == past[Len(past)]

\* What a walk and a parse return: the walk lists paths, and a definition
\* has a name and lines of the text it was parsed from.
Parsed ==
    /\ WalkOrder \in Seq(Paths)
    /\ \A t \in Texts :
          /\ t.lines \in Nat
          /\ \A s \in t.symbols :
                /\ s = [name |-> s.name, first |-> s.first, last |-> s.last]
                /\ s.first \in Nat \ {0}
                /\ s.last \in Nat
                /\ s.first <= s.last
                /\ s.last <= t.lines

VARIABLES
    past,      \* the states of the tree, path -> text, up to the present one
    cache,     \* the cached index: absent, empty, torn, or an index
    call       \* caller -> its call

vars == <<past, cache, call>>

disk == Now(past)

(***************************************************************************)
(* The index: its files, and the symbols with the position of their file.  *)
(* began and ended are history: the states of the tree its build saw.      *)
(***************************************************************************)
Blank == [files |-> <<>>, symbols |-> {}, began |-> 0, ended |-> 0]
File(state, index) == [is |-> state, index |-> index]

lookup(index, name) == {s \in index.symbols : s.name = name}
search(index, needle) == {s \in index.symbols : <<needle, s.name>> \in Resembles}

\* What a call answers with: where its symbols are, by path.
Hits(index, name) ==
    {[name |-> s.name, file |-> index.files[s.file], first |-> s.first, last |-> s.last] :
        s \in IF lookup(index, name) # {} THEN lookup(index, name) ELSE search(index, name)}

\* The lines a body is made of, by the text they come from; none if there is no such line.
NoBody == [text |-> Gone, first |-> 0, last |-> 0]
body_ofMutant(hit) ==
    LET last == IF hit.last <= disk[hit.file].lines THEN hit.last ELSE disk[hit.file].lines
    IN IF hit.first < last THEN [text |-> disk[hit.file], first |-> hit.first, last |-> last] ELSE NoBody

body_of(hit) ==
    LET last == IF hit.last <= disk[hit.file].lines THEN hit.last ELSE disk[hit.file].lines
    IN IF hit.first - 1 < last THEN [text |-> disk[hit.file], first |-> hit.first, last |-> last] ELSE NoBody

Idle == [pc |-> "idle", kind |-> "none", name |-> "none", index |-> Blank, left |-> {},
         exact |-> FALSE, hits |-> {}, bodies |-> <<>>, kept |-> FALSE]

Init ==
    /\ past \in {<<tree>> : tree \in [Paths -> Texts \union {Gone}]}
    /\ cache = File("absent", Blank)
    /\ call = [c \in Callers |-> Idle]

Step(c, from, change) == call[c].pc = from /\ call' = [call EXCEPT ![c] = change]

\* The cache is written by c: what others verified against may be gone (history).
StepWriting(c, from, change) ==
    /\ call[c].pc = from
    /\ call' = [d \in Callers |-> IF d = c THEN change ELSE [call[d] EXCEPT !.kept = FALSE]]

(***************************************************************************)
(* Calls begin: sym by an agent, `pkx index', and the hook's trial of a    *)
(* replacement for a search it has recognised.                             *)
(***************************************************************************)
Ask(c) == \E n \in Names : Step(c, "idle", [Idle EXCEPT !.pc = "load", !.kind = "sym", !.name = n]) /\ UNCHANGED <<past, cache>>

Reindex(c) == Step(c, "idle", [Idle EXCEPT !.pc = "walk", !.kind = "index"]) /\ UNCHANGED <<past, cache>>

Search(c) == \E n \in Names : Step(c, "idle", [Idle EXCEPT !.pc = "load", !.kind = "trial", !.name = n]) /\ UNCHANGED <<past, cache>>

(***************************************************************************)
(* index_for: load, or build and save.                                     *)
(***************************************************************************)
Load(c) ==
    /\ Step(c, "load", IF cache.is = "index" THEN [call[c] EXCEPT !.pc = "answer", !.index = cache.index]
                       ELSE [call[c] EXCEPT !.pc = "walk"])
    /\ UNCHANGED <<past, cache>>

Walk(c) ==
    /\ Step(c, "walk", [call[c] EXCEPT
           !.pc = "build",
           !.index = [Blank EXCEPT !.began = Len(past)],
           !.left = {p \in Paths : disk[p] # Gone}])
    /\ UNCHANGED <<past, cache>>

\* Of the paths left to read, the one that comes first.
FirstOf(left) ==
    WalkOrder[CHOOSE i \in DOMAIN WalkOrder :
        WalkOrder[i] \in left /\ \A j \in 1..(i - 1) : WalkOrder[j] \notin left]

\* Mutant: the text is read into a buffer that still holds the files before it.
ReadFileMutant(c) ==
    LET p == FirstOf(call[c].left)
        at == Len(call[c].index.files) + 1
    IN /\ call[c].left # {} /\ disk[p] # Gone
       /\ Step(c, "build", [call[c] EXCEPT
              !.left = @ \ {p},
              !.index.files = Append(@, p),
              !.index.symbols = @ \union {[s EXCEPT !.file = at] : s \in @}
                                 \union {[name |-> s.name, first |-> s.first, last |-> s.last, file |-> at] : s \in disk[p].symbols}])
       /\ UNCHANGED <<past, cache>>

\* The next file is read and parsed; one that has gone since the walk is skipped.
ReadFile(c) ==
    LET p == FirstOf(call[c].left)
        at == Len(call[c].index.files) + 1
    IN /\ call[c].left # {}
       /\ Step(c, "build", [call[c] EXCEPT
              !.left = @ \ {p},
              !.index.files = IF disk[p] = Gone THEN @ ELSE Append(@, p),
              !.index.symbols = @ \union {[name |-> s.name, first |-> s.first, last |-> s.last, file |-> at] : s \in disk[p].symbols}])
       /\ UNCHANGED <<past, cache>>

\* save truncates the cache; where it cannot, its failure is ignored.
After(kind) == IF kind = "index" THEN "done" ELSE "answer"
Truncate(c) ==
    /\ call[c].left = {}
    /\ \/ StepWriting(c, "build", [call[c] EXCEPT !.pc = "write", !.index.ended = Len(past)]) /\ cache' = File("empty", Blank)
       \/ Step(c, "build", [call[c] EXCEPT !.pc = After(call[c].kind), !.index.ended = Len(past)]) /\ UNCHANGED cache
    /\ UNCHANGED past

\* A write over what another call has just written may leave the tail of it.
Write(c) ==
    /\ StepWriting(c, "write", [call[c] EXCEPT !.pc = After(call[c].kind)])
    /\ \/ cache' = File("index", call[c].index)
       \/ cache.is # "empty" /\ cache' = File("torn", Blank)
    /\ UNCHANGED past

(***************************************************************************)
(* SymTool::call with the index in hand.  An agent's call asks for bodies. *)
(***************************************************************************)
Answer(c) ==
    /\ Step(c, "answer", [call[c] EXCEPT
           !.pc = IF call[c].kind = "sym" THEN "bodies" ELSE IF call[c].kind = "trial" THEN "verify" ELSE "done",
           !.exact = lookup(call[c].index, call[c].name) # {},
           !.hits = Hits(call[c].index, call[c].name)])
    /\ UNCHANGED <<past, cache>>

\* The files are read again for the bodies, one hit after another.
Unread(c) == {h \in call[c].hits : \A i \in DOMAIN call[c].bodies : call[c].bodies[i].hit # h}
Body(c) ==
    /\ \/ \E h \in Unread(c) : Step(c, "bodies", [call[c] EXCEPT !.bodies = Append(@, [hit |-> h, body |-> body_of(h)])])
       \/ Unread(c) = {} /\ Step(c, "bodies", [call[c] EXCEPT !.pc = "done"])
    /\ UNCHANGED <<past, cache>>

(***************************************************************************)
(* verifies: the answer must hold the name that was searched for.  Then    *)
(* the agent's command is the replacement, which runs anew.                *)
(***************************************************************************)
VerifyMutant(c) ==
    /\ Step(c, "verify",
           [Idle EXCEPT !.pc = "load", !.kind = "rewritten", !.name = call[c].name, !.kept = (cache = File("index", call[c].index))])
    /\ UNCHANGED <<past, cache>>

Verify(c) ==
    /\ Step(c, "verify",
           IF \E h \in call[c].hits : <<call[c].name, h.name>> \in PartOf
           THEN [Idle EXCEPT !.pc = "load", !.kind = "rewritten", !.name = call[c].name, !.kept = (cache = File("index", call[c].index))]
           ELSE Idle)
    /\ UNCHANGED <<past, cache>>

Return(c) == Step(c, "done", Idle) /\ UNCHANGED <<past, cache>>

(***************************************************************************)
(* The environment.                                                        *)
(***************************************************************************)
Edit ==
    /\ Len(past) <= MaxEdits
    /\ \E p \in Paths, t \in Texts \union {Gone} : t # disk[p] /\ past' = Append(past, [disk EXCEPT ![p] = t])
    /\ UNCHANGED <<cache, call>>

Kill(c) ==
    /\ call[c].pc \notin {"idle", "done"}
    /\ call' = [call EXCEPT ![c] = Idle]
    /\ UNCHANGED <<past, cache>>

Next ==
    \/ \E c \in Callers :
          \/ Ask(c) \/ Reindex(c) \/ Search(c)
          \/ Load(c) \/ Walk(c) \/ ReadFile(c) \/ Truncate(c) \/ Write(c)
          \/ Answer(c) \/ Body(c) \/ Verify(c) \/ Return(c) \/ Kill(c)
    \/ Edit

Spec == Init /\ [][Next]_vars

(***************************************************************************)
(* Properties.                                                             *)
(***************************************************************************)
Answered(c) == call[c].pc = "done" /\ call[c].kind # "index"

\* Where name, or what satisfies Test, is defined in a tree.
Defined(tree, Test(_)) ==
    UNION {{[name |-> s.name, file |-> p, first |-> s.first, last |-> s.last] :
               s \in {s \in tree[p].symbols : Test(s.name)}} : p \in Paths}

\* With no edit since the build of its index began, whoever built it and whatever calls
\* were killed on the way, an answer is the truth (tools.rs, "a fuzzy hit is a guess, and
\* the caller should know"): it is exact when the name is defined, lists then all its
\* definitions and nothing else, and else all that resemble it, each with its own lines.
QuietAnswersAreTrue ==
    \A c \in Callers : Answered(c) /\ call[c].index.began = Len(past) =>
        LET Same(n) == n = call[c].name
            Like(n) == <<call[c].name, n>> \in Resembles
        IN /\ call[c].exact = (Defined(disk, Same) # {})
           /\ call[c].hits = IF call[c].exact THEN Defined(disk, Same) ELSE Defined(disk, Like)
           /\ \A i \in DOMAIN call[c].bodies :
                 LET b == call[c].bodies[i]
                 IN b.body = [text |-> disk[b.hit.file], first |-> b.hit.first, last |-> b.hit.last]

\* Through edits in the middle of a build, overlapping calls and torn caches, a hit is
\* at least something its file did define while the index was built.
EveryHitWasTrue ==
    \A c \in Callers : Answered(c) =>
        \A h \in call[c].hits : \E t \in call[c].index.began..call[c].index.ended :
            \E s \in past[t][h.file].symbols : s = [name |-> h.name, first |-> h.first, last |-> h.last]

\* A rewritten search is answered (hook.rs, "the bar is a verified answer"): unless
\* another call replaces the index the replacement was verified with, the agent's own
\* run of it finds what the trial found, whatever is edited in between.
RewriteIsAnswered ==
    \A c \in Callers : Answered(c) /\ call[c].kind = "rewritten" /\ call[c].kept =>
        \E h \in call[c].hits : <<call[c].name, h.name>> \in PartOf
=============================================================================
