# portkit in TLA+

portkit shrinks and measures what an agent's tools return. Its programs are small,
but they meet in shared files: several processes load, change and save one ledger,
append to one trace, build one index, and read what another was killed while
writing. This directory models those parts, checks the models with TLC on small
instances, and proves the central ones with TLAPS for all sizes.

Paths and line numbers are those of the repository at the modelled commit, below
`src/` here; `PROJECT.json` maps every modelled definition to its lines.

## 1. The system

| part | code | state | operations | meets the others through |
| --- | --- | --- | --- | --- |
| delivery ledger, `pk-read` | `read/` | a JSON ledger per session: per file a hash, merged line intervals, a stamp; a compaction watermark | read, `--full`, `--compacted` | the ledger and its shared temporary file; the PreCompact hook |
| session watcher | `cli/src/hook.rs`, `core/src/watch.rs`, `core/src/trace.rs` | a daily trace for all sessions, a said-list per session | PostToolUse (record, suggest), SessionEnd (summarize) | the trace |
| rewriting hook | `cli/src/hook.rs`, `core/src/rewrite.rs` | none | PreToolUse: try a replacement, verify it, rewrite | runs the sym tool; reads the trace |
| symbol index, `sym` | `index/` | a JSON cache of the index | build, save, load, look up, search, read a body | the cache, the source files |
| MCP server | `mcp/` | one loop over stdin; the trace as recorder | initialize, list, call, notifications | the registry, the trace |
| registry and gates | `core/src/registry.rs`, `refs.rs`, `validate.rs`, `schema/src/resolver.rs` | tools by name; database snapshots | call: shape, references, tool | tools, snapshots |
| output budget | `core/src/budget.rs` | none | apply, apply_annotated | every surface that returns values |
| plugins | `plugin/` | tools registered at startup | discover, register, call a child process | the registry; a child's three pipes |
| snapshots | `schema/src/`, `schema/src/main.rs`, `schema/src/pg/` | a snapshot file; sources loaded at startup | `pks pull`: nine catalog queries, fold, write; load; the three schema tools | PostgreSQL, the file, the registry |
| suggestions | `schema/src/resolve.rs` | none | rank the names near an unknown one | the schema tools |
| introspection cache | `schema/src/pg/cache.rs` | entries by set of schemas | get, invalidate by notice or by age | PostgreSQL and its LISTEN/NOTIFY |
| parity harness | `port/` | fixture files | capture, replay on two surfaces, accept | a reference program, the registry, the MCP server |
| structural diff | `core/src/diff.rs` | none | diff | the parity harness |
| rewrite manifest and pair runs | `cli/src/verify.rs`, `core/src/fidelity.rs`, `manifest.rs` | a manifest of rules with a status | verify each rule against the trace | the trace, a shell |
| command line and configuration | `cli/src/lib.rs`, `commands.rs`, `core/src/config.rs` | the effective configuration of a process | run, run through MCP, serve, trace | every part; the trace |
| extraction, doctor, logging, demonstration | the rest | none that changes | parsing, printing | - |

What is hard about them, and what would make them correct:

* **Delivery ledger.** Nothing locks the ledger; two calls of one session overlap;
  `save` truncates and renames one shared temporary file; a call may be killed
  between printing and saving; a compaction takes the caller's context away.
  Correct is: no line is withheld that the caller does not hold, a saved delivery
  is not forgotten for nothing, and `--full` always recovers.
* **Watcher.** Each hook is a process. It may be killed between deciding,
  remembering and printing; records may be cut short; midnight changes the file.
  Correct is: advice rests on the session's own calls, is never repeated, and the
  second waits.
* **Index and rewriting hook.** Overlapping builds write one cache with no rename,
  files change while they are walked, and the run the agent gets is not the run
  that was verified.
* **MCP server.** A sequential loop: one frame's fault must not cost the next its
  answer, and each call must be recorded once, as what it was.
* **Gates and budget.** Pure, with many cases: which names a gate lets through, and
  whether a trimmed result fits and is told truthfully.
* **Plugins.** Two processes on bounded pipes, each able to block on the other, with
  a timeout that covers half of the exchange.
* **Rewriting.** A shell command is recognised by its pieces, without being parsed:
  what is replaced must have been the one search it is taken for, and a habit.
* **Command line.** One call over three surfaces, each with its own idea of flags,
  declarations and configuration; a ledger summed while others write it.
* **Snapshots.** Nine queries in no common transaction, a migration in between, and
  a file written in place: what is served must have been so, and what stood must be
  served.
* **Introspection cache.** An entry must not outlive a change, though notices are
  lost and callers race.
* **Parity.** A replay that succeeds must mean that the port answers as the
  reference did, whatever captures were killed and whatever people edited between.
* **Pair runs.** A rule may be called verified only for what was really compared.

`PROJECT.json` lists each hazard at its line with the properties that catch it.

## 2. The modules

| module | models | state and actions |
| --- | --- | --- |
| `ReadLedger` | `read/src/main.rs`, `read/src/state.rs`, the PreCompact hook | files on disk, ledgers, temporary files and, for each call, its step and copies. One action per file-system access: `ReadText`, `HashFile`, `Load`, `Mark`, `Emit`, `OpenTmp`, `WriteTmp`, `Rename`; the environment edits, compacts, kills and lets time pass |
| `DeliveryPromise` | - | the abstract specification: callers hold lines and lose none, a ledger vouches only for lines its callers hold |
| `Intervals` | `merge`, `intersect`, `gaps` in `read/src/state.rs` | the interval lists that `ReadLedger` treats as sets, against the sets they denote; each loop is a recursive function of the interval it is at |
| `Watcher` | hooks, trace and patterns | the day's log, the said-lists, and one hook per session at its step |
| `SymbolIndex` | index, sym tool, trial and verification of a rewrite | the history of the source tree, the cache, and callers at their steps |
| `McpServer` | `serve_stdio` to `tools_call` | frames sent, the loop's step, replies, the recorder's trace |
| `PluginCall` | `PluginTool::call` | parent and child around three pipes, with a timer |
| `PluginLayers` | `load_plugins`, `register_layers`, `load_manifest`, `discover` | manifests, the registry, what is reported |
| `IntrospectionCache` | `cache.rs`, `introspect` | changes, notices on their way, entries, callers, a clock |
| `SchemaSnapshot` | `Snapshot`, `resolver.rs`, `resolve.rs` | tables, enums and functions by name, and what resolves in them |
| `Capture` | `introspect.rs`, `queries.rs`, `types.rs`, `schema/src/lib.rs`, `main.rs`, `tools.rs` | the catalog's history, the pull at its query, the file, the server's sources |
| `Suggestions` | `edit_distance`, `best_matches` and the refusals of `schema_check` | a snapshot, a question, the answer |
| `Commands` | `rewrite.rs`, `target_of` of `hook.rs` | no state: what is read in a command, of its shape and its intent; and what a shell would read in it, for the properties |
| `Rewrite` | `is_hot` and `rewrite` of `hook.rs`, over `Commands` | a command, what ran before, the name looked up instead |
| `CommandLine` | `Config::load`, `run_with`, `run_tool`, `serve`, `trace` | shells at their steps, the ledger, the sums printed |
| `Parity` | `capture`, `Fixture`, `replay_one`, `is_success` | cases, fixture files, the port, the capture under way; a replay reads only, and is an operator |
| `Budget` | `budget.rs` | a document's lists, the loop's passes, the elisions |
| `RefCheck` | `refs.rs`, over `SchemaSnapshot` | a schema, an input, snapshots, the verdict |
| `Diff` | `diff.rs` | two documents, the options, the differences; the walk as the places it comes to, a level of nesting after the other |
| `PairRun` | `verify.rs`, `fidelity.rs`, `may_rewrite` | a trace, the commands to run, the counts, the status |
| `Algorithms` | - | `Intervals`, `Budget`, `RefCheck`, `PluginLayers`, `PairRun`, `Rewrite` and `Suggestions` side by side: a behaviour runs one of them |
| `WhatIsKept` | - | what is kept of a world that moves on, in the same way: `IntrospectionCache`, `Capture`, `SymbolIndex` |
| `Judging` | - | `Parity`, and beside it `Diff`, which its replays judge by |
| `Calls` | - | the ways a tool is called: `PluginCall`, `McpServer`, `CommandLine` |
| `MC*` | - | the instances TLC checks |
| `*_proofs` | - | the theorems about the module of that name (section 5) |
| `Lists_proofs` | - | the lemmas about loops over lists, about sums, about what comes first in an order and about edit distances, about sorting, that the others share |

The composed modules have one specification each, in which a behaviour is about one
of the parts and the variables of the others rest. The parts share nothing there:
the runs are fewer for it, and the theorems about a part are stated of the composed
specification, through a lemma that says the part runs in it as it does by itself.
`PairRun_proofs` is about `PairRun` and `Commands` alone, and `Algorithms_proofs`
carries its results over; `Parity_proofs` is about `Parity`, and about `Diff` as it runs in `Judging`. No
module has a recursive operator: a document's levels and a walk's places are
recursive functions of the depth, which a constant bounds (`MaxDepth`, any number in
the proofs; serde_json's parser has a limit of 128). `Parity` takes the MCP surface's
trimming from `Budget`'s code in its simplest case, one list, and the comparison from
`Diff`'s, without tolerance.

Data is a model value wherever only identity matters: a content is its own hash, a
line its number, a document's text a few symbols, an output its lines. What is left
out of a module is said in its head and in `PROJECT.json`.

## 3. The runs

| run | instance and bounds | what it shows |
| --- | --- | --- |
| `read_one_call` | one file with two contents of two lines and one, one session, a clock of four instants; edits between calls, compactions, kills | calls one after another: what is claimed was delivered (`ClaimsWereDelivered`), nothing delivered before a compaction is claimed before it is printed again (`NoClaimBeforeRedelivery`), a save keeps earlier deliveries (`DeliveriesKept`), `--full` recovers (`FullRecovers`) |
| `read_concurrent` | two calls at once, edits and kills, no compaction | the inductive invariant `IInv` of the proofs, `ClaimsAreHeld`, and the refinement of `DeliveryPromise` (`KeepsPromise`) |
| `read_revived` | one call at a time, one compaction | **violation** of `ClaimsAreHeld`: a delivery after the watermark revives what was before it |
| `watch` | two sessions, three kinds of call, three calls of one session and one of the other, one midnight, every failure | `NeverRepeats` and the invariant it rests on (`IInv`), `SecondAdviceWaits`, `AdviceIsEarned`, `LossIsBounded` |
| `watch_crash` | the same, records cut between characters only | **violation** of `CrashCostsOneRecord`: the record after a cut one shares its line |
| `kept` | the cache: two callers, two schemas and the set of both, two changes, two instants, notices lost, the listener gone. The capture: databases of one or two schemas, a table, a type and a function, one migration of each kind, a pull killed anywhere. The index: two overlapping calls, two files, three texts, one edit, kills | `StaleIsNoticed`, and `StaleWithinTtl` without any exception; `WhatIsSaidWas`, `WhatStoodIsSaid`; `QuietAnswersAreTrue`, `EveryHitWasTrue`, `RewriteIsAnswered` |
| `calls` | fifteen kinds of child, request of three chunks over pipes of two, a timer that may expire; any three frames of every kind, tools that hang, an output that breaks; two shells, some twenty invocations over files and environments, calls killed anywhere, two calls in all | `AnswersAreKept` and the liveness property `EveryPluginCallReturns`; `RepliesMatchRequests`, `EveryCallRecordedOnce` and the liveness property `EveryFrameHandled`; `SurfacesDeliverAlike`, `BillIsTrue` |
| `plugin_blocked_write` | two children that do not read | **violation** of `EveryCallTimesOut`: the write of the request is under no timeout |
| `parity` | two tools, two inputs, two fixture names, three cases files, two changes of the port, kills and acceptances; pairs of some eighty documents, with up to two levels of parts, under every option | `SuccessIsParity`, `EveryCaseAccounted`; `DifferencesAreTold` |
| `parity_surfaces` | the same, of the port | **violation** of `SurfacesAgree`: the MCP surface trims before the comparison |
| `algorithms` | five lines; results of one or two lists under minima of 0 to 2; thirty schemas; two manifests of two entries; pairs of outputs of up to four lines; some 2000 commands, each after some sixty pasts; some 270 snapshots, with fifty questions each | `ListDenotesDelivered`, `AnswersArePartitions`; `NoteIsTruthful`, `OneListFits`, `EveryTurnShrinks`; `GateIsExact`; `EntriesAreAccounted`; `PassIsEarned`, `SkipsAreCounted`; `HabitsAreReplaced`; `SlipsArePutRight` |
| `rewrite_dropped` | the commands of `algorithms` | **violation** of `OneSearchIsReplaced`: a command of two lines is replaced whole |

Why the bounds suffice. Two calls are the fewest that overlap, and all sharing is
pairwise: of ledgers, of the temporary file, of the index, of cache entries. Two
lines and two overlapping ranges give a line that is held and one that is not; the
shorter content lets a range lie past the end. A clock of four instants at one tick
per second has a delivery before, at and after a watermark. Three frames put a frame
before and behind any fault. Pipes smaller than the request and the answer make
every write block once. Two manifests of two entries have a clash inside one and
across both. Four lines are needed for a run of blank ones between two others.
One migration is enough to fall between any two queries of a pull. Two calls of a
command are one on each of two surfaces, and one that is trimmed beside one that
fails; with a third the states of two shells are some ten million. A slip needs
names of two letters, and the dropping of distant names one of four inside one of
six.

Deadlock is checked where a run cannot end (`read_*`, `parity*`); the other systems
may stop: a call returns, a server closes, the calls of a bounded day are made.

A run fires every action of its modules, and each property has in `PROJECT.json` a
plausible wrong version of the code under which TLC finds it violated.

## 4. Fairness

* `McpServer` assumes weak fairness of the server's own steps: it is one loop on its
  own process, and takes the step it can take. Nothing is assumed of the host, nor
  of a tool, which may hang.
* `PluginCall` assumes weak fairness of the parent, of the timer and of the child,
  each apart: tokio polls a ready future again, the timer of a call that waits
  expires, and the operating system runs a child that can run. The timer is armed
  only where the code arms it (`plugin/src/tool.rs:123`), after the request has been
  written.

`Calls` takes both as they are, for the behaviours about each. The other modules
state safety only, and assume no fairness.

## 5. Proofs

All the safety properties that the passing runs check, and their refinement, are
theorems, for every value of the constants; of the forty properties only the two about
liveness are not:

| theorems | assume | say |
| --- | --- | --- |
| `TypeCorrect` | - | the types of `ReadLedger` |
| `ClaimsDelivered` | no edit between a call's two reads of a file | `ClaimsWereDelivered`, through concurrency, kills and compactions |
| `ClaimsHeldWithoutCompaction` | the same, no compaction, a ledger for each caller | `ClaimsAreHeld` |
| `LedgerKeepsPromise` | no compaction, no such edit | every behaviour implements `DeliveryPromise` |
| `FullAnswersRecover` | - | `FullRecovers` |
| `SavesKeepDeliveries` | `OneCall`: calls do not overlap | `DeliveriesKept` |
| `CompactionForgets` | `Watermarked`: calls do not overlap, the hook marks the caller's own ledger, one tick is a second, no range is empty, a mark is not cut short, no edit within a call | `NoClaimBeforeRedelivery` |
| `NoAdviceTwice`, `LaterAdviceWaited` | `OneLine`: a target is among what its line is read back as | `NeverRepeats`, `SecondAdviceWaits` |
| `AdviceHasGrounds`, `LossHasBounds` | - | `AdviceIsEarned`, `LossIsBounded` |
| `HitsWereTrue`, `QuietAnswersHold`, `RewritesAreAnswered` | `Parsed`: what the parser returns lies within the text | `EveryHitWasTrue`, `QuietAnswersAreTrue`, `RewriteIsAnswered` |
| `RepliesInOrder`, `CallsRecordedOnce` | `FramesAreFrames`: frames are of the kinds the code tells apart | `RepliesMatchRequests`, `EveryCallRecordedOnce` |
| `AnswersKept` | - | `AnswersAreKept` of `PluginCall` |
| `StaleEntriesAreNoticed`, `AnswersAreFreshEnough` | - | `StaleIsNoticed`, `StaleWithinTtl` |
| `WhatIsSaidWasSo`, `WhatStoodIsAlwaysSaid` | `SoundCatalogs`: the keys and references PostgreSQL keeps in its catalogs | `WhatIsSaidWas`, `WhatStoodIsSaid` |
| `SuccessVouches`, `CasesAccounted` | - | `SuccessIsParity`, `EveryCaseAccounted` |
| `ListsDenoteDeliveries`, `AnswersPartition` | - | `ListDenotesDelivered`, `AnswersArePartitions`, for files and lists of any length |
| `GateHolds` | `Introspected`: annotations and tables have their shapes | `GateIsExact` |
| `EntriesAccounted` | `Named`: a plugin is not called as an answer that failed | `EntriesAreAccounted` |
| `NoteHolds`, `TurnsShrink`, `OneListHolds` | `Sized`: sizes are natural numbers | `NoteIsTruthful`, `EveryTurnShrinks`, `OneListFits` |
| `SurfacesAlike`, `BillsAreTrue` | `Answered`: finitely many shells, a tool declares at most one budget, calls are of the forms the parser makes | `SurfacesDeliverAlike`, `BillIsTrue` |
| `PassEarned`, `SkipsCounted` | `Formed`: texts are lines of words, days are records of targets, windows are not empty | `PassIsEarned`, `SkipsAreCounted` |
| `SlipsPutRight` | `Spelt`: finitely many tables and columns, called and asked for by words over a finite alphabet with a dot in it | `SlipsArePutRight` |
| `HabitsReplaced` | `Legible`: commands are lists of pieces, and a reader's name with a blank behind it fits into the first twelve bytes | `HabitsAreReplaced`, for every command and every past |
| `DifferencesTold` | `Written`: documents are JSON, with integers for numbers, no deeper than `MaxDepth`; an item of an array has an index and a serialized form | `DifferencesAreTold`, for documents of any size |

The modules' own ASSUMEs say what their constants are. The assumptions named above
that are of the same kind are definitions of the module they are about, or, where the
runs differ, of the proof module; TLC evaluates `OneLine`, `FramesAreFrames`,
`Parsed`, `SoundCatalogs`, `Introspected`, `Named`, `Sized`, `Answered`, `Formed`,
`Spelt`, `Legible` and `Written` on the instances of the runs. `OneCall` and `Watermarked` are what `read_one_call`
is, and each of their parts excludes a difference of section 6.

### Along which argument

* **`ReadLedger`.** That a claim was delivered is not inductive: a call claims from
  its copy of the ledger, which it loaded from a file, which another call renamed
  from a temporary file, which a third may have opened, truncated or half
  overwritten. The invariant is `IInv`: `TypeOK`; `CallShape`, what a process at each
  step has in hand and who it works for; `TextIsHashed`, the content a call prints is
  the one it hashed, where the assumption on edits is used; `LedgersVouch`, every
  ledger anybody could come to load has only lines that were printed for a caller of
  that ledger, under the hash it has them under. Without compactions the context is
  all that was ever delivered; and mapping the promise of a ledger to the lines it
  vouches for makes each save a `Save`, each print a `Send`, each other step a
  stutter. For `NoClaimBeforeRedelivery`: no stamp lies in the future (`Clocked`);
  while the host compacts only the mark runs (`Phased`), and the watermark is in the
  ledger or on its way there (`Marking`); at other times a ledger, and what a call is
  about to save, survives its watermark only in what was printed since (`Current`).
* **`Watcher`.** `IInv` says that what a hook will print is on its session's
  said-list, or was lost with it. `Tracing` relates the log to the calls made: the
  records of a session that the log holds are calls the session made, each there at
  most once; `AdviceIsEarned` rests on it. `Waiting` adds that a hook which has
  decided, and has not printed yet, belongs to a session that had waited.
* **`SymbolIndex`.** Every index anywhere, in the cache or half built, was built from
  texts the files had while it was built (`Built`), entirely so if no edit fell into
  the build; a rewriting that was verified finds the cache its trial left (`Keeping`).
* **`Calls`.** The server's invariant counts: the replies are as many as the frames
  dealt with that are owed one, and the reply to a frame is at the place its count
  gives it. Of a plugin, what is in a pipe and what was read of it are together what
  the child has written (`Conserved`).
* **`IntrospectionCache`.** A call in flight, and an entry, miss no change made before
  their queries began (`CallsKnow`, `EntriesKnow`); a notice on its way will evict
  every stale entry of one schema, dead or alive (`StaleEvicted`).
* **`Capture`.** `SnapInv` says from which catalogs of the history each query's rows
  were taken, in the pull, the file and the server; the two properties are then facts
  about one fold over such rows.
* **`Parity`.** What a fixture holds is what the reference answers to its input
  (`FromReference`); a capture at its n-th case has captured or failed each case
  before it, and left the files of the others as they were (`Accounted`).
* **`Diff`.** A document has one node at a path, with nodes all the way there
  (`NodeUnique`, `NodeOnWay`). With ordered arrays a place of the walk has the nodes
  at its path (`PlaceIsThere`), so what is told there is what they disagree about;
  and a path outside the ignored ones is either come to or lies below a path where
  something is told (`QuietGoesOn`). With unordered arrays, sorting only puts the
  items in another order (`SortedIs`), and this is where a rank for every item is
  assumed: two arrays without a difference match through that order, from the deepest
  level up (`QuietIsSame`); and two that match, with items that are the same only if
  they are equal, are sorted the same (`SortedAlike`), from the root down
  (`BagIsQuiet`).
* **Pure algorithms.** The loops of `merge` and `gaps` keep lists sorted and apart.
  Of the gate, the problems found are those of the positions that were walked
  (`Decided`). Of the plugin layers, each entry dealt with is registered, shadowed or
  reported, and each name has the owner that came first (`PlaceInv`, `Accounted`). Of
  the trimming, the elisions list what has become shorter (`Noted`), a turn drops
  items that weigh something, and with one list the loop ends where the reservation
  says (`FitInv`). The bill is a sum over the ledger in the order of the records,
  compared with one over the calls made in theirs (`LineInv`).
* **`PairRun`.** `RunsInv` says what the counts are after k commands (`Tallied`):
  cases and skipped together are the matching ones, and if all cases passed no
  verdict so far was a failure. The rest is about the classes: two texts the
  normalizer makes equal have their content in the same order and blank lines in the
  same places (`CollapsedKeeps`); the cursor of the subset class rises along the
  original, so the lines it shows are an injection, and one that is onto where no
  fewer lines are left (`SubsetKeeps`); the loop over the reversed trace keeps
  exactly the targets with fewer than a window of others behind their last record
  (`RecallIs`, `CommandsAre`).
* **`Suggestions`.** Each entry of the table behind the edit distance comes from three
  neighbours, and whether it is 0, or at most 1, depends on no more than that of
  theirs: it is 0 exactly where the two beginnings are equal, and at most 1 exactly
  where they are at most one slip apart (`NearInTable`). So a slip is within every
  threshold, and within what `Close` keeps. The order of the candidates is strict
  (by distance, then by the first place where the names differ), so a finite set that
  is not empty has a first element (`FirstExists`), and what is chosen before another
  is never farther. The first three of that order are the answer.

* **`Rewrite`.** That the command was a search for the name, and hot, stays so because
  neither changes (`RewriteInv`); the work is in reading commands. The loop of
  `fingerprint` only adds to the shape (`ReadingGrows`), so what it has read while no
  quote or path was met is the beginning of the shape (`ShapeBegins`): the first two
  words, with one blank between them, are, if they have neither in them
  (`HabitBegins`); and of a command that `is_rewritable` passes the program and a blank
  are, within the first pieces that `is_hot` compares (`ProgramBegins`). A shell reads
  the same line piece by piece too. If it is plain, the two quotes that
  `quoted_literal` finds open and close one of the shell's words, behind the first; the
  text between them is the declaration `symbol_in` reads, and there is no break in the
  line for a second command to stand behind (`NameIsSought`).

Induction is needed for loops and for sums, and the library's induction theorems take
an operator, which the provers cannot instantiate. `InductiveSet` is induction with a
set instead, from the well-foundedness of strict inclusion: a set of numbers with 0
and every successor of its elements is `Nat`. With it, what `FoldLeft` and the
recursive functions of the modules are after k rounds is proved of each of them.

### What the attempts showed

Several properties were stated anew because they were not what the code does, or
weaker than it:

* `ListDenotesDelivered` says now that the list is sorted and its intervals lie apart,
  which `merge` keeps and `gaps` needs; that it has the right lines does not follow
  from itself.
* `OneListFits` was wrong for a minimum of 0, which a configuration may set
  (`core/src/config.rs:111`): the last item is never dropped on its own
  (`core/src/budget.rs:195`). The run has minima of 0 to 2 now.
* `BillIsTrue` holds per tool and outcome, with calls that died before their record,
  and says so.
* The misfiling of relations (section 6) also happens to a schema that is renamed
  between the first two queries of a pull, not only to one that is created.
* Of `resolve`'s cases, the one of an unknown source overlapped the others; it comes
  first now, as in the code.
* `SuccessIsParity` left open what a replay through MCP says of a list whose elision
  was accepted; that position is now named.
* `--full` of a range past the end of a file prints nothing and stamps the entry all
  the same, which revives what lay before a watermark; `Watermarked` leaves such
  ranges out.
* Empty containers are equal as multisets only if they are the same value, which a
  function with an empty domain is and a record of unknown shape need not be:
  `Written` says what a container is made of.
* The normalizer makes one blank line alone and no line the same text: `SameSpaced`,
  the promise of its class, asks for blank lines in the same places only between and
  behind content.

* `TheNameWasSought` took a double quote within single ones for one of a pair. The code
  looks for double quotes first, wherever they are (`core/src/rewrite.rs:153`), so
  `grep ' " ' fn run "a"` is looked up as `run`, though no argument declares it. No
  command of the run was long enough to show it, and the proof could not be closed.
  `Plain` leaves such lines out now, by what a shell holds open, and the run has one
  of them.

### Model-checked only

Liveness (`EveryFrameHandled`, `EveryPluginCallReturns`) is out of the prover's reach,
as is ENABLED. The five violations are TLC's; each is of a property that does not hold, so
there is nothing to prove about it.

## 6. Where the code differs from what is said of it

Five differences are runs with findings in `PROJECT.json`:

* one line delivered after a compaction makes every interval from before it count
  again (`read/src/state.rs:103`, against `read/README.md:25`) - `read_revived`;
* a plugin that does not read its request holds the call for ever
  (`plugin/src/tool.rs:118`, against `README.md:214`) - `plugin_blocked_write`;
* the MCP surface compares a trimmed answer (`mcp/src/server.rs:302`, against
  `port/src/replay.rs:16`) - `parity_surfaces`;
* a crash in the middle of a record costs the next record too, whoever writes it
  (`core/src/trace.rs:145`, against `README.md:303`) - `watch_crash`;
* a line break does not disqualify a command from being replaced, and what is on its
  other lines is dropped (`core/src/rewrite.rs:72`, against the comment above it) -
  `rewrite_dropped`.

Others were met while modelling, and limit what the properties say:

* **Ledger.** The PreCompact hook writes its watermark under the working directory,
  `pk-read` loads its ledger from `PORTKIT_STATE_DIR` or `~/.portkit/read`
  (`cli/src/hook.rs:82`, `read/src/lib.rs:34`): after such a compaction nothing is
  forgotten. The runs give both one file, as `pk-read --compacted` does. A file
  edited between the read that prints and the read that hashes is recorded under
  the wrong hash (`read/src/main.rs:84`, `94`); this is `"edit_in_call"`, which no
  run allows. All callers without a session share `default.json` (`main.rs:74`). An
  empty or upside-down range is answered UNCHANGED, whatever was delivered
  (`main.rs:111`); a `--full` of a range past the end prints nothing and stamps the
  entry, which revives what is from before a watermark (`main.rs:139`). A save that
  overlaps a watermark loses it (`main.rs:142`).
* **Budget.** The loop ends at the first list that is down to its minimum though
  another could give (`core/src/budget.rs:159`); the note may list a list that went
  with its container (`:145`), and is paid for at the first pass's cost (`:295`).
  `OneListFits` is about the case in which none of these can matter. A minimum of 0
  keeps one item all the same (`:195`).
* **References.** A parent is looked up in the root of the arguments, also for a
  nested object (`core/src/refs.rs:119`); annotations below `oneOf` and the like are
  not walked (`:133`); a snapshot is as old as its file (`schema/src/snapshot.rs:33`).
* **Watcher.** The rate limit counts from the last call on the advised target, not
  from the advice (`core/src/watch.rs:110`). A record cut inside a character makes
  the whole day unreadable (`core/src/trace.rs:242`). A target with a line end in it
  is read back as two (`cli/src/hook.rs:281`), and SessionEnd keeps the said-list
  when the day's file has no call of the session (`:330`). A shape is cut at a byte
  that may lie inside a character (`:164`).
* **MCP.** A line that is not UTF-8 ends the server (`mcp/src/lib.rs:41`), a call of
  an unknown tool is not recorded (`mcp/src/server.rs:246`), a tool that hangs holds
  every later frame (`:261`).
* **Plugins.** A built-in tool's name is taken without a report
  (`plugin/src/lib.rs:93`), and discovery has no timeout (`plugin/src/tool.rs:44`);
  an entry that hangs there stops startup, and `PluginLayers` stops with it.
* **Introspection.** The set that holds a schema is not evicted by that schema's
  notice (`cache.rs:134`), and an introspection in flight stores what it read before
  a notice (`:66`): both entries live out their time, which `StaleWithinTtl` bounds
  by the time to live and the length of the queries; `StaleIsNoticed` excepts them.
* **Capture.** The nine queries share no transaction (`introspect.rs:31`): what is
  served was so at some moment of the pull, not at one. A relation whose schema the
  first query did not see is filed under `public` (`schema/src/lib.rs:97`), and one
  whose schema is renamed after it under the old name, where `resolver.rs:4` says
  every name is checked against what exists; both properties except them.
  Partitioned tables are left out (`queries.rs:37`). A constraint on no column
  panics the pull (`introspect.rs:171`). Enumerations go by their bare name, and the
  last one of a name is kept (`schema/src/lib.rs:133`). `pks pull` calls every
  source `fellwork` (`schema/src/main.rs:60`), though tools "name sources
  explicitly".
* **Suggestions.** A bare name that ends several tables is unknown, and is offered
  itself, once for each of them (`resolve.rs:101`), so a second try fails like the
  first. `schema_check` says `column` of a table it does not know (`tools.rs:221`).
* **Rewriting.** `.`, `?` and `{` are not taken for metacharacters
  (`core/src/rewrite.rs:196`), keywords are found inside words, and the first quoted
  text need not be the pattern (`:153`), nor an argument at all if a double quote
  stands within single ones; `TheNameWasSought` is about lines with quotes around
  whole words only, and without such ones. The heat of a command is never reached if
  its second word is quoted or a path, a record of a single word counts for every
  shape that begins with it (`cli/src/hook.rs:163`), and a blank one for all of them.
* **Command line.** The configuration's `max_bytes` bounds results of `pk run` only:
  `serve` and `--through-mcp` know the tool's budget and the built-in default
  (`cli/src/commands.rs:95`, `175`, against `README.md:163`); the flags do not reach
  `--through-mcp`, and calls made with it are not traced. `SAVED` is what was produced
  less what was delivered, messages of refusals included (`core/src/trace.rs:222`):
  each refusal takes its length from what trimming saved, against `README.md:295`.
  What is measured is compact JSON, what is printed is indented unless `--compact`.
* **Index.** A cache is used however old it is: its fingerprint is of lengths only,
  and nothing reads it (`index/src/index.rs:13`, `150`). A build that overlaps an
  older one may be overwritten by it. The note of a rewrite is sent every time,
  though it is "shown to the agent once" (`core/src/rewrite.rs:126`).
* **Diff.** Integers that fit no i64 are compared as floating point
  (`core/src/diff.rs:227`). Unordered arrays are paired in the order of their text,
  so equal ones with numbers inside the tolerance, or with arrays in them, may be
  reported as different (`:206`); `MultisetsAreTold` claims completeness for exact
  scalars only. An ignored index does not excuse the length of its array.
* **Parity.** Replaying an empty directory succeeds; only `assert_parity` asks for a
  fixture. Cases share a file when an id equals another or a number
  (`port/src/capture.rs:85`), a new capture drops what was accepted (`:99`), and the
  reference is awaited without a timeout (`:144`).
* **Pair runs.** A line is dropped unnoticed if a blank one is added for it, or if
  content has `...` or ` more` in it (`core/src/fidelity.rs:142`, `172`); lines that
  begin with `(` are never compared. Outputs are compared after invalid bytes have
  been replaced (`cli/src/verify.rs:148`). `$1` is replaced inside `$10` (`:99`). An
  output of one blank line and an empty one are the same to the normalizer. Nothing
  asks `may_rewrite`, nor compares the commit a rule was verified on, and a window
  without matching commands makes a verified rule pending again (`:124`).

## 7. What is not modelled

Extraction of symbols needs a parser's trees; `SymbolIndex` takes what it returns as
the constant `Texts`. JSON Schema validation is a library's. `outline`, `pkx serve`
and `pkx bench`, the fingerprint of a snapshot and `pks check`, which compares two of
them, argument parsing, rendering, the doctor, logging and the demonstration tools
keep no state that changes and decide nothing the other parts rest on.

## 8. Plan

1. Abstract specifications for the watcher (a set of advice, each given once) and
   for the introspection cache (an answer from the recent past), refined by
   `Watcher` and `IntrospectionCache`; the invariants they need are those proved.
2. The exchange of a capture with its reference as a second instance of
   `PluginCall`, without a timer; eviction by capacity in `IntrospectionCache`.
