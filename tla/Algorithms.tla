----------------------------- MODULE Algorithms -----------------------------
(***************************************************************************)
(* The algorithms that run to the end within one call, side by side: the   *)
(* interval lists of a ledger (Intervals), the trimming of a result        *)
(* (Budget), the gate against invented names (RefCheck), the loading of    *)
(* plugins (PluginLayers), the verification of rewrite rules (PairRun),    *)
(* the recognition of a search (Rewrite) and of a misspelt name            *)
(* (Suggestions).  They share nothing: a behaviour runs one of them, and   *)
(* the variables of the others rest.                                       *)
(***************************************************************************)
EXTENDS Intervals

CONSTANTS
    Running,                                                \* which of the algorithms a behaviour may run
    Documents, Budgets, BaseBytes, NoteBase, NoteEach,      \* Budget's
    Schemas, Inputs, Snapshots,                             \* RefCheck's
    Native, Names, MaxEntries,                              \* PluginLayers'
    Families, Known,                                        \* PairRun's
    Typed, Pasts, Opening,                                  \* Rewrite's
    Databases, Questions, Alphabet                          \* Suggestions'

VARIABLES
    algorithm,
    value, budget, trimmed, elisions, cap, pass, pc,
    schema, input, loaded, verdict,
    layers, layer, entry, registry, owner, problems, shadowed,
    situation, todo, cases, passed, skipped, status, stage,
    command, past, replaced,
    snapshot, question, answers

B == INSTANCE Budget WITH out <- trimmed
R == INSTANCE RefCheck
L == INSTANCE PluginLayers
P == INSTANCE PairRun WITH pc <- stage
W == INSTANCE Rewrite
G == INSTANCE Suggestions

(***************************************************************************)
(* One of them.                                                            *)
(***************************************************************************)
RestingLists == intervals = <<>> /\ held = {}
RestingBudget ==
    value = <<>> /\ budget = <<>> /\ trimmed = <<>> /\ elisions = <<>> /\ cap = 0 /\ pass = 0 /\ pc = "done"
RestingRefs == schema = <<>> /\ input = <<>> /\ loaded = <<>> /\ verdict = "none"
RestingLayers ==
    layers = <<>> /\ layer = 0 /\ entry = 0 /\ registry = <<>> /\ owner = <<>> /\ problems = {} /\ shadowed = {}
RestingRuns ==
    situation = <<>> /\ todo = <<>> /\ cases = 0 /\ passed = 0 /\ skipped = 0 /\ status = "pending" /\ stage = "done"
RestingRewrite == command = <<>> /\ past = <<>> /\ replaced = {}
RestingNames == snapshot = <<>> /\ question = <<>> /\ answers = {}

budgetVars == <<value, budget, trimmed, elisions, cap, pass, pc>>
refVars == <<schema, input, loaded, verdict>>
layerVars == <<layers, layer, entry, registry, owner, problems, shadowed>>
runVars == <<situation, todo, cases, passed, skipped, status, stage>>
rewriteVars == <<command, past, replaced>>
nameVars == <<snapshot, question, answers>>

AlgorithmsInit ==
    /\ algorithm \in Running
    /\ IF algorithm = "intervals" THEN Init ELSE RestingLists
    /\ IF algorithm = "budget" THEN B!Init ELSE RestingBudget
    /\ IF algorithm = "refs" THEN R!Init ELSE RestingRefs
    /\ IF algorithm = "layers" THEN L!Init ELSE RestingLayers
    /\ IF algorithm = "pair_runs" THEN P!Init ELSE RestingRuns
    /\ IF algorithm = "rewrite" THEN W!Init ELSE RestingRewrite
    /\ IF algorithm = "names" THEN G!Init ELSE RestingNames

AlgorithmsNext ==
    /\ UNCHANGED algorithm
    /\ \/ algorithm = "intervals" /\ Next /\ UNCHANGED <<budgetVars, refVars, layerVars, runVars, rewriteVars, nameVars>>
       \/ algorithm = "budget" /\ B!Next /\ UNCHANGED <<vars, refVars, layerVars, runVars, rewriteVars, nameVars>>
       \/ algorithm = "refs" /\ R!Next /\ UNCHANGED <<vars, budgetVars, layerVars, runVars, rewriteVars, nameVars>>
       \/ algorithm = "layers" /\ L!Next /\ UNCHANGED <<vars, budgetVars, refVars, runVars, rewriteVars, nameVars>>
       \/ algorithm = "pair_runs" /\ P!Next /\ UNCHANGED <<vars, budgetVars, refVars, layerVars, rewriteVars, nameVars>>
       \/ algorithm = "rewrite" /\ W!Next /\ UNCHANGED <<vars, budgetVars, refVars, layerVars, runVars, nameVars>>
       \/ algorithm = "names" /\ G!Next /\ UNCHANGED <<vars, budgetVars, refVars, layerVars, runVars, rewriteVars>>

algorithmsVars == <<algorithm, vars, budgetVars, refVars, layerVars, runVars, rewriteVars, nameVars>>

AlgorithmsSpec == AlgorithmsInit /\ [][AlgorithmsNext]_algorithmsVars

(***************************************************************************)
(* The properties of the modules, by their names there; those of Intervals *)
(* are extended, and hold of the empty list.                               *)
(***************************************************************************)
\* The note of the elisions tells what was dropped (budget.rs, Elision).
NoteIsTruthful == algorithm = "budget" => B!NoteIsTruthful

\* With one flat list, a budget that can be met is met, note included (budget.rs, apply_annotated).
OneListFits == algorithm = "budget" => B!OneListFits

\* Every turn of the trimming loop frees bytes (budget.rs, apply).
EveryTurnShrinks == B!EveryTurnShrinks

\* A tool runs exactly when the names in its arguments are real (refs.rs, check).
GateIsExact == algorithm = "refs" => R!GateIsExact

\* A name belongs to the last layer that claims it, and every entry is registered, reported,
\* or shadowed by a later one (plugin/src/lib.rs, register_layers, LoadReport).
EntriesAreAccounted == algorithm = "layers" => L!EntriesAreAccounted

\* A rule passes only if the class's promise was kept on every pair (fidelity.rs, check).
PassIsEarned == algorithm = "pair_runs" => P!PassIsEarned

\* Every recent command the rule matches is a case or counted as skipped (verify.rs, verify_rule).
SkipsAreCounted == algorithm = "pair_runs" => P!SkipsAreCounted

\* What is replaced was a search for the declaration looked up, and a habit (rewrite.rs, hook.rs).
HabitsAreReplaced == algorithm = "rewrite" => W!TheNameWasSought /\ W!HabitsAreNoticed

\* What a refusal offers instead is there and is near (resolve.rs, best_matches).
SlipsArePutRight == algorithm = "names" => G!SlipsArePutRight

\* Nothing else is dropped with a command that is replaced (rewrite.rs:70).
OneSearchIsReplaced == algorithm = "rewrite" => W!OneSearchIsReplaced
=============================================================================
