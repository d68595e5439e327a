---------------------------- MODULE PluginLayers ----------------------------
(***************************************************************************)
(* Loading plugins at startup (plugin/src/lib.rs, register_layers, and     *)
(* src/main.rs, load_plugins): manifests in order, each entry asked for    *)
(* its spec by PluginTool::discover, later layers winning a name.          *)
(***************************************************************************)
EXTENDS Integers, Sequences, FiniteSets, SequencesExt

CONSTANTS
    Native,      \* names, among Names, of the tools registered before any plugin
    Names,       \* names a plugin may report or be given
    MaxEntries   \* bound: entries in a manifest

\* What an entry's executable does when asked for its spec: report a name, fail, or
\* never answer.
Answers == Names \cup {"fails", "hangs"}

\* A manifest that is not there, one that does not parse, or its entries.
Manifests == {<<"missing">>, <<"bad">>}
             \cup {<<"entries", es>> : es \in BoundedSeq(Answers, MaxEntries)}

VARIABLES
    layers,    \* the manifests, global first
    layer,     \* the manifest being loaded
    entry,     \* the next entry in it; 0 before it is parsed
    registry,  \* name -> what is registered under it
    owner,     \* name -> the layer that last claimed it
    problems,  \* LoadReport.problems
    shadowed   \* LoadReport.shadowed

vars == <<layers, layer, entry, registry, owner, problems, shadowed>>

\* A layer number is a manifest path; 0 owns nothing.
Init ==
    /\ layers \in [1..2 -> Manifests]
    /\ layer = 1
    /\ entry = 0
    /\ registry = [n \in Names |-> IF n \in Native THEN <<"native">> ELSE <<>>]
    /\ owner = [n \in Names |-> 0]
    /\ problems = {}
    /\ shadowed = {}

Loaded == layer > Len(layers)
NextLayer == layer' = layer + 1 /\ entry' = 0

SkipMissing ==
    /\ ~Loaded
    /\ layers[layer] = <<"missing">>
    /\ NextLayer
    /\ UNCHANGED <<layers, registry, owner, problems, shadowed>>

RefuseManifest ==
    /\ ~Loaded
    /\ layers[layer] = <<"bad">>
    /\ problems' = problems \cup {<<layer>>}
    /\ NextLayer
    /\ UNCHANGED <<layers, registry, owner, shadowed>>

Entries == layers[layer][2]

ParseManifest ==
    /\ ~Loaded
    /\ layers[layer][1] = "entries"
    /\ entry = 0
    /\ IF Entries = <<>> THEN NextLayer ELSE entry' = 1 /\ UNCHANGED layer
    /\ UNCHANGED <<layers, registry, owner, problems, shadowed>>

\* Mutant: a claimed name is replaced without a word.
DiscoverQuiet ==
    /\ ~Loaded
    /\ entry > 0
    /\ LET answer == Entries[entry]
       IN  /\ answer # "hangs"
           /\ IF answer = "fails"
              THEN /\ problems' = problems \cup {<<layer, entry>>}
                   /\ UNCHANGED <<registry, owner, shadowed>>
              ELSE /\ registry' = [registry EXCEPT ![answer] = <<layer, entry>>]
                   /\ owner' = [owner EXCEPT ![answer] = layer]
                   /\ shadowed' = IF owner[answer] \in {0, layer} THEN shadowed
                                  ELSE shadowed \cup {<<answer, owner[answer]>>}
                   /\ UNCHANGED problems
    /\ IF entry = Len(Entries) THEN NextLayer
                               ELSE entry' = entry + 1 /\ UNCHANGED layer
    /\ UNCHANGED layers

\* An entry whose executable answers: one that hangs is waited for.
Discover ==
    /\ ~Loaded
    /\ entry > 0
    /\ LET answer == Entries[entry]
       IN  /\ answer # "hangs"
           /\ IF answer = "fails"
              THEN /\ problems' = problems \cup {<<layer, entry>>}
                   /\ UNCHANGED <<registry, owner, shadowed>>
              ELSE /\ registry' = [registry EXCEPT ![answer] = <<layer, entry>>]
                   /\ owner' = [owner EXCEPT ![answer] = layer]
                   /\ shadowed' = IF owner[answer] = 0 THEN shadowed
                                  ELSE shadowed \cup {<<answer, owner[answer]>>}
                   /\ UNCHANGED problems
    /\ IF entry = Len(Entries) THEN NextLayer
                               ELSE entry' = entry + 1 /\ UNCHANGED layer
    /\ UNCHANGED layers

Next == SkipMissing \/ RefuseManifest \/ ParseManifest \/ Discover

Spec == Init /\ [][Next]_vars

-----------------------------------------------------------------------------
\* The entries of all layers, in the order they are declared.
Declared == {d \in (1..2) \X (1..MaxEntries) :
                layers[d[1]][1] = "entries" /\ d[2] <= Len(layers[d[1]][2])}
AnswerOf(d) == layers[d[1]][2][d[2]]
Earlier(c, d) == c[1] < d[1] \/ (c[1] = d[1] /\ c[2] < d[2])
Claims(n) == {d \in Declared : AnswerOf(d) = n}

\* When loading is over, a name belongs to the last entry that reported it,
\* project after global, and otherwise to the tool the binary came with
\* (register_layers, "later layers winning on a name collision").
LastLayerWins ==
    Loaded => \A n \in Names :
        IF Claims(n) = {}
        THEN registry[n] = IF n \in Native THEN <<"native">> ELSE <<>>
        ELSE /\ registry[n] \in Claims(n)
             /\ \A d \in Claims(n) : d = registry[n] \/ Earlier(d, registry[n])

\* No plugin is quietly absent or quietly replaced: each declared entry ends
\* up registered, among the problems, or under a name whose shadowing of its
\* layer is reported (LoadReport).
EveryEntryAccounted ==
    Loaded => \A d \in Declared :
        \/ AnswerOf(d) = "fails" /\ d \in problems
        \/ AnswerOf(d) \in Names /\ registry[AnswerOf(d)] = d
        \/ AnswerOf(d) \in Names /\ <<AnswerOf(d), d[1]>> \in shadowed

\* Both: loading loses no entry without a word.
EntriesAreAccounted == LastLayerWins /\ EveryEntryAccounted

\* What the theorem assumes: no tool is called what a plugin that reports no name does.
Named == MaxEntries \in Nat /\ Names \intersect {"fails", "hangs"} = {}
=============================================================================
