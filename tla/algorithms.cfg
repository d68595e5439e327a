SPECIFICATION AlgorithmsSpec
CONSTANTS
    Running = {"intervals", "budget", "refs", "layers", "pair_runs", "rewrite", "names"}
    MaxLine = 5
    MaxLength = 4
    Documents <- MCDocuments
    Budgets <- MCBudgets
    BaseBytes = 4
    NoteBase = 3
    NoteEach = 5
    Schemas <- MCSchemas
    Inputs <- MCInputs
    Snapshots <- MCSnapshots
    Native = {"n1"}
    Names = {"n1", "n2"}
    MaxEntries = 2
    Families <- MCFamilies
    Known = {"trim"}
    Typed <- MCCommands
    Pasts <- MCPasts
    Opening = 6
    Databases <- MCDatabases
    Questions <- MCQuestions
    Alphabet <- MCAlphabet
CHECK_DEADLOCK FALSE
INVARIANT ListDenotesDelivered
INVARIANT AnswersArePartitions
INVARIANT NoteIsTruthful
INVARIANT OneListFits
 
INVARIANT EntriesAreAccounted
 
INVARIANT SkipsAreCounted
 
INVARIANT SlipsArePutRight
PROPERTY EveryTurnShrinks
