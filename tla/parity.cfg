SPECIFICATION JudgedSpec
CONSTANTS
    Judged = {"port", "documents"}
    Tools = {"t", "u"}
    Inputs = {1, 2}
    Ids = {"001", "002"}
    Numbered <- MCNumbered
    CaseFiles <- MCCaseFiles
    Reference <- MCReference
    Answers <- MCAnswers
    AcceptPaths <- MCAccept
    Budget = 1
    MaxPorts = 2
    Documents <- MCDocuments
    Options <- MCOptions
    SerialOrder <- MCSerialOrder
    Indices <- MCIndices
    MaxDepth = 2
INVARIANT SuccessIsParity
INVARIANT EveryCaseAccounted
 
