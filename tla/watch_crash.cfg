SPECIFICATION Spec
CONSTANTS
    s1 = s1
    s2 = s2
    Sessions = {s1, s2}
    CallKinds <- MCThree
    NoTarget = NoTarget
    ReadsBack <- MCPlain
    RepeatReads = 2
    ReadChain = 2
    RepeatFetches = 2
    LargeOutput = 3
    MinCallsBetween = 3
    Env = {"cut"}
    MaxCalls <- MCCalls
    MaxDays = 1
    MaxAdvice <- MCAdvice
CHECK_DEADLOCK FALSE
INVARIANT CrashCostsOneRecord
