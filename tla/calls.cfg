SPECIFICATION CallsSpec
CONSTANTS
    Ways = {"plugin", "frames", "commands"}
    Programs <- Every
    Request = 3
    Capacity = 2
    TimerFires = {TRUE, FALSE}
    FrameKinds <- MCFrames
    MaxFrames = 3
    OutputMayBreak = TRUE
    MayHang = TRUE
    Shells = {"a", "b"}
    Invocations <- MCInvocations
    Registered <- MCRegistered
    Answers <- MCAnswers
    MaxMade = 2
CHECK_DEADLOCK FALSE
INVARIANT AnswersAreKept
INVARIANT RepliesMatchRequests
INVARIANT EveryCallRecordedOnce
INVARIANT SurfacesDeliverAlike
 
PROPERTY EveryPluginCallReturns
PROPERTY EveryFrameHandled
