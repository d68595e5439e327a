SPECIFICATION Spec
CONSTANTS
    Programs <- Blocking
    Request = 3
    Capacity = 2
    TimerFires = {TRUE, FALSE}
CHECK_DEADLOCK FALSE
PROPERTY EveryCallTimesOut
