SPECIFICATION FairSpec
CONSTANTS
    PROB_TIME = 3
    LATENCY = 1
    RunTime = 8
    Disorder = TRUE
    MaxInst = 2
INVARIANTS
    NoUseAfterFree
    CodeOutlivesThreads
    StopsOwnController
PROPERTIES ControllerStopped StopHonoured
CHECK_DEADLOCK FALSE
