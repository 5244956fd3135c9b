SPECIFICATION FairSpec
CONSTANTS
    PROB_TIME = 4
    LATENCY = 1
    RunTime = 2
    Disorder = FALSE
    MaxInst = 1
INVARIANT NoUseAfterFree
CHECK_DEADLOCK FALSE
