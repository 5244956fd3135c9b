SPECIFICATION Spec
CONSTANTS
    CYC_MAX = 2
    QUEUE_SHOW_MAX = 2
    SAM_NUM = 3
    RAND_MAX = 1
    Lens = {1, 2}
    Probs = {1}
    Dumps = TRUE
    MaxPkts = 3
    Configs <- MCConfigs
    Children <- MCChildren
INVARIANTS
    PacketsConserved
    CountersAgree
    BacklogExact
PROPERTIES ImplementsLossyQueue
CHECK_DEADLOCK FALSE
