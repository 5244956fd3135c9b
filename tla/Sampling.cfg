SPECIFICATION Spec
CONSTANTS
    CYC_MAX = 1
    QUEUE_SHOW_MAX = 3
    SAM_NUM = 3
    RAND_MAX = 1
    Lens = {1}
    Probs = {}
    Dumps = FALSE
    MaxPkts = 3
    Configs <- MCSampling
    Children = {}
INVARIANTS
    TypeOK
    ErrorsMatchWindow
    LogErrorLag
CHECK_DEADLOCK FALSE
