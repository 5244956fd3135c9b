SPECIFICATION FairAqmSpec
CONSTANTS
    CYC_MAX = 1
    QUEUE_SHOW_MAX = 1
    SAM_NUM = 3
    RAND_MAX = 2
    Lens = {1}
    Probs = {}
    Dumps = FALSE
    MaxPkts = 2
    Configs <- MCOneConfig
    Children = {}
    Jacobians <- MCJacobians
    MaxGain = 1
CHECK_DEADLOCK FALSE
PROPERTY PacketsJudgedInRange
