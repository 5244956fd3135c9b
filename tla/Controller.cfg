SPECIFICATION FairAqmSpec
CONSTANTS
    CYC_MAX = 1
    QUEUE_SHOW_MAX = 1
    SAM_NUM = 3
    RAND_MAX = 2
    Lens = {1}
    Probs <- MCProbs
    Dumps = FALSE
    MaxPkts = 2
    Configs <- MCConfigs
    Children = {}
    Jacobians <- MCJacobians
    MaxGain = 1
INVARIANTS
    SettledInRange
    GainsFloored
    SamplesNeverRaw
PROPERTIES RangeRestored QdiscImplemented
CHECK_DEADLOCK FALSE
