SPECIFICATION Spec
CONSTANTS
    PARTICLE_NUM = 2
    MAX_EPOCH = 2
    Mv = 1
    Starts <- MCStarts
    StartVels = {2}
    Inertias = {1}
    Pulls = {1}
    Targets = {0, 2}
    Hiddens = {1, 2}
    ZeroHidden = 2
    MaxIter = 2
    MaxChange = 1
INVARIANTS DecidesOnBestTried
PROPERTIES GbestvalFalls
CHECK_DEADLOCK FALSE
