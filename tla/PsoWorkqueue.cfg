SPECIFICATION Spec
CONSTANTS
    THREAD_NUM = 3
    ParticleNum = 3
    MaxEpoch = 5
    ergrdep = 2
    MaxRounds = 7
INVARIANT RoundComplete
PROPERTY BarrierOpens
CHECK_DEADLOCK FALSE
