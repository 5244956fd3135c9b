SPECIFICATION Spec
CONSTANTS
    QUEUE_SHOW_MAX = 5
    BATCH = 3
    PAGE = 6
    HEADER = 1
    RowSizes = {1, 2}
    MaxSamples = 8
INVARIANT BatchComplete
CHECK_DEADLOCK FALSE
