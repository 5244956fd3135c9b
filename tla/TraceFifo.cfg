SPECIFICATION FairSpec
CONSTANTS
    BUF_SIZE = 8
    REC = 3
    MAX_TO_GET = 3
    Readers = {r1, r2}
    MaxRecords = 3
    MaxOpens = 2
INVARIANTS
    FifoBounded
    RecordsAccounted
    FreedUntouched
PROPERTIES StreamInOrder RowsRealign ReadEnds
CHECK_DEADLOCK FALSE
