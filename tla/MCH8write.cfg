SPECIFICATION FairSpec
CONSTANTS
    BIT_RATE_SET_MAX_3069 = 3
    BIT_RATE_SET_MAX = 4
    TRIES = 4
    ROMBUF_SIZE = 16
    ENABLE_SIZE = 4
    PAGE_SIZE = 4
    FREQ = 2000
    Scenario <- MCScenario
    MAX_FLIPS = 1
    MAX_RERUNS = 1
INVARIANTS
    TypeOK
    SuccessMeansWritten
    PageSizeHeard
    AckedPagesWritten
    FlashNeverMixes
PROPERTIES
    CleanRunSucceeds
CHECK_DEADLOCK FALSE
