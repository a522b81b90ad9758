SPECIFICATION FairSpec
CONSTANTS
    BITS = 4
    BLOCK_SIZE = 2
    SOH = 1
    EOT = 4
    CAN = 10
    Scenario <- MCScenario
    MAX_ERRORS = 3
CHECK_DEADLOCK FALSE
INVARIANTS
    TypeOK
    AcceptedPrefix
    CompleteOnSuccess
    AckedIsStored
PROPERTIES
    IsTransfer
    TransferEnds
    RecoversFromDataErrors
