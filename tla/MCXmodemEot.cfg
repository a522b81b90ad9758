SPECIFICATION Spec
CONSTANTS
    BITS = 4
    BLOCK_SIZE = 2
    SOH = 1
    EOT = 4
    CAN = 10
    Scenario <- EotScenario
    MAX_ERRORS = 1
CHECK_DEADLOCK FALSE
INVARIANTS
    CompleteOnSuccess
