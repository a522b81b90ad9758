SPECIFICATION Spec
CONSTANTS
    NULL = NULL
    STATIC = STATIC
    THREAD_NUM = 2
    PRIORITY_NUM = 2
    HEADER = 6
    MSGBUF = 14
    PoolSize <- MCPoolSize
    PoolNum <- MCPoolNum
    Box = {c1}
    Sizes = {}
    WakeReceivers = FALSE
    Calls = {"run", "exit"}
INVARIANTS
    RunReturns
