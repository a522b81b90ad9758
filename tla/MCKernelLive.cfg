SPECIFICATION FairSpec
CONSTANTS
    NULL = NULL
    STATIC = STATIC
    THREAD_NUM = 3
    PRIORITY_NUM = 2
    HEADER = 6
    MSGBUF = 14
    PoolSize <- MCPoolSize
    PoolNum <- MCPoolNum
    Box = {c1}
    Sizes = {}
    WakeReceivers = FALSE
    Calls = {"run", "wait", "sleep", "wakeup", "chpri", "setintr"}
PROPERTIES
    NoStarvation
