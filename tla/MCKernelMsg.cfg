SPECIFICATION Spec
CONSTANTS
    NULL = NULL
    STATIC = STATIC
    THREAD_NUM = 3
    PRIORITY_NUM = 1
    HEADER = 6
    MSGBUF = 14
    PoolSize <- MCPoolSize
    PoolNum <- MCPoolNum
    Box = {c1, c2}
    Sizes <- MCSizes
    WakeReceivers = FALSE
    Calls = {"run", "exit", "kmalloc", "kmfree", "send", "recv", "setintr"}
INVARIANTS
    HeapPartition
    BoxQueues
    ReceiverWaits
PROPERTIES
    FifoDelivery
    HandOver
