SPECIFICATION ConsoleSpec
CONSTANTS
    NULL = NULL
    STATIC = STATIC
    THREAD_NUM = 3
    PRIORITY_NUM = 16
    HEADER = 6
    MSGBUF = 14
    PoolSize <- MCPoolSize
    PoolNum <- MCPoolNum
    Box = {CONSINPUT, CONSOUTPUT}
    CONSINPUT = CONSINPUT
    CONSOUTPUT = CONSOUTPUT
    CONS_BUFFER_SIZE = 24
    Sizes <- MCSizes
    WakeReceivers = FALSE
    Calls <- MCCalls
    Char <- RealChar
    Prompt <- RealPrompt
    Unknown <- RealUnknown
    EchoWord <- RealEcho
    Session <- LongEcho
    TypeAhead = FALSE
CHECK_DEADLOCK FALSE
INVARIANTS
    BuffersHold
