SPECIFICATION FairSpec
CONSTANTS
    SOFTVEC_SIZE = 2
    PROGRAM_SIZE = 8
    BUFFER_SIZE = 40
    BUF_SIZE = 6
    BLOCK_SIZE = 10
    Files <- MCFiles
    Lines <- MCLines
    MAX_LOADS = 2
    MAX_RESETS = 1
INVARIANTS
    BootTypeOK
    SizeMatchesBuffer
    ResetForgets
    RunsWhatWasLoaded
PROPERTIES
    DumpShowsFile
    CommandsEnd
CHECK_DEADLOCK FALSE
