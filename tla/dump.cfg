SPECIFICATION FairSpec
CONSTANTS
    Calls <- SomeCalls
    TouchCalls <- PlainCalls
    MaxFileNums <- AllOrOne
    Single <- OnlyRil
    TcpdumpLogs = 0
    ExtendedLogs = 0
    MaxLogs = 2
    MaxBlocks = 2
    MaxCrashes = 1
    Faulty = {"crash", "log_props", "pthread_create", "mkdir"}
INVARIANTS
    TypeOK
    NothingMissing
    NothingStale
    NewestCopied
    LogsWhole
    SwitchedBack
PROPERTIES
    CallsReturn
