SPECIFICATION Spec
CONSTANTS
    BinderThreads = {b1, b2}
    NoThread = NoThread
    Requests <- ResetRequests
    Alone = {}
    Vendors <- UserBuild
    Daemons <- OneDaemon
    InitialFunctions <- NoFunctions
    Faulty = {}
    b1 = b1
    b2 = b2
INVARIANTS
    OnlyWholeShown
