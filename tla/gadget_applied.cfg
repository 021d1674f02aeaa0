SPECIFICATION Spec
CONSTANTS
    BinderThreads = {b1}
    NoThread = NoThread
    Requests <- AppliedRequests
    Alone = {}
    Vendors <- UserBuild
    Daemons <- OneDaemon
    InitialFunctions <- NoFunctions
    Faulty = {}
    b1 = b1
INVARIANTS
    AppliedIsLinked
