SPECIFICATION Spec
CONSTANTS
    BinderThreads = {b1, b2}
    NoThread = NoThread
    Requests <- SetAndResetRequests
    Alone <- Resets
    Vendors <- DebugBuild
    Daemons <- TwoDaemons
    InitialFunctions <- NoFunctions
    Faulty = {"link", "ids", "UDC", "crash"}
    b1 = b1
    b2 = b2
SYMMETRY ThreadSymmetry
INVARIANTS
    TypeOK
    SuccessMeansShown
PROPERTIES
    HostSeesDisconnect
