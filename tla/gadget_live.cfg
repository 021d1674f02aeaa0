SPECIFICATION StackFairSpec
CONSTANTS
    BinderThreads = {b1}
    NoThread = NoThread
    Requests <- StackRequests
    Alone = {}
    Vendors <- UserBuild
    Daemons <- OneDaemon
    InitialFunctions <- NoFunctions
    Faulty = {}
    UsbThreads = {u1}
    Worker = Worker
    Callbacks = {}
    NoCallback = NoCallback
    Calls <- NodeCalls
    KernelEvents = {}
    MaxUevents = 1
    UsbFaulty = {"UDC_write"}
    b1 = b1
    u1 = u1
INVARIANTS
    EnabledDuringCall
    GadgetBindsWhole
    MonitorServesCurrent
PROPERTIES
    CallsReturn
    PulledUpWhenReady
