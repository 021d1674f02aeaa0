SPECIFICATION FairSpec
CONSTANTS
    BinderThreads = {b1}
    Worker = Worker
    NoThread = NoThread
    cb1 = cb1
    Callbacks = {cb1}
    NoCallback = NoCallback
    Calls <- LiveCalls
    KernelEvents = {"partner", "role", "other"}
    MaxUevents = 1
    Faulty = {}
INVARIANTS
    PortFresh
PROPERTIES
    CallsReturn
    PartnerReported
