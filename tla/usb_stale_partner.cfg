SPECIFICATION Spec
CONSTANTS
    BinderThreads = {b1}
    Worker = Worker
    NoThread = NoThread
    cb1 = cb1
    Callbacks = {cb1}
    NoCallback = NoCallback
    Calls <- ModeCalls
    KernelEvents = {"partner"}
    MaxUevents = 2
    Faulty = {}
INVARIANTS
    PartnerCameBack
