SPECIFICATION FairSpec
CONSTANTS
    BinderThreads = {b1}
    Worker = Worker
    NoThread = NoThread
    cb1 = cb1
    Callbacks = {cb1}
    NoCallback = NoCallback
    Calls <- RegisterCalls
    KernelEvents = {"partner"}
    MaxUevents = 1
    Faulty = {}
PROPERTIES
    FlagDestroysWorker
CHECK_DEADLOCK FALSE
