SPECIFICATION Spec
CONSTANTS
    BinderThreads = {b1, b2}
    Worker = Worker
    NoThread = NoThread
    cb1 = cb1
    Callbacks = {cb1}
    NoCallback = NoCallback
    Calls <- ThreadCalls
    KernelEvents = {"partner"}
    MaxUevents = 2
    Faulty = {"role_read", "spurious", "crash", "epoll", "socket", "pthread_create"}
    b1 = b1
    b2 = b2
SYMMETRY ThreadSymmetry
INVARIANTS
    TypeOK
    NoLostPartnerSignal
    SwitchOutcome
    WorkerServesCallback
    PortFresh
PROPERTIES
    PortTypeOwned
CHECK_DEADLOCK FALSE
