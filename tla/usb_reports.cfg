SPECIFICATION Spec
CONSTANTS
    BinderThreads = {b1}
    Worker = Worker
    NoThread = NoThread
    cb1 = cb1
    Callbacks = {cb1}
    NoCallback = NoCallback
    Calls <- ReportCalls
    KernelEvents = {"partner", "moisture"}
    MaxUevents = 1
    Faulty = {"usb_data", "moisture_read", "sink_limit_read"}
INVARIANTS
    PortFresh
    SettingsFresh
    EnableOutcome
