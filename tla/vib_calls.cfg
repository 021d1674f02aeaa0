SPECIFICATION Spec
CONSTANTS
    BinderThreads = {b1, b2}
    KnownCalibrations <- Known
    Calls <- SomeCalls
    Durations <- ProductDurations
    Strays = {0}
    TwoTo31 = 32768
    Faulty = {"duration"}
SYMMETRY Symmetry
INVARIANTS
    TypeOK
    OkMeansStarted
    ColdRunsLow
    LevelExists
