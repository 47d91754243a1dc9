SPECIFICATION Spec
CONSTANTS
    Checks = {c1}
    Callers = {g1}
    Loop = Loop
    MaxId = 2
    FailureCap = 2
    EventCap = 1
    MayStop = TRUE
    MayClose = TRUE
    MaxRestarts = 2
    StoreMayFail = TRUE
    ClockStepsBack = FALSE
INVARIANTS TypeOK DiskMatchesMemory
PROPERTIES StoreIsLog RestartIsLossless
