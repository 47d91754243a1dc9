SPECIFICATION EngineSpec
CONSTANTS
    c1 = c1
    Checks = {c1}
    Callers = {w1, w2}
    Loop = Loop
    MaxId = 2
    FailureCap = 1
    EventCap = 1
    MayStop = TRUE
    MayClose = FALSE
    MaxRestarts = 0
    StoreMayFail = FALSE
    ClockStepsBack = FALSE
    Repairs <- OnePerHour
    Recipes = {"restart"}
    SemCap = 2
    Window = 1
    MaxTime = 1
SYMMETRY Symmetry
INVARIANTS RepairingHasWorker RateLimitOvershoot
CHECK_DEADLOCK FALSE
