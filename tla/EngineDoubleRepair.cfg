SPECIFICATION EngineSpec
CONSTANTS
    c1 = c1
    Checks = {c1}
    Callers = {w1, w2}
    Loop = Loop
    MaxId = 1
    FailureCap = 1
    EventCap = 2
    MayStop = FALSE
    MayClose = FALSE
    MaxRestarts = 0
    StoreMayFail = FALSE
    ClockStepsBack = FALSE
    Repairs <- Unlimited
    Recipes = {"restart"}
    SemCap = 2
    Window = 1
    MaxTime = 0
INVARIANT NoDoubleRepair
CHECK_DEADLOCK FALSE
