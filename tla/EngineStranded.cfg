SPECIFICATION FairSpec
CONSTANTS
    c1 = c1
    Checks = {c1}
    Callers = {w1}
    Loop = Loop
    MaxId = 1
    FailureCap = 1
    EventCap = 1
    MayStop = FALSE
    MayClose = FALSE
    MaxRestarts = 1
    StoreMayFail = FALSE
    ClockStepsBack = FALSE
    Repairs <- Unlimited
    Recipes = {"restart"}
    SemCap = 1
    Window = 1
    MaxTime = 0
PROPERTY RepairingEnds
CHECK_DEADLOCK FALSE
