SPECIFICATION FairSpec
CONSTANTS
    c1 = c1
    Checks = {c1}
    Callers = {w1, w2}
    Loop = Loop
    MaxId = 2
    FailureCap = 1
    EventCap = 1
    MayStop = TRUE
    MayClose = FALSE
    MaxRestarts = 1
    StoreMayFail = FALSE
    ClockStepsBack = FALSE
    Repairs <- Unlimited
    Recipes = {"restart"}
    SemCap = 1
    Window = 1
    MaxTime = 0
PROPERTIES OpenIncidentIsRepaired ShutdownCompletes
CHECK_DEADLOCK FALSE
