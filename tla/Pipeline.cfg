SPECIFICATION WatcherSpec
CONSTANTS
    c1 = c1
    kubeCheck = kubeCheck
    o1 = o1
    o2 = o2
    Checks = {c1, kubeCheck}
    Scheduled = {c1}
    Workers = {w1, w2}
    Outcomes = {"healthy", "failed"}
    Agents <- OneWriter
    Objects = {o1, o2}
    Failures = {o1, o2}
    CheckName <- SharedName
    MaxVersion <- OneRecurs
    ResultCap = 1
    Callers = {}
    Loop = Loop
    MaxId = 2
    FailureCap = 2
    EventCap = 1
    MayStop = TRUE
    MayClose = FALSE
    MaxRestarts = 0
    StoreMayFail = FALSE
    ClockStepsBack = FALSE
INVARIANTS CaughtUp ReplaysBoundCount NewestRunDecides
PROPERTIES WatchesAgain WatcherStops
CHECK_DEADLOCK FALSE
