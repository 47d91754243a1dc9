SPECIFICATION FairSpec
CONSTANTS
    Checks = {c1, c2}
    Workers = {w1}
    Outcomes = {"failed"}
    ResultCap = 1
    MaxStarts = 2
INVARIANTS NoSendOnClosed StopLeavesNothing
PROPERTIES StopReturns DueCheckRuns WaitsForLeaving MissedGoroutinesEnd
CHECK_DEADLOCK FALSE
