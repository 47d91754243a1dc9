SPECIFICATION FairSpec
CONSTANTS
    Files <- MCFiles
    MaxRepairs = 2
INVARIANT StartedConfigIsSound
PROPERTIES SignalExits FailureExits
CHECK_DEADLOCK FALSE
