SPECIFICATION FairSpec
CONSTANTS
    MaxItems = 3
    MaxReports <- ReportBounds
    BufferCap = 2
    ReportCap = 1
    MaxBackoff = 1
INVARIANTS TypeOK ReceivedInOrder NoOrphanLoops NilConnOnlyAtShutdown
PROPERTIES Reconnects ClientStops BufferImplementsQueue LossesAreNamed
CHECK_DEADLOCK FALSE
