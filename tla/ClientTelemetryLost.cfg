SPECIFICATION FairSpec
CONSTANTS
    MaxItems = 1
    MaxReports <- ReportBounds
    BufferCap = 2
    ReportCap = 1
    MaxBackoff = 1
PROPERTY TelemetryKept
CHECK_DEADLOCK FALSE
