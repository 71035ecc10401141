SPECIFICATION OperationsSpec
CONSTANTS
    Subjects = {"service"}
    MaxBeats = 3
    MaxHeartbeatFaults = 2
    MaxStarts = 1
    KillMayFail = FALSE
    r1 = r1
    r2 = r2
    NoRevision = NoRevision
    Revisions <- MCRevisions
    MaxAttempts = 1
    MaxFaults = 0
    Redeploys = TRUE
    restart = restart
    notification = notification
    None = None
    Drills <- MCDrills
    MinTests = 2
    MaxRuns = 3
    Monitor = "monitor"
    Others = {"cache"}
    Addresses = {"old", "new"}
    MaxLines = 3
PROPERTY StopEndsService
\* The service may stay down after its last start.
CHECK_DEADLOCK FALSE
