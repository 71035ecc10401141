SPECIFICATION OperationsSpec
CONSTANTS
    Subjects = {"heartbeat", "service", "deploy", "gate", "hosts"}
    MaxBeats = 3
    MaxHeartbeatFaults = 2
    MaxStarts = 3
    KillMayFail = TRUE
    r1 = r1
    r2 = r2
    NoRevision = NoRevision
    Revisions <- MCRevisions
    MaxAttempts = 3
    MaxFaults = 2
    Redeploys = TRUE
    restart = restart
    notification = notification
    None = None
    Drills <- MCDrills
    MinTests = 2
    MaxRuns = 3
    Monitor = "monitor"
    Others = {"cache"}
    Addresses = {"old", "new"}
    MaxLines = 3
INVARIANTS HeartbeatsAdvance NoMonitorLeftBehind DeploySafe ReportIsTrue
PROPERTIES SuccessNeverGoesBack StopEndsLoop
PROPERTIES StopOfRunningMonitorEndsService OnboardingIsSafe
\* The services may stay off, and the deployment and the gate are not run again
\* once their attempts are used.
CHECK_DEADLOCK FALSE
