SPECIFICATION ReadSideSpec
CONSTANTS
    Subjects = {"page", "snapshot"}
    quiet = quiet
    busy = busy
    old = old
    new = new
    agent = agent
    succeeded = succeeded
    J = J
    K = K
    None = None
    RunnerFilters <- MCRunners
    Stored <- MCStored
    PageSize = 1
    SnapshotWindow = 2
    MaxEvents = 3
    MaxClicks = 2
    MaxFailures = 1
    Runners <- MCRunners
    Streams <- MCStreams
    Jobs <- MCJobs
    Outcomes <- MCOutcomes
    Events <- Fleet
    Approved = {"lint_check"}
    Timeout = 1
    Retention = 1
    MaxNow = 3
    MaxLog = 4
    Window = 3
    FeedLimit = 2
    TimelineLimit = 2
INVARIANTS DashboardTypeOK GoingOlderSkipsNothing OneMoment WindowsAgree
PROPERTIES SnapshotNeverGoesBack TableShowsWhatWasAsked
\* The page stops asking while auto-refresh is paused.
CHECK_DEADLOCK FALSE
