SPECIFICATION ReadSideSpec
CONSTANTS
    Subjects = {"page"}
    quiet = quiet
    busy = busy
    old = old
    new = new
    agent = agent
    succeeded = succeeded
    J = J
    K = K
    None = None
    RunnerFilters <- MCRunners
    Stored <- MCStored
    PageSize = 1
    SnapshotWindow = 2
    MaxEvents = 3
    MaxClicks = 0
    MaxFailures = 0
    Runners <- MCRunners
    Streams <- MCStreams
    Jobs <- MCJobs
    Outcomes <- MCOutcomes
    Events <- Fleet
    Approved = {"lint_check"}
    Timeout = 1
    Retention = 1
    MaxNow = 3
    MaxLog = 4
    Window = 3
    FeedLimit = 2
    TimelineLimit = 2
INVARIANT PhaseStaysShown
