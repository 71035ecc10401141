SPECIFICATION FairRestartSpec
CONSTANTS
    runner = runner
    service = service
    succeeded = succeeded
    failed = failed
    None = None
    Runners <- MCRunners
    Streams <- MCStreams
    Jobs <- MCJobs
    Outcomes <- MCOutcomes
    Events <- Crossing
    Timeout = 1
    Retention = 1
    MaxNow = 4
    MaxLog = 3
    MaxRestarts = 2
INVARIANTS TypeOK OfflineIffIncident AppliedAtMostOnce RunningRunnerHasRunningJob
INVARIANT OnlyGoodbyeForgotten
PROPERTIES TerminalNeverRegresses RestartIsInvisible SilenceIsNoticed
