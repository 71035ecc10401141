SPECIFICATION FairTelemetry
CONSTANTS
    runner = runner
    succeeded = succeeded
    None = None
    Runners <- MCRunners
    Streams <- MCJobs
    Jobs <- MCJobs
    Outcomes <- MCOutcomes
    Events <- MCEvents
    Timeout = 0
    Retention = 0
    MaxNow = 1
    MaxLog = 3
    MaxInteger = 2
    MaxRotations = 1
    Followed <- MCFollowed
INVARIANTS ExactlyOnce FinishedIsShown
PROPERTY AcceptedSettles
\* Everything may be answered.
CHECK_DEADLOCK FALSE
