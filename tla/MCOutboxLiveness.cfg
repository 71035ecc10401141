SPECIFICATION FairSpec
CONSTANTS
    heartbeat = heartbeat
    agent = agent
    small = small
    large = large
    refused = refused
    broken = broken
    Free = Free
    Procs <- MCProcs
    Service = heartbeat
    Payloads <- MCPayloads
    Reasons <- MCReasons
    PayloadBytes <- MCPayloadBytes
    Events = {1, 2}
    Times = {1, 2}
    ReasonBytes = 1
    MaxEvents = 2
    MaxBytes = 6
    MaxDrainEvents = 1
    Faults = {"crash", "unlink", "outage", "listing"}
    MaxFaults = 1
    MaxEnqueues = 2
PROPERTIES PendingEventuallyLeaves LockReleased
