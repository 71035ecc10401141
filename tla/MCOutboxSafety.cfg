SPECIFICATION Spec
CONSTANTS
    heartbeat = heartbeat
    agent = agent
    small = small
    large = large
    refused = refused
    broken = broken
    Free = Free
    Procs <- MCProcs
    Service = heartbeat
    Payloads <- MCPayloads
    Reasons <- MCReasons
    PayloadBytes <- MCPayloadBytes
    Events = {1, 2, 3}
    Times = {1}
    ReasonBytes = 1
    MaxEvents = 2
    MaxBytes = 6
    MaxDrainEvents = 2
    Faults = {"crash", "damage", "unlink", "write", "outage"}
    MaxFaults = 2
    MaxEnqueues = 3
INVARIANTS NoAcceptedEventLost TwinsAgree QuotaRespected NoPoisonRetry
PROPERTIES DeadLettersKept KeepsPromise
