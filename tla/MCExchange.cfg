SPECIFICATION ExchangeSpec
CONSTANTS
    MaxPayload = 8
    Plains = {2, 3, 9}
    Wides = {0, 1}
    Paddings = {0, 7}
    Wrapping = 3
    MaxDefects = 3
    Events = 3
    DrainEvents = 2
    DrainSeconds = 5
    DeliverySeconds = 5
    MaxRetries = 2
    Candidates = 2
    Parts = 2
    MaxChunks = 2
    Deadline = 2
    MaxTime = 3
    e = e
    d = d
    s = s
    Nobody = Nobody
    Connections <- MCConnections
    Asks <- MCAsks
    MaxLaunches = 2
    MaxFaults = 1
INVARIANTS ContractKept RetriesAreSafe LeavesOneBehind StoreSafe
PROPERTIES CallerReturns FailsBeforeTheDatabase SilenceBlocksNobody
\* The process is launched so many times, and everything may be answered.
CHECK_DEADLOCK FALSE
