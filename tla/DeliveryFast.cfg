\* Fast mode on Postgres: two jobs, so that claims and flushes are batches, one pool
\* worker and one disturbance.
CONSTANTS
    j1 = j1
    j2 = j2
    p1 = p1
    p2 = p2
    o1 = o1
    Jobs = {j1, j2}
    BadScripts = {}
    Pool = {p1}
    Overflow = {}
    QueueCap = 1
    DoneCap = 1
    FlushAt = 2
    ClaimLimit = 2
    MaxAttempts = 2
    MaxFaults = 1
    Durable = FALSE
    KeepDelivered = TRUE
SPECIFICATION FairSpec
CHECK_DEADLOCK FALSE
INVARIANT FastLossKnown
PROPERTIES
    ImplementsContract
    Quiesces
