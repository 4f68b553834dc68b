\* One job, one pool worker, one overflow goroutine, one disturbance.
CONSTANTS
    j1 = j1
    j2 = j2
    p1 = p1
    p2 = p2
    o1 = o1
    Jobs = {j1}
    BadScripts = {}
    Pool = {p1}
    Overflow = {o1}
    QueueCap = 1
    DoneCap = 1
    FlushAt = 1
    ClaimLimit = 2
    MaxAttempts = 2
    MaxFaults = 1
    Durable = TRUE
    KeepDelivered = FALSE
SPECIFICATION FairSpec
CHECK_DEADLOCK FALSE
PROPERTIES
    EventuallySettled
    Quiesces
