\* One job, so that all of its copies meet: two pool workers, an overflow
\* goroutine, full queues and two disturbances; SQLite.
CONSTANTS
    j1 = j1
    j2 = j2
    p1 = p1
    p2 = p2
    o1 = o1
    Jobs = {j1}
    BadScripts = {}
    Pool = {p1, p2}
    Overflow = {o1}
    QueueCap = 1
    DoneCap = 1
    FlushAt = 1
    ClaimLimit = 2
    MaxAttempts = 2
    MaxFaults = 2
    Durable = TRUE
    KeepDelivered = FALSE
SPECIFICATION Spec
SYMMETRY Symmetry
CHECK_DEADLOCK FALSE
INVARIANTS
    TypeOK
    NoAckedLoss
    GivenUpHonestly
    OneAtATime
PROPERTY ImplementsContract
