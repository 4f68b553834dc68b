\* Both stores; two requests would not meet, so one, with its first job and a
\* replay; two workers, so that a copy can outlive its lease and its row; one
\* statement of the cleaner fails.
CONSTANTS
    q1 = q1
    j1 = j1
    j2 = j2
    w1 = w1
    w2 = w2
    r1 = r1
    None = None
    Requests = {q1}
    Jobs = {j1, j2}
    Workers = {w1, w2}
    Replayers = {r1}
    Stores = {"sqlite", "postgres"}
    MaxFaults = 1
SPECIFICATION FairSpec
CHECK_DEADLOCK FALSE
INVARIANTS
    TypeOK
    AcceptedKept
PROPERTY
    ExpiredIsPruned
