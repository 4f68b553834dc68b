\* Four handlers for two endpoints, one of which is deleted meanwhile, one sender
\* that hangs up, a shutdown and a transaction that fails; durable mode.
CONSTANTS
    h1 = h1
    h2 = h2
    h3 = h3
    h4 = h4
    c1 = c1
    c2 = c2
    c3 = c3
    c4 = c4
    e1 = e1
    e2 = e2
    Handlers = {h1, h2, h3, h4}
    Chans = {c1, c2, c3, c4}
    Endpoints = {e1, e2}
    EndpointOf <- Split4
    HangUps = {h1}
    Deletable = {e2}
    MayStop = TRUE
    Durable = TRUE
    IngestCap = 2
    BatchMax = 2
    FinalMax = 1
    MaxFaults = 1
SPECIFICATION Spec
SYMMETRY ChanSymmetry
CHECK_DEADLOCK FALSE
INVARIANTS
    TypeOK
    AckedIsCommitted
    RefusedIsNotStored
    NobodyStranded
PROPERTY
    ImplementsAcknowledgment
