\* Two requests one after the other, the sender of the first of which hangs up: what
\* durable mode promises does not hold.
CONSTANTS
    h1 = h1
    h2 = h2
    h3 = h3
    h4 = h4
    c1 = c1
    c2 = c2
    c3 = c3
    c4 = c4
    e1 = e1
    e2 = e2
    Handlers = {h1, h2}
    Chans = {c1, c2}
    Endpoints = {e1}
    EndpointOf <- OneEndpoint
    HangUps = {h1}
    Deletable = {}
    MayStop = FALSE
    Durable = TRUE
    IngestCap = 1
    BatchMax = 2
    FinalMax = 1
    MaxFaults = 0
SPECIFICATION Spec
CHECK_DEADLOCK FALSE
INVARIANT AckImpliesCommitted
