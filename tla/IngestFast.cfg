\* Fast mode with a deleted endpoint, a transaction that fails and a shutdown.
CONSTANTS
    h1 = h1
    h2 = h2
    h3 = h3
    h4 = h4
    c1 = c1
    c2 = c2
    c3 = c3
    c4 = c4
    e1 = e1
    e2 = e2
    Handlers = {h1, h2, h3, h4}
    Chans = {c1, c2, c3, c4}
    Endpoints = {e1, e2}
    EndpointOf <- Split4
    HangUps = {}
    Deletable = {e2}
    MayStop = TRUE
    Durable = FALSE
    IngestCap = 1
    BatchMax = 2
    FinalMax = 1
    MaxFaults = 1
SPECIFICATION FairSpec
CHECK_DEADLOCK FALSE
PROPERTY
    AckedIsStored
