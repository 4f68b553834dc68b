\* One sender hangs up: the worker, the other handlers and the shutdown all come to
\* their end nevertheless.
CONSTANTS
    h1 = h1
    h2 = h2
    h3 = h3
    h4 = h4
    c1 = c1
    c2 = c2
    c3 = c3
    c4 = c4
    e1 = e1
    e2 = e2
    Handlers = {h1, h2, h3}
    Chans = {c1, c2, c3}
    Endpoints = {e1, e2}
    EndpointOf <- Split3
    HangUps = {h1}
    Deletable = {}
    MayStop = TRUE
    Durable = TRUE
    IngestCap = 1
    BatchMax = 2
    FinalMax = 1
    MaxFaults = 1
SPECIFICATION FairSpec
CHECK_DEADLOCK FALSE
PROPERTIES
    EveryWaiterAnswered
    StopEnds
