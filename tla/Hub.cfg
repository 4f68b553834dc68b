\* Two dashboards on one endpoint, two messages about it and one about another.
CONSTANTS
    c1 = c1
    c2 = c2
    m1 = m1
    m2 = m2
    m3 = m3
    e1 = e1
    e2 = e2
    Endpoints = {e1, e2}
    Conns = {c1, c2}
    EndpointOf <- Watching
    Messages = {m1, m2, m3}
    Target <- About
SPECIFICATION FairSpec
CHECK_DEADLOCK FALSE
INVARIANTS
    TypeOK
    WatchersExact
    DiesByOverlap
PROPERTIES
    EveryWatcherServed
    ClosedIsCleanedUp
