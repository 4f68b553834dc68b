\* A capture handler, over and over, and two editors of one endpoint; a minute is
\* two ticks and a handler takes up to one of them.
CONSTANTS
    c1 = c1
    e1 = e1
    e2 = e2
    url = url
    Captures = {c1}
    Editors = {e1, e2}
    Fields = {url}
    TTL = 2
    Lag = 1
    MaxWrites = 3
SPECIFICATION FairSpec
CHECK_DEADLOCK FALSE
INVARIANTS
    TypeOK
    StaleBound
    SequentialExact
    EditsKept
PROPERTY
    DeletedIsRefused
