\* The code's own numbers in ticks of ten seconds: 5 failures, cooldowns of 30s
\* up to 5min, a client timeout of 10s; three workers on the one target (no
\* symmetry: liveness).
CONSTANTS
    w1 = w1
    w2 = w2
    w3 = w3
    Workers = {w1, w2, w3}
    cbThreshold = 5
    cbCooldown = 3
    cbMaxCooldown = 30
    ClientTimeout = 1
SPECIFICATION FairSpec
INVARIANTS
    TypeOK
    SingleProbe
PROPERTIES
    ProbeAfterSilence
    Recovers
