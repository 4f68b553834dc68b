\* Five calls on two machines: t1 never ends and saves its payload before, t2 may be
\* slow and assigns a function, t3 is quick, inline and uses what is saved; t4 has a
\* payload that is no object and t5 a script that does not compile.
CONSTANTS
    t1 = t1
    t2 = t2
    t3 = t3
    t4 = t4
    t5 = t5
    v1 = v1
    v2 = v2
    None = None
    Calls = {t1, t2, t3, t4, t5}
    VMs = {v1, v2}
    Broken = {t5}
    BadJSON = {t4}
    Declaring = {t1}
    Assigning = {t2}
    Saving = {t1}
    Using = {t3}
    Slow = {t1, t2}
    Endless = {t1}
SPECIFICATION FairSpec
CHECK_DEADLOCK FALSE
INVARIANTS
    TypeOK
    OwnResult
    FairInterrupts
    GuardStands
PROPERTY
    EveryCallEnds
