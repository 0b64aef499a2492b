CONSTANTS
    None = None
    t1 = t1  t2 = t2  t3 = t3  t4 = t4
    Thread = {t1, t2, t3, t4}
    InitValue = 2
    MaxAvail = 2
    MutexUse = TRUE
    Machines <- SmpOrSignals
    Kill = FALSE
SPECIFICATION FairSpecSignals
INVARIANTS
    SemInv
    WaitersCounted
    NoLostWakeup
PROPERTIES
    ImplementsCounter
    EveryWaiterGetsIn
