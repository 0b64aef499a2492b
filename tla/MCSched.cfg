CONSTANTS
    c1 = c1  c2 = c2
    t1 = t1  t2 = t2  t3 = t3
    None = None
    CPU = {c1, c2}
    Thread = {t1, t2, t3}
    InitThread = t1
    MaxTkill = 1
SPECIFICATION FairSpec
INVARIANTS
    IInv
    OneHartPerThread
    DispatchesSavedContext
    SchedLocks
PROPERTIES
    RunnableRuns
    ImplementsAbstractSched
