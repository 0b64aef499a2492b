CONSTANTS
    None = None  p1 = p1  p2 = p2
    t1 = t1  t2 = t2  t3 = t3  f1 = f1  f2 = f2  a1 = a1  a2 = a2
    Thread = {t1, t2}
    FutexId = {f1, f2}
    Addr = {a1, a2}
    Proc = {p1}
    ProcOf <- OneProc
    MaxStore = 1
    Programs <- WakesAndTimers
SPECIFICATION Spec
SYMMETRY Symmetry
INVARIANTS
    RacePanicFree
CHECK_DEADLOCK FALSE
