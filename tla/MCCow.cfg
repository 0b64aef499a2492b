CONSTANTS
    p1 = p1  p2 = p2  p3 = p3  t1 = t1  t2 = t2  t3 = t3
    s = s  a = a  b = b  c = c  f1 = f1  f2 = f2  f3 = f3  None = None
    Proc = {p1, p2, p3}
    Thread = {t1, t2, t3}
    ProcOf <- OneThreadEach
    Va = {s, a, b, c}
    Kind <- AllKinds
    Frame = {f1, f2, f3}
    Value = {0, 1}
SPECIFICATION Spec
SYMMETRY Symmetry
INVARIANTS
    RefcntIsHolders
    RightToWrite
    PrivateMemory
CHECK_DEADLOCK FALSE
