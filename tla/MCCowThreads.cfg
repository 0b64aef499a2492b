CONSTANTS
    p1 = p1  p2 = p2  p3 = p3  t1 = t1  t2 = t2  t3 = t3
    s = s  a = a  b = b  c = c  f1 = f1  f2 = f2  f3 = f3  f4 = f4  None = None
    Proc = {p1, p2}
    Thread = {t1, t2, t3}
    ProcOf <- TwoThreads
    Va = {s, a}
    Kind <- StackAndData
    Frame = {f1, f2, f3, f4}
    Value = {0, 1}
SPECIFICATION ThreadsSpec
SYMMETRY Symmetry
INVARIANT
    NoPanic
CHECK_DEADLOCK FALSE
