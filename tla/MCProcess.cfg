CONSTANTS
    None = None
    p1 = p1  p2 = p2  p3 = p3  p4 = p4
    Proc = {p1, p2, p3, p4}
    Init1 = p1
    Tid = {1}
    Faults = {"tcb", "copyout"}
SPECIFICATION FairSpec
INVARIANTS
    FamilyTree
    NoPanic
    TokensMatchZombies
    
PROPERTIES
    OrphansReaped
CHECK_DEADLOCK FALSE
