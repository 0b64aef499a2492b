CONSTANTS
    h1 = h1  h2 = h2  None = None
    Hart = {h1, h2}
    Boot = h1
    NCPU = 2
    PAGES_PER_CPU = 5
    BUDDY_MAX_ORDER = 2
    Orders = {0, 2}
    PAGES_THRESHOLD = 6
    MaxRef = 2
    MaxHeld = 2
SPECIFICATION Spec
INVARIANTS
    EveryPageInOneBlock
    NoPanic
    Coalesced
    PagesCounted
