CONSTANTS
    r1 = r1  r2 = r2  w1 = w1  w2 = w2
    Reader = {r1, r2}
    Writer = {w1, w2}
    Casts = {{r1, w1}, {r1, r2, w1}, {r1, w1, w2}}
    PIPESIZE = 2
    Wrap = 4
    Sizes = {1, 3}
    MaxBytes = 5
    MaxTokens = 4
    Faults = {"kill", "copy"}
SPECIFICATION FairSpec
INVARIANTS
    Fifo
    
PROPERTIES
    GetsOn
CHECK_DEADLOCK FALSE
