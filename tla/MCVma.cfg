CONSTANTS
    None = None
    NVMA = 4
    MMAP_START = 2
    Top = 5
    Lengths = {1, 3}
    Touched = {4}
    Programs = {{"fork"}, {"fork", "crowded", "protect"}, {"fixed", "crowded", "protect"},
                {"empty", "crowded", "protect"}}
SPECIFICATION Spec
INVARIANTS
    WellFormed
    
    
CHECK_DEADLOCK FALSE
