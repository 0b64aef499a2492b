SPECIFICATION Spec
CONSTANTS
    f1 = f1
    f2 = f2
    root = root
    None = None
    FAT_CLUSTER_MAX = 6
    WORD = 5
    INT_BITS = 5
    File = {f1, f2}
    Dir = {}
    Root = root
    Parent <- MCParent
    NINODE = 2
    PAGE = 2
    CLUSTER = 1
    Images <- MCImages
    Kinds = {"aligned", "append"}
    Concurrent = FALSE
    MaxLen = 3
    MaxAhead = 1
    MaxLives = 1
INVARIANTS    Durable 
