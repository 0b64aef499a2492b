--------------------------- MODULE MCFileSystem ---------------------------
\* Instances of FileSystem for TLC: an empty disk, a file in scattered clusters that has to
\* grow to fill its last page, and two files.
EXTENDS FileSystem
CONSTANTS f1, f2, root

MCParent == [n \in Name |-> root]
NoFile == [clusters |-> <<>>, size |-> -1]
MCImages ==
    {[f \in File |-> NoFile],
     [f \in File |-> IF f = f1 THEN [clusters |-> <<5, 3, 6>>, size |-> 3] ELSE NoFile],
     [f \in File |-> IF f = f1 THEN [clusters |-> <<4>>, size |-> 1]
                               ELSE [clusters |-> <<6, 3>>, size |-> 2]]}
=============================================================================
