-------------------------------- MODULE MCCow --------------------------------
\* Instances of Cow for TLC: the owners of the threads and the kinds of pages.
EXTENDS Cow, TLC

CONSTANTS p1, p2, p3, t1, t2, t3, s, a, b, c

OneThreadEach == t1 :> p1 @@ t2 :> p2 @@ t3 :> p3
TwoThreads == t1 :> p1 @@ t2 :> p1 @@ t3 :> p2
AllKinds == s :> "stack" @@ a :> "private" @@ b :> "text" @@ c :> "shared"
StackAndData == s :> "stack" @@ a :> "private"
Symmetry == Permutations(Frame)

=============================================================================
