---------------------------- MODULE MCSemaphore ----------------------------
\* Instances of SemaphoreSignals, and so of Semaphore, for TLC.  Liveness is
\* checked, so that no symmetry is used.
EXTENDS SemaphoreSignals

\* Several harts without signals, and one hart with two.
SmpOrSignals == {[smp |-> TRUE, signals |-> 0], [smp |-> FALSE, signals |-> 2]}

=============================================================================
