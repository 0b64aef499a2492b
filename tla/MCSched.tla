------------------------------ MODULE MCSched ------------------------------
\* Instances of Sched for TLC.  Liveness is checked, so that no symmetry is used.
EXTENDS Sched

=============================================================================
