------------------------------- MODULE MCPipe -------------------------------
\* Instances of Pipe for TLC.  Liveness is checked, so that no symmetry is used.
EXTENDS Pipe

=============================================================================
