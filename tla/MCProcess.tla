----------------------------- MODULE MCProcess -----------------------------
\* The instance of Process that is checked.
EXTENDS Process

=============================================================================
