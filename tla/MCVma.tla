-------------------------------- MODULE MCVma --------------------------------
\* Instances of Vma.
EXTENDS Vma
=============================================================================
