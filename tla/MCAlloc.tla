------------------------------ MODULE MCAlloc ------------------------------
EXTENDS Alloc
=============================================================================
