-------------------------- MODULE MCManagedUpdate ---------------------------
EXTENDS ManagedUpdate
=============================================================================
