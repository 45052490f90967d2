-------------------------- MODULE MCCommandProcess --------------------------
EXTENDS CommandProcess
=============================================================================
