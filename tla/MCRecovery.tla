----------------------------- MODULE MCRecovery -----------------------------
EXTENDS Recovery
=============================================================================
