----------------------------- MODULE MCUthread -----------------------------
EXTENDS Uthread
=============================================================================
