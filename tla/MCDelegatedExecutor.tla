------------------------ MODULE MCDelegatedExecutor ------------------------
EXTENDS DelegatedExecutor, TLC
=============================================================================
