----------------------------- MODULE MCNetwork ------------------------------
EXTENDS Network
=============================================================================
