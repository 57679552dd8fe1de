------------------------------ MODULE MCMatch ------------------------------
EXTENDS Match, TLC
=============================================================================
