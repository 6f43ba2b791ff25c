----------------------------- MODULE MCBarStore -----------------------------
EXTENDS BarStore
=============================================================================
