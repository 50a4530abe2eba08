----------------------------- MODULE MCCoQueue -----------------------------
EXTENDS CoQueue
CONSTANTS p1, p2, c1, c2
=============================================================================
