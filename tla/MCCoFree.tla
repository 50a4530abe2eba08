----------------------------- MODULE MCCoFree ------------------------------
\* CoFree with interchangeable heap blocks.
EXTENDS CoFree, TLC
Blocks == Permutations(Co)
=============================================================================
