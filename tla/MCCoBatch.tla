----------------------------- MODULE MCCoBatch -----------------------------
\* CoBatch with up to four heap blocks; the blocks are interchangeable.
EXTENDS CoBatch, TLC
CONSTANTS c1, c2, c3, c4
Blocks == Permutations(Co)
=============================================================================
