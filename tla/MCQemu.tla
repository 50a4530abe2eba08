------------------------------ MODULE MCQemu ------------------------------
EXTENDS Qemu

CONSTANTS A, B, f

MCSpec == QemuSpec /\ QemuFairness
===========================================================================
