------------------------------ MODULE MCRecovery ------------------------------
EXTENDS Recovery, TLC

KeySymmetry == Permutations(Keys)
=============================================================================
