----------------------------- MODULE MCUserDesk -----------------------------
EXTENDS UserDesk, TLC

Symmetry == Permutations(Users) \cup Permutations(Taps)
=============================================================================
