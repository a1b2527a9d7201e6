---------------------------- MODULE MCProductDesk ----------------------------
EXTENDS ProductDesk, TLC

Symmetry == Permutations(Products) \cup Permutations(Taps)
=============================================================================
