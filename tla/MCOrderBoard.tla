---------------------------- MODULE MCOrderBoard ----------------------------
EXTENDS OrderBoard, TLC

Symmetry == Permutations(Orders) \cup Permutations(Taps)
=============================================================================
