------------------------------ MODULE MCBrowse ------------------------------
(* The instance of Browse for TLC.                                          *)
EXTENDS Browse, TLC
Symmetry == Permutations(Artists) \cup Permutations(Assets)
=============================================================================
