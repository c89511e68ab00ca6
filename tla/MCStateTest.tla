---------------------------- MODULE MCStateTest ----------------------------
(* Two commands over two targets.                                 *)
EXTENDS StateTest, TLC

Symmetry == Permutations(Command) \cup Permutations(Targets)
=============================================================================
