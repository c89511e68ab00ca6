------------------------ MODULE MCSqliteMigrations ------------------------
(* Openers of a build that knows the first migration and of one that knows *)
(* both, as MIGRATIONS has two.                                            *)
EXTENDS SqliteMigrations, TLC

OpenerSymmetry == Permutations(Opener)
=============================================================================
