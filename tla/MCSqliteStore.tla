--------------------------- MODULE MCSqliteStore ---------------------------
(***************************************************************************)
(* SqliteStore for TLC.                                                    *)
(***************************************************************************)
EXTENDS SqliteStore, TLC

Symmetry == Permutations(Writers) \cup Permutations(Scopes)
=============================================================================
