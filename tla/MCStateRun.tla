----------------------------- MODULE MCStateRun -----------------------------
(***************************************************************************)
(* Small projects for StateRun: one model that reads a source, and a chain *)
(* of two.                                                                 *)
(***************************************************************************)
EXTENDS StateRun, TLC

CONSTANTS m1, m2

Alone == [n \in Nodes |-> {}]
ReadsSource == [n \in Nodes |-> Sources]
Chain == [n \in Nodes |-> IF n = m2 THEN {m1} ELSE Sources]

NoLag == [n \in Nodes |-> 0]
AnyQuorum == [n \in Nodes |-> "Any"]

Everything == {Nodes}
FirstAndAll == {{m1}, Nodes}
EachAndAll == {Nodes} \cup {{n} : n \in Nodes}

Symmetry == Permutations(Runs) \cup Permutations(Targets)
=============================================================================
