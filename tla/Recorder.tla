------------------------------ MODULE Recorder ------------------------------
(***************************************************************************)
(* From a finished run to the nodes of the next snapshot                   *)
(* (crates/ods-state/src/recorder.rs).  `prev' is the nodes of the         *)
(* snapshot the run was planned against, `result' what the run did with    *)
(* each node: None, or [outcome, at, tested].                              *)
(***************************************************************************)
EXTENDS Planner

Succeeded(result) ==
    {n \in Nodes : result[n] # None /\ result[n].outcome = "Success"}

\* Only a node whose code could be fingerprinted advances.
Advanced(fp, result) == {n \in Succeeded(result) : fp[n] # None}

\* Which build of p exists after run r: this run's, or the one recorded before.
RunOf(fp, prev, result, r, p) ==
    IF p \in Advanced(fp, result) THEN r
    ELSE IF prev[p] # None THEN prev[p].run
    ELSE None

NewNodeState(pr, prev, result, r, n) ==
    [fp       |-> pr.fp[n],
     built_at |-> result[n].at,
     run      |-> r,
     inputs   |-> [s \in Sources |-> IF s \in pr.parents[n] THEN pr.version[s] ELSE None],
     parents  |-> [p \in Nodes |-> IF p \in pr.parents[n]
                                   THEN RunOf(pr.fp, prev, result, r, p) ELSE None],
     tested   |-> IF result[n].tested THEN r ELSE None]

(***************************************************************************)
(* A success advances its node; a failure, or a success that cannot be     *)
(* fingerprinted, keeps the node's state without its checks; a skip keeps  *)
(* it as it was.                                                           *)
(***************************************************************************)
RecordNode(pr, prev, result, r, n) ==
    IF n \in Advanced(pr.fp, result) THEN NewNodeState(pr, prev, result, r, n)
    ELSE IF /\ result[n] # None
            /\ result[n].outcome \in {"Success", "Failed"}
            /\ prev[n] # None
         THEN [prev[n] EXCEPT !.tested = None]
    ELSE prev[n]

Record(pr, prev, result, r) ==
    [n \in Nodes |-> RecordNode(pr, prev, result, r, n)]
=============================================================================
