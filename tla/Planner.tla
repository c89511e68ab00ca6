------------------------------ MODULE Planner ------------------------------
(***************************************************************************)
(* The State planner (crates/ods-state/src/planner.rs): BUILD or REUSE for *)
(* every node of a project, against the nodes recorded in a snapshot.      *)
(*                                                                         *)
(* Everything is an operator: the planner is pure.  A project `pr' is a    *)
(* record of functions over Nodes and Sources (see Project), a snapshot's  *)
(* nodes `prev' a function from Nodes to NodeState or None, and a plan a   *)
(* function from Nodes to decisions [action, code].                        *)
(***************************************************************************)
EXTENDS SourceVersions, FiniteSets

CONSTANT
    Nodes       \* models, seeds and snapshots of the project

ASSUME NodesAreNotSources == Nodes \cap Sources = {}
ASSUME NodesAreFinite == IsFiniteSet(Nodes)

(***************************************************************************)
(* Vocabulary.                                                             *)
(***************************************************************************)
Build == "build"
Reuse == "reuse"

BuildCodes ==
    {"NeverBuilt", "CodeEvidenceIncomplete", "CodeChanged", "UpstreamCodeChanged",
     "UnknownDependency", "PolicyBlocksReuse", "NewUpstreamData",
     "MissingDataEvidence", "FullRefreshRequested", "UpstreamFullRefresh",
     "TargetChanged", "RelationMissing", "RelationUnverified"}

ReuseCodes == {"Unchanged", "WithinLagTolerance", "QuorumNotMet"}

Decision == [action : {Build}, code : BuildCodes]
              \cup [action : {Reuse}, code : ReuseCodes]

BuildFor(code) == [action |-> Build, code |-> code]
ReuseFor(code) == [action |-> Reuse, code |-> code]

RelationFact == {"Unchecked", "Present", "Missing", "Unverified"}

\* How directly a data version shows the data: `semantic' and `exact' allow reuse.
ReusableExactness == {"Semantic", "Exact"}

(***************************************************************************)
(* Reasons that mean a parent's output may differ in shape, and the ones   *)
(* of a full refresh: both reach children whatever their lag tolerance.    *)
(***************************************************************************)
\* Fault: an upstream code change reaches children, and not their children.
CodeChangeCodesOfNode ==
    {"NeverBuilt", "CodeEvidenceIncomplete", "CodeChanged", "UnknownDependency"}

CodeChangeCodes ==
    {"NeverBuilt", "CodeEvidenceIncomplete", "CodeChanged", "UpstreamCodeChanged",
     "UnknownDependency"}

RefreshCodes == {"FullRefreshRequested", "UpstreamFullRefresh"}

(***************************************************************************)
(* What a source says of a node recorded as `before': its version counts   *)
(* only if it was observed after the node's last build, and both versions  *)
(* are exact enough.                                                       *)
(***************************************************************************)
\* Fault: a version observed before the last build counts.
SourceInputAnyTime(pr, before, s) ==
    LET now  == pr.version[s]
        then == before.inputs[s]
    IN  IF /\ now # None /\ then # None
           /\ now.exactness \in ReusableExactness
           /\ then.exactness \in ReusableExactness
        THEN IF now = then THEN "unchanged" ELSE "new_data"
        ELSE "missing"

SourceInput(pr, before, s) ==
    LET now     == pr.version[s]
        then    == before.inputs[s]
        current == pr.observed[s] # None /\ pr.observed[s] > before.built_at
    IN  IF /\ now # None /\ then # None
           /\ current
           /\ now.exactness \in ReusableExactness
           /\ then.exactness \in ReusableExactness
        THEN IF now = then THEN "unchanged" ELSE "new_data"
        ELSE "missing"

(***************************************************************************)
(* What a parent that is a node says.  Of a reused one, the run that built *)
(* it is compared with the run the node recorded as having read.           *)
(***************************************************************************)
NodeInput(prev, before, d, p) ==
    IF d[p].action = Build
    THEN IF d[p].code \in CodeChangeCodes THEN "code_changed"
         ELSE IF d[p].code \in RefreshCodes THEN "refreshed"
         ELSE "new_data"
    ELSE IF before.parents[p] = None \/ prev[p] = None THEN "missing"
    ELSE IF before.parents[p] = prev[p].run THEN "unchanged"
    ELSE "new_data"

\* What the parents of `n' say, as a set: the planner only asks which answers occur.
Inputs(pr, prev, d, n) ==
    {IF p \in Sources THEN SourceInput(pr, prev[n], p)
     ELSE IF p \in Nodes THEN NodeInput(prev, prev[n], d, p)
     ELSE "unknown" : p \in pr.parents[n]}

(***************************************************************************)
(* The decision once code is unchanged: upstream data and the policy.      *)
(***************************************************************************)
DecideOnData(pr, before, inputs, n, now) ==
    IF "missing" \in inputs THEN BuildFor("MissingDataEvidence")
    ELSE IF "new_data" \notin inputs THEN ReuseFor("Unchanged")
    ELSE IF pr.quorum[n] = "All" /\ "unchanged" \in inputs THEN ReuseFor("QuorumNotMet")
    ELSE IF pr.lag[n] > 0 /\ now < before.built_at + pr.lag[n]
         THEN ReuseFor("WithinLagTolerance")
    ELSE BuildFor("NewUpstreamData")

(***************************************************************************)
(* One node, with its parents decided.                                     *)
(***************************************************************************)
Decide(pr, prev, d, n, now) ==
    LET before == prev[n]
        inputs == Inputs(pr, prev, d, n)
    IN  IF before = None THEN BuildFor("NeverBuilt")
        ELSE IF pr.fp[n] = None THEN BuildFor("CodeEvidenceIncomplete")
        ELSE IF pr.fp[n] # before.fp THEN BuildFor("CodeChanged")
        ELSE IF "code_changed" \in inputs THEN BuildFor("UpstreamCodeChanged")
        ELSE IF "refreshed" \in inputs THEN BuildFor("UpstreamFullRefresh")
        ELSE IF "unknown" \in inputs THEN BuildFor("UnknownDependency")
        ELSE IF ~pr.honoured[n] THEN BuildFor("PolicyBlocksReuse")
        ELSE IF pr.parents[n] = {} /\ ~pr.self_contained[n]
             THEN BuildFor("MissingDataEvidence")
        ELSE DecideOnData(pr, before, inputs, n, now)

(***************************************************************************)
(* A reuse vouches for a relation: one that is missing, or that a check    *)
(* should have shown and did not, is built instead.                        *)
(***************************************************************************)
\* Fault: a relation nobody asked about is trusted.
RelationCheckTrusting(pr, checked, n, decision) ==
    LET fact == pr.relation[n]
    IN  IF decision.action = Build THEN decision
        ELSE IF fact = "Missing" THEN BuildFor("RelationMissing")
        ELSE IF fact = "Unverified" THEN BuildFor("RelationUnverified")
        ELSE decision

RelationCheck(pr, checked, n, decision) ==
    LET fact == pr.relation[n]
    IN  IF decision.action = Build THEN decision
        ELSE IF fact = "Missing" THEN BuildFor("RelationMissing")
        ELSE IF fact = "Unverified" \/ (fact = "Unchecked" /\ checked)
             THEN BuildFor("RelationUnverified")
        ELSE decision

(***************************************************************************)
(* The step of plan_with's loop for one node: full refresh, the decision,  *)
(* its relabelling when the target changed, and the relation check.        *)
(* `opt' is [full_refresh, relations_checked, target_changed].             *)
(***************************************************************************)
PlanNode(pr, prev, selected, now, opt, d, n) ==
    LET decided == Decide(pr, prev, d, n, now)
    IN  IF opt.full_refresh /\ pr.refreshable[n] /\ n \in selected
        THEN BuildFor("FullRefreshRequested")
        ELSE IF opt.target_changed /\ decided.code = "NeverBuilt"
        THEN BuildFor("TargetChanged")
        ELSE RelationCheck(pr, opt.relations_checked, n, decided)

\* order: every node gets a depth, below all nodes it reads.  A graph that has none (a
\* cycle) is refused before planning.
Ordered(parents) ==
    \E depth \in [Nodes -> 0..Cardinality(Nodes)] :
        \A n \in Nodes : \A p \in parents[n] \cap Nodes : depth[p] < depth[n]

\* The whole plan: every node is decided after its parents, of a graph that is Ordered.
PlanWith(pr, prev, selected, now, opt) ==
    LET d[n \in Nodes] == PlanNode(pr, prev, selected, now, opt, d, n)
    IN  d

Reused(d) == {n \in Nodes : d[n].action = Reuse}

(***************************************************************************)
(* The nodes whose relations are worth checking: those a plan of the whole *)
(* project, without a full refresh and with nothing checked, reuses.       *)
(***************************************************************************)
ReuseCandidates(pr, prev, now, opt) ==
    Reused(PlanWith([pr EXCEPT !.relation = [n \in Nodes |-> "Unchecked"]],
                    prev, Nodes, now,
                    [opt EXCEPT !.full_refresh = FALSE, !.relations_checked = FALSE]))
=============================================================================
