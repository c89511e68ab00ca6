--------------------------- MODULE PlannerProofs ---------------------------
(***************************************************************************)
(* What a plan is (Planner): PlanWith is a recursive function over the     *)
(* project's graph.  Of a graph that order accepts, there is one function  *)
(* that decides every node from its parents' decisions, by induction on    *)
(* the nodes' depth; everything else about a plan follows from that.       *)
(***************************************************************************)
EXTENDS Planner, FiniteSetTheorems, Induction, TLAPS

\* A node's decision depends on the decisions of its parents only.
LEMMA PlanNodeIsLocal ==
    ASSUME NEW pr, NEW prev, NEW selected, NEW now, NEW opt, NEW n \in Nodes, NEW f, NEW g,
           \A p \in pr.parents[n] \cap Nodes : f[p] = g[p]
    PROVE  PlanNode(pr, prev, selected, now, opt, f, n) = PlanNode(pr, prev, selected, now, opt, g, n)
<1>1. \A p \in pr.parents[n] : p \in Nodes =>
        NodeInput(prev, prev[n], f, p) = NodeInput(prev, prev[n], g, p)
  BY DEF NodeInput
<1>2. Inputs(pr, prev, f, n) = Inputs(pr, prev, g, n)
  BY <1>1, Zenon DEF Inputs
<1>3. Decide(pr, prev, f, n, now) = Decide(pr, prev, g, n, now)
  BY <1>2, Zenon DEF Decide
<1> QED
  BY <1>3, Zenon DEF PlanNode

\* The plan decides each node from itself.
LEMMA PlanUnfolds ==
    ASSUME NEW pr, NEW prev, NEW selected, NEW now, NEW opt, Ordered(pr.parents)
    PROVE  LET d == PlanWith(pr, prev, selected, now, opt)
           IN  d = [n \in Nodes |-> PlanNode(pr, prev, selected, now, opt, d, n)]
<1> DEFINE Step(f, n) == PlanNode(pr, prev, selected, now, opt, f, n)
<1> DEFINE d == CHOOSE f : f = [n \in Nodes |-> Step(f, n)]
<1>1. PICK depth \in [Nodes -> 0..Cardinality(Nodes)] :
        \A n \in Nodes : \A p \in pr.parents[n] \cap Nodes : depth[p] < depth[n]
  BY DEF Ordered
<1>2. Cardinality(Nodes) \in Nat
  BY NodesAreFinite, FS_CardinalityType
<1> DEFINE Upto(f, k) == \A n \in Nodes : depth[n] < k => f[n] = Step(f, n)
           S == {k \in Nat : \E f : Upto(f, k)}
<1>3. 0 \in S
  <2>1. \A n \in Nodes : ~(depth[n] < 0)
    BY <1>1, <1>2
  <2> QED
    BY <2>1, Zenon
<1>4. ASSUME NEW k \in Nat, k \in S PROVE k + 1 \in S
  <2>1. PICK f : Upto(f, k)
    BY <1>4, Zenon
  <2>2. PICK g : g = [n \in Nodes |-> IF depth[n] < k THEN f[n] ELSE Step(f, n)]
    OBVIOUS
  <2>3. ASSUME NEW n \in Nodes, depth[n] < k + 1 PROVE g[n] = Step(g, n)
    <3>1. \A p \in pr.parents[n] \cap Nodes : depth[p] < k
      BY <1>1, <1>2, <2>3
    <3>2. \A p \in pr.parents[n] \cap Nodes : f[p] = g[p]
      BY <2>2, <3>1, Zenon
    <3>3. Step(f, n) = Step(g, n)
      BY <3>2, PlanNodeIsLocal, Zenon
    <3>4. g[n] = Step(f, n)
      BY <2>1, <2>2, Zenon
    <3> QED
      BY <3>3, <3>4, Zenon
  <2>4. k + 1 \in Nat
    OBVIOUS
  <2> QED
    BY <2>3, <2>4, Zenon
<1>5. Cardinality(Nodes) + 1 \in S
  <2>1. Cardinality(Nodes) + 1 \in Nat
    BY <1>2
  <2> HIDE DEF S
  <2> QED
    BY <1>3, <1>4, <2>1, SetInduction
<1>6. \E f : f = [n \in Nodes |-> Step(f, n)]
  <2>1. PICK f : Upto(f, Cardinality(Nodes) + 1)
    BY <1>5, Zenon
  <2>2. \A n \in Nodes : depth[n] < Cardinality(Nodes) + 1
    BY <1>1, <1>2
  <2>3. \A n \in Nodes : f[n] = Step(f, n)
    BY <2>1, <2>2, Zenon
  <2>4. PICK g : g = [n \in Nodes |-> f[n]]
    OBVIOUS
  <2>5. ASSUME NEW n \in Nodes PROVE g[n] = Step(g, n)
    <3>1. \A p \in pr.parents[n] \cap Nodes : f[p] = g[p]
      BY <2>4, Zenon
    <3>2. Step(f, n) = Step(g, n)
      BY <3>1, PlanNodeIsLocal, Zenon
    <3> QED
      BY <2>3, <2>4, <3>2, Zenon
  <2>6. g = [n \in Nodes |-> Step(g, n)]
    BY <2>4, <2>5, Zenon
  <2> QED
    BY <2>6, Zenon
<1>7. d = [n \in Nodes |-> Step(d, n)]
  BY <1>6, Zenon
<1>8. PlanWith(pr, prev, selected, now, opt) = d
  BY DEF PlanWith
<1> QED
  BY <1>7, <1>8, Zenon

\* Every decision is to build or to reuse, for a reason of that kind.
LEMMA PlanNodeType ==
    ASSUME NEW pr, NEW prev, NEW selected, NEW now, NEW opt, NEW d, NEW n \in Nodes
    PROVE  PlanNode(pr, prev, selected, now, opt, d, n) \in Decision
<1>1. \A code \in BuildCodes : BuildFor(code) \in Decision
  BY DEF BuildFor, Decision, Build
<1>2. \A code \in ReuseCodes : ReuseFor(code) \in Decision
  BY DEF ReuseFor, Decision, Reuse
<1>3. \A before, inputs : DecideOnData(pr, before, inputs, n, now) \in Decision
  BY <1>1, <1>2 DEF DecideOnData, BuildCodes, ReuseCodes
<1>4. Decide(pr, prev, d, n, now) \in Decision
  BY <1>1, <1>3 DEF Decide, BuildCodes
<1>5. \A decision \in Decision : RelationCheck(pr, opt.relations_checked, n, decision) \in Decision
  BY <1>1 DEF RelationCheck, BuildCodes
<1> QED
  BY <1>1, <1>4, <1>5 DEF PlanNode, BuildCodes

LEMMA PlanType ==
    ASSUME NEW pr, NEW prev, NEW selected, NEW now, NEW opt, Ordered(pr.parents)
    PROVE  PlanWith(pr, prev, selected, now, opt) \in [Nodes -> Decision]
<1>1. PICK d : d = PlanWith(pr, prev, selected, now, opt)
  OBVIOUS
<1>2. d = [n \in Nodes |-> PlanNode(pr, prev, selected, now, opt, d, n)]
  BY <1>1, PlanUnfolds
<1>3. \A n \in Nodes : PlanNode(pr, prev, selected, now, opt, d, n) \in Decision
  BY PlanNodeType
<1> QED
  BY <1>1, <1>2, <1>3

\* The two kinds of decision have no code in common.
LEMMA DecisionKinds ==
    /\ \A x \in Decision : x.action = Reuse => x.code \in ReuseCodes
    /\ \A x \in Decision : x.code \in BuildCodes => x.action = Build
    /\ \A x \in Decision : x.action \in {Build, Reuse}
    /\ \A code : BuildFor(code).action = Build /\ BuildFor(code).code = code
    /\ \A code : ReuseFor(code).action = Reuse /\ ReuseFor(code).code = code
    /\ Build # Reuse /\ ReuseCodes \cap BuildCodes = {}
BY DEF Decision, BuildFor, ReuseFor, Build, Reuse, BuildCodes, ReuseCodes

(***************************************************************************)
(* What a node that is reused went through: no full refresh of its own,    *)
(* and a relation that is not known to be missing or unverified.           *)
(***************************************************************************)
LEMMA ReuseWasDecided ==
    ASSUME NEW pr, NEW prev, NEW selected, NEW now, NEW opt, NEW d, NEW n \in Nodes,
           PlanNode(pr, prev, selected, now, opt, d, n).action = Reuse
    PROVE  /\ PlanNode(pr, prev, selected, now, opt, d, n) = Decide(pr, prev, d, n, now)
           /\ ~(opt.full_refresh /\ pr.refreshable[n] /\ n \in selected)
           /\ pr.relation[n] \notin {"Missing", "Unverified"}
           /\ ~(pr.relation[n] = "Unchecked" /\ opt.relations_checked)
BY DecisionKinds DEF PlanNode, RelationCheck

\* A node that is decided to be reused has a record of its code, and no input that says
\* that a parent's code changed, was refreshed, is missing or is not known.
LEMMA ReuseHasEvidence ==
    ASSUME NEW pr, NEW prev, NEW d, NEW now, NEW n \in Nodes,
           Decide(pr, prev, d, n, now).action = Reuse
    PROVE  /\ prev[n] # None /\ pr.fp[n] # None /\ pr.fp[n] = prev[n].fp
           /\ Inputs(pr, prev, d, n) \cap {"code_changed", "refreshed", "unknown", "missing"} = {}
           /\ Decide(pr, prev, d, n, now).code = "Unchanged" =>
                "new_data" \notin Inputs(pr, prev, d, n)
<1>1. PICK inputs : inputs = Inputs(pr, prev, d, n)
  OBVIOUS
<1>2. /\ prev[n] # None /\ pr.fp[n] # None /\ pr.fp[n] = prev[n].fp
      /\ inputs \cap {"code_changed", "refreshed", "unknown"} = {}
      /\ Decide(pr, prev, d, n, now) = DecideOnData(pr, prev[n], inputs, n, now)
  BY <1>1, DecisionKinds DEF Decide
<1>3. "missing" \notin inputs
  BY <1>2, DecisionKinds DEF DecideOnData
<1>4. Decide(pr, prev, d, n, now).code = "Unchanged" => "new_data" \notin inputs
  BY <1>2, DecisionKinds DEF DecideOnData
<1> QED
  BY <1>1, <1>2, <1>3, <1>4
=============================================================================
