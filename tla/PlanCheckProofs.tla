-------------------------- MODULE PlanCheckProofs --------------------------
(***************************************************************************)
(* The planner as a command uses it (PlanCheck), for every project that    *)
(* order accepts, every recorded state, selection, refresh and answer:     *)
(* nothing is reused unchecked, and a change of code or a refresh reaches  *)
(* every node downstream.                                                  *)
(***************************************************************************)
EXTENDS PlanCheck, PlannerProofs

(***************************************************************************)
(* The two plans.  `q', `o' and `c' are the project, the options and the   *)
(* plan that reuse_candidates asks with; `pr', `opt' and `d' are the       *)
(* command's, when nothing was checked.  Where they differ, the command    *)
(* refreshes.                                                              *)
(***************************************************************************)
SameProject(pr, q) ==
    /\ q.parents = pr.parents /\ q.fp = pr.fp /\ q.lag = pr.lag /\ q.quorum = pr.quorum
    /\ q.honoured = pr.honoured /\ q.self_contained = pr.self_contained
    /\ q.version = pr.version /\ q.observed = pr.observed

Unrefreshed(opt, o) ==
    /\ ~o.full_refresh /\ ~o.relations_checked
    /\ ~opt.relations_checked /\ o.target_changed = opt.target_changed

NothingChecked(pr) == \A n \in Nodes : pr.relation[n] = "Unchecked"

\* The decision of a candidate plan is kept, or gives way to a refresh.
Agree(d, c, n) ==
    d[n].action = Build /\ (d[n] = c[n] \/ d[n].code \in RefreshCodes)

LEMMA CodesAreApart ==
    /\ CodeChangeCodes \cap RefreshCodes = {}
    /\ CodeChangeCodes \subseteq BuildCodes /\ RefreshCodes \subseteq BuildCodes
BY DEF CodeChangeCodes, RefreshCodes, BuildCodes

LEMMA InputsAgree ==
    ASSUME NEW pr, NEW q, NEW prev, NEW c, NEW d, NEW n \in Nodes,
           SameProject(pr, q),
           \A p \in pr.parents[n] \cap Nodes : Agree(d, c, p)
    PROVE  /\ "code_changed" \in Inputs(pr, prev, d, n) => "code_changed" \in Inputs(q, prev, c, n)
           /\ "refreshed" \notin Inputs(pr, prev, d, n) =>
                Inputs(pr, prev, d, n) = Inputs(q, prev, c, n)
<1> DEFINE In(x, e, p) == IF p \in Sources THEN SourceInput(x, prev[n], p)
                          ELSE IF p \in Nodes THEN NodeInput(prev, prev[n], e, p)
                          ELSE "unknown"
<1>1. /\ Inputs(pr, prev, d, n) = {In(pr, d, p) : p \in pr.parents[n]}
      /\ Inputs(q, prev, c, n) = {In(q, c, p) : p \in pr.parents[n]}
  BY DEF Inputs, SameProject
<1>2. \A p : SourceInput(q, prev[n], p) = SourceInput(pr, prev[n], p)
  BY DEF SourceInput, SameProject
<1>3. \A p : SourceInput(pr, prev[n], p) # "code_changed"
  BY DEF SourceInput
<1>4. ASSUME NEW p \in pr.parents[n] \cap Nodes
      PROVE  /\ d[p] = c[p] => NodeInput(prev, prev[n], d, p) = NodeInput(prev, prev[n], c, p)
             /\ d[p] # c[p] => NodeInput(prev, prev[n], d, p) = "refreshed"
  BY <1>4, CodesAreApart DEF Agree, NodeInput
<1>5. ASSUME NEW p \in pr.parents[n]
      PROVE  In(pr, d, p) = In(q, c, p) \/ In(pr, d, p) = "refreshed"
  BY <1>2, <1>4
<1>6. "code_changed" \in Inputs(pr, prev, d, n) => "code_changed" \in Inputs(q, prev, c, n)
  <2> HIDE DEF In
  <2> QED
    BY <1>1, <1>5
<1>7. "refreshed" \notin Inputs(pr, prev, d, n) => Inputs(pr, prev, d, n) = Inputs(q, prev, c, n)
  <2> HIDE DEF In
  <2> QED
    BY <1>1, <1>5
<1> QED
  BY <1>6, <1>7

LEMMA DecisionsAgree ==
    ASSUME NEW pr, NEW q, NEW prev, NEW now, NEW c, NEW d, NEW n \in Nodes,
           SameProject(pr, q),
           \A p \in pr.parents[n] \cap Nodes : Agree(d, c, p)
    PROVE  \/ Decide(pr, prev, d, n, now) = Decide(q, prev, c, n, now)
           \/ Decide(pr, prev, d, n, now) = BuildFor("UpstreamFullRefresh")
<1>1. PICK I, J : I = Inputs(pr, prev, d, n) /\ J = Inputs(q, prev, c, n)
  OBVIOUS
<1>2. /\ "code_changed" \in I => "code_changed" \in J
      /\ "refreshed" \notin I => I = J
  BY <1>1, InputsAgree
<1>3. \A before : DecideOnData(pr, before, J, n, now) = DecideOnData(q, before, J, n, now)
  BY DEF DecideOnData, SameProject
<1>4. CASE "refreshed" \notin I
  <2>1. I = J
    BY <1>2, <1>4
  <2> QED
    BY <1>1, <1>3, <2>1, Zenon DEF Decide, SameProject
<1>5. CASE "refreshed" \in I
  BY <1>1, <1>2, <1>5 DEF Decide, SameProject
<1> QED
  BY <1>4, <1>5

LEMMA PlannedNodesAgree ==
    ASSUME NEW pr, NEW q, NEW prev, NEW selected, NEW all, NEW now, NEW opt, NEW o,
           NEW c, NEW d, NEW n \in Nodes,
           SameProject(pr, q), Unrefreshed(opt, o), NothingChecked(pr), NothingChecked(q),
           \A p \in pr.parents[n] \cap Nodes : Agree(d, c, p),
           c[n] = PlanNode(q, prev, all, now, o, c, n), c[n].action = Build,
           d[n] = PlanNode(pr, prev, selected, now, opt, d, n)
    PROVE  Agree(d, c, n)
<1>1. PICK x, y : x = Decide(pr, prev, d, n, now) /\ y = Decide(q, prev, c, n, now)
  OBVIOUS
<1>2. x = y \/ x = BuildFor("UpstreamFullRefresh")
  BY <1>1, DecisionsAgree
<1>3. /\ RelationCheck(pr, opt.relations_checked, n, x) = x
      /\ RelationCheck(q, o.relations_checked, n, y) = y
  BY DEF RelationCheck, Unrefreshed, NothingChecked
<1>4. c[n] = IF opt.target_changed /\ y.code = "NeverBuilt" THEN BuildFor("TargetChanged") ELSE y
  BY <1>1, <1>3 DEF PlanNode, Unrefreshed
<1>5. \/ d[n] = BuildFor("FullRefreshRequested")
      \/ d[n] = IF opt.target_changed /\ x.code = "NeverBuilt" THEN BuildFor("TargetChanged") ELSE x
  BY <1>1, <1>3 DEF PlanNode
<1>6. CASE d[n] = BuildFor("FullRefreshRequested")
  BY <1>6, DecisionKinds DEF Agree, RefreshCodes
<1>7. CASE x = y /\ d[n] # BuildFor("FullRefreshRequested")
  BY <1>4, <1>5, <1>7 DEF Agree
<1>8. CASE x = BuildFor("UpstreamFullRefresh") /\ d[n] # BuildFor("FullRefreshRequested")
  BY <1>5, <1>8, DecisionKinds DEF Agree, RefreshCodes
<1> QED
  BY <1>2, <1>6, <1>7, <1>8

\* When no node is a candidate, none is reused: nothing needs to be asked.
LEMMA NothingToAsk ==
    ASSUME NEW pr, NEW q, NEW prev, NEW selected, NEW now, NEW opt, NEW o,
           Ordered(pr.parents),
           SameProject(pr, q), Unrefreshed(opt, o), NothingChecked(pr), NothingChecked(q),
           Reused(PlanWith(q, prev, Nodes, now, o)) = {}
    PROVE  Reused(PlanWith(pr, prev, selected, now, opt)) = {}
<1>1. PICK c, d : c = PlanWith(q, prev, Nodes, now, o) /\ d = PlanWith(pr, prev, selected, now, opt)
  OBVIOUS
<1>2. Ordered(q.parents)
  BY DEF SameProject
<1>3. /\ c = [n \in Nodes |-> PlanNode(q, prev, Nodes, now, o, c, n)]
      /\ d = [n \in Nodes |-> PlanNode(pr, prev, selected, now, opt, d, n)]
  BY <1>1, <1>2, PlanUnfolds
<1>4. \A n \in Nodes : /\ c[n] = PlanNode(q, prev, Nodes, now, o, c, n)
                       /\ d[n] = PlanNode(pr, prev, selected, now, opt, d, n)
  BY <1>3, Zenon
<1>5. \A n \in Nodes : c[n].action = Build
  <2>1. c \in [Nodes -> Decision]
    BY <1>1, <1>2, PlanType
  <2> QED
    BY <1>1, <2>1, DecisionKinds DEF Reused
<1>6. PICK depth \in [Nodes -> 0..Cardinality(Nodes)] :
        \A n \in Nodes : \A p \in pr.parents[n] \cap Nodes : depth[p] < depth[n]
  BY DEF Ordered
<1>7. Cardinality(Nodes) \in Nat
  BY NodesAreFinite, FS_CardinalityType
<1> DEFINE S == {k \in Nat : \A n \in Nodes : depth[n] < k => Agree(d, c, n)}
<1>8. 0 \in S
  <2>1. \A n \in Nodes : ~(depth[n] < 0)
    BY <1>6, <1>7
  <2> QED
    BY <2>1, Zenon
<1>9. ASSUME NEW k \in Nat, k \in S PROVE k + 1 \in S
  <2>1. ASSUME NEW n \in Nodes, depth[n] < k + 1 PROVE Agree(d, c, n)
    <3>1. \A p \in pr.parents[n] \cap Nodes : depth[p] < k
      BY <1>6, <1>7, <2>1
    <3>2. \A p \in pr.parents[n] \cap Nodes : Agree(d, c, p)
      BY <1>9, <3>1, Zenon
    <3> QED
      BY <1>4, <1>5, <3>2, PlannedNodesAgree, Zenon
  <2>2. k + 1 \in Nat
    OBVIOUS
  <2> QED
    BY <2>1, <2>2, Zenon
<1>10. Cardinality(Nodes) + 1 \in S
  <2>1. Cardinality(Nodes) + 1 \in Nat
    BY <1>7
  <2> HIDE DEF S
  <2> QED
    BY <1>8, <1>9, <2>1, SetInduction
<1>11. \A n \in Nodes : depth[n] < Cardinality(Nodes) + 1
  BY <1>6, <1>7
<1>12. \A n \in Nodes : d[n].action = Build
  BY <1>10, <1>11, Zenon DEF Agree
<1> QED
  BY <1>1, <1>12, DecisionKinds DEF Reused

(***************************************************************************)
(* The invariant: what was asked is what reuse_candidates names, also once *)
(* the answers are in, and a plan is the plan of what is there.            *)
(***************************************************************************)
CaseInv ==
    /\ DOMAIN case = {"pr", "prev", "selected", "opt"}
    /\ DOMAIN case.pr = {"parents", "fp", "lag", "quorum", "honoured", "self_contained",
                         "refreshable", "relation", "version", "observed"}
    /\ DOMAIN case.opt = {"full_refresh", "relations_checked", "target_changed"}
    /\ Ordered(case.pr.parents)
    /\ case.opt.target_changed => \A n \in Nodes : case.prev[n] = None

\* What is asked about.
Asked(pr, opt) == IF checkable THEN ReuseCandidates(pr, case.prev, Now, opt) ELSE {}

AskedInv ==
    asked # None =>
        /\ asked = Asked(case.pr, case.opt)
        /\ \A n \in Nodes : /\ n \in asked => case.pr.relation[n] \in Answers
                            /\ n \notin asked => case.pr.relation[n] = "Unchecked"
        /\ case.opt.relations_checked = (asked # {})

MadeInv ==
    plan # None =>
        asked # None /\ plan = PlanWith(case.pr, case.prev, case.selected, Now, case.opt)

PlanInv == CaseInv /\ AskedInv /\ MadeInv

LEMMA PlanInvInit == Init => PlanInv
BY CasesAssumption DEF Init, PlanInv, CaseInv, AskedInv, MadeInv

LEMMA CheckRelationsKeeps == ASSUME PlanInv, CheckRelations PROVE PlanInv'
<1>1. PICK ask : ask = Asked(case.pr, case.opt)
  OBVIOUS
<1>2. PICK fact \in [ask -> Answers] :
        case' = [case EXCEPT
                   !.pr = [case.pr EXCEPT !.relation = [n \in Nodes |->
                             IF n \in ask THEN fact[n] ELSE "Unchecked"]],
                   !.opt = [case.opt EXCEPT !.relations_checked = ask # {}]]
  <2>1. asked' = ask
    BY <1>1 DEF CheckRelations, Asked
  <2>2. PICK fact \in [asked' -> Answers] :
          case' = [case EXCEPT
                     !.pr = [case.pr EXCEPT !.relation = [n \in Nodes |->
                               IF n \in asked' THEN fact[n] ELSE "Unchecked"]],
                     !.opt = [case.opt EXCEPT !.relations_checked = asked' # {}]]
    BY Zenon DEF CheckRelations
  <2>3. fact \in [ask -> Answers]
    BY <2>1, <2>2
  <2>4. [n \in Nodes |-> IF n \in asked' THEN fact[n] ELSE "Unchecked"]
          = [n \in Nodes |-> IF n \in ask THEN fact[n] ELSE "Unchecked"]
    BY <2>1
  <2>5. (asked' # {}) = (ask # {})
    BY <2>1
  <2> QED
    BY <2>2, <2>3, <2>4, <2>5, Zenon
<1>3. asked = None /\ asked' = ask /\ plan' = plan /\ checkable' = checkable
  BY <1>1 DEF CheckRelations, Asked
<1>4. PICK facts : facts = [n \in Nodes |-> IF n \in ask THEN fact[n] ELSE "Unchecked"]
  OBVIOUS
<1>5. PICK pr, opt : /\ pr = [case.pr EXCEPT !.relation = facts]
                     /\ opt = [case.opt EXCEPT !.relations_checked = ask # {}]
  OBVIOUS
<1>6. case' = [case EXCEPT !.pr = pr, !.opt = opt]
  BY <1>2, <1>4, <1>5
<1>7. /\ DOMAIN case' = DOMAIN case /\ case'.pr = pr /\ case'.opt = opt
      /\ case'.prev = case.prev /\ case'.selected = case.selected
  BY <1>6 DEF PlanInv, CaseInv
<1>8. /\ DOMAIN pr = DOMAIN case.pr /\ pr.relation = facts /\ pr.parents = case.pr.parents
  BY <1>5 DEF PlanInv, CaseInv
<1>9. /\ DOMAIN opt = DOMAIN case.opt /\ opt.relations_checked = (ask # {})
      /\ opt.target_changed = case.opt.target_changed
  BY <1>5 DEF PlanInv, CaseInv
<1>10. CaseInv'
  BY <1>7, <1>8, <1>9 DEF PlanInv, CaseInv
<1>11. Asked(pr, opt) = ask
  <2>1. [pr EXCEPT !.relation = [n \in Nodes |-> "Unchecked"]]
          = [case.pr EXCEPT !.relation = [n \in Nodes |-> "Unchecked"]]
    BY <1>5 DEF PlanInv, CaseInv
  <2>2. [opt EXCEPT !.full_refresh = FALSE, !.relations_checked = FALSE]
          = [case.opt EXCEPT !.full_refresh = FALSE, !.relations_checked = FALSE]
    BY <1>5 DEF PlanInv, CaseInv
  <2> QED
    BY <1>1, <2>1, <2>2, Zenon DEF Asked, ReuseCandidates
<1>12. AskedInv'
  <2>1. Asked(pr, opt)' = ask
    BY <1>3, <1>7, <1>11 DEF Asked
  <2>2. asked' = Asked(case.pr, case.opt)'
    BY <1>3, <1>7, <2>1 DEF Asked
  <2> QED
    BY <1>3, <1>4, <1>7, <1>8, <1>9, <2>2 DEF AskedInv
<1>13. MadeInv'
  BY <1>3 DEF PlanInv, MadeInv
<1> QED
  BY <1>10, <1>12, <1>13 DEF PlanInv

LEMMA PlanInvStep == PlanInv /\ [Next]_vars => PlanInv'
<1> SUFFICES ASSUME PlanInv, [Next]_vars PROVE PlanInv'
  OBVIOUS
<1>1. CASE CheckRelations
  BY <1>1, CheckRelationsKeeps
<1>2. CASE MakePlan
  BY <1>2 DEF MakePlan, PlanInv, CaseInv, AskedInv, Asked, MadeInv
<1>3. CASE UNCHANGED vars
  BY <1>3 DEF vars, PlanInv, CaseInv, AskedInv, Asked, MadeInv
<1> QED
  BY <1>1, <1>2, <1>3 DEF Next

(***************************************************************************)
(* For every project, recorded state, selection, refresh and set of        *)
(* answers, with an inspector that can check relations: a node is reused   *)
(* only if its relation was asked about and is there, although the         *)
(* question was asked of another plan (check_relations, reuse_candidates,  *)
(* relation_check, plan_with).                                             *)
(***************************************************************************)
THEOREM ReusesWereChecked == Spec => []ReusedWereChecked
<1>1. ASSUME PlanInv PROVE ReusedWereChecked
  <2> SUFFICES ASSUME checkable, plan # None, NEW n \in Reused(plan)
               PROVE  n \in asked /\ case.pr.relation[n] = "Present"
    BY DEF ReusedWereChecked
  <2>1. /\ asked # None
        /\ plan = PlanWith(case.pr, case.prev, case.selected, Now, case.opt)
    BY <1>1 DEF PlanInv, MadeInv
  <2>2. Ordered(case.pr.parents)
    BY <1>1 DEF PlanInv, CaseInv
  <2>3. plan = [m \in Nodes |->
                  PlanNode(case.pr, case.prev, case.selected, Now, case.opt, plan, m)]
    BY <2>1, <2>2, PlanUnfolds
  <2>4. n \in Nodes /\ plan[n].action = Reuse
    BY DEF Reused
  <2>5. PlanNode(case.pr, case.prev, case.selected, Now, case.opt, plan, n).action = Reuse
    BY <2>3, <2>4, Zenon
  <2>6. /\ case.pr.relation[n] \notin {"Missing", "Unverified"}
        /\ ~(case.pr.relation[n] = "Unchecked" /\ case.opt.relations_checked)
    BY <2>4, <2>5, ReuseWasDecided
  <2>7. CASE n \in asked
    BY <1>1, <2>1, <2>4, <2>6, <2>7, CasesAssumption DEF PlanInv, AskedInv, RelationFact
  <2>8. CASE n \notin asked
    <3>1. asked = {} /\ ~case.opt.relations_checked /\ NothingChecked(case.pr)
      BY <1>1, <2>1, <2>4, <2>6, <2>8 DEF PlanInv, AskedInv, NothingChecked
    <3>2. PICK q, o :
            /\ q = [case.pr EXCEPT !.relation = [m \in Nodes |-> "Unchecked"]]
            /\ o = [case.opt EXCEPT !.full_refresh = FALSE, !.relations_checked = FALSE]
      OBVIOUS
    <3>3. SameProject(case.pr, q) /\ NothingChecked(q)
      BY <1>1, <3>2 DEF PlanInv, CaseInv, SameProject, NothingChecked
    <3>4. Unrefreshed(case.opt, o)
      BY <1>1, <3>1, <3>2 DEF PlanInv, CaseInv, Unrefreshed
    <3>5. Reused(PlanWith(q, case.prev, Nodes, Now, o)) = {}
      BY <1>1, <2>1, <3>1, <3>2, Zenon DEF PlanInv, AskedInv, Asked, ReuseCandidates
    <3>6. Reused(plan) = {}
      BY <2>1, <2>2, <3>1, <3>3, <3>4, <3>5, NothingToAsk
    <3> QED
      BY <3>6
  <2> QED
    BY <2>7, <2>8
<1> QED
  BY <1>1, PlanInvInit, PlanInvStep, PTL DEF Spec

(***************************************************************************)
(* A change of code or a refresh reaches the children, with a code that    *)
(* reaches theirs; so, by induction from the deepest nodes up, everything  *)
(* downstream.                                                             *)
(***************************************************************************)
Spreading == CodeChangeCodes \cup RefreshCodes

Children(n) == {m \in Nodes : n \in case.pr.parents[m]}

LEMMA ChangeReachesChildren ==
    ASSUME NEW pr, NEW prev, NEW selected, NEW now, NEW opt, NEW d, NEW n \in Nodes,
           NEW m \in Nodes, n \in pr.parents[m], ~opt.target_changed,
           d[n] \in Decision, d[n].code \in Spreading,
           d[m] = PlanNode(pr, prev, selected, now, opt, d, m)
    PROVE  d[m].code \in Spreading
<1>1. d[n].action = Build
  BY CodesAreApart, DecisionKinds DEF Spreading
<1>2. NodeInput(prev, prev[m], d, n) \in {"code_changed", "refreshed"}
  BY <1>1 DEF NodeInput, Spreading
<1>3. NodeInput(prev, prev[m], d, n) \in Inputs(pr, prev, d, m)
  BY NodesAreNotSources DEF Inputs
<1>4. PICK x : x = Decide(pr, prev, d, m, now)
  OBVIOUS
<1>5. /\ x.action = Build /\ x.code \in Spreading
  BY <1>2, <1>3, <1>4, DecisionKinds
     DEF Decide, Spreading, CodeChangeCodes, RefreshCodes
<1> QED
  BY <1>4, <1>5, DecisionKinds DEF PlanNode, RelationCheck, Spreading, RefreshCodes

\* In another target nothing is recorded, and everything is built.
LEMMA NewTargetBuildsAll ==
    ASSUME NEW pr, NEW prev, NEW selected, NEW now, NEW opt, NEW d, NEW n \in Nodes,
           opt.target_changed, prev[n] = None
    PROVE  PlanNode(pr, prev, selected, now, opt, d, n).action = Build
<1>1. Decide(pr, prev, d, n, now) = BuildFor("NeverBuilt")
  BY DEF Decide
<1> QED
  BY <1>1, DecisionKinds DEF PlanNode

\* What is downstream of a node: its children and what is downstream of them.
LEMMA DownstreamUnfolds ==
    ASSUME Ordered(case.pr.parents)
    PROVE  \A n \in Nodes :
             Downstream[n] = Children(n) \cup UNION {Downstream[m] : m \in Children(n)}
<1> DEFINE Step(f, n) == Children(n) \cup UNION {f[m] : m \in Children(n)}
           ds == CHOOSE f : f = [n \in Nodes |-> Step(f, n)]
<1>1. PICK K : K = Cardinality(Nodes)
  OBVIOUS
<1>2. K \in Nat
  BY <1>1, NodesAreFinite, FS_CardinalityType
<1>3. PICK depth \in [Nodes -> 0..K] :
        \A n \in Nodes : \A p \in case.pr.parents[n] \cap Nodes : depth[p] < depth[n]
  BY <1>1 DEF Ordered
<1>4. \A n \in Nodes : \A m \in Children(n) : m \in Nodes /\ depth[n] < depth[m]
  BY <1>3 DEF Children
<1> DEFINE From(f, k) == \A n \in Nodes : depth[n] + k > K => f[n] = Step(f, n)
           S == {k \in Nat : \E f : From(f, k)}
<1>5. ASSUME NEW f, NEW g, NEW n \in Nodes, \A m \in Children(n) : f[m] = g[m]
      PROVE  Step(f, n) = Step(g, n)
  <2>1. {f[m] : m \in Children(n)} = {g[m] : m \in Children(n)}
    BY <1>5
  <2> QED
    BY <2>1
<1>6. 0 \in S
  <2>1. \A n \in Nodes : ~(depth[n] + 0 > K)
    BY <1>2, <1>3
  <2> QED
    BY <2>1, Zenon
<1>7. ASSUME NEW k \in Nat, k \in S PROVE k + 1 \in S
  <2>1. PICK f : From(f, k)
    BY <1>7, Zenon
  <2> HIDE DEF Step
  <2>2. PICK g : g = [n \in Nodes |-> IF depth[n] + k > K THEN f[n] ELSE Step(f, n)]
    OBVIOUS
  <2>3. ASSUME NEW n \in Nodes, depth[n] + (k + 1) > K PROVE g[n] = Step(g, n)
    <3>1. \A m \in Children(n) : m \in Nodes /\ depth[m] + k > K
      BY <1>2, <1>3, <1>4, <2>3
    <3>2. \A m \in Children(n) : f[m] = g[m]
      BY <2>2, <3>1, Zenon
    <3>3. Step(f, n) = Step(g, n)
      BY <1>5, <3>2
    <3>4. g[n] = Step(f, n)
      BY <2>1, <2>2, Zenon
    <3> QED
      BY <3>3, <3>4, Zenon
  <2>4. k + 1 \in Nat
    OBVIOUS
  <2> QED
    BY <2>3, <2>4, Zenon
<1>8. K + 1 \in S
  <2>1. K + 1 \in Nat
    BY <1>2
  <2> HIDE DEF S
  <2> QED
    BY <1>6, <1>7, <2>1, SetInduction
<1>9. \E f : f = [n \in Nodes |-> Step(f, n)]
  <2>1. PICK f : From(f, K + 1)
    BY <1>8, Zenon
  <2>2. \A n \in Nodes : depth[n] + (K + 1) > K
    BY <1>2, <1>3
  <2> HIDE DEF Step
  <2>3. \A n \in Nodes : f[n] = Step(f, n)
    BY <2>1, <2>2, Zenon
  <2>4. PICK g : g = [n \in Nodes |-> f[n]]
    OBVIOUS
  <2>5. ASSUME NEW n \in Nodes PROVE g[n] = Step(g, n)
    <3>1. \A m \in Children(n) : f[m] = g[m]
      BY <1>4, <2>4, Zenon
    <3>2. Step(f, n) = Step(g, n)
      BY <1>5, <3>1
    <3> QED
      BY <2>3, <2>4, <3>2, Zenon
  <2>6. g = [n \in Nodes |-> Step(g, n)]
    BY <2>4, <2>5, Zenon
  <2> QED
    BY <2>6, Zenon
<1>10. ds = [n \in Nodes |-> Step(ds, n)]
  BY <1>9, Zenon
<1>11. Downstream = ds
  BY DEF Downstream, Children
<1> QED
  BY <1>10, <1>11, Zenon

\* What is downstream of a node that spreads a change is all of that kind.
LEMMA ChangeSpreads ==
    ASSUME Ordered(case.pr.parents), NEW B \in SUBSET Nodes,
           \A n \in B : Children(n) \subseteq B
    PROVE  \A n \in B : Downstream[n] \subseteq B
<1>1. PICK K : K = Cardinality(Nodes)
  OBVIOUS
<1>2. K \in Nat
  BY <1>1, NodesAreFinite, FS_CardinalityType
<1>3. PICK depth \in [Nodes -> 0..K] :
        \A n \in Nodes : \A p \in case.pr.parents[n] \cap Nodes : depth[p] < depth[n]
  BY <1>1 DEF Ordered
<1>4. \A n \in Nodes : \A m \in Children(n) : m \in Nodes /\ depth[n] < depth[m]
  BY <1>3 DEF Children
<1> DEFINE S == {k \in Nat : \A n \in B : depth[n] + k > K => Downstream[n] \subseteq B}
<1>5. 0 \in S
  <2>1. \A n \in B : ~(depth[n] + 0 > K)
    BY <1>2, <1>3
  <2> QED
    BY <2>1, Zenon
<1>6. ASSUME NEW k \in Nat, k \in S PROVE k + 1 \in S
  <2>1. ASSUME NEW n \in B, depth[n] + (k + 1) > K PROVE Downstream[n] \subseteq B
    <3>1. \A m \in Children(n) : m \in B /\ depth[m] + k > K
      BY <1>2, <1>3, <1>4, <2>1
    <3>2. \A m \in Children(n) : Downstream[m] \subseteq B
      BY <1>6, <3>1, Zenon
    <3>3. Downstream[n] = Children(n) \cup UNION {Downstream[m] : m \in Children(n)}
      BY DownstreamUnfolds
    <3> QED
      BY <3>1, <3>2, <3>3, Zenon
  <2>2. k + 1 \in Nat
    OBVIOUS
  <2> QED
    BY <2>1, <2>2, Zenon
<1>7. K + 1 \in S
  <2>1. K + 1 \in Nat
    BY <1>2
  <2> HIDE DEF S
  <2> QED
    BY <1>5, <1>6, <2>1, SetInduction
<1>8. \A n \in B : depth[n] + (K + 1) > K
  BY <1>2, <1>3
<1> QED
  BY <1>7, <1>8, Zenon

(***************************************************************************)
(* For every project, recorded state, selection, refresh and set of        *)
(* answers: a node that is rebuilt because code may have changed, or by a  *)
(* full refresh, is followed by all nodes downstream of it, whatever lag   *)
(* or quorum they tolerate (decide, plan_with).                            *)
(***************************************************************************)
THEOREM ChangesReachDescendants == Spec => []ChangeReachesDescendants
<1>1. ASSUME PlanInv PROVE ChangeReachesDescendants
  <2> SUFFICES ASSUME plan # None, NEW n \in Nodes, plan[n].code \in Spreading,
                      NEW m \in Downstream[n]
               PROVE  plan[m].action = Build
    BY DEF ChangeReachesDescendants, Spreading
  <2>1. plan = PlanWith(case.pr, case.prev, case.selected, Now, case.opt)
    BY <1>1 DEF PlanInv, MadeInv
  <2>2. Ordered(case.pr.parents)
    BY <1>1 DEF PlanInv, CaseInv
  <2>3. plan = [x \in Nodes |->
                  PlanNode(case.pr, case.prev, case.selected, Now, case.opt, plan, x)]
    BY <2>1, <2>2, PlanUnfolds
  <2>4. \A x \in Nodes :
          plan[x] = PlanNode(case.pr, case.prev, case.selected, Now, case.opt, plan, x)
    BY <2>3, Zenon
  <2>5. plan \in [Nodes -> Decision]
    BY <2>1, <2>2, PlanType
  <2>6. m \in Nodes
    <3>1. \A x \in Nodes : Children(x) \subseteq Nodes
      BY DEF Children
    <3> QED
      BY <2>2, <3>1, ChangeSpreads
  <2>7. CASE case.opt.target_changed
    <3>1. case.prev[m] = None
      BY <1>1, <2>6, <2>7 DEF PlanInv, CaseInv
    <3> QED
      BY <2>4, <2>6, <2>7, <3>1, NewTargetBuildsAll
  <2>8. CASE ~case.opt.target_changed
    <3>1. PICK B \in SUBSET Nodes : B = {x \in Nodes : plan[x].code \in Spreading}
      OBVIOUS
    <3>2. ASSUME NEW x \in B, NEW y \in Children(x) PROVE y \in B
      <4>1. x \in Nodes /\ plan[x].code \in Spreading /\ plan[x] \in Decision
        BY <2>5, <3>1
      <4>2. y \in Nodes /\ x \in case.pr.parents[y]
        BY DEF Children
      <4>3. plan[y].code \in Spreading
        BY <2>4, <2>8, <4>1, <4>2, ChangeReachesChildren
      <4> QED
        BY <3>1, <4>2, <4>3
    <3>3. m \in B
      BY <2>2, <3>1, <3>2, ChangeSpreads
    <3> QED
      BY <2>5, <3>1, <3>3, CodesAreApart, DecisionKinds DEF Spreading
  <2> QED
    BY <2>7, <2>8
<1> QED
  BY <1>1, PlanInvInit, PlanInvStep, PTL DEF Spec
=============================================================================
