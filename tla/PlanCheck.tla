----------------------------- MODULE PlanCheck -----------------------------
(***************************************************************************)
(* The planner as a command uses it (state_run.rs: check_relations, then   *)
(* plan_against): ask which relations a plan would reuse, check those in   *)
(* the warehouse, plan again with the answers.  The project, the recorded  *)
(* state and the options are any of a set of cases.                        *)
(***************************************************************************)
EXTENDS Planner

CONSTANTS
    Cases,      \* records [pr, prev, selected, opt]
    Answers,    \* what a relation check may find of a relation
    Now         \* the time of the plan

\* A case is what plan_against is given: a graph without a cycle, and no recorded builds
\* when the target changed (in_target).
ASSUME CasesAssumption ==
    /\ Answers \subseteq RelationFact \ {"Unchecked"}
    /\ \A c \in Cases :
         /\ DOMAIN c = {"pr", "prev", "selected", "opt"}
         /\ DOMAIN c.pr = {"parents", "fp", "lag", "quorum", "honoured", "self_contained",
                          "refreshable", "relation", "version", "observed"}
         /\ DOMAIN c.opt = {"full_refresh", "relations_checked", "target_changed"}
         /\ Ordered(c.pr.parents)
         /\ c.opt.target_changed => \A n \in Nodes : c.prev[n] = None

VARIABLES
    checkable,  \* the inspector has the capability relation_existence
    case,       \* what is planned
    asked,      \* the nodes whose relations were checked
    plan        \* the plan; None before it is made

vars == <<checkable, case, asked, plan>>

Init ==
    /\ checkable \in BOOLEAN
    /\ case \in Cases
    /\ asked = None
    /\ plan = None

(***************************************************************************)
(* check_relations: nothing is asked when nothing would be reused, or when *)
(* the inspector can't check, and then the plan is told that nothing was   *)
(* checked.                                                                *)
(***************************************************************************)
CheckRelations ==
    /\ asked = None
    /\ asked' = IF checkable THEN ReuseCandidates(case.pr, case.prev, Now, case.opt) ELSE {}
    /\ \E fact \in [asked' -> Answers] :
         case' = [case EXCEPT
                    !.pr = [case.pr EXCEPT !.relation = [n \in Nodes |->
                              IF n \in asked' THEN fact[n] ELSE "Unchecked"]],
                    !.opt = [case.opt EXCEPT !.relations_checked = asked' # {}]]
    /\ UNCHANGED <<checkable, plan>>

\* plan_against.
MakePlan ==
    /\ asked # None
    /\ plan = None
    /\ plan' = PlanWith(case.pr, case.prev, case.selected, Now, case.opt)
    /\ UNCHANGED <<checkable, case, asked>>

Next == CheckRelations \/ MakePlan

Spec == Init /\ [][Next]_vars

(***************************************************************************)
(* Properties.                                                             *)
(***************************************************************************)

(***************************************************************************)
(* Whatever the selection, the full refresh and the answers: if relations  *)
(* can be checked at all, the plan reuses only nodes whose relation was    *)
(* asked about and is there.  A node that became a reuse because of the    *)
(* answers, or of the refresh, is not reused unchecked (reuse_candidates,  *)
(* relation_check).  With an inspector that can't check, reuse is on trust *)
(* (ADR-0016).                                                             *)
(***************************************************************************)
ReusedWereChecked ==
    checkable /\ plan # None =>
        Reused(plan) \subseteq {n \in asked : case.pr.relation[n] = "Present"}

(***************************************************************************)
(* A node rebuilt because code may have changed, or by a full refresh, is  *)
(* followed by every node downstream of it, however many levels down and   *)
(* whatever lag or quorum they tolerate (decide, CODE_CHANGE_CODES).       *)
(***************************************************************************)
Downstream[n \in Nodes] ==
    LET children == {m \in Nodes : n \in case.pr.parents[m]}
    IN  children \cup UNION {Downstream[m] : m \in children}

ChangeReachesDescendants ==
    plan # None =>
        \A n \in Nodes : plan[n].code \in CodeChangeCodes \cup RefreshCodes =>
            \A m \in Downstream[n] : plan[m].action = Build
=============================================================================
