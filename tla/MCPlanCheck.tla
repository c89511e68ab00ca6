---------------------------- MODULE MCPlanCheck ----------------------------
(***************************************************************************)
(* A chain a -> b -> c, where a and b also read the source s, with every   *)
(* combination of what the decisions tell apart: no record, code that      *)
(* changed or cannot be fingerprinted, an unknown parent, source versions  *)
(* that are missing, stale, equal or new, recorded parents that are        *)
(* missing, current or outdated, lag, quorum, refreshes and selections.    *)
(***************************************************************************)
EXTENDS PlanCheck

CONSTANTS a, b, c, s, x

V(value) == FreshnessVersion(value)

\* A node recorded by run "r0" at time 1, with these inputs and parents.
Recorded(input, parent) ==
    [fp |-> "c1", built_at |-> 1, run |-> "r0",
     inputs |-> [i \in Sources |-> input],
     parents |-> [p \in Nodes |-> parent],
     tested |-> None]

Records(inputs, parents) ==
    {None} \cup {Recorded(i, p) : i \in inputs, p \in parents}

Measurements ==
    {[version |-> None, observed |-> None], [version |-> V(0), observed |-> 0],
     [version |-> V(0), observed |-> 2], [version |-> V(1), observed |-> 2]}

Options ==
    {[full_refresh |-> f, relations_checked |-> FALSE, target_changed |-> FALSE] : f \in BOOLEAN}

\* What a reads: its source; one parent more, which nobody knows; nothing.
RootKinds ==
    {[parents |-> {s}, self_contained |-> TRUE], [parents |-> {s, x}, self_contained |-> TRUE],
     [parents |-> {}, self_contained |-> TRUE], [parents |-> {}, self_contained |-> FALSE]}

\* `plain': b is a model whose policy is honoured.  Otherwise it is not, nor is b refreshable.
ProjectOf(root, fpa, lag, quorum, plain, m) ==
    [parents |-> [n \in Nodes |-> CASE n = a -> root.parents
                                    [] n = b -> {a, s}
                                    [] n = c -> {b}],
     fp |-> [n \in Nodes |-> IF n = a THEN fpa ELSE "c1"],
     lag |-> [n \in Nodes |-> lag], quorum |-> [n \in Nodes |-> quorum],
     honoured |-> [n \in Nodes |-> n # b \/ plain],
     self_contained |-> [n \in Nodes |-> n # a \/ root.self_contained],
     refreshable |-> [n \in Nodes |-> n # b \/ plain],
     relation |-> [n \in Nodes |-> "Unchecked"],
     version |-> [i \in Sources |-> m.version], observed |-> [i \in Sources |-> m.observed]]

Projects ==
    {ProjectOf(root, fpa, lag, quorum, plain, m) :
        root \in RootKinds, fpa \in {"c1", "c2", None}, lag \in {0, 5},
        quorum \in {"Any", "All"}, plain \in BOOLEAN, m \in Measurements}

Previouses ==
    {[n \in Nodes |-> CASE n = a -> pa [] n = b -> pb [] n = c -> pc] :
        pa \in Records({V(0)}, {None}),
        pb \in Records({None, V(0)}, {None, "r0", "r1"}),
        pc \in Records({None}, {None, "r0", "r1"})}

TheCases ==
    [pr : Projects, prev : Previouses, selected : {Nodes, {a}, {c}}, opt : Options]
=============================================================================
