-------------------------------- MODULE Retry --------------------------------
(***************************************************************************)
(* `ods state retry --failed': a run keeps its command line and what       *)
(* failed beside the state database                                        *)
(* (crates/ods-cli/src/commands/state_retry.rs), and a retry narrows the   *)
(* next plan to it (crates/ods-state/src/retry.rs, split_retry), in a      *)
(* chain of runs and retries, with edits between them and any of them      *)
(* killed.                                                                 *)
(*                                                                         *)
(* The nodes are 1..N in plan order: a node reads nodes before it.  What   *)
(* the planner decides is reduced to this: a node is built when something  *)
(* of its own changed or when a node it reads is.  Commands that share a   *)
(* state database run one at a time here.                                  *)
(***************************************************************************)
EXTENDS Naturals, FiniteSets

CONSTANTS
    N,          \* the number of nodes
    MaxRuns,    \* bound: runs and retries
    MaxEdits,   \* bound: changes to nodes
    Absent      \* no run yet, or no outcome of it

ASSUME RetryAssumption == N \in Nat /\ MaxRuns \in Nat /\ MaxEdits \in Nat

Nodes == 1..N

VARIABLES
    reads,      \* reads[n]: the nodes that n reads
    due,        \* the nodes with a change of their own since they were last recorded
    last,       \* the last-run file: [select, narrow, refresh, outcome], or Absent
    job,        \* the command that runs: see NoJob
    runs,       \* how many there were
    edits,      \* how many changes there were
    owed        \* history: what failed in the run the file names, or in retries of it

retryVars == <<reads, due, last, job, runs, edits, owed>>

\* last: the command line it runs; kept: whether the file has it.
NoJob == [pc |-> "idle", retry |-> FALSE, last |-> Absent, kept |-> FALSE, wanted |-> {},
          build |-> {}, all |-> {}, requested |-> {}, held |-> {}, ok |-> {}, failed |-> {}]

LastRuns == [select : SUBSET Nodes, narrow : SUBSET Nodes, refresh : BOOLEAN,
             outcome : {Absent} \cup SUBSET Nodes]

RetryTypeOK ==
    /\ reads \in [Nodes -> SUBSET Nodes] /\ due \subseteq Nodes /\ owed \subseteq Nodes
    /\ runs \in 0..MaxRuns /\ edits \in 0..MaxEdits
    /\ last \in {Absent} \cup LastRuns
    /\ job \in [pc : {"idle", "started", "running"}, retry : BOOLEAN,
                last : {Absent} \cup LastRuns, kept : BOOLEAN, wanted : SUBSET Nodes,
                build : SUBSET Nodes, all : SUBSET Nodes, requested : SUBSET Nodes,
                held : SUBSET Nodes, ok : SUBSET Nodes, failed : SUBSET Nodes]

RetryInit ==
    /\ reads \in {r \in [Nodes -> SUBSET Nodes] : \A n \in Nodes : r[n] \subseteq 1..(n - 1)}
    /\ due = Nodes /\ last = Absent /\ job = NoJob /\ runs = 0 /\ edits = 0 /\ owed = {}

Edit(n) ==
    /\ edits < MaxEdits /\ n \notin due
    /\ due' = due \cup {n} /\ edits' = edits + 1
    /\ UNCHANGED <<reads, last, job, runs, owed>>

(***************************************************************************)
(* What is built: the changed nodes and all that read them.                *)
(***************************************************************************)
Planned ==
    LET through[n \in Nodes] == n \in due \/ \E p \in reads[n] : through[p]
    IN  {n \in Nodes : through[n]}

(***************************************************************************)
(* split_retry.  `all' is the plan of every node, `build' the command's    *)
(* own plan of what it selected, `can' what is left of it after its own    *)
(* narrowing.                                                              *)
(***************************************************************************)
\* Whether a parent needs building: the command's own plan wins for what it selected.
\* Fault: only the command's own plan is asked.
NeedsBuildingHere(select, build, all, p) == p \in build

NeedsBuilding(select, build, all, p) == p \in (IF p \in select THEN build ELSE all)

\* Nodes in plan order: one is built unless a parent needs building and was not built.
Retried(select, wanted, can, build, all) ==
    LET built[n \in Nodes] ==
          /\ n \in wanted \cap can
          /\ \A p \in reads[n] : NeedsBuilding(select, build, all, p) => built[p]
    IN  {n \in wanted \cap can : built[n]}

(***************************************************************************)
(* remember: the command line is kept before the run, without an outcome.  *)
(* If it can't be written, the file stays as it was, and the run goes on.  *)
(***************************************************************************)
Run(select, narrow, refresh, kept) ==
    LET line == [select |-> select, narrow |-> narrow, refresh |-> refresh, outcome |-> Absent]
    IN  /\ job.pc = "idle" /\ runs < MaxRuns
        /\ narrow \subseteq select
        /\ last' = IF kept THEN line ELSE last
        /\ job' = [NoJob EXCEPT !.pc = "started", !.last = line, !.kept = kept]
        /\ runs' = runs + 1 /\ owed' = IF kept THEN {} ELSE owed
        /\ UNCHANGED <<reads, due, edits>>

\* failures: there must be something that failed; the same command line runs again.
RetryFailed(kept) ==
    LET line == [last EXCEPT !.outcome = Absent]
    IN  /\ job.pc = "idle" /\ runs < MaxRuns
        /\ last # Absent /\ last.outcome \notin {Absent, {}}
        /\ last' = IF kept THEN line ELSE last
        /\ job' = [NoJob EXCEPT !.pc = "started", !.retry = TRUE, !.last = line, !.kept = kept,
                                !.wanted = last.outcome]
        /\ runs' = runs + 1
        /\ UNCHANGED <<reads, due, edits, owed>>

\* RetryReport::narrow: the plan, and what of it a retry keeps.
Plan ==
    LET line == job.last
        all == Planned
        build == IF line.refresh THEN line.select ELSE all \cap line.select
        can == build \cap line.narrow
        keep == Retried(line.select, job.wanted, can, build, all)
    IN  /\ job.pc = "started"
        /\ job' = [job EXCEPT !.pc = "running", !.build = build, !.all = all,
                              !.requested = IF job.retry THEN keep ELSE can,
                              !.held = IF job.retry THEN (job.wanted \cap can) \ keep ELSE {}]
        /\ UNCHANGED <<reads, due, last, runs, edits, owed>>

\* dbt builds a node once those before it are done; one that reads a failed node, or that
\* dbt did not come to, is skipped and counts with the failed.
Waiting == job.requested \ (job.ok \cup job.failed)

NodeDone(n, well) ==
    /\ job.pc = "running" /\ n \in Waiting
    /\ \A p \in Waiting : n <= p
    /\ well => reads[n] \cap job.failed = {}
    /\ job' = IF well THEN [job EXCEPT !.ok = @ \cup {n}] ELSE [job EXCEPT !.failed = @ \cup {n}]
    /\ UNCHANGED <<reads, due, last, runs, edits, owed>>

\* LastOutcome::of and last_outcome: a run that was not recorded succeeded at nothing, and
\* what a retry held back failed.
\* Fault: what was held back is left out.
OutcomeOfBuilt(recorded) == job.failed \cup (IF recorded THEN {} ELSE job.ok)

Outcome(recorded) == job.failed \cup job.held \cup (IF recorded THEN {} ELSE job.ok)

\* Whether the file names the run the command is part of.
Named(kept) == job.retry \/ job.kept \/ kept

\* The run is recorded, or not (a conflict, or another manifest), and its outcome kept, if
\* it can be written.  A node is up to date once it is recorded; what reads it must follow.
Finish(recorded, kept) ==
    LET built == IF recorded THEN job.ok ELSE {}
        before == IF job.retry THEN owed ELSE {}
    IN  /\ job.pc = "running" /\ Waiting = {}
        /\ due' = (due \ built) \cup {n \in Nodes \ built : reads[n] \cap built # {}}
        /\ owed' = IF Named(kept)
                   THEN {n \in before \cup job.requested : n \notin built /\ n \in job.build}
                   ELSE owed \ built
        /\ last' = IF kept THEN [job.last EXCEPT !.outcome = Outcome(recorded)] ELSE last
        /\ job' = NoJob
        /\ UNCHANGED <<reads, runs, edits>>

\* Killed, or failed before dbt ran: what is kept has no outcome.
Stop ==
    /\ job.pc # "idle"
    /\ job' = NoJob
    /\ UNCHANGED <<reads, due, last, runs, edits, owed>>

RetryNext ==
    \/ \E n \in Nodes : Edit(n) \/ \E well \in BOOLEAN : NodeDone(n, well)
    \/ \E select, narrow \in SUBSET Nodes, refresh, kept \in BOOLEAN :
         Run(select, narrow, refresh, kept)
    \/ \E kept \in BOOLEAN : RetryFailed(kept) \/ \E recorded \in BOOLEAN : Finish(recorded, kept)
    \/ Plan \/ Stop

RetrySpec == RetryInit /\ [][RetryNext]_retryVars

(***************************************************************************)
(* Properties.                                                             *)
(***************************************************************************)
\* A node that a retry builds never reads a node that needs building, selected by the
\* command or not, unless the same retry built it first.
RetryReadsNothingStale ==
    job.retry => \A n \in job.ok : \A p \in reads[n] :
        p \in job.ok \/ p \notin job.all

\* A node that failed, in the run that the file names or in any of the retries that
\* followed it, whether or not each of them could write the file, and still needs
\* building, is in what the next --failed retries: a retry that says that nothing failed
\* says so truly.  After a command that was killed, or could not write its outcome, the
\* file has none and --failed is refused.
NothingForgotten ==
    \/ job.pc # "idle" \/ last = Absent
    \/ last.outcome = Absent
    \/ owed \subseteq last.outcome
=============================================================================
