------------------------------ MODULE StateRun ------------------------------
(***************************************************************************)
(* `ods state run|build' (crates/ods-cli/src/commands/state_run.rs) from   *)
(* end to end: prepare, plan against the recorded state, execute with dbt, *)
(* record, write the ledger.  Runs are processes of one checkout: they     *)
(* share dbt's target directory (manifest.json, sources.json), the         *)
(* warehouse and the state store, may overlap, and may be killed anywhere. *)
(* Between their steps people edit code, data arrives, and relations are   *)
(* dropped.                                                                *)
(*                                                                         *)
(* The project's sources have no tests of their own (record_source_checks  *)
(* then leaves the snapshot's source records alone), and every node's code *)
(* can be fingerprinted.                                                   *)
(*                                                                         *)
(* dbt and the warehouse are external: dbt builds the requested nodes in   *)
(* dependency order from the code it finds when it starts, and each node   *)
(* reads its sources and parents when its own build begins.                *)
(***************************************************************************)
EXTENDS Recorder, Sequences, FiniteSets

CONSTANTS
    Runs,           \* run ids: each invocation of the command is one
    Targets,        \* dbt targets (warehouse schemas) runs build in
    Codes,          \* the versions of a node's code
    ParentsOf,      \* ParentsOf[n]: the nodes and sources n reads
    Lag,            \* Lag[n]: the lag its policy tolerates, 0 for none
    Quorum,         \* Quorum[n]: "Any" or "All"
    Selections,     \* the sets of nodes a run may be asked for
    FullRefreshes,  \* whether a run may, or must, ask for a full refresh: a subset of BOOLEAN
    TableVersions,  \* whether the warehouse reports table versions
    Overlap,        \* bound: whether runs overlap in time
    MaxTime,        \* bound: the last second
    MaxVersion      \* bound: the last version of a source's data

VARIABLES
    clock,      \* the time, in seconds
    code,       \* code[n]: the code of n in the working tree
    data,       \* data[s]: the version of the data in source s
    rel,        \* rel[t][n]: the run whose build the relation of n holds in t, or None
    built,      \* history: built[r][n]: what run r built for n, or None
    manifest,   \* target/manifest.json: [by, code], by the run that wrote it or None
    freshness,  \* target/sources.json: a reading
    hist,       \* the snapshots committed to the store, the head last
    job,        \* job[r]: the process of run r
    plan,       \* plan[r]: what it decided for every node
    ledger      \* ledger[r]: its entry in the run ledger, or None

vars == <<clock, code, data, rel, built, manifest, freshness, hist, job, plan, ledger>>

world == <<clock, code, data>>

ASSUME StateRunAssumption ==
    /\ ParentsOf \in [Nodes -> SUBSET (Nodes \cup Sources)]
    /\ Ordered(ParentsOf)
    /\ Lag \in [Nodes -> Nat]
    /\ Quorum \in [Nodes -> {"Any", "All"}]
    /\ Selections \subseteq SUBSET Nodes
    /\ FullRefreshes \subseteq BOOLEAN
    /\ TableVersions \in BOOLEAN
    /\ Overlap \in BOOLEAN
    /\ MaxTime \in Nat
    /\ MaxVersion \in Nat

(***************************************************************************)
(* A process: where it is, and what it has read, decided and done so far.  *)
(*   queried    what `dbt source freshness' found, until it is written     *)
(*   use_file   whether sources.json may be read (Sources::AsGiven)        *)
(*   fp, file   the workspace: code, and the reading of sources.json       *)
(*   table      the reading of the table versions                          *)
(*   base       the snapshot the plan rests on, 0 for none                 *)
(*   held       history: what the relations held at planning time          *)
(*   code       the code dbt built from; read[n], what n's build read      *)
(*   result     per node: None, or [outcome, at, tested]                   *)
(*   error      what the command failed with, if it did                    *)
(* A field is cleared by the step that last uses it.                       *)
(***************************************************************************)
ForNodes(x) == [n \in Nodes |-> x]
NoPlan == ForNodes(BuildFor("NeverBuilt"))

Idle(pc) ==
    [pc |-> pc, target |-> None, queried |-> None, use_file |-> FALSE,
     fp |-> ForNodes(None), file |-> NoReading, table |-> NoReading, base |-> 0,
     held |-> ForNodes(None),
     requested |-> {}, started |-> None, code |-> ForNodes(None),
     read |-> ForNodes(None), result |-> ForNodes(None),
     outcome |-> None, snapshot |-> 0, error |-> None]

Ended == {"new", "done", "killed"}

Becomes(r, j) == job' = [job EXCEPT ![r] = j]

Active == {r \in Runs : job[r].pc \notin Ended}

Init ==
    /\ clock = 0
    /\ code \in [Nodes -> Codes]
    /\ data = [s \in Sources |-> 0]
    /\ rel = [t \in Targets |-> [n \in Nodes |-> None]]
    /\ built = [r \in Runs |-> [n \in Nodes |-> None]]
    /\ manifest = [by |-> None, code |-> code]
    /\ freshness = NoReading
    /\ hist = <<>>
    /\ job = [r \in Runs |-> Idle("new")]
    /\ plan = [r \in Runs |-> NoPlan]
    /\ ledger = [r \in Runs |-> None]

(***************************************************************************)
(* The world around the runs.                                              *)
(***************************************************************************)
Tick ==
    /\ clock < MaxTime
    /\ clock' = clock + 1
    /\ UNCHANGED <<code, data, rel, built, manifest, freshness, hist, job, plan, ledger>>

EditCode(n) ==
    /\ \E c \in Codes \ {code[n]} : code' = [code EXCEPT ![n] = c]
    /\ UNCHANGED <<clock, data, rel, built, manifest, freshness, hist, job, plan, ledger>>

NewData(s) ==
    /\ data[s] < MaxVersion
    /\ data' = [data EXCEPT ![s] = @ + 1]
    /\ UNCHANGED <<clock, code, rel, built, manifest, freshness, hist, job, plan, ledger>>

\* `dbt source freshness', run by someone else, into the file the runs read.
RewriteSources ==
    /\ freshness' = [at |-> clock, answers |-> [s \in Sources |-> FreshnessVersion(data[s])]]
    /\ UNCHANGED <<clock, code, data, rel, built, manifest, hist, job, plan, ledger>>

DropRelation(t, n) ==
    /\ rel[t][n] # None
    /\ rel' = [rel EXCEPT ![t][n] = None]
    /\ UNCHANGED <<clock, code, data, built, manifest, freshness, hist, job, plan, ledger>>

(***************************************************************************)
(* prepare: measure the sources unless told not to, then compile; each dbt *)
(* command writes the manifest as it starts.  The values a measurement     *)
(* finds are read before sources.json, and its time, are written.          *)
(***************************************************************************)
MayBegin(r) == job[r].pc = "new" /\ (Overlap \/ Active = {})

Measure(r, t) ==
    /\ MayBegin(r)
    /\ manifest' = [by |-> None, code |-> code]
    /\ Becomes(r, [job[r] EXCEPT !.pc = "measuring", !.target = t, !.queried = data])
    /\ UNCHANGED <<world, rel, built, freshness, hist, plan, ledger>>

PrepareMeasured(r) ==
    /\ job[r].pc = "measuring"
    /\ freshness' = [at |-> clock,
                     answers |-> [s \in Sources |-> FreshnessVersion(job[r].queried[s])]]
    /\ manifest' = [by |-> None, code |-> code]
    /\ Becomes(r, [job[r] EXCEPT !.pc = "prepared", !.use_file = TRUE, !.queried = None])
    /\ UNCHANGED <<world, rel, built, hist, plan, ledger>>

\* The measurement failed: the file it left alone is out of date, and is not read.
PrepareMeasureFailed(r) ==
    /\ job[r].pc = "measuring"
    /\ manifest' = [by |-> None, code |-> code]
    /\ Becomes(r, [job[r] EXCEPT !.pc = "prepared", !.use_file = FALSE, !.queried = None])
    /\ UNCHANGED <<world, rel, built, freshness, hist, plan, ledger>>

\* --no-source-freshness: whatever sources.json holds is read.
PrepareUnmeasured(r, t) ==
    /\ MayBegin(r)
    /\ manifest' = [by |-> None, code |-> code]
    /\ Becomes(r, [job[r] EXCEPT !.pc = "prepared", !.target = t, !.use_file = TRUE])
    /\ UNCHANGED <<world, rel, built, freshness, hist, plan, ledger>>

\* --no-compile: plan from the artifacts there are, with sources.json only if it was named.
PrepareNothing(r, t) ==
    /\ MayBegin(r)
    /\ \E named \in BOOLEAN :
         Becomes(r, [job[r] EXCEPT !.pc = "prepared", !.target = t, !.use_file = named])
    /\ UNCHANGED <<world, rel, built, manifest, freshness, hist, plan, ledger>>

(***************************************************************************)
(* Workspace::load, open_state, read_table_versions: artifacts, then the   *)
(* head of the store, then the table versions, stamped with the time the   *)
(* call started.                                                           *)
(***************************************************************************)
FileReading(r) == IF job[r].use_file THEN freshness ELSE NoReading

Load(r) ==
    /\ job[r].pc = "prepared"
    /\ Becomes(r, [job[r] EXCEPT !.pc = "loaded",
                                 !.fp = manifest.code, !.file = FileReading(r)])
    /\ UNCHANGED <<world, rel, built, manifest, freshness, hist, plan, ledger>>

\* Fault: the base is the id the next snapshot will get.
OpenStateAtNextId(r) ==
    /\ job[r].pc = "loaded"
    /\ Becomes(r, [job[r] EXCEPT !.pc = IF TableVersions THEN "opened" ELSE "ready",
                                 !.base = Len(hist) + 1,
                                 !.table.at = IF TableVersions THEN clock ELSE None])
    /\ UNCHANGED <<world, rel, built, manifest, freshness, hist, plan, ledger>>

OpenState(r) ==
    /\ job[r].pc = "loaded"
    /\ Becomes(r, [job[r] EXCEPT !.pc = IF TableVersions THEN "opened" ELSE "ready",
                                 !.base = Len(hist),
                                 !.table.at = IF TableVersions THEN clock ELSE None])
    /\ UNCHANGED <<world, rel, built, manifest, freshness, hist, plan, ledger>>

\* A failed call leaves every source's table version unknown.
ReadVersions(r) ==
    /\ job[r].pc = "opened"
    /\ \E answered \in BOOLEAN :
         Becomes(r, [job[r] EXCEPT !.pc = "ready",
                                   !.table.answers = [s \in Sources |->
                                    IF answered THEN TableVersion(data[s]) ELSE None]])
    /\ UNCHANGED <<world, rel, built, manifest, freshness, hist, plan, ledger>>

(***************************************************************************)
(* in_target, check_relations, plan_against, narrow: the plan, and the     *)
(* nodes to build.                                                         *)
(***************************************************************************)
\* The recorded builds that count: none, when they went to another target.
InTarget(r) == job[r].base # 0 /\ hist[job[r].base].target = job[r].target
Previous(r) == IF InTarget(r) THEN hist[job[r].base].nodes ELSE ForNodes(None)

Project(fp, chosen, facts) ==
    [parents        |-> ParentsOf,
     fp             |-> fp,
     lag            |-> Lag,
     quorum         |-> Quorum,
     honoured       |-> ForNodes(TRUE),
     self_contained |-> ForNodes(TRUE),
     refreshable    |-> ForNodes(TRUE),
     relation       |-> facts,
     version        |-> [s \in Sources |-> chosen[s].version],
     observed       |-> [s \in Sources |-> chosen[s].observed]]

\* What the warehouse says of the relations asked about; a failed check verifies none.
RelationFacts(t, asked, answered) ==
    [n \in Nodes |-> IF n \notin asked THEN "Unchecked"
                     ELSE IF ~answered THEN "Unverified"
                     ELSE IF rel[t][n] # None THEN "Present" ELSE "Missing"]

PlanOf(r, selected, refresh, answered) ==
    LET prev       == Previous(r)
        opt        == [full_refresh |-> refresh, relations_checked |-> FALSE,
                       target_changed |-> job[r].base # 0 /\ ~InTarget(r)]
        chosen     == ChooseSourceVersions(job[r].table, job[r].file)
        candidates == ReuseCandidates(Project(job[r].fp, chosen, ForNodes("Unchecked")),
                                      prev, clock, opt)
        facts      == RelationFacts(job[r].target, candidates, answered)
    IN  PlanWith(Project(job[r].fp, chosen, facts), prev, selected, clock,
                 [opt EXCEPT !.relations_checked = candidates # {}])

Requested(selected, decided) == {n \in selected : decided[n].action = Build}

PlannedJob(r, requested) ==
    [job[r] EXCEPT !.pc = IF requested = {} THEN "recorded" ELSE "planned",
                   !.fp = ForNodes(None), !.file = NoReading,
                   !.held = rel[job[r].target],
                   !.requested = requested,
                   !.outcome = IF requested = {} THEN "NothingToBuild" ELSE None]

Plan(r) ==
    /\ job[r].pc = "ready"
    /\ \E selected \in Selections, refresh \in FullRefreshes, answered \in BOOLEAN :
         LET decided == PlanOf(r, selected, refresh, answered)
         IN  /\ plan' = [plan EXCEPT ![r] = decided]
             /\ Becomes(r, PlannedJob(r, Requested(selected, decided)))
    /\ UNCHANGED <<world, rel, built, manifest, freshness, hist, ledger>>

(***************************************************************************)
(* execute: dbt parses the project again, writes the manifest of this      *)
(* invocation, and builds what was requested.                              *)
(***************************************************************************)
Start(r) ==
    /\ job[r].pc = "planned"
    /\ manifest' = [by |-> r, code |-> code]
    /\ Becomes(r, [job[r] EXCEPT !.pc = "running", !.started = clock, !.code = code,
                                 !.held = ForNodes(None)])
    /\ plan' = [plan EXCEPT ![r] = NoPlan]
    /\ UNCHANGED <<world, rel, built, freshness, hist, ledger>>

Upstream(r, n) == ParentsOf[n] \cap job[r].requested

Pending(r, n) ==
    /\ job[r].pc = "running"
    /\ n \in job[r].requested
    /\ job[r].result[n] = None

\* Every requested parent of n was built, and passed the checks it ran.
UpstreamSucceeded(r, n) ==
    \A p \in Upstream(r, n) : job[r].result[p] # None /\ job[r].result[p].outcome = "Success"

\* Fault: only a skipped parent skips its children.
UpstreamSkipped(r, n) ==
    \E p \in Upstream(r, n) : job[r].result[p] # None /\ job[r].result[p].outcome = "Skipped"

UpstreamDidNot(r, n) ==
    \E p \in Upstream(r, n) : job[r].result[p] # None /\ job[r].result[p].outcome # "Success"

BeginNode(r, n) ==
    /\ Pending(r, n)
    /\ job[r].read[n] = None
    /\ UpstreamSucceeded(r, n)
    /\ \A p \in ParentsOf[n] \cap Nodes : rel[job[r].target][p] # None
    /\ Becomes(r, [job[r] EXCEPT !.read[n] = data])
    /\ UNCHANGED <<world, rel, built, manifest, freshness, hist, plan, ledger>>

\* Built: without its checks, with checks that passed, or with checks that failed.
FinishNode(r, n) ==
    /\ Pending(r, n)
    /\ job[r].read[n] # None
    /\ rel' = [rel EXCEPT ![job[r].target][n] = r]
    /\ \E checks \in {"not_run", "passed", "failed"} :
         /\ built' = [built EXCEPT ![r][n] =
                        [code |-> job[r].code[n], target |-> job[r].target, checks |-> checks,
                         read |-> job[r].read[n], until |-> data, at |-> clock]]
         /\ Becomes(r, [job[r] EXCEPT !.result[n] =
                            [outcome |-> IF checks = "failed" THEN "Failed" ELSE "Success",
                             at |-> clock, tested |-> checks = "passed"]])
    /\ UNCHANGED <<world, manifest, freshness, hist, plan, ledger>>

\* Failed: its relation is left as it was, or is gone.
FailNode(r, n) ==
    /\ Pending(r, n)
    /\ UpstreamSucceeded(r, n)
    /\ \E left \in {rel[job[r].target][n], None} :
         rel' = [rel EXCEPT ![job[r].target][n] = left]
    /\ Becomes(r, [job[r] EXCEPT !.result[n] =
                       [outcome |-> "Failed", at |-> clock, tested |-> FALSE]])
    /\ UNCHANGED <<world, built, manifest, freshness, hist, plan, ledger>>

SkipNode(r, n) ==
    /\ Pending(r, n)
    /\ UpstreamDidNot(r, n)
    /\ Becomes(r, [job[r] EXCEPT !.result[n] =
                       [outcome |-> "Skipped", at |-> clock, tested |-> FALSE]])
    /\ UNCHANGED <<world, rel, built, manifest, freshness, hist, plan, ledger>>

\* dbt started and left no report: nothing is recorded.
ExecutorFails(r) ==
    /\ job[r].pc = "running"
    /\ Becomes(r, [job[r] EXCEPT !.pc = "recorded", !.outcome = "NotRecorded",
                                 !.error = "executor"])
    /\ UNCHANGED <<world, rel, built, manifest, freshness, hist, plan, ledger>>

(***************************************************************************)
(* record: the artifacts are loaded again; the run's results become the    *)
(* next snapshot, with the source versions read before the run started.    *)
(***************************************************************************)
Finished(r) ==
    /\ job[r].pc = "running"
    /\ \A n \in job[r].requested : job[r].result[n] # None

RecordedVersions(r) ==
    KeepVersionsReadBefore(ChooseSourceVersions(job[r].table, FileReading(r)), job[r].started)

RecordedProject(r) ==
    [parents |-> ParentsOf, fp |-> manifest.code, version |-> RecordedVersions(r)]

RecordedNodes(r) == Record(RecordedProject(r), Previous(r), job[r].result, r)

Advances(r) == Advanced(manifest.code, job[r].result)

ExecutionOutcome(r) ==
    IF Succeeded(job[r].result) = job[r].requested THEN "Succeeded" ELSE "Failed"

Recorded(r, snapshot) ==
    Becomes(r, [job[r] EXCEPT !.pc = "recorded", !.outcome = ExecutionOutcome(r),
                              !.snapshot = snapshot])

NotRecorded(r, error) ==
    Becomes(r, [job[r] EXCEPT !.pc = "recorded", !.outcome = "NotRecorded", !.error = error])

\* The manifest is another command's: which code was built is unknown.
RecordRefused(r) ==
    /\ Finished(r)
    /\ manifest.by # r
    /\ NotRecorded(r, "manifest")
    /\ UNCHANGED <<world, rel, built, manifest, freshness, hist, plan, ledger>>

\* Nothing advanced: nothing is committed.
RecordNothing(r) ==
    /\ Finished(r)
    /\ manifest.by = r
    /\ Advances(r) = {}
    /\ Recorded(r, 0)
    /\ UNCHANGED <<world, rel, built, manifest, freshness, hist, plan, ledger>>

\* Fault: the head is not compared with the snapshot the run was planned against.
RecordCommitUnchecked(r) ==
    /\ Finished(r)
    /\ manifest.by = r
    /\ Advances(r) # {}
    /\ hist' = Append(hist, [run |-> r, target |-> job[r].target, nodes |-> RecordedNodes(r)])
    /\ Recorded(r, Len(hist) + 1)
    /\ UNCHANGED <<world, rel, built, manifest, freshness, plan, ledger>>

\* Fault: whatever manifest there is is taken for the run's own.
RecordCommitAnyManifest(r) ==
    /\ Finished(r)
    /\ Advances(r) # {}
    /\ Len(hist) = job[r].base
    /\ hist' = Append(hist, [run |-> r, target |-> job[r].target, nodes |-> RecordedNodes(r)])
    /\ Recorded(r, Len(hist) + 1)
    /\ UNCHANGED <<world, rel, built, manifest, freshness, plan, ledger>>

RecordCommit(r) ==
    /\ Finished(r)
    /\ manifest.by = r
    /\ Advances(r) # {}
    /\ Len(hist) = job[r].base
    /\ hist' = Append(hist, [run |-> r, target |-> job[r].target, nodes |-> RecordedNodes(r)])
    /\ Recorded(r, Len(hist) + 1)
    /\ UNCHANGED <<world, rel, built, manifest, freshness, plan, ledger>>

\* The head moved while the run ran.
\* Fault: the run tries again on the state it has.
RecordConflictTriesAgain(r) ==
    /\ Finished(r)
    /\ manifest.by = r
    /\ Advances(r) # {}
    /\ Len(hist) # job[r].base
    /\ UNCHANGED vars

RecordConflict(r) ==
    /\ Finished(r)
    /\ manifest.by = r
    /\ Advances(r) # {}
    /\ Len(hist) # job[r].base
    /\ NotRecorded(r, "conflict")
    /\ UNCHANGED <<world, rel, built, manifest, freshness, hist, plan, ledger>>

\* Fault: the store fails after it has kept the snapshot.
RecordFailsTooLate(r) ==
    /\ Finished(r)
    /\ manifest.by = r
    /\ Advances(r) # {}
    /\ hist' = Append(hist, [run |-> r, target |-> job[r].target, nodes |-> RecordedNodes(r)])
    /\ NotRecorded(r, "store")
    /\ UNCHANGED <<world, rel, built, manifest, freshness, plan, ledger>>

\* The store is busy or cannot be written: nothing of the commit is kept.
RecordFails(r) ==
    /\ Finished(r)
    /\ manifest.by = r
    /\ Advances(r) # {}
    /\ NotRecorded(r, "store")
    /\ UNCHANGED <<world, rel, built, manifest, freshness, hist, plan, ledger>>

(***************************************************************************)
(* write_ledger, and the end of the process.  An entry that cannot be      *)
(* written is a warning, and the run ends as it would have.                *)
(***************************************************************************)
WriteLedger(r) ==
    /\ job[r].pc = "recorded"
    /\ \/ ledger' = [ledger EXCEPT ![r] = [outcome |-> job[r].outcome, based_on |-> job[r].base,
                                           snapshot |-> job[r].snapshot]]
       \/ UNCHANGED ledger
    /\ Becomes(r, [Idle("done") EXCEPT !.error = job[r].error])
    /\ plan' = [plan EXCEPT ![r] = NoPlan]
    /\ UNCHANGED <<world, rel, built, manifest, freshness, hist>>

\* Killed, or ended by an error before dbt ran; dbt goes with it.
Kill(r) ==
    /\ job[r].pc \notin Ended
    /\ Becomes(r, Idle("killed"))
    /\ plan' = [plan EXCEPT ![r] = NoPlan]
    /\ UNCHANGED <<world, rel, built, manifest, freshness, hist, ledger>>

(***************************************************************************)
(* The specification.                                                      *)
(***************************************************************************)
World ==
    \/ Tick
    \/ \E n \in Nodes : EditCode(n)
    \/ \E s \in Sources : NewData(s)
    \/ RewriteSources
    \/ \E t \in Targets, n \in Nodes : DropRelation(t, n)

Begin(r) ==
    \E t \in Targets : Measure(r, t) \/ PrepareUnmeasured(r, t) \/ PrepareNothing(r, t)

Execution(r) ==
    \E n \in Nodes : BeginNode(r, n) \/ FinishNode(r, n) \/ FailNode(r, n) \/ SkipNode(r, n)

Recording(r) ==
    RecordRefused(r) \/ RecordNothing(r) \/ RecordCommit(r) \/ RecordConflict(r)

Progress(r) ==
    \/ PrepareMeasured(r) \/ PrepareMeasureFailed(r)
    \/ Load(r) \/ OpenState(r) \/ ReadVersions(r) \/ Plan(r)
    \/ Start(r) \/ Execution(r)
    \/ Recording(r) \/ WriteLedger(r)

Failure(r) == ExecutorFails(r) \/ RecordFails(r) \/ Kill(r)

Next ==
    \/ World
    \/ \E r \in Runs : Begin(r) \/ Progress(r) \/ Failure(r)

Spec == Init /\ [][Next]_vars

\* A process that was started keeps running, dbt with it, until it ends; nothing
\* makes the executor, the store or the process fail.
FairSpec == Spec /\ \A r \in Runs : WF_vars(Progress(r))

(***************************************************************************)
(* Properties.                                                             *)
(***************************************************************************)
DataVersions ==
    [value : 0..MaxVersion, exactness : {"Semantic", "Exact"},
     origin : {"sources.json max_loaded_at", "table_version"}] \cup {None}

Times == 0..MaxTime
Readings == [at : Times \cup {None}, answers : [Sources -> DataVersions]]
RunsOrNone == Runs \cup {None}

NodeStates ==
    [fp : Codes, built_at : Times, run : Runs, inputs : [Sources -> DataVersions],
     parents : [Nodes -> RunsOrNone], tested : RunsOrNone]

Snapshots == [run : Runs, target : Targets, nodes : [Nodes -> NodeStates \cup {None}]]

Builds ==
    [code : Codes, target : Targets, checks : {"not_run", "passed", "failed"},
     read : [Sources -> 0..MaxVersion], until : [Sources -> 0..MaxVersion], at : Times]

Results == [outcome : {"Success", "Failed", "Skipped"}, at : Times, tested : BOOLEAN]

Outcomes == {"Succeeded", "Failed", "NotRecorded", "NothingToBuild"}

Jobs ==
    [pc : Ended \cup {"measuring", "prepared", "loaded", "opened", "ready", "planned",
                      "running", "recorded"},
     target : Targets \cup {None},
     queried : [Sources -> 0..MaxVersion] \cup {None},
     use_file : BOOLEAN,
     fp : [Nodes -> Codes \cup {None}],
     file : Readings, table : Readings,
     base : Nat,
     held : [Nodes -> RunsOrNone],
     requested : SUBSET Nodes,
     started : Times \cup {None},
     code : [Nodes -> Codes \cup {None}],
     read : [Nodes -> [Sources -> 0..MaxVersion] \cup {None}],
     result : [Nodes -> Results \cup {None}],
     outcome : Outcomes \cup {None},
     snapshot : Nat,
     error : {"executor", "manifest", "conflict", "store", None}]

Entries ==
    [outcome : Outcomes,
     based_on : Nat, snapshot : Nat]

\* None is no value of the sets it stands beside.
ASSUME NoneAssumption ==
    /\ None \notin Runs \cup Targets \cup Codes
    /\ None \notin Nat
    /\ None \notin Outcomes
    /\ None \notin Builds \cup NodeStates \cup Results \cup [Sources -> 0..MaxVersion]

\* Every variable but the plan holds what the code's types allow.
StateTypeOK ==
    /\ clock \in Times
    /\ code \in [Nodes -> Codes]
    /\ data \in [Sources -> 0..MaxVersion]
    /\ rel \in [Targets -> [Nodes -> RunsOrNone]]
    /\ built \in [Runs -> [Nodes -> Builds \cup {None}]]
    /\ manifest \in [by : RunsOrNone, code : [Nodes -> Codes]]
    /\ freshness \in Readings
    /\ hist \in Seq(Snapshots)
    /\ job \in [Runs -> Jobs]
    /\ ledger \in [Runs -> Entries \cup {None}]

\* What a process has by the time it gets to a phase.
PhaseOf(j) ==
    /\ j.pc = "measuring" => j.queried \in [Sources -> 0..MaxVersion]
    /\ j.pc \notin Ended => j.target \in Targets
    /\ j.pc = "running" => j.started \in Times /\ j.code \in [Nodes -> Codes]
    /\ j.pc = "recorded" => j.outcome # None

PhaseOK == \A r \in Runs : PhaseOf(job[r])

\* A base or a snapshot id is one the store has handed out.
IdsOK == \A r \in Runs : job[r].base <= Len(hist) /\ job[r].snapshot <= Len(hist)

\* The plan has its type too.
TypeOK ==
    /\ StateTypeOK
    /\ PhaseOK
    /\ plan \in [Runs -> [Nodes -> Decision]]
    /\ IdsOK

(***************************************************************************)
(* What a snapshot says of a node happened: the run it names built it in   *)
(* the snapshot's target, from that code, at that time, and its checks did *)
(* not fail (record: only successes advance, AGENTS.md rule 5); a source   *)
(* version it records is not newer than the data the build read            *)
(* (keep_versions_read_before); checks it vouches for ran and passed.      *)
(***************************************************************************)
TrueOf(n, target, ns) ==
    LET b == built[ns.run][n]
    IN  /\ b # None
        /\ b.target = target
        /\ b.checks # "failed"
        /\ b.code = ns.fp
        /\ b.at = ns.built_at
        /\ ns.tested # None => ns.tested = ns.run /\ b.checks = "passed"
        /\ \A s \in Sources : ns.inputs[s] # None => ns.inputs[s].value <= b.read[s]

RecordedIsTrue ==
    \A i \in DOMAIN hist : \A n \in Nodes :
        hist[i].nodes[n] # None => TrueOf(n, hist[i].target, hist[i].nodes[n])

(***************************************************************************)
(* A snapshot changes what its parent said of a node only by a build of    *)
(* its own run, or by no longer vouching for the node's checks.  In        *)
(* another target it says nothing of what its run did not build.  So no    *)
(* run that recorded in between is lost (commit's check of the head).      *)
(***************************************************************************)
Follows(before, after, n) ==
    \/ after.nodes[n] # None /\ after.nodes[n].run = after.run
    \/ IF before.target = after.target
       THEN \/ after.nodes[n] = before.nodes[n]
            \/ /\ before.nodes[n] # None
               /\ after.nodes[n] = [before.nodes[n] EXCEPT !.tested = None]
       ELSE after.nodes[n] = None

NoLostUpdate ==
    \A i \in 2..Len(hist) : \A n \in Nodes : Follows(hist[i - 1], hist[i], n)

(***************************************************************************)
(* The ledger agrees with the store: an entry names a snapshot exactly     *)
(* when its run committed one, and that one, on top of the state it says   *)
(* the run was based on.                                                   *)
(***************************************************************************)
CommitsOf(r) == {i \in DOMAIN hist : hist[i].run = r}

EntryAgrees(r, e) ==
    /\ CommitsOf(r) = {e.snapshot} \ {0}
    /\ e.snapshot # 0 => /\ e.outcome \in {"Succeeded", "Failed"}
                         /\ e.based_on = e.snapshot - 1

LedgerAgrees == \A r \in Runs : ledger[r] # None => EntryAgrees(r, ledger[r])

\* The nodes run r decided to reuse, and what the state it read says of them.
Planned(r) == job[r].pc = "planned" \/ job[r].outcome = "NothingToBuild"
ReusedBy(r) == IF Planned(r) THEN Reused(plan[r]) ELSE {}

(***************************************************************************)
(* A build that is reused because its inputs are unchanged saw all the     *)
(* data there was when it finished: data that arrived while it ran, or     *)
(* between the measurement and the build, is not missed                    *)
(* (source_input's `current', keep_versions_read_before).                  *)
(***************************************************************************)
ReuseMissesNothing ==
    \A r \in Runs : \A n \in ReusedBy(r) :
        plan[r][n].code = "Unchanged" =>
            LET b == built[Previous(r)[n].run][n]
            IN  \A s \in ParentsOf[n] \cap Sources : b.read[s] = b.until[s]

(***************************************************************************)
(* plan_with: "Reuse vouches for a build that is still there".  When a     *)
(* node was reused, its relation held a build of the code the state        *)
(* describes, and not what a run that failed or was killed left in it.     *)
(***************************************************************************)
ReusedBuildIsThere ==
    \A r \in Runs : \A n \in ReusedBy(r) :
        job[r].held[n] # None => built[job[r].held[n]][n].code = Previous(r)[n].fp

(***************************************************************************)
(* recorder: after a build whose checks failed, "its checks no longer      *)
(* vouch for anything".  The head of the store does not say that a node is *)
(* tested when its relation holds a build of a finished run whose checks   *)
(* failed.                                                                 *)
(***************************************************************************)
Unvouched(target, n) ==
    LET q == rel[target][n]
    IN  q # None /\ job[q].pc = "done" /\ built[q][n].checks = "failed"

FailedChecksVouchForNothing ==
    hist # <<>> => LET head == hist[Len(hist)] IN
        \A n \in Nodes : head.nodes[n] # None /\ Unvouched(head.target, n)
                            => head.nodes[n].tested = None

(***************************************************************************)
(* What makes LedgerAgrees inductive: a run commits at most once, in the   *)
(* step that ends its recording.                                           *)
(***************************************************************************)
AfterRecording == {"recorded", "done", "killed"}

LedgerPhase(r) ==
    /\ job[r].pc \notin AfterRecording =>
         ledger[r] = None /\ CommitsOf(r) = {} /\ job[r].snapshot = 0
    /\ job[r].pc = "recorded" =>
         /\ ledger[r] = None
         /\ EntryAgrees(r, [outcome |-> job[r].outcome, based_on |-> job[r].base,
                            snapshot |-> job[r].snapshot])

LedgerInv == LedgerAgrees /\ \A r \in Runs : LedgerPhase(r)

(***************************************************************************)
(* What makes RecordedIsTrue inductive.  A version is never newer than     *)
(* the data (VersionsInv); the ones a running process may yet record are   *)
(* not newer than what its nodes read, and its results are those of its    *)
(* builds, from the code in a manifest of its own (ExecutionInv); and the  *)
(* builds a snapshot describes are those of runs that build no more        *)
(* (RecordedInv).                                                          *)
(***************************************************************************)
NotNewer(version, known) ==
    \A s \in Sources : version[s] # None => version[s].value <= known[s]

VersionsInv ==
    /\ NotNewer(freshness.answers, data)
    /\ \A r \in Runs :
         /\ NotNewer(job[r].table.answers, data)
         /\ job[r].pc = "measuring" => \A s \in Sources : job[r].queried[s] <= data[s]

MayRecordOf(j, read) ==
    /\ NotNewer(j.table.answers, read)
    /\ freshness.at # None /\ freshness.at < j.started => NotNewer(freshness.answers, read)

ResultOf(j, n, b) ==
    /\ b # None
    /\ b.target = j.target
    /\ b.checks # "failed"
    /\ b.code = j.code[n]
    /\ b.at = j.result[n].at
    /\ j.result[n].tested => b.checks = "passed"
    /\ MayRecordOf(j, b.read)

ExecutionOf(r, j) ==
    /\ j.pc \notin AfterRecording \cup {"running"} =>
         j.read = ForNodes(None) /\ j.result = ForNodes(None)
    /\ j.pc = "running" =>
         /\ j.started <= clock
         /\ manifest.by = r => manifest.code = j.code
         /\ \A n \in Nodes : j.read[n] # None => MayRecordOf(j, j.read[n])
         /\ \A n \in Succeeded(j.result) : ResultOf(j, n, built[r][n])

ExecutionInv == \A r \in Runs : ExecutionOf(r, job[r])

RecordedInv ==
    /\ RecordedIsTrue
    /\ \A i \in DOMAIN hist : \A n \in Nodes :
         hist[i].nodes[n] # None => job[hist[i].nodes[n].run].pc \in AfterRecording

(***************************************************************************)
(* What makes ReuseMissesNothing inductive, while no two runs overlap      *)
(* (AloneInv).  A build read no more than there was when it finished, and  *)
(* both are past (BuildsInv); a reading of the sources with a later time   *)
(* than a build has at least the data the build's end had (FilesInv for    *)
(* sources.json, TablesInv for table versions); and what a plan says stays *)
(* true of the builds it was made from (ReuseInv).  Only FilesInv needs    *)
(* the runs not to overlap: table versions are stamped before they are     *)
(* read.                                                                   *)
(***************************************************************************)
AloneInv == \A q, r \in Runs : job[q].pc \notin Ended /\ job[r].pc \notin Ended => q = r

BuildsInv ==
    /\ \A r \in Runs, n \in Nodes : job[r].read[n] # None =>
         \A s \in Sources : job[r].read[n][s] <= data[s]
    /\ \A r \in Runs, n \in Nodes : built[r][n] # None =>
         /\ built[r][n].at <= clock
         /\ \A s \in Sources : /\ built[r][n].read[s] <= built[r][n].until[s]
                               /\ built[r][n].until[s] <= data[s]

\* A reading made after the build b has all the data that b ended with.
Covers(reading, b) ==
    reading.at # None /\ b.at < reading.at =>
        \A s \in Sources : reading.answers[s] # None => b.until[s] <= reading.answers[s].value

ReadingOK(reading) ==
    /\ reading.at # None => reading.at <= clock
    /\ \A r \in Runs, n \in Nodes : built[r][n] # None => Covers(reading, built[r][n])

FilesInv ==
    /\ ReadingOK(freshness)
    /\ \A r \in Runs :
         /\ ReadingOK(job[r].file)
         /\ job[r].pc = "measuring" =>
              \A q \in Runs, n \in Nodes : built[q][n] # None =>
                 \A s \in Sources : built[q][n].until[s] <= job[r].queried[s]

BeforeTables == {"new", "measuring", "prepared", "loaded"}

TablesInv ==
    \A r \in Runs : /\ ReadingOK(job[r].table)
                    /\ job[r].pc \in BeforeTables => job[r].table = NoReading

\* The version of s that run r compares can be trusted to be as late as it says.
Trusted(r, s) == job[r].table.answers[s] # None \/ ~Overlap

SawEverything(r, n) ==
    /\ Previous(r)[n] # None
    /\ \A s \in ParentsOf[n] \cap Sources : Trusted(r, s) =>
         built[Previous(r)[n].run][n].read[s] = built[Previous(r)[n].run][n].until[s]

ReuseInv ==
    \A r \in Runs :
        /\ job[r].pc \notin {"planned", "recorded"} => Reused(plan[r]) = {}
        /\ \A n \in Reused(plan[r]) : plan[r][n].code = "Unchanged" => SawEverything(r, n)

(***************************************************************************)
(* Every run that begins ends: dbt is never left waiting for a node whose  *)
(* parent did not succeed, and every way of recording ends the process.    *)
(***************************************************************************)
EveryRunEnds == \A r \in Runs : []<>(r \notin Active)

(***************************************************************************)
(* No run waits for another, for a parent that will never have a result,   *)
(* or for a way to record what it built: whatever the others do to the     *)
(* manifest, the store and the relations, a step of its own is possible.   *)
(***************************************************************************)
NoRunIsStuck == \A r \in Active : ENABLED Progress(r)
=============================================================================
