--------------------------- MODULE StateRunProofs ---------------------------
(***************************************************************************)
(* What `ods state run' guarantees for any project, any number of runs and *)
(* any bounds.                                                             *)
(***************************************************************************)
EXTENDS StateRun, PlannerProofs, TLAPS

(***************************************************************************)
(* Types.                                                                  *)
(***************************************************************************)
LEMMA IdleType == \A pc \in Ended : Idle(pc) \in Jobs
  BY DEF Idle, ForNodes, NoReading, Jobs, Outcomes, Readings, Times, RunsOrNone, Ended, DataVersions

LEMMA InitType == Init => StateTypeOK
  BY StateRunAssumption, IdleType
  DEF Init, StateTypeOK, Ended, NoReading, Readings, Times, RunsOrNone, Snapshots, DataVersions

\* A step that replaces one process by a well-typed one keeps the processes well-typed.
LEMMA JobType ==
    ASSUME StateTypeOK, NEW r \in Runs, NEW j \in Jobs, Becomes(r, j)
    PROVE  job' \in [Runs -> Jobs]
  BY DEF StateTypeOK, Becomes

\* So does a step that changes nothing but processes and plans.
LEMMA OnlyJobs ==
    ASSUME StateTypeOK, NEW r \in Runs, NEW j \in Jobs, Becomes(r, j),
           UNCHANGED <<world, rel, built, manifest, freshness, hist, ledger>>
    PROVE  StateTypeOK'
  BY JobType DEF StateTypeOK, world

LEMMA FileReadingType ==
    ASSUME StateTypeOK, NEW r \in Runs
    PROVE  FileReading(r) \in Readings
  BY DEF StateTypeOK, FileReading, NoReading, Readings, DataVersions

LEMMA PreviousType ==
    ASSUME StateTypeOK, NEW r \in Runs, job[r].base = Len(hist)
    PROVE  Previous(r) \in [Nodes -> NodeStates \cup {None}]
<1>1. CASE InTarget(r)
  <2>1. hist \in Seq(Snapshots) /\ Len(hist) # 0
    BY <1>1 DEF StateTypeOK, InTarget
  <2>2. hist[Len(hist)] \in Snapshots
    BY <2>1
  <2> QED BY <1>1, <2>2 DEF Previous, Snapshots
<1>2. CASE ~InTarget(r)
  BY <1>2 DEF Previous, ForNodes
<1> QED BY <1>1, <1>2

\* The versions a run records are versions.
LEMMA KeptType ==
    ASSUME StateTypeOK, NEW r \in Runs
    PROVE  RecordedVersions(r) \in [Sources -> DataVersions]
<1>1. FileReading(r) \in Readings /\ job[r].table \in Readings
  BY FileReadingType DEF StateTypeOK, Jobs
<1> QED
  BY <1>1 DEF RecordedVersions, KeepVersionsReadBefore, ChooseSourceVersions,
              ChooseSourceVersion, Readings, DataVersions

LEMMA NewStateType ==
    ASSUME StateTypeOK, NEW r \in Runs, job[r].base = Len(hist), NEW n \in Advances(r)
    PROVE  NewNodeState(RecordedProject(r), Previous(r), job[r].result, r, n) \in NodeStates
<1> DEFINE pr == RecordedProject(r)
           prev == Previous(r)
           result == job[r].result
<1>1. prev \in [Nodes -> NodeStates \cup {None}]
  BY PreviousType
<1>2. n \in Nodes /\ result[n] \in Results
  BY DEF StateTypeOK, Jobs, Advances, Advanced, Succeeded
<1>3. pr.fp \in [Nodes -> Codes] /\ pr.version \in [Sources -> DataVersions]
  BY KeptType DEF StateTypeOK, RecordedProject
<1>4. \A p \in Nodes : RunOf(pr.fp, prev, result, r, p) \in RunsOrNone
  BY <1>1 DEF RunOf, RunsOrNone, NodeStates
<1> HIDE DEF pr, prev, result
<1> QED
  BY <1>2, <1>3, <1>4
  DEF NewNodeState, NodeStates, Results, RunsOrNone, DataVersions, pr, prev, result

\* What a snapshot says of a node is a build of its run, or what its parent said.
LEMMA RecordedNodeIs ==
    ASSUME NEW r \in Runs, NEW n \in Nodes
    PROVE  \/ /\ n \in Advances(r)
              /\ RecordedNodes(r)[n] =
                   NewNodeState(RecordedProject(r), Previous(r), job[r].result, r, n)
           \/ /\ Previous(r)[n] # None
              /\ RecordedNodes(r)[n] = [Previous(r)[n] EXCEPT !.tested = None]
           \/ RecordedNodes(r)[n] = Previous(r)[n]
  BY DEF RecordedNodes, Record, RecordNode, Advances, RecordedProject

LEMMA RecordedNodesType ==
    ASSUME StateTypeOK, NEW r \in Runs, job[r].base = Len(hist)
    PROVE  RecordedNodes(r) \in [Nodes -> NodeStates \cup {None}]
<1>1. Previous(r) \in [Nodes -> NodeStates \cup {None}]
  BY PreviousType
<1>2. ASSUME NEW n \in Nodes PROVE RecordedNodes(r)[n] \in NodeStates \cup {None}
  <2>1. Previous(r)[n] # None => [Previous(r)[n] EXCEPT !.tested = None] \in NodeStates
    BY <1>1 DEF NodeStates, RunsOrNone
  <2> QED BY <1>1, <2>1, RecordedNodeIs, NewStateType
<1> QED BY <1>2 DEF RecordedNodes, Record

LEMMA WorldType ==
    ASSUME StateTypeOK, World
    PROVE  StateTypeOK'
<1> USE StateRunAssumption
<1>1. CASE Tick
  BY <1>1 DEF Tick, StateTypeOK, Times
<1>2. ASSUME NEW n \in Nodes, EditCode(n) PROVE StateTypeOK'
  BY <1>2 DEF EditCode, StateTypeOK
<1>3. ASSUME NEW s \in Sources, NewData(s) PROVE StateTypeOK'
  BY <1>3 DEF NewData, StateTypeOK
<1>4. CASE RewriteSources
  BY <1>4 DEF RewriteSources, StateTypeOK, Readings, Times, DataVersions, FreshnessVersion,
              DataVersion
<1>5. ASSUME NEW t \in Targets, NEW n \in Nodes, DropRelation(t, n) PROVE StateTypeOK'
  BY <1>5 DEF DropRelation, StateTypeOK, RunsOrNone
<1> QED BY <1>1, <1>2, <1>3, <1>4, <1>5 DEF World

LEMMA BeginType ==
    ASSUME StateTypeOK, NEW r \in Runs, Begin(r)
    PROVE  StateTypeOK'
<1>1. job[r] \in Jobs /\ code \in [Nodes -> Codes] /\ data \in [Sources -> 0..MaxVersion]
  BY DEF StateTypeOK
<1>2. ASSUME NEW t \in Targets, Measure(r, t) PROVE StateTypeOK'
  <2>1. [job[r] EXCEPT !.pc = "measuring", !.target = t, !.queried = data] \in Jobs
    BY <1>1 DEF Jobs, Outcomes
  <2> QED BY <1>1, <1>2, <2>1, JobType DEF Measure, StateTypeOK, world, RunsOrNone
<1>3. ASSUME NEW t \in Targets, PrepareUnmeasured(r, t) PROVE StateTypeOK'
  <2>1. [job[r] EXCEPT !.pc = "prepared", !.target = t, !.use_file = TRUE] \in Jobs
    BY <1>1 DEF Jobs, Outcomes
  <2> QED BY <1>1, <1>3, <2>1, JobType DEF PrepareUnmeasured, StateTypeOK, world, RunsOrNone
<1>4. ASSUME NEW t \in Targets, PrepareNothing(r, t) PROVE StateTypeOK'
  <2>1. \A named \in BOOLEAN :
          [job[r] EXCEPT !.pc = "prepared", !.target = t, !.use_file = named] \in Jobs
    BY <1>1 DEF Jobs, Outcomes
  <2> QED BY <1>4, <2>1, OnlyJobs DEF PrepareNothing
<1> QED BY <1>2, <1>3, <1>4 DEF Begin

LEMMA PreparationType ==
    ASSUME StateTypeOK, PhaseOK, NEW r \in Runs,
           PrepareMeasured(r) \/ PrepareMeasureFailed(r) \/ Load(r) \/ OpenState(r)
             \/ ReadVersions(r)
    PROVE  StateTypeOK'
<1> USE StateRunAssumption
<1>1. job[r] \in Jobs /\ code \in [Nodes -> Codes] /\ data \in [Sources -> 0..MaxVersion]
  BY DEF StateTypeOK
<1>2. CASE PrepareMeasured(r)
  <2>1. [job[r] EXCEPT !.pc = "prepared", !.use_file = TRUE, !.queried = None] \in Jobs
    BY <1>1 DEF Jobs, Outcomes
  <2>2. freshness' \in Readings
    <3>1. job[r].queried \in [Sources -> 0..MaxVersion]
      BY <1>2 DEF PrepareMeasured, PhaseOK, PhaseOf
    <3>2. \A s \in Sources : FreshnessVersion(job[r].queried[s]) \in DataVersions
      BY <3>1 DEF FreshnessVersion, DataVersion, DataVersions
    <3> QED BY <1>2, <3>2 DEF PrepareMeasured, Readings, StateTypeOK
  <2> QED BY <1>1, <1>2, <2>1, <2>2, JobType DEF PrepareMeasured, StateTypeOK, world, RunsOrNone
<1>3. CASE PrepareMeasureFailed(r)
  <2>1. [job[r] EXCEPT !.pc = "prepared", !.use_file = FALSE, !.queried = None] \in Jobs
    BY <1>1 DEF Jobs, Outcomes
  <2> QED BY <1>1, <1>3, <2>1, JobType DEF PrepareMeasureFailed, StateTypeOK, world, RunsOrNone
<1>4. CASE Load(r)
  <2>1. [job[r] EXCEPT !.pc = "loaded", !.fp = manifest.code, !.file = FileReading(r)] \in Jobs
    BY <1>1, FileReadingType DEF Jobs, StateTypeOK
  <2> QED BY <1>4, <2>1, OnlyJobs DEF Load
<1>5. CASE OpenState(r)
  <2>1. Len(hist) \in Nat /\ clock \in Times
    BY DEF StateTypeOK
  <2>2. [job[r] EXCEPT !.pc = IF TableVersions THEN "opened" ELSE "ready", !.base = Len(hist),
                       !.table.at = IF TableVersions THEN clock ELSE None] \in Jobs
    <3>1. job[r].table \in Readings
      BY <1>1 DEF Jobs, Outcomes
    <3>2. [job[r].table EXCEPT !.at = IF TableVersions THEN clock ELSE None] \in Readings
      BY <2>1, <3>1 DEF Readings
    <3> QED BY <1>1, <2>1, <3>2 DEF Jobs, Outcomes
  <2> QED BY <1>5, <2>2, OnlyJobs DEF OpenState
<1>6. CASE ReadVersions(r)
  <2>1. \A s \in Sources : TableVersion(data[s]) \in DataVersions
    BY <1>1 DEF TableVersion, DataVersion, DataVersions
  <2>2. \A answered \in BOOLEAN :
          [s \in Sources |-> IF answered THEN TableVersion(data[s]) ELSE None]
             \in [Sources -> DataVersions]
    BY <2>1 DEF DataVersions
  <2>3. \A answered \in BOOLEAN :
          [job[r] EXCEPT !.pc = "ready",
             !.table.answers = [s \in Sources |->
                                  IF answered THEN TableVersion(data[s]) ELSE None]] \in Jobs
    BY <1>1, <2>2 DEF Jobs, Readings
  <2> QED BY <1>6, <2>3, OnlyJobs DEF ReadVersions
<1> QED BY <1>2, <1>3, <1>4, <1>5, <1>6

LEMMA PlanningType ==
    ASSUME StateTypeOK, PhaseOK, NEW r \in Runs, Plan(r) \/ Start(r)
    PROVE  StateTypeOK'
<1> USE StateRunAssumption
<1>1. job[r] \in Jobs /\ code \in [Nodes -> Codes] /\ clock \in Times
  BY DEF StateTypeOK
<1>2. CASE Plan(r)
  <2>1. rel[job[r].target] \in [Nodes -> RunsOrNone]
    BY <1>2 DEF Plan, PhaseOK, PhaseOf, StateTypeOK, Ended
  <2>2. NoReading \in Readings /\ ForNodes(None) \in [Nodes -> Codes \cup {None}]
    BY DEF NoReading, Readings, DataVersions, ForNodes
  <2>3. ASSUME NEW requested \in SUBSET Nodes
        PROVE  PlannedJob(r, requested) \in Jobs
    <3> DEFINE pc == IF requested = {} THEN "recorded" ELSE "planned"
               outcome == IF requested = {} THEN "NothingToBuild" ELSE None
    <3>1. pc \in {"recorded", "planned"}
          /\ outcome \in {"NothingToBuild", None}
      OBVIOUS
    <3> HIDE DEF pc, outcome
    <3>2. [job[r] EXCEPT !.pc = pc, !.fp = ForNodes(None), !.file = NoReading,
                         !.held = rel[job[r].target],
                         !.requested = requested, !.outcome = outcome] \in Jobs
      BY <1>1, <2>1, <2>2, <3>1 DEF Jobs, Outcomes
    <3> QED BY <3>2 DEF PlannedJob, pc, outcome
  <2>4. PICK requested \in SUBSET Nodes : Becomes(r, PlannedJob(r, requested))
    BY <1>2 DEF Plan, Requested
  <2> QED BY <1>2, <2>3, <2>4, OnlyJobs DEF Plan
<1>3. CASE Start(r)
  <2>1. [job[r] EXCEPT !.pc = "running", !.started = clock, !.code = code,
                       !.held = ForNodes(None)] \in Jobs
    <3>1. ForNodes(None) \in [Nodes -> RunsOrNone]
      BY DEF ForNodes, RunsOrNone
    <3>2. code \in [Nodes -> Codes \cup {None}]
      BY <1>1
    <3> HIDE DEF ForNodes
    <3> QED BY <1>1, <3>1, <3>2 DEF Jobs, Outcomes
  <2> QED BY <1>1, <1>3, <2>1, JobType DEF Start, StateTypeOK, world, RunsOrNone
<1> QED BY <1>2, <1>3

\* What FinishNode builds is a build.
LEMMA BuildOfFinishNode ==
    ASSUME StateTypeOK, PhaseOK, NEW r \in Runs, NEW n \in Nodes, FinishNode(r, n),
           NEW checks \in {"not_run", "passed", "failed"}
    PROVE  [code |-> job[r].code[n], target |-> job[r].target, checks |-> checks,
            read |-> job[r].read[n], until |-> data, at |-> clock] \in Builds
<1>1. job[r] \in Jobs /\ data \in [Sources -> 0..MaxVersion] /\ clock \in Times
  BY DEF StateTypeOK
<1>2. /\ job[r].target \in Targets
      /\ job[r].code \in [Nodes -> Codes]
      /\ job[r].read[n] \in [Sources -> 0..MaxVersion]
  BY <1>1 DEF FinishNode, Pending, PhaseOK, PhaseOf, Ended, Jobs
<1> QED BY <1>1, <1>2 DEF Builds

LEMMA ExecutionType ==
    ASSUME StateTypeOK, PhaseOK, NEW r \in Runs, Execution(r) \/ ExecutorFails(r)
    PROVE  StateTypeOK'
<1>1. job[r] \in Jobs /\ data \in [Sources -> 0..MaxVersion] /\ clock \in Times
  BY DEF StateTypeOK
<1>2. /\ job[r].result \in [Nodes -> Results \cup {None}]
      /\ job[r].read \in [Nodes -> [Sources -> 0..MaxVersion] \cup {None}]
  BY <1>1 DEF Jobs, Outcomes
<1>3. ASSUME NEW n \in Nodes, NEW x \in Results
      PROVE  [job[r] EXCEPT !.result[n] = x] \in Jobs
  <2>1. [job[r].result EXCEPT ![n] = x] \in [Nodes -> Results \cup {None}]
    BY <1>2
  <2> QED BY <1>1, <2>1 DEF Jobs, Outcomes
<1>4. ASSUME NEW n \in Nodes, BeginNode(r, n) PROVE StateTypeOK'
  <2>1. [job[r].read EXCEPT ![n] = data] \in [Nodes -> [Sources -> 0..MaxVersion] \cup {None}]
    BY <1>1, <1>2
  <2>2. [job[r] EXCEPT !.read[n] = data] \in Jobs
    BY <1>1, <2>1 DEF Jobs, Outcomes
  <2> QED BY <1>4, <2>2, OnlyJobs DEF BeginNode
<1>5. ASSUME NEW n \in Nodes, FinishNode(r, n) PROVE StateTypeOK'
  <2>1. job[r].target \in Targets
    BY <1>5 DEF FinishNode, Pending, PhaseOK, PhaseOf, Ended
  <2>2. PICK checks \in {"not_run", "passed", "failed"} : FinishNode(r, n)!4!(checks)
    BY <1>5 DEF FinishNode
  <2>3. [outcome |-> IF checks = "failed" THEN "Failed" ELSE "Success",
         at |-> clock, tested |-> checks = "passed"] \in Results
    BY <1>1 DEF Results
  <2>4. job' \in [Runs -> Jobs]
    BY <1>3, <2>2, <2>3, JobType
  <2>5. [code |-> job[r].code[n], target |-> job[r].target, checks |-> checks,
         read |-> job[r].read[n], until |-> data, at |-> clock] \in Builds
    BY <1>5, BuildOfFinishNode
  <2>6. built' \in [Runs -> [Nodes -> Builds \cup {None}]]
    BY <2>2, <2>5 DEF StateTypeOK
  <2>7. rel' \in [Targets -> [Nodes -> RunsOrNone]]
    BY <1>5, <2>1 DEF FinishNode, StateTypeOK, RunsOrNone
  <2> QED BY <1>5, <2>4, <2>6, <2>7 DEF FinishNode, StateTypeOK, world
<1>6. ASSUME NEW n \in Nodes, FailNode(r, n) PROVE StateTypeOK'
  <2>1. job[r].target \in Targets
    BY <1>6 DEF FailNode, Pending, PhaseOK, PhaseOf, Ended
  <2>2. [outcome |-> "Failed", at |-> clock, tested |-> FALSE] \in Results
    BY <1>1 DEF Results
  <2>3. job' \in [Runs -> Jobs]
    BY <1>3, <1>6, <2>2, JobType DEF FailNode
  <2>4. rel' \in [Targets -> [Nodes -> RunsOrNone]]
    BY <1>6, <2>1 DEF FailNode, StateTypeOK, RunsOrNone
  <2> QED BY <1>6, <2>3, <2>4 DEF FailNode, StateTypeOK, world
<1>7. ASSUME NEW n \in Nodes, SkipNode(r, n) PROVE StateTypeOK'
  <2>1. [outcome |-> "Skipped", at |-> clock, tested |-> FALSE] \in Results
    BY <1>1 DEF Results
  <2> QED BY <1>3, <1>7, <2>1, OnlyJobs DEF SkipNode
<1>8. CASE ExecutorFails(r)
  <2>1. [job[r] EXCEPT !.pc = "recorded", !.outcome = "NotRecorded", !.error = "executor"] \in Jobs
    BY <1>1 DEF Jobs, Outcomes
  <2> QED BY <1>8, <2>1, OnlyJobs DEF ExecutorFails
<1> QED BY <1>4, <1>5, <1>6, <1>7, <1>8 DEF Execution

LEMMA RecordingType ==
    ASSUME StateTypeOK, PhaseOK, NEW r \in Runs, Recording(r) \/ RecordFails(r)
    PROVE  StateTypeOK'
<1>1. job[r] \in Jobs /\ hist \in Seq(Snapshots)
  BY DEF StateTypeOK
<1>2. ASSUME NEW error \in {"manifest", "conflict", "store"}, NotRecorded(r, error),
             UNCHANGED <<world, rel, built, manifest, freshness, hist, ledger>>
      PROVE  StateTypeOK'
  <2>1. [job[r] EXCEPT !.pc = "recorded", !.outcome = "NotRecorded", !.error = error] \in Jobs
    BY <1>1 DEF Jobs, Outcomes
  <2> QED BY <1>2, <2>1, OnlyJobs DEF NotRecorded
<1>3. ASSUME NEW snapshot \in Nat
      PROVE  [job[r] EXCEPT !.pc = "recorded", !.outcome = ExecutionOutcome(r),
                            !.snapshot = snapshot] \in Jobs
  <2>1. ExecutionOutcome(r) \in {"Succeeded", "Failed"}
    BY DEF ExecutionOutcome
  <2> QED BY <1>1, <2>1 DEF Jobs, Outcomes
<1>4. CASE RecordNothing(r)
  BY <1>3, <1>4, OnlyJobs DEF RecordNothing, Recorded
<1>5. CASE RecordCommit(r)
  <2>1. Len(hist) + 1 \in Nat
    BY <1>1
  <2>2. job' \in [Runs -> Jobs]
    BY <1>3, <1>5, <2>1, JobType DEF RecordCommit, Recorded
  <2>3. [run |-> r, target |-> job[r].target, nodes |-> RecordedNodes(r)] \in Snapshots
    <3>1. job[r].target \in Targets
      BY <1>5 DEF RecordCommit, Finished, PhaseOK, PhaseOf, Ended
    <3> QED BY <1>5, <3>1, RecordedNodesType DEF RecordCommit, Snapshots
  <2>4. hist' \in Seq(Snapshots)
    BY <1>1, <1>5, <2>3 DEF RecordCommit
  <2> QED BY <1>5, <2>2, <2>4 DEF RecordCommit, StateTypeOK, world
<1>6. CASE RecordRefused(r) \/ RecordConflict(r) \/ RecordFails(r)
  BY <1>2, <1>6 DEF RecordRefused, RecordConflict, RecordFails
<1> QED BY <1>4, <1>5, <1>6 DEF Recording

LEMMA EndingType ==
    ASSUME StateTypeOK, PhaseOK, NEW r \in Runs, WriteLedger(r) \/ Kill(r)
    PROVE  StateTypeOK'
<1>1. job[r] \in Jobs
  BY DEF StateTypeOK
<1>2. CASE WriteLedger(r)
  <2>1. [Idle("done") EXCEPT !.error = job[r].error] \in Jobs
    <3>1. Idle("done") \in Jobs
      BY IdleType DEF Ended
    <3> QED BY <1>1, <3>1 DEF Jobs, Outcomes
  <2>2. job' \in [Runs -> Jobs]
    BY <1>2, <2>1, JobType DEF WriteLedger
  <2>3. [outcome |-> job[r].outcome, based_on |-> job[r].base, snapshot |-> job[r].snapshot]
          \in Entries
    BY <1>1, <1>2 DEF WriteLedger, PhaseOK, PhaseOf, Jobs, Entries, Outcomes
  <2>4. ledger' \in [Runs -> Entries \cup {None}]
    BY <1>2, <2>3 DEF WriteLedger, StateTypeOK
  <2> QED BY <1>2, <2>2, <2>4 DEF WriteLedger, StateTypeOK, world
<1>3. CASE Kill(r)
  <2>1. Idle("killed") \in Jobs
    BY IdleType DEF Ended
  <2> QED BY <1>3, <2>1, OnlyJobs DEF Kill
<1> QED BY <1>2, <1>3

LEMMA NextType ==
    ASSUME StateTypeOK, PhaseOK, [Next]_vars
    PROVE  StateTypeOK'
<1>1. CASE UNCHANGED vars
  BY <1>1 DEF vars, StateTypeOK
<1>2. ASSUME NEW r \in Runs, Progress(r) PROVE StateTypeOK'
  BY <1>2, PreparationType, PlanningType, ExecutionType, RecordingType, EndingType DEF Progress
<1>3. ASSUME NEW r \in Runs, Failure(r) PROVE StateTypeOK'
  BY <1>3, ExecutionType, RecordingType, EndingType DEF Failure
<1> QED BY <1>1, <1>2, <1>3, WorldType, BeginType DEF Next

(***************************************************************************)
(* Phases.                                                                 *)
(***************************************************************************)
LEMMA BecomesFacts ==
    ASSUME StateTypeOK, NEW r \in Runs, NEW j, Becomes(r, j)
    PROVE  job'[r] = j /\ \A q \in Runs : q # r => job'[q] = job[q]
  BY DEF StateTypeOK, Becomes

LEMMA PhaseStep ==
    ASSUME StateTypeOK, PhaseOK, NEW r \in Runs, NEW j, Becomes(r, j), PhaseOf(j)
    PROVE  PhaseOK'
<1> SUFFICES ASSUME NEW q \in Runs PROVE PhaseOf(job'[q])
  BY DEF PhaseOK, PhaseOf
<1> QED BY BecomesFacts DEF PhaseOK

LEMMA NextPhase ==
    ASSUME StateTypeOK, PhaseOK, [Next]_vars
    PROVE  PhaseOK'
<1> USE StateRunAssumption, NoneAssumption
<1>1. CASE World \/ UNCHANGED vars
  BY <1>1 DEF World, Tick, EditCode, NewData, RewriteSources, DropRelation, vars, PhaseOK, PhaseOf
<1>2. ASSUME NEW r \in Runs, Begin(r) \/ Progress(r) \/ Failure(r) PROVE PhaseOK'
  <2>1. /\ job[r] \in Jobs /\ PhaseOf(job[r])
        /\ data \in [Sources -> 0..MaxVersion] /\ clock \in Times /\ code \in [Nodes -> Codes]
    BY DEF StateTypeOK, PhaseOK
  <2>2. CASE Begin(r)
    BY <2>1, <2>2, PhaseStep DEF Begin, Measure, PrepareUnmeasured, PrepareNothing, PhaseOf, Jobs, Outcomes,
                                 Ended
  <2>3. CASE PrepareMeasured(r) \/ PrepareMeasureFailed(r)
    <3>1. \A use_file : PhaseOf([job[r] EXCEPT !.pc = "prepared", !.use_file = use_file,
                                               !.queried = None])
      BY <2>1, <2>3 DEF PrepareMeasured, PrepareMeasureFailed, PhaseOf, Jobs, Outcomes, Ended
    <3> QED BY <2>3, <3>1, PhaseStep DEF PrepareMeasured, PrepareMeasureFailed
  <2>4. CASE Load(r)
    BY <2>1, <2>4, PhaseStep DEF Load, PhaseOf, Jobs, Outcomes, Ended
  <2>5. CASE OpenState(r)
    BY <2>1, <2>5, PhaseStep DEF OpenState, PhaseOf, Jobs, Outcomes, Ended
  <2>6. CASE ReadVersions(r)
    BY <2>1, <2>6, PhaseStep DEF ReadVersions, PhaseOf, Jobs, Outcomes, Ended
  <2>7. CASE Plan(r)
    <3>1. ASSUME NEW requested PROVE PhaseOf(PlannedJob(r, requested))
      <4>1. CASE requested = {}
        BY <2>1, <2>7, <4>1 DEF Plan, PhaseOf, PlannedJob, Jobs, Outcomes, Ended
      <4>2. CASE requested # {}
        BY <2>1, <2>7, <4>2 DEF Plan, PhaseOf, PlannedJob, Jobs, Outcomes, Ended
      <4> QED BY <4>1, <4>2
    <3> QED BY <2>7, <3>1, PhaseStep DEF Plan
  <2>8. CASE Start(r)
    BY <2>1, <2>8, PhaseStep DEF Start, PhaseOf, Jobs, Outcomes, Ended
  <2>9. ASSUME NEW n \in Nodes, BeginNode(r, n) PROVE PhaseOK'
    BY <2>1, <2>9, PhaseStep DEF BeginNode, Pending, PhaseOf, Jobs, Outcomes, Ended
  <2>10. ASSUME NEW n \in Nodes, FinishNode(r, n) PROVE PhaseOK'
    BY <2>1, <2>10, PhaseStep DEF FinishNode, Pending, PhaseOf, Jobs, Outcomes, Ended
  <2>11. ASSUME NEW n \in Nodes, FailNode(r, n) \/ SkipNode(r, n) PROVE PhaseOK'
    BY <2>1, <2>11, PhaseStep DEF FailNode, SkipNode, Pending, PhaseOf, Jobs, Outcomes, Ended
  <2>12. CASE ExecutorFails(r)
    BY <2>1, <2>12, PhaseStep DEF ExecutorFails, PhaseOf, Jobs, Outcomes, Ended
  <2>13. CASE RecordRefused(r) \/ RecordConflict(r) \/ RecordFails(r)
    BY <2>1, <2>13, PhaseStep
    DEF RecordRefused, RecordConflict, RecordFails, NotRecorded, Finished, PhaseOf, Jobs, Outcomes, Ended
  <2>14. CASE RecordNothing(r) \/ RecordCommit(r)
    <3>1. ExecutionOutcome(r) # None
      BY DEF ExecutionOutcome, Outcomes
    <3> QED BY <2>1, <2>14, <3>1, PhaseStep
            DEF RecordNothing, RecordCommit, Recorded, Finished, PhaseOf, Jobs, Outcomes, Ended
  <2>15. CASE WriteLedger(r)
    <3>1. PhaseOf([Idle("done") EXCEPT !.error = job[r].error])
      BY DEF PhaseOf, Idle, Ended
    <3> QED BY <2>15, <3>1, PhaseStep DEF WriteLedger
  <2>16. CASE Kill(r)
    <3>1. PhaseOf(Idle("killed"))
      BY DEF PhaseOf, Idle, Ended
    <3> QED BY <2>16, <3>1, PhaseStep DEF Kill
  <2> QED
    BY <1>2, <2>2, <2>3, <2>4, <2>5, <2>6, <2>7, <2>8, <2>9, <2>10, <2>11, <2>12, <2>13, <2>14,
       <2>15, <2>16
    DEF Progress, Failure, Execution, Recording
<1> QED BY <1>1, <1>2 DEF Next

LEMMA InitPhase == Init => PhaseOK
<1>1. PhaseOf(Idle("new"))
  BY DEF PhaseOf, Idle, Ended
<1> QED BY <1>1 DEF Init, PhaseOK

(***************************************************************************)
(* The types, as a theorem: StateTypeOK is inductive only together with    *)
(* PhaseOK, for a build takes its target and its code from its process.    *)
(***************************************************************************)
THEOREM TypesHold == Spec => [](StateTypeOK /\ PhaseOK)
<1>1. Init => StateTypeOK /\ PhaseOK
  BY InitType, InitPhase
<1>2. StateTypeOK /\ PhaseOK /\ [Next]_vars => (StateTypeOK /\ PhaseOK)'
  BY NextType, NextPhase
<1> QED BY <1>1, <1>2, PTL DEF Spec

(***************************************************************************)
(* Snapshots.                                                              *)
(***************************************************************************)
LEMMA OnlyCommitsAppend ==
    ASSUME [Next]_vars
    PROVE  hist' = hist \/ \E r \in Runs : RecordCommit(r)
<1>1. CASE World \/ UNCHANGED vars
  BY <1>1 DEF World, Tick, EditCode, NewData, RewriteSources, DropRelation, vars
<1>2. ASSUME NEW r \in Runs, Begin(r) \/ Progress(r) \/ Failure(r), ~RecordCommit(r)
      PROVE  hist' = hist
  BY <1>2
  DEF Begin, Progress, Failure, Measure, PrepareUnmeasured, PrepareNothing, PrepareMeasured,
      PrepareMeasureFailed, Load, OpenState, ReadVersions, Plan, Start, Execution, BeginNode,
      FinishNode, FailNode, SkipNode, ExecutorFails, Recording, RecordRefused, RecordNothing,
      RecordConflict, RecordFails, WriteLedger, Kill
<1> QED BY <1>1, <1>2 DEF Next

LEMMA AppendFacts ==
    ASSUME StateTypeOK, NEW r \in Runs, RecordCommit(r)
    PROVE  /\ Len(hist) \in Nat
           /\ Len(hist') = Len(hist) + 1
           /\ DOMAIN hist = 1..Len(hist) /\ DOMAIN hist' = 1..(Len(hist) + 1)
           /\ \A i \in 1..Len(hist) : hist'[i] = hist[i]
           /\ hist'[Len(hist) + 1]
                = [run |-> r, target |-> job[r].target, nodes |-> RecordedNodes(r)]
  BY DEF StateTypeOK, RecordCommit

(***************************************************************************)
(* Plans, and the ids of snapshots.                                        *)
(***************************************************************************)
LEMMA PlanOfType ==
    ASSUME NEW r \in Runs, NEW selected, NEW refresh, NEW answered
    PROVE  PlanOf(r, selected, refresh, answered) \in [Nodes -> Decision]
<1>1. \A fp, chosen, facts : Project(fp, chosen, facts).parents = ParentsOf
  BY DEF Project
<1>2. Ordered(ParentsOf)
  BY StateRunAssumption
<1>3. \A fp, chosen, facts, prev, now, opt :
        PlanWith(Project(fp, chosen, facts), prev, selected, now, opt) \in [Nodes -> Decision]
  BY <1>1, <1>2, PlanType
<1> QED BY <1>3 DEF PlanOf

LEMMA NoPlanType == NoPlan \in [Nodes -> Decision] /\ Reused(NoPlan) = {}
  BY DEF NoPlan, ForNodes, BuildFor, Decision, BuildCodes, Build, Reuse, Reused

\* Which steps change plans.
LEMMA PlanSteps ==
    ASSUME NEW r \in Runs, Begin(r) \/ Progress(r) \/ Failure(r)
    PROVE  \/ Plan(r)
           \/ plan' = [plan EXCEPT ![r] = NoPlan]
           \/ plan' = plan /\ job[r].pc \notin {"planned", "recorded"}
  BY DEF Begin, Progress, Failure, Measure, PrepareUnmeasured, PrepareNothing, MayBegin,
         PrepareMeasured, PrepareMeasureFailed, Load, OpenState, ReadVersions, Start, Execution,
         BeginNode, FinishNode, FailNode, SkipNode, Pending, ExecutorFails, Recording,
         RecordRefused, RecordNothing, RecordConflict, RecordCommit, RecordFails, Finished,
         WriteLedger, Kill

LEMMA NextPlans ==
    ASSUME plan \in [Runs -> [Nodes -> Decision]], [Next]_vars
    PROVE  plan' \in [Runs -> [Nodes -> Decision]]
<1>1. CASE World \/ UNCHANGED vars
  BY <1>1 DEF World, Tick, EditCode, NewData, RewriteSources, DropRelation, vars
<1>2. ASSUME NEW r \in Runs, Begin(r) \/ Progress(r) \/ Failure(r)
      PROVE  plan' \in [Runs -> [Nodes -> Decision]]
  <2>1. CASE Plan(r)
    <3>1. PICK selected, refresh, answered :
            plan' = [plan EXCEPT ![r] = PlanOf(r, selected, refresh, answered)]
      BY <2>1 DEF Plan
    <3>2. PICK decided \in [Nodes -> Decision] : plan' = [plan EXCEPT ![r] = decided]
      BY <3>1, PlanOfType
    <3> QED BY <3>2
  <2>2. CASE plan' = [plan EXCEPT ![r] = NoPlan]
    BY <2>2, NoPlanType
  <2> QED BY <1>2, <2>1, <2>2, PlanSteps
<1> QED BY <1>1, <1>2 DEF Next

\* A step of a process that commits nothing.
LEMMA IdsStep ==
    ASSUME StateTypeOK, IdsOK, NEW r \in Runs, NEW j, Becomes(r, j), hist' = hist,
           j.base \in {job[r].base, Len(hist), 0}, j.snapshot \in {job[r].snapshot, 0}
    PROVE  IdsOK'
<1>1. job'[r] = j /\ \A q \in Runs : q # r => job'[q] = job[q]
  BY BecomesFacts
<1>2. Len(hist) \in Nat
  BY DEF StateTypeOK
<1> QED BY <1>1, <1>2 DEF IdsOK

LEMMA NextIds ==
    ASSUME StateTypeOK, IdsOK, [Next]_vars
    PROVE  IdsOK'
<1>1. CASE World \/ UNCHANGED vars
  BY <1>1 DEF World, Tick, EditCode, NewData, RewriteSources, DropRelation, vars, IdsOK
<1>2. ASSUME NEW r \in Runs, Begin(r) \/ Progress(r) \/ Failure(r) PROVE IdsOK'
  <2>1. job[r] \in Jobs
    BY DEF StateTypeOK
  <2>2. CASE Begin(r)
    BY <2>1, <2>2, IdsStep DEF Begin, Measure, PrepareUnmeasured, PrepareNothing, Jobs
  <2>3. CASE PrepareMeasured(r) \/ PrepareMeasureFailed(r) \/ Load(r)
    BY <2>1, <2>3, IdsStep DEF PrepareMeasured, PrepareMeasureFailed, Load, Jobs
  <2>4. CASE OpenState(r) \/ ReadVersions(r)
    BY <2>1, <2>4, IdsStep DEF OpenState, ReadVersions, Jobs
  <2>5. CASE Plan(r)
    BY <2>1, <2>5, IdsStep DEF Plan, PlannedJob, Jobs
  <2>6. CASE Start(r) \/ ExecutorFails(r)
    BY <2>1, <2>6, IdsStep DEF Start, ExecutorFails, Jobs
  <2>7. CASE Execution(r)
    BY <2>1, <2>7, IdsStep DEF Execution, BeginNode, FinishNode, FailNode, SkipNode, Jobs
  <2>8. CASE RecordRefused(r) \/ RecordConflict(r) \/ RecordFails(r)
    BY <2>1, <2>8, IdsStep DEF RecordRefused, RecordConflict, RecordFails, NotRecorded, Jobs
  <2>9. CASE RecordNothing(r)
    BY <2>1, <2>9, IdsStep DEF RecordNothing, Recorded, Jobs
  <2>10. CASE RecordCommit(r)
    <3>1. Len(hist') = Len(hist) + 1 /\ Len(hist) \in Nat
      BY <2>10, AppendFacts
    <3>2. /\ job'[r] = [job[r] EXCEPT !.pc = "recorded", !.outcome = ExecutionOutcome(r),
                                      !.snapshot = Len(hist) + 1]
          /\ \A q \in Runs : q # r => job'[q] = job[q]
      BY <2>10, BecomesFacts DEF RecordCommit, Recorded
    <3>3. job'[r].base = job[r].base /\ job'[r].snapshot = Len(hist) + 1
      BY <2>1, <3>2 DEF Jobs
    <3>4. ASSUME NEW q \in Runs
          PROVE  job'[q].base <= Len(hist) + 1 /\ job'[q].snapshot <= Len(hist) + 1
      <4>1. /\ job[q].base \in Nat /\ job[q].snapshot \in Nat
            /\ job[q].base <= Len(hist) /\ job[q].snapshot <= Len(hist)
        <5>1. job[q] \in Jobs
          BY DEF StateTypeOK
        <5> QED BY <5>1 DEF Jobs, IdsOK
      <4>2. CASE q = r
        BY <3>1, <3>3, <4>1, <4>2
      <4>3. CASE q # r
        BY <3>1, <3>2, <4>1, <4>3
      <4> QED BY <4>2, <4>3
    <3> QED BY <3>1, <3>4 DEF IdsOK
  <2>11. CASE WriteLedger(r)
    <3>1. [Idle("done") EXCEPT !.error = job[r].error].base = 0
          /\ [Idle("done") EXCEPT !.error = job[r].error].snapshot = 0
      BY DEF Idle
    <3> QED BY <2>11, <3>1, IdsStep DEF WriteLedger
  <2>12. CASE Kill(r)
    BY <2>12, IdsStep DEF Kill, Idle
  <2> QED
    BY <1>2, <2>2, <2>3, <2>4, <2>5, <2>6, <2>7, <2>8, <2>9, <2>10, <2>11, <2>12
    DEF Progress, Failure, Recording
<1> QED BY <1>1, <1>2 DEF Next

(***************************************************************************)
(* All the types: a plan decides every node, to build or to reuse it, for  *)
(* a reason of that kind, and no process holds the id of a snapshot that   *)
(* the store does not have.                                                *)
(***************************************************************************)
THEOREM RunTypesHold == Spec => []TypeOK
<1>1. Init => plan \in [Runs -> [Nodes -> Decision]] /\ IdsOK
  <2>1. Init => \A r \in Runs : job[r].base = 0 /\ job[r].snapshot = 0 /\ Len(hist) = 0
    BY DEF Init, Idle
  <2> QED BY <2>1, NoPlanType DEF Init, IdsOK
<1>2. /\ StateTypeOK /\ plan \in [Runs -> [Nodes -> Decision]] /\ IdsOK /\ [Next]_vars
      => (plan \in [Runs -> [Nodes -> Decision]] /\ IdsOK)'
  BY NextPlans, NextIds
<1>3. StateTypeOK /\ PhaseOK /\ plan \in [Runs -> [Nodes -> Decision]] /\ IdsOK => TypeOK
  BY DEF TypeOK
<1> QED BY <1>1, <1>2, <1>3, TypesHold, PTL DEF Spec

LEMMA NextNoLostUpdate ==
    ASSUME StateTypeOK, NoLostUpdate, [Next]_vars
    PROVE  NoLostUpdate'
<1>1. CASE hist' = hist
  BY <1>1 DEF NoLostUpdate, Follows
<1>2. ASSUME NEW r \in Runs, RecordCommit(r) PROVE NoLostUpdate'
  <2> DEFINE k == Len(hist)
             new == [run |-> r, target |-> job[r].target, nodes |-> RecordedNodes(r)]
  <2>0. /\ k \in Nat /\ Len(hist') = k + 1
        /\ \A i \in 1..k : hist'[i] = hist[i]
        /\ hist'[k + 1] = new
    BY <1>2, AppendFacts
  <2>1. ASSUME k # 0, NEW n \in Nodes PROVE Follows(hist[k], new, n)
    <3>1. job[r].base = k
      BY <1>2 DEF RecordCommit
    <3>0. n \in Advances(r) =>
            /\ NewNodeState(RecordedProject(r), Previous(r), job[r].result, r, n) # None
            /\ NewNodeState(RecordedProject(r), Previous(r), job[r].result, r, n).run = r
      BY <3>1, NewStateType, NoneAssumption DEF NewNodeState
    <3>2. CASE hist[k].target = job[r].target
      <4>1. Previous(r) = hist[k].nodes
        BY <2>1, <3>1, <3>2 DEF Previous, InTarget
      <4> QED BY <3>0, <3>2, <4>1, RecordedNodeIs DEF Follows
    <3>3. CASE hist[k].target # job[r].target
      <4>1. Previous(r)[n] = None
        BY <3>1, <3>3 DEF Previous, InTarget, ForNodes
      <4> QED BY <3>0, <3>3, <4>1, RecordedNodeIs DEF Follows
    <3> QED BY <3>2, <3>3
  <2> SUFFICES ASSUME NEW i \in 2..Len(hist'), NEW n \in Nodes
               PROVE  Follows(hist'[i - 1], hist'[i], n)
    BY DEF NoLostUpdate, Follows
  <2>2. CASE i \in 2..k
    <3>1. hist'[i] = hist[i] /\ hist'[i - 1] = hist[i - 1]
      BY <2>0, <2>2
    <3> QED BY <2>2, <3>1 DEF NoLostUpdate
  <2>3. CASE i = k + 1
    <3>1. k \in Nat /\ k # 0 /\ hist'[i] = new /\ hist'[i - 1] = hist[k]
      BY <2>0, <2>3
    <3> QED BY <2>1, <3>1
  <2> QED BY <2>0, <2>2, <2>3
<1> QED BY <1>1, <1>2, OnlyCommitsAppend

(***************************************************************************)
(* No recorded build is lost, for any number of overlapping runs: the      *)
(* compare-and-swap on the head makes every snapshot follow its parent.    *)
(***************************************************************************)
THEOREM NoUpdateIsLost == Spec => []NoLostUpdate
<1>1. Init => NoLostUpdate
  BY DEF Init, NoLostUpdate
<1>2. StateTypeOK /\ NoLostUpdate /\ [Next]_vars => NoLostUpdate'
  BY NextNoLostUpdate
<1> QED BY <1>1, <1>2, TypesHold, PTL DEF Spec

(***************************************************************************)
(* The ledger.                                                             *)
(***************************************************************************)

\* A step of a process that commits nothing and writes no entry.
LEMMA LedgerStep ==
    ASSUME StateTypeOK, LedgerInv, NEW r \in Runs, NEW j, Becomes(r, j),
           hist' = hist, ledger' = ledger,
           j.pc \notin AfterRecording =>
               job[r].pc \notin AfterRecording /\ j.snapshot = job[r].snapshot,
           j.pc = "recorded" => job[r].pc \notin AfterRecording /\ j.snapshot = 0
    PROVE  LedgerInv'
<1>1. job'[r] = j /\ \A q \in Runs : q # r => job'[q] = job[q]
  BY BecomesFacts
<1>2. \A q \in Runs : CommitsOf(q)' = CommitsOf(q)
  BY DEF CommitsOf
<1>4. ASSUME NEW q \in Runs PROVE LedgerPhase(q)'
  <2>1. CASE q = r
    <3>1. CASE job[r].pc \notin AfterRecording
      <4>1. ledger[r] = None /\ CommitsOf(r) = {} /\ job[r].snapshot = 0
        BY <3>1 DEF LedgerInv, LedgerPhase
      <4>2. CASE j.pc = "recorded"
        BY <1>1, <1>2, <2>1, <4>1, <4>2 DEF LedgerPhase, EntryAgrees, AfterRecording
      <4>3. CASE j.pc # "recorded"
        BY <1>1, <1>2, <2>1, <4>1, <4>3 DEF LedgerPhase
      <4> QED BY <4>2, <4>3
    <3>2. CASE job[r].pc \in AfterRecording
      BY <1>1, <2>1, <3>2 DEF LedgerPhase
    <3> QED BY <3>1, <3>2
  <2>2. CASE q # r
    BY <1>1, <1>2, <2>2 DEF LedgerInv, LedgerPhase, EntryAgrees
  <2> QED BY <2>1, <2>2
<1>5. LedgerAgrees'
  BY <1>2 DEF LedgerInv, LedgerAgrees, EntryAgrees
<1> QED BY <1>4, <1>5 DEF LedgerInv

LEMMA CommitLedger ==
    ASSUME StateTypeOK, LedgerInv, NEW r \in Runs, RecordCommit(r)
    PROVE  LedgerInv'
<1> DEFINE j == [job[r] EXCEPT !.pc = "recorded", !.outcome = ExecutionOutcome(r),
                               !.snapshot = Len(hist) + 1]
<1>1. job'[r] = j /\ \A q \in Runs : q # r => job'[q] = job[q]
  BY BecomesFacts DEF RecordCommit, Recorded
<1>2. /\ j.pc = "recorded" /\ j.outcome \in {"Succeeded", "Failed"}
      /\ j.snapshot = Len(hist) + 1 /\ j.base = Len(hist) /\ Len(hist) \in Nat
  <2>1. job[r] \in Jobs
    BY DEF StateTypeOK
  <2> QED BY <2>1 DEF Jobs, RecordCommit, ExecutionOutcome, StateTypeOK
<1>3. job[r].pc = "running" /\ ledger' = ledger
  BY DEF RecordCommit, Finished
<1>4. CommitsOf(r) = {} /\ ledger[r] = None
  BY <1>3 DEF LedgerInv, LedgerPhase, AfterRecording
<1>0. /\ DOMAIN hist = 1..Len(hist) /\ DOMAIN hist' = 1..(Len(hist) + 1)
      /\ \A i \in 1..Len(hist) : hist'[i] = hist[i]
      /\ hist'[Len(hist) + 1].run = r
  <2>1. hist'[Len(hist) + 1]
          = [run |-> r, target |-> job[r].target, nodes |-> RecordedNodes(r)]
    BY AppendFacts
  <2>2. hist'[Len(hist) + 1].run = r
    BY <2>1
  <2>3. /\ DOMAIN hist = 1..Len(hist) /\ DOMAIN hist' = 1..(Len(hist) + 1)
        /\ \A i \in 1..Len(hist) : hist'[i] = hist[i]
    BY AppendFacts
  <2> QED BY <2>2, <2>3
<1>5. CommitsOf(r)' = {Len(hist) + 1}
  <2>1. \A i \in 1..Len(hist) : hist[i].run # r
    BY <1>0, <1>4 DEF CommitsOf
  <2>2. \A i \in 1..Len(hist) : hist'[i].run # r
    BY <1>0, <2>1
  <2>3. CommitsOf(r)' = {i \in 1..(Len(hist) + 1) : hist'[i].run = r}
    BY <1>0 DEF CommitsOf
  <2> QED BY <1>0, <1>2, <2>2, <2>3
<1>6. ASSUME NEW q \in Runs, q # r PROVE CommitsOf(q)' = CommitsOf(q)
  <2>1. CommitsOf(q)' = {i \in 1..(Len(hist) + 1) : hist'[i].run = q}
    BY <1>0 DEF CommitsOf
  <2>2. CommitsOf(q) = {i \in 1..Len(hist) : hist[i].run = q}
    BY <1>0 DEF CommitsOf
  <2>3. \A i \in 1..(Len(hist) + 1) :
          i = Len(hist) + 1 \/ (i \in 1..Len(hist) /\ hist'[i] = hist[i])
    BY <1>0, <1>2
  <2> QED BY <1>0, <1>2, <1>6, <2>1, <2>2, <2>3
<1> HIDE DEF j
<1>7. ASSUME NEW q \in Runs PROVE LedgerPhase(q)'
  <2>1. CASE q = r
    BY <1>1, <1>2, <1>3, <1>4, <1>5, <2>1 DEF LedgerPhase, EntryAgrees, AfterRecording
  <2>2. CASE q # r
    BY <1>1, <1>3, <1>6, <2>2 DEF LedgerInv, LedgerPhase, EntryAgrees
  <2> QED BY <2>1, <2>2
<1>8. LedgerAgrees'
  BY <1>3, <1>4, <1>6 DEF LedgerInv, LedgerAgrees, EntryAgrees
<1> QED BY <1>7, <1>8 DEF LedgerInv

LEMMA WriteLedgerLedger ==
    ASSUME StateTypeOK, LedgerInv, NEW r \in Runs, WriteLedger(r)
    PROVE  LedgerInv'
<1>1. job'[r].pc = "done" /\ \A q \in Runs : q # r => job'[q] = job[q]
  BY BecomesFacts DEF WriteLedger, Idle
<1>2. \A q \in Runs : CommitsOf(q)' = CommitsOf(q)
  BY DEF WriteLedger, CommitsOf
<1>3. \A q \in Runs : q # r => ledger'[q] = ledger[q]
  BY DEF WriteLedger, StateTypeOK
<1>4. \/ ledger'[r] = [outcome |-> job[r].outcome, based_on |-> job[r].base,
                       snapshot |-> job[r].snapshot]
      \/ ledger'[r] = ledger[r]
  BY DEF WriteLedger, StateTypeOK
<1>5. EntryAgrees(r, [outcome |-> job[r].outcome, based_on |-> job[r].base,
                      snapshot |-> job[r].snapshot])
  BY DEF LedgerInv, LedgerPhase, WriteLedger
<1>6. ASSUME NEW q \in Runs PROVE LedgerPhase(q)'
  <2>1. CASE q = r
    BY <1>1, <2>1 DEF LedgerPhase, AfterRecording
  <2>2. CASE q # r
    <3>1. job'[q] = job[q] /\ ledger'[q] = ledger[q] /\ CommitsOf(q)' = CommitsOf(q)
      BY <1>1, <1>2, <1>3, <2>2
    <3> QED BY <3>1 DEF LedgerInv, LedgerPhase, EntryAgrees
  <2> QED BY <2>1, <2>2
<1>7. ASSUME NEW q \in Runs, ledger'[q] # None PROVE EntryAgrees(q, ledger[q])'
  <2>1. CASE q = r
    <3>1. CASE ledger'[r] = ledger[r]
      BY <1>2, <1>7, <2>1, <3>1 DEF LedgerInv, LedgerAgrees, EntryAgrees
    <3>2. CASE ledger'[r] = [outcome |-> job[r].outcome, based_on |-> job[r].base,
                             snapshot |-> job[r].snapshot]
      BY <1>2, <1>5, <2>1, <3>2 DEF EntryAgrees
    <3> QED BY <1>4, <3>1, <3>2
  <2>2. CASE q # r
    BY <1>2, <1>3, <1>7, <2>2 DEF LedgerInv, LedgerAgrees, EntryAgrees
  <2> QED BY <2>1, <2>2
<1> QED BY <1>6, <1>7 DEF LedgerInv, LedgerAgrees

LEMMA InitLedger == Init => LedgerInv
<1> SUFFICES ASSUME Init PROVE LedgerInv
  OBVIOUS
<1>1. \A r \in Runs : ledger[r] = None /\ CommitsOf(r) = {}
  BY DEF Init, CommitsOf
<1>2. \A r \in Runs : job[r].pc = "new" /\ job[r].snapshot = 0
  BY DEF Init, Idle
<1> QED BY <1>1, <1>2 DEF LedgerInv, LedgerAgrees, LedgerPhase

LEMMA NextLedger ==
    ASSUME StateTypeOK, LedgerInv, [Next]_vars
    PROVE  LedgerInv'
<1>1. CASE World \/ UNCHANGED vars
  <2>1. hist' = hist /\ job' = job /\ ledger' = ledger
    BY <1>1 DEF World, Tick, EditCode, NewData, RewriteSources, DropRelation, vars
  <2> QED BY <2>1 DEF LedgerInv, LedgerAgrees, LedgerPhase, EntryAgrees, CommitsOf
<1>2. ASSUME NEW r \in Runs, Begin(r) \/ Progress(r) \/ Failure(r) PROVE LedgerInv'
  <2>1. job[r] \in Jobs /\ (job[r].pc \notin AfterRecording => job[r].snapshot = 0)
    BY DEF StateTypeOK, LedgerInv, LedgerPhase
  <2> USE DEF AfterRecording
  <2>2. CASE Begin(r)
    BY <2>1, <2>2, LedgerStep
    DEF Begin, Measure, PrepareUnmeasured, PrepareNothing, MayBegin, Jobs
  <2>3. CASE PrepareMeasured(r) \/ PrepareMeasureFailed(r) \/ Load(r)
    BY <2>1, <2>3, LedgerStep DEF PrepareMeasured, PrepareMeasureFailed, Load, Jobs
  <2>4. CASE OpenState(r) \/ ReadVersions(r)
    BY <2>1, <2>4, LedgerStep DEF OpenState, ReadVersions, Jobs
  <2>5. CASE Plan(r)
    BY <2>1, <2>5, LedgerStep DEF Plan, PlannedJob, Jobs
  <2>6. CASE Start(r)
    BY <2>1, <2>6, LedgerStep DEF Start, Jobs
  <2>7. CASE Execution(r)
    BY <2>1, <2>7, LedgerStep
    DEF Execution, BeginNode, FinishNode, FailNode, SkipNode, Pending, Jobs
  <2>8. CASE ExecutorFails(r)
    BY <2>1, <2>8, LedgerStep DEF ExecutorFails, Jobs
  <2>9. CASE RecordRefused(r) \/ RecordConflict(r) \/ RecordFails(r)
    BY <2>1, <2>9, LedgerStep
    DEF RecordRefused, RecordConflict, RecordFails, NotRecorded, Finished, Jobs
  <2>10. CASE RecordNothing(r)
    BY <2>1, <2>10, LedgerStep DEF RecordNothing, Recorded, Finished, Jobs
  <2>11. CASE Kill(r)
    BY <2>1, <2>11, LedgerStep DEF Kill, Idle
  <2> QED
    BY <1>2, <2>2, <2>3, <2>4, <2>5, <2>6, <2>7, <2>8, <2>9, <2>10, <2>11, CommitLedger,
       WriteLedgerLedger
    DEF Progress, Failure, Recording
<1> QED BY <1>1, <1>2 DEF Next

(***************************************************************************)
(* The ledger tells the truth about the store, whatever order the runs     *)
(* commit, fail, are killed and write their entries in.                    *)
(***************************************************************************)
THEOREM LedgerIsTrue == Spec => []LedgerAgrees
<1>1. Init => LedgerInv
  BY InitLedger
<1>2. StateTypeOK /\ LedgerInv /\ [Next]_vars => LedgerInv'
  BY NextLedger
<1>3. LedgerInv => LedgerAgrees
  BY DEF LedgerInv
<1> QED BY <1>1, <1>2, <1>3, TypesHold, PTL DEF Spec

(***************************************************************************)
(* Versions are never newer than the data.                                 *)
(***************************************************************************)
LEMMA NotNewerLater ==
    ASSUME NEW version \in [Sources -> DataVersions],
           NEW known \in [Sources -> Int], NEW later \in [Sources -> Int],
           \A s \in Sources : known[s] <= later[s],
           NotNewer(version, known)
    PROVE  NotNewer(version, later)
<1> SUFFICES ASSUME NEW s \in Sources, version[s] # None
             PROVE  version[s].value <= later[s]
  BY DEF NotNewer
<1>1. version[s].value \in Int
  <2>1. version[s] \in [value : 0..MaxVersion, exactness : {"Semantic", "Exact"},
                        origin : {"sources.json max_loaded_at", "table_version"}]
    BY DEF DataVersions
  <2>2. version[s].value \in 0..MaxVersion
    BY <2>1
  <2> QED BY <2>2
<1> QED BY <1>1 DEF NotNewer

\* A step that leaves the data and sources.json alone.
LEMMA VersionsStep ==
    ASSUME StateTypeOK, VersionsInv, NEW r \in Runs, NEW j, Becomes(r, j),
           data' = data, freshness' = freshness,
           NotNewer(j.table.answers, data),
           j.pc = "measuring" => \A s \in Sources : j.queried[s] <= data[s]
    PROVE  VersionsInv'
<1>1. job'[r] = j /\ \A q \in Runs : q # r => job'[q] = job[q]
  BY BecomesFacts
<1> QED BY <1>1 DEF VersionsInv, NotNewer

LEMMA IdleVersions == \A pc, known : NotNewer(Idle(pc).table.answers, known)
  BY DEF Idle, NoReading, NotNewer

LEMMA InitVersions == Init => VersionsInv
  BY IdleVersions DEF Init, VersionsInv, NotNewer, Idle, NoReading

LEMMA WorldVersions ==
    ASSUME StateTypeOK, PhaseOK, VersionsInv, World
    PROVE  VersionsInv'
<1> USE StateRunAssumption
<1>1. CASE Tick \/ (\E n \in Nodes : EditCode(n))
           \/ (\E t \in Targets, n \in Nodes : DropRelation(t, n))
  <2>1. data' = data /\ freshness' = freshness /\ job' = job
    BY <1>1 DEF Tick, EditCode, DropRelation
  <2> QED BY <2>1 DEF VersionsInv, NotNewer
<1>2. ASSUME NEW s \in Sources, NewData(s) PROVE VersionsInv'
  <2>1. data \in [Sources -> Int] /\ data' \in [Sources -> Int] /\ freshness \in Readings
        /\ job \in [Runs -> Jobs]
    BY <1>2 DEF NewData, StateTypeOK
  <2>2. \A s_1 \in Sources : data[s_1] <= data'[s_1]
    BY <1>2, <2>1 DEF NewData
  <2>3. freshness' = freshness /\ job' = job
    BY <1>2 DEF NewData
  <2>4. NotNewer(freshness.answers, data')
    BY <2>1, <2>2, NotNewerLater DEF VersionsInv, Readings
  <2>5. ASSUME NEW r \in Runs PROVE NotNewer(job[r].table.answers, data')
    <3>1. job[r].table.answers \in [Sources -> DataVersions]
      BY <2>1 DEF Jobs, Readings
    <3> QED BY <2>1, <2>2, <3>1, NotNewerLater DEF VersionsInv
  <2>6. ASSUME NEW r \in Runs, job[r].pc = "measuring", NEW s_1 \in Sources
        PROVE  job[r].queried[s_1] <= data'[s_1]
    <3>1. job[r].queried[s_1] \in Int
      BY <2>6 DEF PhaseOK, PhaseOf
    <3> QED BY <2>1, <2>2, <2>6, <3>1 DEF VersionsInv
  <2> QED BY <2>3, <2>4, <2>5, <2>6 DEF VersionsInv, NotNewer
<1>3. CASE RewriteSources
  <2>1. data' = data /\ job' = job /\ data \in [Sources -> Int]
    BY <1>3 DEF RewriteSources, StateTypeOK
  <2>2. freshness'.answers = [s \in Sources |-> FreshnessVersion(data[s])]
    BY <1>3 DEF RewriteSources
  <2>3. NotNewer(freshness'.answers, data)
    <3>1. \A s \in Sources : FreshnessVersion(data[s]).value = data[s]
      BY DEF FreshnessVersion, DataVersion
    <3> QED BY <2>1, <2>2, <3>1 DEF NotNewer
  <2> QED BY <2>1, <2>3 DEF VersionsInv, NotNewer
<1> QED BY <1>1, <1>2, <1>3 DEF World

LEMMA NextVersions ==
    ASSUME StateTypeOK, PhaseOK, VersionsInv, [Next]_vars
    PROVE  VersionsInv'
<1>1. CASE UNCHANGED vars
  BY <1>1 DEF vars, VersionsInv, NotNewer
<1>2. ASSUME NEW r \in Runs, Begin(r) \/ Progress(r) \/ Failure(r) PROVE VersionsInv'
  <2>1. /\ job[r] \in Jobs /\ data \in [Sources -> Int]
        /\ NotNewer(job[r].table.answers, data)
        /\ job[r].pc = "measuring" => \A s \in Sources : job[r].queried[s] <= data[s]
    BY DEF StateTypeOK, VersionsInv
  <2>2. ASSUME NEW j, Becomes(r, j), j.table = job[r].table, j.pc # "measuring",
               data' = data, freshness' = freshness
        PROVE  VersionsInv'
    BY <2>1, <2>2, VersionsStep
  <2>3. ASSUME NEW t \in Targets, Measure(r, t) PROVE VersionsInv'
    <3>1. PICK j : j = [job[r] EXCEPT !.pc = "measuring", !.target = t, !.queried = data]
      OBVIOUS
    <3>2. j.table = job[r].table /\ j.queried = data
      BY <2>1, <3>1 DEF Jobs
    <3>3. Becomes(r, j) /\ data' = data /\ freshness' = freshness
      BY <2>3, <3>1 DEF Measure, world
    <3> QED BY <2>1, <3>2, <3>3, VersionsStep
  <2>4. ASSUME NEW t \in Targets, PrepareUnmeasured(r, t) \/ PrepareNothing(r, t)
        PROVE  VersionsInv'
    BY <2>1, <2>2, <2>4 DEF PrepareUnmeasured, PrepareNothing, Jobs, world
  <2>5. CASE PrepareMeasured(r)
    <3>1. \A s \in Sources : job[r].queried[s] <= data[s]
      BY <2>1, <2>5 DEF PrepareMeasured
    <3>2. /\ data' = data
          /\ freshness'.answers = [s \in Sources |-> FreshnessVersion(job[r].queried[s])]
      BY <2>5 DEF PrepareMeasured, world
    <3>3. NotNewer(freshness'.answers, data)
      <4>1. \A s \in Sources : FreshnessVersion(job[r].queried[s]).value = job[r].queried[s]
        BY DEF FreshnessVersion, DataVersion
      <4> QED BY <3>1, <3>2, <4>1 DEF NotNewer
    <3>4. /\ job'[r].table = job[r].table /\ job'[r].pc # "measuring"
          /\ \A q \in Runs : q # r => job'[q] = job[q]
      <4>1. /\ job'[r] = [job[r] EXCEPT !.pc = "prepared", !.use_file = TRUE, !.queried = None]
            /\ \A q \in Runs : q # r => job'[q] = job[q]
        BY <2>5, BecomesFacts DEF PrepareMeasured
      <4> QED BY <2>1, <4>1 DEF Jobs
    <3> QED BY <2>1, <3>2, <3>3, <3>4 DEF VersionsInv, NotNewer
  <2>6. CASE PrepareMeasureFailed(r) \/ Load(r)
    BY <2>1, <2>2, <2>6 DEF PrepareMeasureFailed, Load, Jobs, world
  <2>7. CASE OpenState(r)
    BY <2>1, <2>7, VersionsStep DEF OpenState, Jobs, Readings, world
  <2>8. CASE ReadVersions(r)
    <3>1. PICK answered \in BOOLEAN :
            Becomes(r, [job[r] EXCEPT !.pc = "ready",
                          !.table.answers = [s \in Sources |->
                            IF answered THEN TableVersion(data[s]) ELSE None]])
      BY <2>8 DEF ReadVersions
    <3>2. NotNewer([s \in Sources |-> IF answered THEN TableVersion(data[s]) ELSE None], data)
      BY <2>1 DEF NotNewer, TableVersion, DataVersion
    <3> QED BY <2>1, <2>8, <3>1, <3>2, VersionsStep DEF ReadVersions, Jobs, Readings, world
  <2>9. CASE Plan(r)
    BY <2>1, <2>2, <2>9 DEF Plan, PlannedJob, Jobs, world
  <2>10. CASE Start(r)
    BY <2>1, <2>2, <2>10 DEF Start, Jobs, world
  <2>11. CASE Execution(r)
    BY <2>1, <2>2, <2>11
    DEF Execution, BeginNode, FinishNode, FailNode, SkipNode, Pending, Jobs, world
  <2>12. CASE ExecutorFails(r) \/ Recording(r) \/ RecordFails(r)
    BY <2>1, <2>2, <2>12
    DEF ExecutorFails, Recording, RecordRefused, RecordNothing, RecordCommit, RecordConflict,
        RecordFails, NotRecorded, Recorded, Jobs, world
  <2>13. CASE WriteLedger(r)
    <3>1. /\ [Idle("done") EXCEPT !.error = job[r].error].table = Idle("done").table
          /\ [Idle("done") EXCEPT !.error = job[r].error].pc = "done"
      BY DEF Idle
    <3> QED BY <2>13, <3>1, IdleVersions, VersionsStep DEF WriteLedger, world
  <2>14. CASE Kill(r)
    <3>1. Idle("killed").pc = "killed"
      BY DEF Idle
    <3> QED BY <2>14, <3>1, IdleVersions, VersionsStep DEF Kill, world
  <2> QED
    BY <1>2, <2>3, <2>4, <2>5, <2>6, <2>7, <2>8, <2>9, <2>10, <2>11, <2>12, <2>13, <2>14
    DEF Begin, Progress, Failure
<1> QED BY <1>1, <1>2, WorldVersions DEF Next

(***************************************************************************)
(* What a run does, and what it may record of it.                          *)
(***************************************************************************)

\* A step of one process that leaves the time and sources.json alone, and takes away
\* nobody else's builds.
LEMMA ExecutionStep ==
    ASSUME StateTypeOK, ExecutionInv, NEW r \in Runs, NEW j, Becomes(r, j),
           clock' = clock, freshness' = freshness,
           \A q \in Runs : q # r => /\ built'[q] = built[q]
                                    /\ manifest'.by = q => manifest' = manifest,
           ExecutionOf(r, j)'
    PROVE  ExecutionInv'
<1>1. job'[r] = j /\ \A q \in Runs : q # r => job'[q] = job[q]
  BY BecomesFacts
<1> SUFFICES ASSUME NEW q \in Runs PROVE ExecutionOf(q, job[q])'
  BY DEF ExecutionInv
<1>2. CASE q = r
  BY <1>1, <1>2 DEF ExecutionOf, MayRecordOf, ResultOf, NotNewer, Succeeded
<1>3. CASE q # r
  <2>1. ExecutionOf(q, job[q])
    BY DEF ExecutionInv
  <2> QED
    BY <1>1, <1>3, <2>1 DEF ExecutionOf, MayRecordOf, ResultOf, NotNewer, Succeeded
<1> QED BY <1>2, <1>3

\* A step of a process that is not executing, or stops executing.
LEMMA QuietStep ==
    ASSUME StateTypeOK, ExecutionInv, NEW r \in Runs, NEW j, Becomes(r, j),
           clock' = clock, freshness' = freshness, built' = built,
           manifest' = manifest \/ manifest'.by = None,
           j.pc # "running",
           j.pc \notin AfterRecording =>
               /\ job[r].pc \notin AfterRecording \cup {"running"}
               /\ j.read = job[r].read /\ j.result = job[r].result
    PROVE  ExecutionInv'
<1>1. ExecutionOf(r, job[r])
  BY DEF ExecutionInv
<1>2. ExecutionOf(r, j)'
  BY <1>1 DEF ExecutionOf
<1>3. \A q \in Runs : q # r => /\ built'[q] = built[q]
                               /\ manifest'.by = q => manifest' = manifest
  BY NoneAssumption
<1> QED BY <1>2, <1>3, ExecutionStep

\* A new sources.json is not older than any run that executes: what it says is not recorded.
LEMMA NewReadingIsLate ==
    ASSUME StateTypeOK, PhaseOK, NEW r \in Runs, ExecutionOf(r, job[r]),
           clock' = clock, freshness'.at = clock, built' = built,
           job'[r] = job[r],
           manifest' = manifest \/ manifest'.by = None
    PROVE  ExecutionOf(r, job[r])'
<1>1. CASE job[r].pc = "running"
  <2>1. job[r].started \in Int /\ clock \in Int /\ job[r].started <= clock
    BY <1>1 DEF ExecutionOf, PhaseOK, PhaseOf, StateTypeOK, Times
  <2>2. ~(freshness'.at < job[r].started)
    BY <2>1
  <2>3. \A read : MayRecordOf(job[r], read) => MayRecordOf(job[r], read)'
    BY <2>2 DEF MayRecordOf, NotNewer
  <2>4. manifest'.by = r => manifest'.code = job[r].code
    BY <1>1, NoneAssumption DEF ExecutionOf
  <2> QED BY <1>1, <2>1, <2>3, <2>4 DEF ExecutionOf, ResultOf, Succeeded, AfterRecording
<1>2. CASE job[r].pc # "running"
  BY <1>2 DEF ExecutionOf
<1> QED BY <1>1, <1>2

LEMMA InitExecution == Init => ExecutionInv
  BY DEF Init, ExecutionInv, ExecutionOf, Idle, AfterRecording

LEMMA WorldExecution ==
    ASSUME StateTypeOK, PhaseOK, ExecutionInv, World \/ UNCHANGED vars
    PROVE  ExecutionInv'
<1> SUFFICES ASSUME NEW r \in Runs PROVE ExecutionOf(r, job[r])'
  BY DEF ExecutionInv
<1>1. ExecutionOf(r, job[r])
  BY DEF ExecutionInv
<1>2. CASE Tick
  <2>1. /\ clock' = clock + 1 /\ job' = job /\ freshness' = freshness /\ built' = built
        /\ manifest' = manifest /\ clock \in Int
    BY <1>2 DEF Tick, StateTypeOK, Times
  <2>2. job[r].pc = "running" => job[r].started \in Int
    BY DEF PhaseOK, PhaseOf, Times
  <2>3. job[r].pc = "running" => job[r].started <= clock'
    BY <1>1, <2>1, <2>2 DEF ExecutionOf
  <2> QED BY <1>1, <2>1, <2>3 DEF ExecutionOf, MayRecordOf, ResultOf, NotNewer, Succeeded
<1>3. CASE RewriteSources
  <2>1. /\ clock' = clock /\ job' = job /\ built' = built /\ manifest' = manifest
        /\ freshness'.at = clock
    BY <1>3 DEF RewriteSources
  <2> QED BY <1>1, <2>1, NewReadingIsLate
<1>4. CASE (\E n \in Nodes : EditCode(n)) \/ (\E s \in Sources : NewData(s))
           \/ (\E t \in Targets, n \in Nodes : DropRelation(t, n)) \/ UNCHANGED vars
  <2>1. UNCHANGED <<clock, job, freshness, built, manifest>>
    BY <1>4 DEF EditCode, NewData, DropRelation, vars
  <2> QED BY <1>1, <2>1 DEF ExecutionOf, MayRecordOf, ResultOf, NotNewer, Succeeded
<1> QED BY <1>2, <1>3, <1>4 DEF World

\* A node starts: it reads the data there is now.
LEMMA BeginNodeExecution ==
    ASSUME StateTypeOK, VersionsInv, ExecutionInv, NEW r \in Runs, NEW n \in Nodes,
           BeginNode(r, n)
    PROVE  ExecutionInv'
<1>1. PICK j : j = [job[r] EXCEPT !.read[n] = data]
  OBVIOUS
<1>2. /\ Becomes(r, j) /\ clock' = clock /\ freshness' = freshness /\ built' = built
      /\ manifest' = manifest /\ job[r].pc = "running" /\ job[r] \in Jobs
  BY <1>1 DEF BeginNode, Pending, world, StateTypeOK
<1>3. /\ j.pc = "running" /\ j.started = job[r].started /\ j.code = job[r].code
      /\ j.table = job[r].table /\ j.target = job[r].target /\ j.result = job[r].result
      /\ j.read = [job[r].read EXCEPT ![n] = data]
  BY <1>1, <1>2 DEF Jobs
<1>4. ExecutionOf(r, job[r]) /\ job[r].read \in [Nodes -> [Sources -> 0..MaxVersion] \cup {None}]
  BY <1>2 DEF ExecutionInv, Jobs
<1>5. ASSUME NEW m \in Nodes, j.read[m] # None PROVE MayRecordOf(j, j.read[m])
  <2>1. CASE m = n
    <3>1. j.read[m] = data
      BY <1>3, <1>4, <2>1
    <3> QED BY <1>3, <3>1 DEF MayRecordOf, VersionsInv
  <2>2. CASE m # n
    BY <1>2, <1>3, <1>4, <1>5, <2>2 DEF MayRecordOf, ExecutionOf
  <2> QED BY <2>1, <2>2
<1>6. ASSUME NEW m \in Succeeded(j.result) PROVE ResultOf(j, m, built[r][m])
  <2>1. ResultOf(job[r], m, built[r][m])
    BY <1>2, <1>3, <1>4 DEF ExecutionOf
  <2> QED BY <1>3, <2>1 DEF ResultOf, MayRecordOf
<1>7. ExecutionOf(r, j)
  BY <1>2, <1>3, <1>4, <1>5, <1>6 DEF ExecutionOf
<1>8. ExecutionOf(r, j)'
  BY <1>2, <1>7 DEF ExecutionOf, MayRecordOf, ResultOf, NotNewer, Succeeded
<1> QED BY <1>2, <1>8, ExecutionStep

\* A node that did not succeed leaves nothing to record.
LEMMA NoSuccessExecution ==
    ASSUME StateTypeOK, ExecutionInv, NEW r \in Runs, NEW n \in Nodes,
           FailNode(r, n) \/ SkipNode(r, n)
    PROVE  ExecutionInv'
<1>0. PICK outcome \in {"Failed", "Skipped"} :
        Becomes(r, [job[r] EXCEPT !.result[n] =
                      [outcome |-> outcome, at |-> clock, tested |-> FALSE]])
  BY DEF FailNode, SkipNode
<1>1. PICK x : x = [outcome |-> outcome, at |-> clock, tested |-> FALSE]
  OBVIOUS
<1>2. PICK j : j = [job[r] EXCEPT !.result[n] = x]
  OBVIOUS
<1>3. /\ Becomes(r, j) /\ clock' = clock /\ freshness' = freshness /\ built' = built
      /\ manifest' = manifest /\ job[r].pc = "running" /\ job[r] \in Jobs
  BY <1>0, <1>1, <1>2 DEF FailNode, SkipNode, Pending, world, StateTypeOK
<1>4. /\ j.pc = "running" /\ j.started = job[r].started /\ j.code = job[r].code
      /\ j.table = job[r].table /\ j.target = job[r].target /\ j.read = job[r].read
      /\ j.result = [job[r].result EXCEPT ![n] = x]
  BY <1>2, <1>3 DEF Jobs
<1>5. ExecutionOf(r, job[r]) /\ job[r].result \in [Nodes -> Results \cup {None}]
  BY <1>3 DEF ExecutionInv, Jobs
<1>6. ASSUME NEW m \in Succeeded(j.result) PROVE ResultOf(j, m, built[r][m])
  <2>1. m # n /\ j.result[m] = job[r].result[m] /\ m \in Succeeded(job[r].result)
    BY <1>1, <1>4, <1>5 DEF Succeeded
  <2> QED BY <1>3, <1>4, <1>5, <2>1 DEF ExecutionOf, ResultOf, MayRecordOf
<1>7. ExecutionOf(r, j)
  BY <1>3, <1>4, <1>5, <1>6 DEF ExecutionOf, MayRecordOf
<1>8. ExecutionOf(r, j)'
  BY <1>3, <1>7 DEF ExecutionOf, MayRecordOf, ResultOf, NotNewer, Succeeded
<1> QED BY <1>3, <1>8, ExecutionStep

\* A node is built: what it read bounds what is recorded of it.
LEMMA FinishNodeExecution ==
    ASSUME StateTypeOK, PhaseOK, ExecutionInv, NEW r \in Runs, NEW n \in Nodes,
           FinishNode(r, n)
    PROVE  ExecutionInv'
<1>1. PICK checks \in {"not_run", "passed", "failed"} : FinishNode(r, n)!4!(checks)
  BY DEF FinishNode
<1>2. PICK x, b : /\ x = [outcome |-> IF checks = "failed" THEN "Failed" ELSE "Success",
                          at |-> clock, tested |-> checks = "passed"]
                  /\ b = [code |-> job[r].code[n], target |-> job[r].target, checks |-> checks,
                          read |-> job[r].read[n], until |-> data, at |-> clock]
  OBVIOUS
<1>3. PICK j : j = [job[r] EXCEPT !.result[n] = x]
  OBVIOUS
<1>4. /\ Becomes(r, j) /\ clock' = clock /\ freshness' = freshness
      /\ built' = [built EXCEPT ![r][n] = b]
      /\ manifest' = manifest /\ job[r].pc = "running" /\ job[r].read[n] # None
  BY <1>1, <1>2, <1>3 DEF FinishNode, Pending, world
<1>5. job[r] \in Jobs /\ built \in [Runs -> [Nodes -> Builds \cup {None}]]
  BY DEF StateTypeOK
<1>6. /\ j.pc = "running" /\ j.started = job[r].started /\ j.code = job[r].code
      /\ j.table = job[r].table /\ j.target = job[r].target /\ j.read = job[r].read
      /\ j.result = [job[r].result EXCEPT ![n] = x]
  BY <1>3, <1>4, <1>5 DEF Jobs
<1>7. ExecutionOf(r, job[r]) /\ job[r].result \in [Nodes -> Results \cup {None}]
  BY <1>5 DEF ExecutionInv, Jobs
<1>8. /\ built'[r] = [built[r] EXCEPT ![n] = b]
      /\ \A q \in Runs : q # r => built'[q] = built[q]
  BY <1>4, <1>5
<1>9. \A read : MayRecordOf(job[r], read) => MayRecordOf(j, read)
  BY <1>6 DEF MayRecordOf
<1>10. ASSUME NEW m \in Succeeded(j.result) PROVE ResultOf(j, m, built'[r][m])
  <2>1. CASE m = n
    <3>1. j.result[m] = x /\ built'[r][m] = b
      BY <1>5, <1>6, <1>7, <1>8, <2>1
    <3>2. checks # "failed"
      BY <1>2, <1>10, <3>1 DEF Succeeded
    <3>3. MayRecordOf(j, job[r].read[n])
      BY <1>4, <1>7, <1>9 DEF ExecutionOf
    <3>4. /\ b.target = j.target /\ b.checks = checks /\ b.code = j.code[n] /\ b.at = clock
          /\ b.read = job[r].read[n]
      BY <1>2, <1>6
    <3>5. x.at = clock /\ (x.tested => checks = "passed")
      BY <1>2
    <3>6. b # None
      <4>1. b \in Builds
        BY <1>2, BuildOfFinishNode
      <4> QED BY <4>1, NoneAssumption
    <3> QED BY <2>1, <3>1, <3>2, <3>3, <3>4, <3>5, <3>6 DEF ResultOf
  <2>2. CASE m # n
    <3>1. /\ j.result[m] = job[r].result[m] /\ m \in Succeeded(job[r].result)
          /\ built'[r][m] = built[r][m]
      BY <1>5, <1>6, <1>7, <1>8, <2>2 DEF Succeeded
    <3>2. ResultOf(job[r], m, built[r][m])
      BY <1>4, <1>7, <3>1 DEF ExecutionOf
    <3> QED BY <1>6, <1>9, <3>1, <3>2 DEF ResultOf
  <2> QED BY <2>1, <2>2
<1>11. \A read : MayRecordOf(j, read) => MayRecordOf(j, read)'
  BY <1>4 DEF MayRecordOf, NotNewer
<1>12. ASSUME NEW m \in Succeeded(j.result) PROVE ResultOf(j, m, built[r][m])'
  BY <1>10, <1>11 DEF ResultOf
<1>13. ExecutionOf(r, j)'
  BY <1>4, <1>6, <1>7, <1>9, <1>11, <1>12 DEF ExecutionOf, Succeeded
<1> QED BY <1>4, <1>8, <1>13, ExecutionStep

LEMMA NextExecution ==
    ASSUME StateTypeOK, PhaseOK, VersionsInv, ExecutionInv, [Next]_vars
    PROVE  ExecutionInv'
<1>1. ASSUME NEW r \in Runs, Begin(r) \/ Progress(r) \/ Failure(r) PROVE ExecutionInv'
  <2>1. job[r] \in Jobs /\ ExecutionOf(r, job[r])
    BY DEF StateTypeOK, ExecutionInv
  <2>2. CASE Begin(r)
    <3>1. ASSUME NEW t \in Targets, Measure(r, t) PROVE ExecutionInv'
      BY <2>1, <3>1, QuietStep DEF Measure, MayBegin, Jobs, world, AfterRecording
    <3>2. ASSUME NEW t \in Targets, PrepareUnmeasured(r, t) PROVE ExecutionInv'
      BY <2>1, <3>2, QuietStep DEF PrepareUnmeasured, MayBegin, Jobs, world, AfterRecording
    <3>3. ASSUME NEW t \in Targets, PrepareNothing(r, t) PROVE ExecutionInv'
      BY <2>1, <3>3, QuietStep DEF PrepareNothing, MayBegin, Jobs, world, AfterRecording
    <3> QED BY <2>2, <3>1, <3>2, <3>3 DEF Begin
  <2>3. CASE PrepareMeasured(r)
    <3>1. /\ clock' = clock /\ freshness'.at = clock /\ built' = built /\ manifest'.by = None
          /\ Becomes(r, [job[r] EXCEPT !.pc = "prepared", !.use_file = TRUE, !.queried = None])
          /\ job[r].pc = "measuring"
      BY <2>3 DEF PrepareMeasured, world
    <3>2. /\ job'[r].pc = "prepared" /\ job'[r].read = job[r].read
          /\ job'[r].result = job[r].result
      <4>1. job'[r] = [job[r] EXCEPT !.pc = "prepared", !.use_file = TRUE, !.queried = None]
        BY <3>1, BecomesFacts
      <4> QED BY <2>1, <4>1 DEF Jobs
    <3>3. ExecutionOf(r, job[r])'
      BY <2>1, <3>1, <3>2 DEF ExecutionOf, AfterRecording, ForNodes
    <3>4. ASSUME NEW q \in Runs, q # r PROVE ExecutionOf(q, job[q])'
      <4>1. job'[q] = job[q] /\ ExecutionOf(q, job[q])
        BY <3>1, <3>4, BecomesFacts DEF ExecutionInv
      <4> QED BY <3>1, <4>1, NewReadingIsLate
    <3> QED BY <3>3, <3>4 DEF ExecutionInv
  <2>4. CASE PrepareMeasureFailed(r)
    BY <2>1, <2>4, QuietStep DEF PrepareMeasureFailed, Jobs, world, AfterRecording
  <2>5. CASE Load(r)
    BY <2>1, <2>5, QuietStep DEF Load, Jobs, world, AfterRecording
  <2>6. CASE OpenState(r) \/ ReadVersions(r)
    BY <2>1, <2>6, QuietStep DEF OpenState, ReadVersions, Jobs, world, AfterRecording
  <2>7. CASE Plan(r)
    BY <2>1, <2>7, QuietStep DEF Plan, PlannedJob, Jobs, world, AfterRecording
  <2>8. CASE Start(r)
    <3>1. PICK j : j = [job[r] EXCEPT !.pc = "running", !.started = clock, !.code = code,
                                      !.held = ForNodes(None)]
      OBVIOUS
    <3>2. /\ Becomes(r, j) /\ clock' = clock /\ freshness' = freshness /\ built' = built
          /\ manifest' = [by |-> r, code |-> code] /\ job[r].pc = "planned" /\ clock \in Int
      BY <2>8, <3>1 DEF Start, world, StateTypeOK, Times
    <3>3. /\ j.pc = "running" /\ j.started = clock /\ j.code = code
          /\ j.read = job[r].read /\ j.result = job[r].result
      BY <2>1, <3>1 DEF Jobs
    <3>4. j.read = ForNodes(None) /\ Succeeded(j.result) = {}
      BY <2>1, <3>2, <3>3 DEF ExecutionOf, AfterRecording, ForNodes, Succeeded
    <3>5. ExecutionOf(r, j)'
      BY <3>2, <3>3, <3>4 DEF ExecutionOf, ForNodes, AfterRecording, Succeeded
    <3> QED BY <3>2, <3>5, ExecutionStep
  <2>9. CASE ExecutorFails(r) \/ Recording(r) \/ RecordFails(r)
    <3>1. UNCHANGED <<clock, freshness, built, manifest>>
      BY <2>9
      DEF ExecutorFails, Recording, RecordRefused, RecordNothing, RecordCommit, RecordConflict,
          RecordFails, world
    <3>2. ASSUME NEW j, Becomes(r, j), j.pc = "recorded" PROVE ExecutionInv'
      BY <3>1, <3>2, QuietStep DEF AfterRecording
    <3>3. ASSUME NEW error, NotRecorded(r, error) PROVE ExecutionInv'
      BY <2>1, <3>2, <3>3 DEF NotRecorded, Jobs
    <3>4. ASSUME NEW snapshot, Recorded(r, snapshot) PROVE ExecutionInv'
      BY <2>1, <3>2, <3>4 DEF Recorded, Jobs
    <3>5. CASE ExecutorFails(r)
      BY <2>1, <3>2, <3>5 DEF ExecutorFails, Jobs
    <3> QED
      BY <2>9, <3>3, <3>4, <3>5
      DEF Recording, RecordRefused, RecordNothing, RecordCommit, RecordConflict, RecordFails
  <2>10. CASE WriteLedger(r)
    <3>1. [Idle("done") EXCEPT !.error = job[r].error].pc = "done"
      BY DEF Idle
    <3> QED BY <2>10, <3>1, QuietStep DEF WriteLedger, world, AfterRecording
  <2>11. CASE Kill(r)
    <3>1. Idle("killed").pc = "killed"
      BY DEF Idle
    <3> QED BY <2>11, <3>1, QuietStep DEF Kill, world, AfterRecording
  <2> QED
    BY <1>1, <2>2, <2>3, <2>4, <2>5, <2>6, <2>7, <2>8, <2>9, <2>10, <2>11,
       BeginNodeExecution, FinishNodeExecution, NoSuccessExecution
    DEF Progress, Failure, Execution
<1> QED BY <1>1, WorldExecution DEF Next

(***************************************************************************)
(* What is recorded happened.                                              *)
(***************************************************************************)

\* The versions a run records are not newer than what its nodes read.
LEMMA RecordedVersionsAreOld ==
    ASSUME NEW r \in Runs, NEW read, MayRecordOf(job[r], read)
    PROVE  NotNewer(RecordedVersions(r), read)
<1> DEFINE table == job[r].table
           file == FileReading(r)
           started == job[r].started
           chosen == ChooseSourceVersions(table, file)
<1> SUFFICES ASSUME NEW s \in Sources, RecordedVersions(r)[s] # None
             PROVE  RecordedVersions(r)[s].value <= read[s]
  BY DEF NotNewer
<1>1. /\ RecordedVersions(r)[s] = chosen[s].version
      /\ chosen[s].observed # None /\ chosen[s].observed < started
  BY DEF RecordedVersions, KeepVersionsReadBefore
<1>2. chosen[s] = ChooseSourceVersion(table, file, s)
  BY DEF ChooseSourceVersions
<1>3. CASE table.answers[s] # None
  <2>1. chosen[s].version = table.answers[s]
    BY <1>2, <1>3 DEF ChooseSourceVersion
  <2> QED BY <1>1, <1>3, <2>1 DEF MayRecordOf, NotNewer
<1>4. CASE table.answers[s] = None
  <2>1. file.answers[s] # None /\ chosen[s].version = file.answers[s]
        /\ chosen[s].observed = file.at
    BY <1>1, <1>2, <1>4 DEF ChooseSourceVersion
  <2>2. file = freshness
    BY <2>1 DEF FileReading, NoReading
  <2> QED BY <1>1, <2>1, <2>2 DEF MayRecordOf, NotNewer
<1> QED BY <1>3, <1>4

LEMMA NewStateIsTrue ==
    ASSUME StateTypeOK, ExecutionInv, NEW r \in Runs, RecordCommit(r), NEW n \in Advances(r)
    PROVE  TrueOf(n, job[r].target,
                  NewNodeState(RecordedProject(r), Previous(r), job[r].result, r, n))
<1>1. PICK ns : ns = NewNodeState(RecordedProject(r), Previous(r), job[r].result, r, n)
  OBVIOUS
<1>2. /\ ns.run = r
      /\ ns.fp = manifest.code[n]
      /\ ns.built_at = job[r].result[n].at
      /\ ns.tested = IF job[r].result[n].tested THEN r ELSE None
      /\ ns.inputs = [s \in Sources |-> IF s \in ParentsOf[n] THEN RecordedVersions(r)[s]
                                                            ELSE None]
  BY <1>1 DEF NewNodeState, RecordedProject
<1>3. n \in Nodes /\ n \in Succeeded(job[r].result)
  BY DEF Advances, Advanced, Succeeded
<1>4. ResultOf(job[r], n, built[r][n]) /\ manifest.code = job[r].code
  BY <1>3 DEF ExecutionInv, ExecutionOf, RecordCommit, Finished
<1>5. NotNewer(RecordedVersions(r), built[r][n].read)
  BY <1>4, RecordedVersionsAreOld DEF ResultOf
<1>6. \A s \in Sources : ns.inputs[s] # None => ns.inputs[s].value <= built[r][n].read[s]
  BY <1>2, <1>5 DEF NotNewer
<1>7. ns.tested # None => ns.tested = r /\ built[r][n].checks = "passed"
  BY <1>2, <1>4 DEF ResultOf
<1>8. TrueOf(n, job[r].target, ns)
  BY <1>2, <1>4, <1>6, <1>7 DEF TrueOf, ResultOf
<1> QED BY <1>1, <1>8

LEMMA CommitRecorded ==
    ASSUME StateTypeOK, ExecutionInv, RecordedInv, NEW r \in Runs, RecordCommit(r)
    PROVE  RecordedInv'
<1> DEFINE k == Len(hist)
           new == [run |-> r, target |-> job[r].target, nodes |-> RecordedNodes(r)]
<1>1. /\ k \in Nat /\ DOMAIN hist = 1..k /\ DOMAIN hist' = 1..(k + 1)
      /\ \A i \in 1..k : hist'[i] = hist[i]
      /\ hist'[k + 1] = new
  BY AppendFacts
<1>2. /\ built' = built /\ job[r].base = k
      /\ job'[r].pc = "recorded" /\ \A q \in Runs : q # r => job'[q] = job[q]
  <2>1. job[r] \in Jobs
    BY DEF StateTypeOK
  <2>2. /\ job'[r] = [job[r] EXCEPT !.pc = "recorded", !.outcome = ExecutionOutcome(r),
                                    !.snapshot = Len(hist) + 1]
        /\ \A q \in Runs : q # r => job'[q] = job[q]
    BY BecomesFacts DEF RecordCommit, Recorded
  <2> QED BY <2>1, <2>2 DEF RecordCommit, Jobs
<1>4. ASSUME NEW n \in Nodes, RecordedNodes(r)[n] # None
      PROVE  /\ TrueOf(n, job[r].target, RecordedNodes(r)[n])
             /\ \/ RecordedNodes(r)[n].run = r
                \/ job[RecordedNodes(r)[n].run].pc \in AfterRecording
  <2>1. CASE /\ n \in Advances(r)
             /\ RecordedNodes(r)[n] =
                  NewNodeState(RecordedProject(r), Previous(r), job[r].result, r, n)
    <3>1. NewNodeState(RecordedProject(r), Previous(r), job[r].result, r, n).run = r
      BY DEF NewNodeState
    <3> QED BY <2>1, <3>1, NewStateIsTrue
  <2>2. ASSUME Previous(r)[n] # None
        PROVE  /\ TrueOf(n, job[r].target, Previous(r)[n])
               /\ job[Previous(r)[n].run].pc \in AfterRecording
               /\ Previous(r)[n] \in NodeStates
    <3>1. InTarget(r)
      BY <2>2 DEF Previous, ForNodes
    <3>2. k \in DOMAIN hist /\ hist[k].target = job[r].target /\ Previous(r) = hist[k].nodes
      BY <1>1, <1>2, <3>1 DEF InTarget, Previous
    <3>3. Previous(r)[n] \in NodeStates
      BY <1>2, <2>2, PreviousType
    <3> QED BY <2>2, <3>2, <3>3 DEF RecordedInv, RecordedIsTrue
  <2>3. CASE RecordedNodes(r)[n] = Previous(r)[n]
    BY <1>4, <2>2, <2>3
  <2>4. CASE /\ Previous(r)[n] # None
             /\ RecordedNodes(r)[n] = [Previous(r)[n] EXCEPT !.tested = None]
    <3>1. PICK old, ns : old = Previous(r)[n] /\ ns = RecordedNodes(r)[n]
      OBVIOUS
    <3>2. old \in NodeStates /\ TrueOf(n, job[r].target, old)
          /\ job[old.run].pc \in AfterRecording
      BY <2>2, <2>4, <3>1
    <3>3. /\ ns.run = old.run /\ ns.fp = old.fp /\ ns.built_at = old.built_at
          /\ ns.inputs = old.inputs /\ ns.tested = None
      BY <2>4, <3>1, <3>2 DEF NodeStates
    <3>4. TrueOf(n, job[r].target, ns)
      BY <3>2, <3>3 DEF TrueOf
    <3> QED BY <3>1, <3>2, <3>3, <3>4
  <2> QED BY <2>1, <2>3, <2>4, RecordedNodeIs
<1>5. RecordedNodes(r) \in [Nodes -> NodeStates \cup {None}]
  BY <1>2, RecordedNodesType
<1>6. ASSUME NEW i \in DOMAIN hist', NEW n \in Nodes, hist'[i].nodes[n] # None
      PROVE  /\ TrueOf(n, hist[i].target, hist[i].nodes[n])'
             /\ job'[hist'[i].nodes[n].run].pc \in AfterRecording
  <2>1. CASE i \in 1..k
    <3>1. hist'[i] = hist[i] /\ hist[i] \in Snapshots
      BY <1>1, <2>1 DEF StateTypeOK
    <3>2. /\ TrueOf(n, hist[i].target, hist[i].nodes[n])
          /\ job[hist[i].nodes[n].run].pc \in AfterRecording
      BY <1>1, <1>6, <2>1, <3>1 DEF RecordedInv, RecordedIsTrue
    <3>3. hist[i].nodes[n].run \in Runs
      BY <1>6, <3>1 DEF Snapshots, NodeStates
    <3>4. job'[hist[i].nodes[n].run].pc \in AfterRecording
      BY <1>2, <3>2, <3>3 DEF AfterRecording
    <3> QED BY <1>2, <3>1, <3>2, <3>4 DEF TrueOf
  <2>2. CASE i = k + 1
    <3>1. hist'[i] = new
      BY <1>1, <2>2
    <3>2. /\ hist'[i].target = job[r].target
          /\ hist'[i].nodes = RecordedNodes(r)
      BY <3>1
    <3>3. RecordedNodes(r)[n].run \in Runs
      BY <1>5, <1>6, <3>2 DEF NodeStates
    <3>4. job'[RecordedNodes(r)[n].run].pc \in AfterRecording
      BY <1>2, <1>4, <1>6, <3>2, <3>3 DEF AfterRecording
    <3> QED BY <1>2, <1>4, <1>6, <3>2, <3>4 DEF TrueOf
  <2> QED BY <1>1, <2>1, <2>2
<1> QED BY <1>6 DEF RecordedInv, RecordedIsTrue

\* A run that has recorded, or ended, builds no more.
LEMMA EndedRunsBuildNothing ==
    ASSUME StateTypeOK, [Next]_vars, NEW q \in Runs, job[q].pc \in AfterRecording
    PROVE  built'[q] = built[q] /\ job'[q].pc \in AfterRecording
<1>1. CASE World \/ UNCHANGED vars
  BY <1>1 DEF World, Tick, EditCode, NewData, RewriteSources, DropRelation, vars
<1>2. ASSUME NEW r \in Runs, Begin(r) \/ Progress(r) \/ Failure(r)
      PROVE  built'[q] = built[q] /\ job'[q].pc \in AfterRecording
  <2>1. CASE q = r
    <3>1. CASE WriteLedger(r)
      <4>1. built' = built /\ job'[r] = [Idle("done") EXCEPT !.error = job[r].error]
        BY <3>1, BecomesFacts DEF WriteLedger
      <4> QED BY <2>1, <4>1 DEF Idle, AfterRecording
    <3>2. CASE Kill(r)
      <4>1. built' = built /\ job'[r] = Idle("killed")
        BY <3>2, BecomesFacts DEF Kill
      <4> QED BY <2>1, <4>1 DEF Idle, AfterRecording
    <3>3. ASSUME ~WriteLedger(r), ~Kill(r) PROVE FALSE
      BY <1>2, <2>1, <3>3
      DEF Begin, Progress, Failure, Measure, PrepareUnmeasured, PrepareNothing, MayBegin,
          PrepareMeasured, PrepareMeasureFailed, Load, OpenState, ReadVersions, Plan, Start,
          Execution, BeginNode, FinishNode, FailNode, SkipNode, Pending, ExecutorFails, Recording,
          RecordRefused, RecordNothing, RecordCommit, RecordConflict, RecordFails, Finished,
          AfterRecording
    <3> QED BY <3>1, <3>2, <3>3
  <2>2. CASE q # r
    <3>1. PICK j : Becomes(r, j)
      BY <1>2
      DEF Begin, Progress, Failure, Measure, PrepareUnmeasured, PrepareNothing,
          PrepareMeasured, PrepareMeasureFailed, Load, OpenState, ReadVersions, Plan, Start,
          Execution, BeginNode, FinishNode, FailNode, SkipNode, ExecutorFails, Recording,
          RecordRefused, RecordNothing, RecordCommit, RecordConflict, RecordFails, NotRecorded,
          Recorded, WriteLedger, Kill
    <3>2. built' = built \/ \E n \in Nodes : FinishNode(r, n)
      BY <1>2
      DEF Begin, Progress, Failure, Measure, PrepareUnmeasured, PrepareNothing,
          PrepareMeasured, PrepareMeasureFailed, Load, OpenState, ReadVersions, Plan, Start,
          Execution, BeginNode, FailNode, SkipNode, ExecutorFails, Recording,
          RecordRefused, RecordNothing, RecordCommit, RecordConflict, RecordFails, WriteLedger, Kill
    <3>3. built'[q] = built[q]
      BY <2>2, <3>2 DEF FinishNode, StateTypeOK
    <3> QED BY <2>2, <3>1, <3>3, BecomesFacts
  <2> QED BY <2>1, <2>2
<1> QED BY <1>1, <1>2 DEF Next

LEMMA NextRecorded ==
    ASSUME StateTypeOK, ExecutionInv, RecordedInv, [Next]_vars
    PROVE  RecordedInv'
<1>1. CASE hist' = hist
  <2>1. ASSUME NEW i \in DOMAIN hist, NEW n \in Nodes, hist[i].nodes[n] # None
        PROVE  /\ TrueOf(n, hist[i].target, hist[i].nodes[n])'
               /\ job'[hist[i].nodes[n].run].pc \in AfterRecording
    <3>1. hist[i] \in Snapshots
      BY DEF StateTypeOK
    <3>2. hist[i].nodes[n].run \in Runs
      BY <2>1, <3>1 DEF Snapshots, NodeStates
    <3>3. /\ TrueOf(n, hist[i].target, hist[i].nodes[n])
          /\ job[hist[i].nodes[n].run].pc \in AfterRecording
      BY <2>1 DEF RecordedInv, RecordedIsTrue
    <3>4. /\ built'[hist[i].nodes[n].run] = built[hist[i].nodes[n].run]
          /\ job'[hist[i].nodes[n].run].pc \in AfterRecording
      BY <3>2, <3>3, EndedRunsBuildNothing
    <3> QED BY <1>1, <3>3, <3>4 DEF TrueOf
  <2> QED BY <1>1, <2>1 DEF RecordedInv, RecordedIsTrue
<1> QED BY <1>1, CommitRecorded, OnlyCommitsAppend

(***************************************************************************)
(* Versions are not newer than the data, runs may record only what their   *)
(* builds did, and what is recorded happened: the invariant behind         *)
(* RecordedStateIsTrue.                                                    *)
(***************************************************************************)
THEOREM RecordInvariant == Spec => [](VersionsInv /\ ExecutionInv /\ RecordedInv)
<1>1. Init => VersionsInv /\ ExecutionInv /\ RecordedInv
  <2>1. Init => RecordedInv
    BY DEF Init, RecordedInv, RecordedIsTrue
  <2> QED BY <2>1, InitVersions, InitExecution
<1>2. /\ StateTypeOK /\ PhaseOK
      /\ VersionsInv /\ ExecutionInv /\ RecordedInv
      /\ [Next]_vars
      => (VersionsInv /\ ExecutionInv /\ RecordedInv)'
  BY NextVersions, NextExecution, NextRecorded
<1> QED BY <1>1, <1>2, TypesHold, PTL DEF Spec

(***************************************************************************)
(* Every snapshot tells the truth about every node it describes: that run  *)
(* built it, from that code, in that target, with checks that did not      *)
(* fail, from data at least as new as the recorded versions.               *)
(***************************************************************************)
THEOREM RecordedStateIsTrue == Spec => []RecordedIsTrue
<1>1. RecordedInv => RecordedIsTrue
  BY DEF RecordedInv
<1> QED BY <1>1, RecordInvariant, PTL
(***************************************************************************)
(* What a reuse has missed: nothing, when runs do not overlap.             *)
(***************************************************************************)

\* A step of a process: the others stay as they are, and only a process that has begun
\* goes on.
LEMMA StepOfOne ==
    ASSUME StateTypeOK, NEW r \in Runs, Begin(r) \/ Progress(r) \/ Failure(r)
    PROVE  /\ \A q \in Runs : q # r => job'[q] = job[q]
           /\ Begin(r) \/ job[r].pc \notin Ended
<1>1. PICK j : Becomes(r, j)
  BY DEF Begin, Progress, Failure, Measure, PrepareUnmeasured, PrepareNothing,
         PrepareMeasured, PrepareMeasureFailed, Load, OpenState, ReadVersions, Plan, Start,
         Execution, BeginNode, FinishNode, FailNode, SkipNode, ExecutorFails, Recording,
         RecordRefused, RecordNothing, RecordCommit, RecordConflict, RecordFails, NotRecorded,
         Recorded, WriteLedger, Kill
<1>2. Begin(r) \/ job[r].pc \notin Ended
  BY DEF Progress, Failure, PrepareMeasured, PrepareMeasureFailed, Load, OpenState,
         ReadVersions, Plan, Start, Execution, BeginNode, FinishNode, FailNode, SkipNode, Pending,
         ExecutorFails, Recording, RecordRefused, RecordNothing, RecordCommit, RecordConflict,
         RecordFails, Finished, WriteLedger, Kill, Ended
<1> QED BY <1>1, <1>2, BecomesFacts

LEMMA NextAlone ==
    ASSUME StateTypeOK, AloneInv, ~Overlap, [Next]_vars
    PROVE  AloneInv'
<1>1. CASE World \/ UNCHANGED vars
  BY <1>1 DEF World, Tick, EditCode, NewData, RewriteSources, DropRelation, vars, AloneInv
<1>2. ASSUME NEW r \in Runs, Begin(r) \/ Progress(r) \/ Failure(r) PROVE AloneInv'
  <2>1. \A q \in Runs : q # r => job'[q] = job[q]
    BY <1>2, StepOfOne
  <2>2. CASE Begin(r)
    <3>1. \A q \in Runs : job[q].pc \in Ended
      BY <2>2 DEF Begin, Measure, PrepareUnmeasured, PrepareNothing, MayBegin, Active
    <3> QED BY <2>1, <3>1 DEF AloneInv
  <2>3. CASE job[r].pc \notin Ended
    BY <2>1, <2>3 DEF AloneInv
  <2> QED BY <1>2, <2>2, <2>3, StepOfOne
<1> QED BY <1>1, <1>2 DEF Next

(***************************************************************************)
(* Builds.                                                                 *)
(***************************************************************************)

\* A step of a process that finishes no build.
LEMMA BuildsStep ==
    ASSUME StateTypeOK, BuildsInv, NEW r \in Runs, NEW j, Becomes(r, j),
           data' = data, clock' = clock, built' = built,
           \A n \in Nodes : j.read[n] # None => \A s \in Sources : j.read[n][s] <= data[s]
    PROVE  BuildsInv'
<1>1. job'[r] = j /\ \A q \in Runs : q # r => job'[q] = job[q]
  BY BecomesFacts
<1>2. ASSUME NEW q \in Runs, NEW n \in Nodes, job'[q].read[n] # None, NEW s \in Sources
      PROVE  job'[q].read[n][s] <= data[s]
  BY <1>1, <1>2 DEF BuildsInv
<1> QED BY <1>2 DEF BuildsInv

LEMMA WorldBuilds ==
    ASSUME StateTypeOK, BuildsInv, World
    PROVE  BuildsInv'
<1>1. job' = job /\ built' = built
  BY DEF World, Tick, EditCode, NewData, RewriteSources, DropRelation
<1>2. /\ clock \in Int /\ clock' \in Int /\ clock <= clock'
      /\ \A s \in Sources : data[s] \in Int /\ data'[s] \in Int /\ data[s] <= data'[s]
  BY DEF World, Tick, EditCode, NewData, RewriteSources, DropRelation, StateTypeOK, Times
<1>3. ASSUME NEW r \in Runs, NEW n \in Nodes, job[r].read[n] # None, NEW s \in Sources
      PROVE  job[r].read[n][s] <= data'[s]
  <2>1. job[r].read[n] \in [Sources -> 0..MaxVersion]
    <3>1. job[r] \in Jobs
      BY DEF StateTypeOK
    <3> QED BY <1>3, <3>1 DEF Jobs
  <2>2. job[r].read[n][s] \in Int /\ job[r].read[n][s] <= data[s]
    BY <1>3, <2>1 DEF BuildsInv
  <2> QED BY <1>2, <2>2
<1>4. ASSUME NEW r \in Runs, NEW n \in Nodes, built[r][n] # None
      PROVE  /\ built[r][n].at <= clock'
             /\ \A s \in Sources : built[r][n].until[s] <= data'[s]
  <2>1. built[r][n] \in Builds
    BY <1>4 DEF StateTypeOK
  <2>2. /\ built[r][n].at \in Int /\ built[r][n].at <= clock
        /\ \A s \in Sources : built[r][n].until[s] \in Int /\ built[r][n].until[s] <= data[s]
    BY <1>4, <2>1 DEF Builds, Times, BuildsInv
  <2> QED BY <1>2, <2>2
<1> QED BY <1>1, <1>3, <1>4 DEF BuildsInv

\* The build a node finishes, and that there is no other change to the builds.
LEMMA FinishFacts ==
    ASSUME StateTypeOK, NEW r \in Runs, NEW n \in Nodes, FinishNode(r, n)
    PROVE  /\ built'[r][n].at = clock /\ built'[r][n].until = data
           /\ built'[r][n].read = job[r].read[n] /\ job[r].read[n] # None
           /\ \A q \in Runs, m \in Nodes : q # r \/ m # n => built'[q][m] = built[q][m]
           /\ job[r].pc = "running" /\ job'[r].pc = "running" /\ job'[r].read = job[r].read
           /\ job'[r].file = job[r].file /\ job'[r].table = job[r].table
<1>1. PICK checks : FinishNode(r, n)!4!(checks)
  BY DEF FinishNode
<1>2. PICK b : /\ b = [code |-> job[r].code[n], target |-> job[r].target, checks |-> checks,
                       read |-> job[r].read[n], until |-> data, at |-> clock]
               /\ built' = [built EXCEPT ![r][n] = b]
  BY <1>1
<1>3. built'[r][n] = b /\ \A q \in Runs, m \in Nodes : q # r \/ m # n => built'[q][m] = built[q][m]
  BY <1>2 DEF StateTypeOK
<1>4. b.at = clock /\ b.until = data /\ b.read = job[r].read[n]
  BY <1>2
<1>5. PICK x : job'[r] = [job[r] EXCEPT !.result[n] = x]
  BY <1>1, BecomesFacts
<1>6. job[r] \in Jobs
  BY DEF StateTypeOK
<1>7. /\ job'[r].pc = job[r].pc /\ job'[r].read = job[r].read
      /\ job'[r].file = job[r].file /\ job'[r].table = job[r].table
  BY <1>5, <1>6 DEF Jobs
<1> QED BY <1>3, <1>4, <1>7 DEF FinishNode, Pending

LEMMA FinishBuilds ==
    ASSUME StateTypeOK, BuildsInv, NEW r \in Runs, NEW n \in Nodes, FinishNode(r, n)
    PROVE  BuildsInv'
<1>1. data' = data /\ clock' = clock
  BY DEF FinishNode, world
<1>2. \A q \in Runs : job'[q].read = job[q].read
  <2>1. \A q \in Runs : q # r => job'[q] = job[q]
    BY StepOfOne DEF Progress, Execution
  <2> QED BY <2>1, FinishFacts
<1>3. clock \in Int /\ data \in [Sources -> Int]
  BY DEF StateTypeOK, Times
<1>4. /\ built'[r][n].at <= clock
      /\ \A s \in Sources : /\ built'[r][n].read[s] <= built'[r][n].until[s]
                            /\ built'[r][n].until[s] <= data[s]
  BY <1>3, FinishFacts DEF BuildsInv
<1>5. ASSUME NEW q \in Runs, NEW m \in Nodes, built'[q][m] # None
      PROVE  /\ built'[q][m].at <= clock
             /\ \A s \in Sources : /\ built'[q][m].read[s] <= built'[q][m].until[s]
                                   /\ built'[q][m].until[s] <= data[s]
  <2>1. CASE q = r /\ m = n
    BY <1>4, <2>1
  <2>2. CASE q # r \/ m # n
    <3>1. built'[q][m] = built[q][m]
      BY <2>2, FinishFacts
    <3> QED BY <1>5, <3>1 DEF BuildsInv
  <2> QED BY <2>1, <2>2
<1> QED BY <1>1, <1>2, <1>5 DEF BuildsInv

LEMMA NextBuilds ==
    ASSUME StateTypeOK, BuildsInv, [Next]_vars
    PROVE  BuildsInv'
<1>1. CASE UNCHANGED vars
  BY <1>1 DEF vars, BuildsInv
<1>2. ASSUME NEW r \in Runs, Begin(r) \/ Progress(r) \/ Failure(r) PROVE BuildsInv'
  <2>1. job[r] \in Jobs /\ data \in [Sources -> Int]
        /\ \A n \in Nodes : job[r].read[n] # None =>
             \A s \in Sources : job[r].read[n][s] <= data[s]
    BY DEF StateTypeOK, BuildsInv
  <2>2. ASSUME NEW j, Becomes(r, j), j.read = job[r].read \/ j.read = ForNodes(None),
               data' = data, clock' = clock, built' = built
        PROVE  BuildsInv'
    <3>1. \A n \in Nodes : j.read[n] # None => \A s \in Sources : j.read[n][s] <= data[s]
      BY <2>1, <2>2 DEF ForNodes
    <3> QED BY <2>2, <3>1, BuildsStep
  <2>3. CASE Begin(r)
    BY <2>1, <2>2, <2>3 DEF Begin, Measure, PrepareUnmeasured, PrepareNothing, Jobs, world
  <2>4. CASE PrepareMeasured(r) \/ PrepareMeasureFailed(r) \/ Load(r)
    BY <2>1, <2>2, <2>4 DEF PrepareMeasured, PrepareMeasureFailed, Load, Jobs, world
  <2>5. CASE OpenState(r) \/ ReadVersions(r)
    BY <2>1, <2>2, <2>5 DEF OpenState, ReadVersions, Jobs, world
  <2>6. CASE Plan(r)
    BY <2>1, <2>2, <2>6 DEF Plan, PlannedJob, Jobs, world
  <2>7. CASE Start(r) \/ ExecutorFails(r)
    BY <2>1, <2>2, <2>7 DEF Start, ExecutorFails, Jobs, world
  <2>8. ASSUME NEW n \in Nodes, BeginNode(r, n) PROVE BuildsInv'
    <3>1. PICK j : j = [job[r] EXCEPT !.read[n] = data]
      OBVIOUS
    <3>2. /\ Becomes(r, j) /\ data' = data /\ clock' = clock /\ built' = built
      BY <2>8, <3>1 DEF BeginNode, world
    <3>3. j.read[n] = data /\ \A m \in Nodes : m # n => j.read[m] = job[r].read[m]
      BY <2>1, <3>1 DEF Jobs
    <3>4. \A m \in Nodes : j.read[m] # None => \A s \in Sources : j.read[m][s] <= data[s]
      BY <2>1, <3>3
    <3> QED BY <3>2, <3>4, BuildsStep
  <2>9. ASSUME NEW n \in Nodes, FailNode(r, n) \/ SkipNode(r, n) PROVE BuildsInv'
    BY <2>1, <2>2, <2>9 DEF FailNode, SkipNode, Jobs, world
  <2>10. CASE RecordRefused(r) \/ RecordConflict(r) \/ RecordFails(r)
    BY <2>1, <2>2, <2>10 DEF RecordRefused, RecordConflict, RecordFails, NotRecorded, Jobs, world
  <2>11. CASE RecordNothing(r) \/ RecordCommit(r)
    BY <2>1, <2>2, <2>11 DEF RecordNothing, RecordCommit, Recorded, Jobs, world
  <2>12. CASE WriteLedger(r)
    <3>1. [Idle("done") EXCEPT !.error = job[r].error].read = ForNodes(None)
      BY DEF Idle
    <3> QED BY <2>2, <2>12, <3>1 DEF WriteLedger, world
  <2>13. CASE Kill(r)
    <3>1. Idle("killed").read = ForNodes(None)
      BY DEF Idle
    <3> QED BY <2>2, <2>13, <3>1 DEF Kill, world
  <2> QED
    BY <1>2, <2>3, <2>4, <2>5, <2>6, <2>7, <2>8, <2>9, <2>10, <2>11, <2>12, <2>13, FinishBuilds
    DEF Progress, Failure, Execution, Recording
<1> QED BY <1>1, <1>2, WorldBuilds DEF Next

(***************************************************************************)
(* Readings of sources.json, while the runs do not overlap.                *)
(***************************************************************************)

\* A reading that is kept while the clock goes on and builds end now.
LEMMA ReadingStays ==
    ASSUME StateTypeOK, clock' \in Int, clock <= clock',
           NEW reading \in Readings, ReadingOK(reading),
           \A r \in Runs, n \in Nodes : built'[r][n] = built[r][n] \/ built'[r][n].at = clock
    PROVE  ReadingOK(reading)'
<1>1. clock \in Int /\ (reading.at # None => reading.at \in Int /\ reading.at <= clock)
  BY DEF StateTypeOK, Readings, Times, ReadingOK
<1>2. reading.at # None => reading.at <= clock'
  BY <1>1
<1>3. ASSUME NEW r \in Runs, NEW n \in Nodes, built'[r][n] # None
      PROVE  Covers(reading, built'[r][n])
  <2>1. CASE built'[r][n] = built[r][n]
    BY <1>3, <2>1 DEF ReadingOK
  <2>2. CASE built'[r][n].at = clock
    BY <1>1, <2>2 DEF Covers
  <2> QED BY <2>1, <2>2
<1> QED BY <1>2, <1>3 DEF ReadingOK, Covers

\* A reading of the data there is.
LEMMA ReadingOfNow ==
    ASSUME StateTypeOK, BuildsInv, NEW reading, reading.at # None => reading.at <= clock,
           \A s \in Sources : reading.answers[s] # None => reading.answers[s].value = data[s]
    PROVE  ReadingOK(reading)
<1> QED BY DEF ReadingOK, Covers, BuildsInv

LEMMA NothingRead == ReadingOK(NoReading)
  BY DEF ReadingOK, Covers, NoReading

MeasuredOK(j) ==
    j.pc = "measuring" =>
        \A q \in Runs, n \in Nodes : built[q][n] # None =>
            \A s \in Sources : built[q][n].until[s] <= j.queried[s]

\* A step of a process that leaves the time, the builds and sources.json alone.
LEMMA FilesStep ==
    ASSUME StateTypeOK, FilesInv, NEW r \in Runs, NEW j, Becomes(r, j),
           clock' = clock, built' = built, freshness' = freshness,
           ReadingOK(j.file), MeasuredOK(j)
    PROVE  FilesInv'
<1>1. job'[r] = j /\ \A q \in Runs : q # r => job'[q] = job[q]
  BY BecomesFacts
<1>2. \A reading : ReadingOK(reading) => ReadingOK(reading)'
  BY DEF ReadingOK, Covers
<1>3. ASSUME NEW q \in Runs
      PROVE  ReadingOK(job'[q].file) /\ MeasuredOK(job'[q])
  BY <1>1 DEF FilesInv, MeasuredOK
<1>4. ReadingOK(freshness)
  BY DEF FilesInv
<1> QED BY <1>2, <1>3, <1>4 DEF FilesInv, MeasuredOK, ReadingOK, Covers

LEMMA WorldFiles ==
    ASSUME StateTypeOK, BuildsInv, FilesInv, World
    PROVE  FilesInv'
<1>1. job' = job /\ built' = built /\ clock \in Int /\ clock' \in Int /\ clock <= clock'
  BY DEF World, Tick, EditCode, NewData, RewriteSources, DropRelation, StateTypeOK, Times
<1>2. \A reading \in Readings : ReadingOK(reading) => ReadingOK(reading)'
  BY <1>1, ReadingStays
<1>3. \A r \in Runs : job[r].file \in Readings
  BY DEF StateTypeOK, Jobs
<1>4. ReadingOK(freshness)'
  <2>1. CASE RewriteSources
    <3>1. PICK reading : reading = freshness'
      OBVIOUS
    <3>2. /\ reading.at = clock /\ clock' = clock
          /\ \A s \in Sources : reading.answers[s] = FreshnessVersion(data[s])
      BY <2>1, <3>1 DEF RewriteSources
    <3>3. ReadingOK(reading)
      <4>1. \A v : FreshnessVersion(v).value = v
        BY DEF FreshnessVersion, DataVersion
      <4>2. reading.at <= clock /\ \A s \in Sources : reading.answers[s].value = data[s]
        BY <1>1, <3>2, <4>1
      <4> QED BY <4>2, ReadingOfNow
    <3> QED BY <1>1, <3>1, <3>2, <3>3 DEF ReadingOK, Covers
  <2>2. CASE freshness' = freshness
    <3>1. freshness \in Readings /\ ReadingOK(freshness)
      BY DEF StateTypeOK, FilesInv
    <3> QED BY <1>2, <2>2, <3>1 DEF ReadingOK, Covers
  <2> QED BY <2>1, <2>2 DEF World, Tick, EditCode, NewData, DropRelation
<1> QED BY <1>1, <1>2, <1>3, <1>4 DEF FilesInv, ReadingOK, Covers

\* A measurement counts as made when its file is written: with nothing built since it
\* asked, that is as good.
LEMMA MeasuredFiles ==
    ASSUME StateTypeOK, FilesInv, NEW r \in Runs, PrepareMeasured(r)
    PROVE  FilesInv'
<1>1. PICK reading : reading = freshness'
  OBVIOUS
<1>2. /\ reading.at = clock /\ clock' = clock /\ built' = built /\ job[r].pc = "measuring"
      /\ \A s \in Sources : reading.answers[s] = FreshnessVersion(job[r].queried[s])
  BY <1>1 DEF PrepareMeasured, world
<1>3. ReadingOK(reading)
  <2>1. clock \in Int
    BY DEF StateTypeOK, Times
  <2>2. \A s \in Sources : reading.answers[s].value = job[r].queried[s]
    <3>1. \A v : FreshnessVersion(v).value = v
      BY DEF FreshnessVersion, DataVersion
    <3> QED BY <1>2, <3>1
  <2> QED BY <1>2, <2>1, <2>2 DEF ReadingOK, Covers, FilesInv
<1>4. /\ job'[r].pc = "prepared" /\ job'[r].file = job[r].file
      /\ \A q \in Runs : q # r => job'[q] = job[q]
  <2>1. /\ job'[r] = [job[r] EXCEPT !.pc = "prepared", !.use_file = TRUE, !.queried = None]
        /\ \A q \in Runs : q # r => job'[q] = job[q]
    BY BecomesFacts DEF PrepareMeasured
  <2>2. job[r] \in Jobs
    BY DEF StateTypeOK
  <2> QED BY <2>1, <2>2 DEF Jobs
<1>5. \A x : ReadingOK(x) => ReadingOK(x)'
  BY <1>2 DEF ReadingOK, Covers
<1>6. \A q \in Runs : ReadingOK(job'[q].file) /\ MeasuredOK(job'[q])
  BY <1>2, <1>4 DEF FilesInv, MeasuredOK
<1> QED BY <1>1, <1>2, <1>3, <1>6 DEF FilesInv, MeasuredOK, ReadingOK, Covers

LEMMA FinishFiles ==
    ASSUME StateTypeOK, AloneInv, FilesInv, NEW r \in Runs, NEW n \in Nodes, FinishNode(r, n)
    PROVE  FilesInv'
<1>1. /\ clock' = clock /\ freshness' = freshness /\ clock \in Int
      /\ \A q \in Runs : q # r => job'[q] = job[q]
  <2>1. clock' = clock /\ freshness' = freshness /\ clock \in Int
    BY DEF FinishNode, world, StateTypeOK, Times
  <2>2. Progress(r)
    BY DEF Progress, Execution
  <2> QED BY <2>1, <2>2, StepOfOne
<1>2. \A q \in Runs, m \in Nodes : built'[q][m] = built[q][m] \/ built'[q][m].at = clock
  BY FinishFacts
<1>3. \A reading \in Readings : ReadingOK(reading) => ReadingOK(reading)'
  BY <1>1, <1>2, ReadingStays
<1>4. freshness \in Readings /\ \A q \in Runs : job[q].file \in Readings
  BY DEF StateTypeOK, Jobs
<1>5. \A q \in Runs : job'[q].file = job[q].file /\ job'[q].pc = job[q].pc
  BY <1>1, FinishFacts
<1>6. \A q \in Runs : job[q].pc # "measuring"
  BY FinishFacts DEF AloneInv, Ended
<1>7. ReadingOK(freshness)' /\ \A q \in Runs : ReadingOK(job[q].file)'
  <2>1. ASSUME NEW q \in Runs PROVE ReadingOK(job[q].file)'
    <3>1. PICK file : file = job[q].file
      OBVIOUS
    <3>2. ReadingOK(file)'
      BY <1>3, <1>4, <3>1 DEF FilesInv
    <3> QED BY <1>5, <3>1, <3>2 DEF ReadingOK, Covers
  <2>2. ReadingOK(freshness)'
    <3>1. PICK file : file = freshness
      OBVIOUS
    <3>2. ReadingOK(file)'
      BY <1>3, <1>4, <3>1 DEF FilesInv
    <3> QED BY <1>1, <3>1, <3>2 DEF ReadingOK, Covers
  <2> QED BY <2>1, <2>2
<1> QED BY <1>5, <1>6, <1>7 DEF FilesInv

LEMMA NextFiles ==
    ASSUME StateTypeOK, AloneInv, BuildsInv, FilesInv, [Next]_vars
    PROVE  FilesInv'
<1>1. CASE UNCHANGED vars
  BY <1>1 DEF vars, FilesInv, ReadingOK, Covers
<1>2. ASSUME NEW r \in Runs, Begin(r) \/ Progress(r) \/ Failure(r) PROVE FilesInv'
  <2>1. /\ job[r] \in Jobs /\ ReadingOK(job[r].file)
        /\ ReadingOK(freshness) /\ ReadingOK(NoReading)
    BY NothingRead DEF StateTypeOK, FilesInv
  <2>2. ASSUME NEW j, Becomes(r, j), clock' = clock, built' = built, freshness' = freshness,
               j.file \in {job[r].file, freshness, NoReading}, j.pc # "measuring"
        PROVE  FilesInv'
    BY <2>1, <2>2, FilesStep DEF MeasuredOK
  <2>3. ASSUME NEW t \in Targets, Measure(r, t) PROVE FilesInv'
    <3>1. PICK j : j = [job[r] EXCEPT !.pc = "measuring", !.target = t, !.queried = data]
      OBVIOUS
    <3>2. j.file = job[r].file /\ j.queried = data
      BY <2>1, <3>1 DEF Jobs
    <3>3. MeasuredOK(j)
      BY <3>2 DEF MeasuredOK, BuildsInv
    <3>4. Becomes(r, j) /\ clock' = clock /\ built' = built /\ freshness' = freshness
      BY <2>3, <3>1 DEF Measure, world
    <3> QED BY <2>1, <3>2, <3>3, <3>4, FilesStep
  <2>4. ASSUME NEW t \in Targets, PrepareUnmeasured(r, t) \/ PrepareNothing(r, t)
        PROVE  FilesInv'
    BY <2>1, <2>2, <2>4 DEF PrepareUnmeasured, PrepareNothing, Jobs, world
  <2>5. CASE PrepareMeasureFailed(r)
    BY <2>1, <2>2, <2>5 DEF PrepareMeasureFailed, Jobs, world
  <2>6. CASE Load(r)
    BY <2>1, <2>2, <2>6 DEF Load, FileReading, Jobs, world
  <2>7. CASE OpenState(r) \/ ReadVersions(r)
    BY <2>1, <2>2, <2>7 DEF OpenState, ReadVersions, Jobs, world
  <2>8. CASE Plan(r)
    <3>1. PICK requested : Becomes(r, PlannedJob(r, requested))
      BY <2>8 DEF Plan
    <3>2. PICK j : j = PlannedJob(r, requested)
      OBVIOUS
    <3>3. j.file = NoReading /\ j.pc \in {"planned", "recorded"}
      BY <2>1, <3>2 DEF PlannedJob, Jobs
    <3>4. clock' = clock /\ built' = built /\ freshness' = freshness
      BY <2>8 DEF Plan, world
    <3> QED BY <2>2, <3>1, <3>2, <3>3, <3>4
  <2>9. CASE Start(r) \/ ExecutorFails(r)
    BY <2>1, <2>2, <2>9 DEF Start, ExecutorFails, Jobs, world
  <2>10. ASSUME NEW n \in Nodes, BeginNode(r, n) \/ FailNode(r, n) \/ SkipNode(r, n)
         PROVE  FilesInv'
    BY <2>1, <2>2, <2>10 DEF BeginNode, FailNode, SkipNode, Pending, Jobs, world
  <2>11. CASE RecordRefused(r) \/ RecordConflict(r) \/ RecordFails(r)
    BY <2>1, <2>2, <2>11 DEF RecordRefused, RecordConflict, RecordFails, NotRecorded, Jobs, world
  <2>12. CASE RecordNothing(r) \/ RecordCommit(r)
    BY <2>1, <2>2, <2>12 DEF RecordNothing, RecordCommit, Recorded, Jobs, world
  <2>13. CASE WriteLedger(r)
    <3>1. PICK j : j = [Idle("done") EXCEPT !.error = job[r].error]
      OBVIOUS
    <3>2. j.file = NoReading /\ j.pc = "done"
      BY <3>1 DEF Idle
    <3> QED BY <2>2, <2>13, <3>1, <3>2 DEF WriteLedger, world
  <2>14. CASE Kill(r)
    <3>1. Idle("killed").file = NoReading /\ Idle("killed").pc = "killed"
      BY DEF Idle
    <3> QED BY <2>2, <2>14, <3>1 DEF Kill, world
  <2> QED
    BY <1>2, <2>3, <2>4, <2>5, <2>6, <2>7, <2>8, <2>9, <2>10, <2>11, <2>12, <2>13, <2>14,
       MeasuredFiles, FinishFiles
    DEF Begin, Progress, Failure, Execution, Recording
<1> QED BY <1>1, <1>2, WorldFiles DEF Next

(***************************************************************************)
(* Readings of the table versions, whatever the other runs do.             *)
(***************************************************************************)

\* Builds end now, or were there.
LEMMA BuildsEndNow ==
    ASSUME StateTypeOK, [Next]_vars
    PROVE  /\ clock' \in Int /\ clock <= clock'
           /\ \A q \in Runs, m \in Nodes :
                built'[q][m] = built[q][m] \/ built'[q][m].at = clock
<1>1. clock \in Int
  BY DEF StateTypeOK, Times
<1>2. CASE World \/ UNCHANGED vars
  BY <1>1, <1>2 DEF World, Tick, EditCode, NewData, RewriteSources, DropRelation, vars
<1>3. ASSUME NEW r \in Runs, NEW n \in Nodes, FinishNode(r, n)
      PROVE  /\ clock' = clock
             /\ \A q \in Runs, m \in Nodes :
                  built'[q][m] = built[q][m] \/ built'[q][m].at = clock
  BY <1>3, FinishFacts DEF FinishNode, world
<1>4. ASSUME NEW r \in Runs, Begin(r) \/ Progress(r) \/ Failure(r),
             ~\E n \in Nodes : FinishNode(r, n)
      PROVE  clock' = clock /\ built' = built
  BY <1>4
  DEF Begin, Progress, Failure, Measure, PrepareUnmeasured, PrepareNothing, PrepareMeasured,
      PrepareMeasureFailed, Load, OpenState, ReadVersions, Plan, Start, Execution, BeginNode,
      FailNode, SkipNode, ExecutorFails, Recording, RecordRefused, RecordNothing, RecordCommit,
      RecordConflict, RecordFails, WriteLedger, Kill, world
<1> QED BY <1>1, <1>2, <1>3, <1>4 DEF Next

\* A step of a process after which its table versions are as good as before.
LEMMA TablesStep ==
    ASSUME StateTypeOK, TablesInv, [Next]_vars, NEW r \in Runs, NEW j, Becomes(r, j),
           j.table \in Readings, ReadingOK(j.table),
           j.pc \in BeforeTables => j.table = NoReading
    PROVE  TablesInv'
<1>1. job'[r] = j /\ \A q \in Runs : q # r => job'[q] = job[q]
  BY BecomesFacts
<1>2. ASSUME NEW q \in Runs
      PROVE  /\ job'[q].table \in Readings /\ ReadingOK(job'[q].table)
             /\ job'[q].pc \in BeforeTables => job'[q].table = NoReading
  BY <1>1 DEF TablesInv, StateTypeOK, Jobs
<1>3. ASSUME NEW q \in Runs PROVE ReadingOK(job[q].table)'
  <2>1. PICK table : table = job'[q].table
    OBVIOUS
  <2>2. ReadingOK(table)'
    BY <1>2, <2>1, BuildsEndNow, ReadingStays
  <2> QED BY <2>1, <2>2 DEF ReadingOK, Covers
<1> QED BY <1>2, <1>3 DEF TablesInv

\* Table versions are stamped with the time before they are read: a build that ended in
\* an earlier second is covered by them, whichever run it is of.
LEMMA NextTables ==
    ASSUME StateTypeOK, PhaseOK, BuildsInv, TablesInv, [Next]_vars
    PROVE  TablesInv'
<1>1. CASE World \/ UNCHANGED vars
  <2>1. job' = job
    BY <1>1 DEF World, Tick, EditCode, NewData, RewriteSources, DropRelation, vars
  <2>2. ASSUME NEW q \in Runs PROVE ReadingOK(job[q].table)'
    <3>1. PICK table \in Readings : table = job[q].table
      BY DEF StateTypeOK, Jobs
    <3>2. ReadingOK(table)'
      BY <3>1, BuildsEndNow, ReadingStays DEF TablesInv
    <3> QED BY <2>1, <3>1, <3>2 DEF ReadingOK, Covers
  <2> QED BY <2>1, <2>2 DEF TablesInv
<1>2. ASSUME NEW r \in Runs, Begin(r) \/ Progress(r) \/ Failure(r) PROVE TablesInv'
  <2>1. /\ job[r] \in Jobs /\ job[r].table \in Readings /\ ReadingOK(job[r].table)
        /\ job[r].pc \in BeforeTables => job[r].table = NoReading
        /\ ReadingOK(NoReading) /\ NoReading \in Readings
    BY NothingRead DEF StateTypeOK, TablesInv, Jobs, NoReading, Readings, DataVersions
  <2>2. ASSUME NEW j, Becomes(r, j), j.table = job[r].table,
               j.pc \notin BeforeTables \/ job[r].pc \in BeforeTables
        PROVE  TablesInv'
    BY <2>1, <2>2, TablesStep
  <2>3. ASSUME NEW j, Becomes(r, j), j.table = NoReading PROVE TablesInv'
    BY <2>1, <2>3, TablesStep
  <2>4. CASE Begin(r)
    BY <2>1, <2>2, <2>4
    DEF Begin, Measure, PrepareUnmeasured, PrepareNothing, MayBegin, Jobs, BeforeTables
  <2>5. CASE PrepareMeasured(r) \/ PrepareMeasureFailed(r) \/ Load(r)
    BY <2>1, <2>2, <2>5 DEF PrepareMeasured, PrepareMeasureFailed, Load, Jobs, BeforeTables
  <2>6. CASE OpenState(r)
    <3>1. PICK j : j = [job[r] EXCEPT !.pc = IF TableVersions THEN "opened" ELSE "ready",
                                      !.base = Len(hist),
                                      !.table.at = IF TableVersions THEN clock ELSE None]
      OBVIOUS
    <3>2. Becomes(r, j) /\ job[r].table = NoReading
      BY <2>1, <2>6, <3>1 DEF OpenState, BeforeTables
    <3>3. /\ j.pc \in {"opened", "ready"}
          /\ j.table = [job[r].table EXCEPT !.at = IF TableVersions THEN clock ELSE None]
      BY <2>1, <3>1 DEF Jobs
    <3>4. /\ j.table.at \in {clock, None} /\ j.table \in Readings
          /\ \A s \in Sources : j.table.answers[s] = None
      <4>1. clock \in Times
        BY DEF StateTypeOK
      <4>2. j.table.at \in {clock, None} /\ \A s \in Sources : j.table.answers[s] = None
        BY <3>2, <3>3 DEF NoReading
      <4> QED BY <2>1, <3>3, <4>1, <4>2 DEF Readings
    <3>5. ReadingOK(j.table)
      <4>1. clock \in Int
        BY DEF StateTypeOK, Times
      <4> QED BY <3>4, <4>1 DEF ReadingOK, Covers
    <3> QED BY <3>2, <3>3, <3>4, <3>5, TablesStep DEF BeforeTables
  <2>7. CASE ReadVersions(r)
    <3>1. PICK answered : Becomes(r, [job[r] EXCEPT !.pc = "ready",
                                   !.table.answers = [s \in Sources |->
                                    IF answered THEN TableVersion(data[s]) ELSE None]])
      BY <2>7 DEF ReadVersions
    <3>2. PICK j : j = [job[r] EXCEPT !.pc = "ready",
                                   !.table.answers = [s \in Sources |->
                                    IF answered THEN TableVersion(data[s]) ELSE None]]
      OBVIOUS
    <3>3. /\ j.pc = "ready" /\ j.table.at = job[r].table.at
          /\ j.table.answers = [s \in Sources |->
                                  IF answered THEN TableVersion(data[s]) ELSE None]
      BY <2>1, <3>2 DEF Jobs, Readings
    <3>4. \A s \in Sources : j.table.answers[s] # None => j.table.answers[s].value = data[s]
      BY <3>3 DEF TableVersion, DataVersion
    <3>5. j.table.at # None => j.table.at <= clock
      BY <2>1, <3>3 DEF ReadingOK
    <3>6. ReadingOK(j.table)
      BY <3>4, <3>5, ReadingOfNow
    <3>7. j.table \in Readings
      <4>1. job'[r] = j /\ job'[r] \in Jobs
        BY <3>1, <3>2, BecomesFacts, NextType DEF StateTypeOK
      <4> QED BY <4>1 DEF Jobs
    <3> QED BY <3>1, <3>2, <3>3, <3>6, <3>7, TablesStep DEF BeforeTables
  <2>8. CASE Plan(r)
    <3>1. PICK requested : Becomes(r, PlannedJob(r, requested))
      BY <2>8 DEF Plan
    <3>2. PICK j : j = PlannedJob(r, requested)
      OBVIOUS
    <3>3. j.table = job[r].table /\ j.pc \in {"planned", "recorded"}
      BY <2>1, <3>2 DEF PlannedJob, Jobs
    <3> QED BY <2>2, <3>1, <3>2, <3>3 DEF BeforeTables
  <2>9. CASE Start(r) \/ ExecutorFails(r)
    BY <2>1, <2>2, <2>9 DEF Start, ExecutorFails, Jobs, BeforeTables
  <2>10. ASSUME NEW n \in Nodes, BeginNode(r, n) \/ FailNode(r, n) \/ SkipNode(r, n)
         PROVE  TablesInv'
    BY <2>1, <2>2, <2>10 DEF BeginNode, FailNode, SkipNode, Pending, Jobs, BeforeTables
  <2>11. ASSUME NEW n \in Nodes, FinishNode(r, n) PROVE TablesInv'
    BY <2>1, <2>2, <2>11 DEF FinishNode, Pending, Jobs, BeforeTables
  <2>12. CASE RecordRefused(r) \/ RecordConflict(r) \/ RecordFails(r)
    BY <2>1, <2>2, <2>12
    DEF RecordRefused, RecordConflict, RecordFails, NotRecorded, Jobs, BeforeTables
  <2>13. CASE RecordNothing(r) \/ RecordCommit(r)
    BY <2>1, <2>2, <2>13 DEF RecordNothing, RecordCommit, Recorded, Jobs, BeforeTables
  <2>14. CASE WriteLedger(r)
    <3>1. [Idle("done") EXCEPT !.error = job[r].error].table = NoReading
      BY DEF Idle
    <3> QED BY <2>3, <2>14, <3>1 DEF WriteLedger
  <2>15. CASE Kill(r)
    <3>1. Idle("killed").table = NoReading
      BY DEF Idle
    <3> QED BY <2>3, <2>15, <3>1 DEF Kill
  <2> QED
    BY <1>2, <2>4, <2>5, <2>6, <2>7, <2>8, <2>9, <2>10, <2>11, <2>12, <2>13, <2>14, <2>15
    DEF Progress, Failure, Execution, Recording
<1> QED BY <1>1, <1>2 DEF Next

(***************************************************************************)
(* Plans.                                                                  *)
(***************************************************************************)

\* What the state a run is based on says is true.
LEMMA PreviousIsTrue ==
    ASSUME StateTypeOK, IdsOK, RecordedInv, NEW r \in Runs, NEW n \in Nodes,
           Previous(r)[n] # None
    PROVE  /\ TrueOf(n, job[r].target, Previous(r)[n])
           /\ Previous(r)[n] \in NodeStates
           /\ job[Previous(r)[n].run].pc \in AfterRecording
           /\ job[r].base \in 1..Len(hist)
<1>1. InTarget(r)
  BY DEF Previous, ForNodes
<1>2. job[r].base \in 1..Len(hist)
  <2>1. job[r] \in Jobs /\ Len(hist) \in Nat
    BY DEF StateTypeOK
  <2> QED BY <1>1, <2>1 DEF Jobs, InTarget, IdsOK
<1>3. job[r].base \in DOMAIN hist /\ hist[job[r].base] \in Snapshots
  BY <1>2 DEF StateTypeOK
<1>4. Previous(r) = hist[job[r].base].nodes /\ hist[job[r].base].target = job[r].target
  BY <1>1 DEF Previous, InTarget
<1> QED BY <1>2, <1>3, <1>4 DEF RecordedInv, RecordedIsTrue, Snapshots

\* An input that is unchanged since a build was all there when the build ended.
LEMMA UnchangedInput ==
    ASSUME StateTypeOK, IdsOK, RecordedInv, BuildsInv, TablesInv, ~Overlap => FilesInv,
           NEW r \in Runs, NEW n \in Nodes, Previous(r)[n] # None,
           NEW s \in Sources, Trusted(r, s), NEW fp, NEW facts,
           SourceInput(Project(fp, ChooseSourceVersions(job[r].table, job[r].file), facts),
                       Previous(r)[n], s) = "unchanged"
    PROVE  built[Previous(r)[n].run][n].read[s] = built[Previous(r)[n].run][n].until[s]
<1>1. PICK before, b, chosen : /\ before = Previous(r)[n] /\ b = built[before.run][n]
                               /\ chosen = ChooseSourceVersion(job[r].table, job[r].file, s)
  OBVIOUS
<1>2. PICK pr : pr = Project(fp, ChooseSourceVersions(job[r].table, job[r].file), facts)
  OBVIOUS
<1>3. pr.version[s] = chosen.version /\ pr.observed[s] = chosen.observed
  BY <1>1, <1>2 DEF Project, ChooseSourceVersions
<1>4. /\ chosen.version # None /\ chosen.version = before.inputs[s]
      /\ chosen.observed # None /\ before.built_at < chosen.observed
  BY <1>1, <1>2, <1>3 DEF SourceInput
<1>5. before \in NodeStates /\ TrueOf(n, job[r].target, before)
  BY <1>1, PreviousIsTrue
<1>6. /\ b # None /\ b.at = before.built_at
      /\ before.inputs[s].value <= b.read[s]
  BY <1>1, <1>4, <1>5 DEF TrueOf
<1>7. before.run \in Runs
  BY <1>5 DEF NodeStates
<1>8. b.until[s] <= chosen.version.value
  <2>1. Covers(job[r].table, b) /\ (~Overlap => Covers(job[r].file, b))
    BY <1>1, <1>6, <1>7 DEF TablesInv, FilesInv, ReadingOK
  <2>2. CASE job[r].table.answers[s] # None
    BY <1>1, <1>4, <1>6, <2>1, <2>2 DEF ChooseSourceVersion, Covers
  <2>3. CASE job[r].table.answers[s] = None
    BY <1>1, <1>4, <1>6, <2>1, <2>3 DEF ChooseSourceVersion, Covers, Trusted
  <2> QED BY <2>2, <2>3
<1>9. b.read[s] <= b.until[s]
  BY <1>1, <1>6, <1>7 DEF BuildsInv
<1>10. /\ b.read[s] \in Int /\ b.until[s] \in Int /\ chosen.version.value \in Int
  <2>1. b \in Builds
    BY <1>1, <1>6, <1>7 DEF StateTypeOK
  <2>2. before.inputs[s] \in [value : 0..MaxVersion, exactness : {"Semantic", "Exact"},
                              origin : {"sources.json max_loaded_at", "table_version"}]
    BY <1>4, <1>5 DEF NodeStates, DataVersions
  <2>3. before.inputs[s].value \in 0..MaxVersion
    BY <2>2
  <2>4. b.read[s] \in 0..MaxVersion /\ b.until[s] \in 0..MaxVersion
    BY <2>1 DEF Builds
  <2> QED BY <1>4, <2>3, <2>4
<1>11. b.read[s] = b.until[s]
  BY <1>4, <1>6, <1>8, <1>9, <1>10
<1> QED BY <1>1, <1>11

LEMMA PlanSees ==
    ASSUME StateTypeOK, IdsOK, RecordedInv, BuildsInv, TablesInv, ~Overlap => FilesInv,
           NEW r \in Runs, NEW selected, NEW refresh, NEW answered,
           NEW n \in Reused(PlanOf(r, selected, refresh, answered)),
           PlanOf(r, selected, refresh, answered)[n].code = "Unchanged"
    PROVE  SawEverything(r, n)
<1>1. PICK d : d = PlanOf(r, selected, refresh, answered)
  OBVIOUS
<1>2. PICK chosen, prev : /\ chosen = ChooseSourceVersions(job[r].table, job[r].file)
                          /\ prev = Previous(r)
  OBVIOUS
<1>3. PICK fp, facts, opt :
        d = PlanWith(Project(fp, chosen, facts), prev, selected, clock, opt)
  BY <1>1, <1>2 DEF PlanOf
<1>4. PICK pr : pr = Project(fp, chosen, facts)
  OBVIOUS
<1>5. pr.parents = ParentsOf /\ Ordered(pr.parents)
  BY <1>4, StateRunAssumption DEF Project
<1>6. d = [m \in Nodes |-> PlanNode(pr, prev, selected, clock, opt, d, m)]
  BY <1>3, <1>4, <1>5, PlanUnfolds
<1>7. n \in Nodes /\ d[n].action = Reuse /\ d[n].code = "Unchanged"
  BY <1>1 DEF Reused
<1>8. d[n] = Decide(pr, prev, d, n, clock)
  BY <1>6, <1>7, ReuseWasDecided
<1>9. /\ prev[n] # None
      /\ Inputs(pr, prev, d, n) \cap {"missing", "new_data"} = {}
  BY <1>7, <1>8, ReuseHasEvidence
<1>10. ASSUME NEW s \in ParentsOf[n] \cap Sources
       PROVE  SourceInput(pr, prev[n], s) = "unchanged"
  <2>1. SourceInput(pr, prev[n], s) \in Inputs(pr, prev, d, n)
    BY <1>5 DEF Inputs
  <2>2. SourceInput(pr, prev[n], s) \in {"unchanged", "new_data", "missing"}
    BY DEF SourceInput
  <2> QED BY <1>9, <2>1, <2>2
<1>11. ASSUME NEW s \in ParentsOf[n] \cap Sources, Trusted(r, s)
       PROVE  built[Previous(r)[n].run][n].read[s] = built[Previous(r)[n].run][n].until[s]
  BY <1>2, <1>4, <1>7, <1>9, <1>10, <1>11, UnchangedInput
<1> QED BY <1>2, <1>9, <1>11 DEF SawEverything

\* The builds a plan was made from stay, and so does the state it was made from.
LEMMA SawEverythingStays ==
    ASSUME StateTypeOK, IdsOK, RecordedInv, [Next]_vars, NEW r \in Runs, NEW n \in Nodes,
           job'[r].base = job[r].base, job'[r].target = job[r].target,
           job'[r].table = job[r].table, SawEverything(r, n)
    PROVE  SawEverything(r, n)'
<1>1. Previous(r)[n] # None
  BY DEF SawEverything
<1>2. job[r].base \in 1..Len(hist) /\ Previous(r)[n].run \in Runs
      /\ job[Previous(r)[n].run].pc \in AfterRecording
  BY <1>1, PreviousIsTrue DEF NodeStates
<1>3. hist'[job[r].base] = hist[job[r].base]
  <2>1. CASE hist' = hist
    BY <2>1
  <2>2. ASSUME NEW q \in Runs, RecordCommit(q) PROVE hist'[job[r].base] = hist[job[r].base]
    BY <1>2, <2>2, AppendFacts
  <2> QED BY <2>1, <2>2, OnlyCommitsAppend
<1>4. Previous(r)' = Previous(r)
  BY <1>3 DEF Previous, InTarget, ForNodes
<1>5. built'[Previous(r)[n].run] = built[Previous(r)[n].run]
  BY <1>2, EndedRunsBuildNothing
<1> QED BY <1>4, <1>5 DEF SawEverything, Trusted

LEMMA NextReuse ==
    ASSUME StateTypeOK, plan \in [Runs -> [Nodes -> Decision]], IdsOK, RecordedInv, BuildsInv,
           TablesInv, ~Overlap => FilesInv, ReuseInv, [Next]_vars
    PROVE  ReuseInv'
<1> DEFINE Fine(r) ==
      /\ job'[r].pc \notin {"planned", "recorded"} => Reused(plan'[r]) = {}
      /\ \A n \in Reused(plan'[r]) : plan'[r][n].code = "Unchanged" => SawEverything(r, n)'
<1> SUFFICES ASSUME NEW r \in Runs PROVE Fine(r)
  BY DEF ReuseInv, Reused
<1>1. CASE job'[r] = job[r] /\ plan'[r] = plan[r]
  <2>1. \A n \in Reused(plan[r]) : n \in Nodes /\ (plan[r][n].code = "Unchanged" => SawEverything(r, n))
    BY DEF ReuseInv, Reused
  <2> QED BY <1>1, <2>1, SawEverythingStays DEF ReuseInv
<1>2. CASE Reused(plan'[r]) = {}
  BY <1>2
<1>3. CASE World \/ UNCHANGED vars
  <2>1. job' = job /\ plan' = plan
    BY <1>3 DEF World, Tick, EditCode, NewData, RewriteSources, DropRelation, vars
  <2> QED BY <1>1, <2>1
<1>4. ASSUME NEW q \in Runs, Begin(q) \/ Progress(q) \/ Failure(q), q # r PROVE Fine(r)
  <2>1. job'[r] = job[r]
    BY <1>4, StepOfOne
  <2>2. plan'[r] = plan[r]
    BY <1>4, PlanSteps DEF Plan
  <2> QED BY <1>1, <2>1, <2>2
<1>5. CASE Plan(r)
  <2>1. PICK selected, refresh, answered :
          /\ plan' = [plan EXCEPT ![r] = PlanOf(r, selected, refresh, answered)]
          /\ Becomes(r, PlannedJob(r, Requested(selected, PlanOf(r, selected, refresh, answered))))
    BY <1>5 DEF Plan
  <2>2. plan'[r] = PlanOf(r, selected, refresh, answered)
    BY <2>1
  <2>3. PICK requested : job'[r] = PlannedJob(r, requested)
    BY <2>1, BecomesFacts
  <2>4. /\ job'[r].base = job[r].base /\ job'[r].target = job[r].target
        /\ job'[r].table = job[r].table
        /\ job'[r].pc \in {"planned", "recorded"}
    <3>1. job[r] \in Jobs
      BY DEF StateTypeOK
    <3> QED BY <2>3, <3>1 DEF PlannedJob, Jobs
  <2>5. ASSUME NEW n \in Reused(plan'[r]), plan'[r][n].code = "Unchanged"
        PROVE  SawEverything(r, n)'
    <3>1. SawEverything(r, n) /\ n \in Nodes
      BY <2>2, <2>5, PlanSees DEF Reused
    <3> QED BY <2>4, <3>1, SawEverythingStays
  <2> QED BY <2>4, <2>5
<1>6. CASE Begin(r) \/ Progress(r) \/ Failure(r)
  <2>1. CASE plan' = [plan EXCEPT ![r] = NoPlan]
    <3>1. plan'[r] = NoPlan
      BY <2>1
    <3> QED BY <1>2, <3>1, NoPlanType
  <2>2. CASE plan' = plan /\ job[r].pc \notin {"planned", "recorded"}
    BY <1>2, <2>2 DEF ReuseInv
  <2> QED BY <1>5, <1>6, <2>1, <2>2, PlanSteps
<1> QED BY <1>3, <1>4, <1>6 DEF Next

ReuseBasis ==
    BuildsInv /\ TablesInv /\ (~Overlap => AloneInv /\ FilesInv) /\ ReuseInv

\* For overlapping runs or not, what a plan that reuses rests on.
THEOREM ReuseInvariant == Spec => []ReuseBasis
<1>1. Init => ReuseBasis
  <2> SUFFICES ASSUME Init PROVE ReuseBasis
    OBVIOUS
  <2>1. \A r \in Runs : /\ job[r].pc = "new" /\ job[r].read = ForNodes(None)
                        /\ job[r].file = NoReading /\ job[r].table = NoReading
    BY DEF Init, Idle
  <2>2. /\ freshness = NoReading
        /\ \A r \in Runs, n \in Nodes : built[r][n] = None
        /\ \A r \in Runs : Reused(plan[r]) = {}
    BY NoPlanType DEF Init
  <2>3. AloneInv
    BY <2>1 DEF AloneInv, Ended
  <2>4. BuildsInv
    BY <2>1, <2>2 DEF BuildsInv, ForNodes
  <2>5. FilesInv /\ TablesInv
    BY <2>1, <2>2, NothingRead DEF FilesInv, TablesInv
  <2>6. ReuseInv
    BY <2>2 DEF ReuseInv
  <2> QED BY <2>3, <2>4, <2>5, <2>6 DEF ReuseBasis
<1>2. TypeOK /\ RecordedInv /\ ReuseBasis /\ [Next]_vars => ReuseBasis'
  <2> SUFFICES ASSUME TypeOK, RecordedInv, ReuseBasis, [Next]_vars PROVE ReuseBasis'
    OBVIOUS
  <2>1. BuildsInv' /\ TablesInv'
    BY NextBuilds, NextTables DEF TypeOK, ReuseBasis
  <2>2. ~Overlap => AloneInv' /\ FilesInv'
    BY NextAlone, NextFiles DEF TypeOK, ReuseBasis
  <2>3. ReuseInv'
    BY NextReuse DEF TypeOK, ReuseBasis
  <2> QED BY <2>1, <2>2, <2>3 DEF ReuseBasis
<1> QED BY <1>1, <1>2, RunTypesHold, RecordInvariant, PTL DEF Spec

(***************************************************************************)
(* When runs do not overlap, a build that is reused because its inputs are *)
(* unchanged saw all the data there was when it ended, for any project,    *)
(* with table versions or without.  run_freshness shows that the condition *)
(* is needed: a measurement stamps its file when it writes it, and a build *)
(* of another run may have ended since it asked.                           *)
(***************************************************************************)
THEOREM ReuseIsCurrent ==
    ASSUME ~Overlap
    PROVE  Spec => []ReuseMissesNothing
<1>1. ReuseBasis => ReuseMissesNothing
  BY DEF ReuseBasis, ReuseInv, ReuseMissesNothing, ReusedBy, SawEverything, Trusted
<1> QED BY <1>1, ReuseInvariant, PTL

\* A build that is reused on the versions its source tables report saw all the data those
\* sources had when it ended (source_input, read_table_versions).
TableReuseMissesNothing ==
    \A r \in Runs : \A n \in ReusedBy(r) :
        plan[r][n].code = "Unchanged" =>
            LET b == built[Previous(r)[n].run][n]
            IN  \A s \in ParentsOf[n] \cap Sources :
                    job[r].table.answers[s] # None => b.read[s] = b.until[s]

(***************************************************************************)
(* The same of overlapping runs, for every source the warehouse reports a  *)
(* table version of: however the runs interleave, only versions that come  *)
(* from sources.json can hide data from a reuse.  The time of a table      *)
(* version is taken before the version is read (read_table_versions), the  *)
(* time of a measurement after it.                                         *)
(***************************************************************************)
THEOREM TableReuseIsCurrent == Spec => []TableReuseMissesNothing
<1>1. ReuseBasis => TableReuseMissesNothing
  BY DEF ReuseBasis, ReuseInv, TableReuseMissesNothing, ReusedBy, SawEverything, Trusted
<1> QED BY <1>1, ReuseInvariant, PTL

(***************************************************************************)
(* That runs end.  Liveness and ENABLED are TLC's (EveryRunEnds,           *)
(* NoRunIsStuck); what they rest on is not temporal: in every phase the    *)
(* guard of a step of the run's own holds, and each of its steps brings it *)
(* closer to its end, in a finite project finitely often.                  *)
(***************************************************************************)

\* The guards of Progress: a phase that only waits for itself, results to record, or a
\* node that dbt can build, fail or skip.
CanGoOn(r) ==
    \/ job[r].pc \in {"measuring", "prepared", "loaded", "opened", "ready", "planned", "recorded"}
    \/ Finished(r)
    \/ \E n \in Nodes : Pending(r, n) /\ (UpstreamSucceeded(r, n) \/ UpstreamDidNot(r, n))

\* No run waits for another, or for a node whose parents will never have a result.
NoRunWaits == \A r \in Active : CanGoOn(r)

\* Of the nodes that wait for a result, one has none of its parents among them.
LEMMA FirstPending ==
    ASSUME NEW S, S \subseteq Nodes, S # {}
    PROVE  \E n \in S : ParentsOf[n] \cap S = {}
<1>1. PICK depth \in [Nodes -> 0..Cardinality(Nodes)] :
        \A n \in Nodes : \A p \in ParentsOf[n] \cap Nodes : depth[p] < depth[n]
  BY StateRunAssumption DEF Ordered
<1>2. Cardinality(Nodes) \in Nat
  BY NodesAreFinite, FS_CardinalityType
<1>3. \A n \in Nodes : depth[n] \in Nat
  BY <1>1, <1>2
<1>4. PICK D : D = {depth[n] : n \in S}
  OBVIOUS
<1>5. PICK x \in D : \A y \in D : x <= y
  <2>1. D \subseteq Nat /\ D # {}
    BY <1>3, <1>4
  <2> QED BY <2>1, LeastNumber
<1>6. PICK n \in S : x = depth[n]
  BY <1>4, <1>5
<1>7. ASSUME NEW p \in ParentsOf[n] \cap S PROVE FALSE
  <2>1. depth[p] < depth[n] /\ depth[p] \in D /\ p \in Nodes /\ n \in Nodes
    BY <1>1, <1>4, <1>6, <1>7
  <2>2. depth[p] \in Nat /\ depth[n] \in Nat /\ depth[n] <= depth[p]
    BY <1>3, <1>5, <1>6, <2>1
  <2> QED BY <2>1, <2>2
<1> QED BY <1>6, <1>7

\* For any number of overlapping runs of any project, a run that has not ended can go on:
\* whatever became of a node's parents, it is built, fails or is skipped (execute), and
\* whatever became of the manifest and the head, there is a way to record (record).
THEOREM NoRunEverWaits == Spec => []NoRunWaits
<1>1. StateTypeOK => NoRunWaits
  <2> SUFFICES ASSUME StateTypeOK, NEW r \in Active PROVE CanGoOn(r)
    BY DEF NoRunWaits
  <2>1. r \in Runs /\ job[r] \in Jobs /\ job[r].pc \notin Ended
    BY DEF Active, StateTypeOK
  <2>2. CASE job[r].pc # "running"
    <3>1. job[r].pc \in Ended \cup {"measuring", "prepared", "loaded", "opened", "ready",
                                    "planned", "running", "recorded"}
      BY <2>1 DEF Jobs
    <3> QED BY <2>1, <2>2, <3>1 DEF CanGoOn
  <2>3. CASE job[r].pc = "running" /\ ~Finished(r)
    <3>1. PICK S : S = {n \in job[r].requested : job[r].result[n] = None}
      OBVIOUS
    <3>2. job[r].requested \subseteq Nodes
      BY <2>1 DEF Jobs
    <3>3. S \subseteq Nodes /\ S # {}
      BY <2>3, <3>1, <3>2 DEF Finished
    <3>4. PICK n \in S : ParentsOf[n] \cap S = {}
      BY <3>3, FirstPending
    <3>5. n \in Nodes /\ Pending(r, n)
      BY <2>3, <3>1, <3>3, <3>4 DEF Pending
    <3>6. \A p \in Upstream(r, n) : job[r].result[p] # None
      BY <3>1, <3>4 DEF Upstream
    <3>7. UpstreamSucceeded(r, n) \/ UpstreamDidNot(r, n)
      BY <3>6 DEF UpstreamSucceeded, UpstreamDidNot
    <3> QED BY <3>5, <3>7 DEF CanGoOn
  <2>4. CASE Finished(r)
    BY <2>4 DEF CanGoOn
  <2> QED BY <2>2, <2>3, <2>4
<1> QED BY <1>1, TypesHold, PTL

\* The phases in the order a run goes through them.
Place(pc) ==
    CASE pc = "new" -> 0 [] pc = "measuring" -> 1 [] pc = "prepared" -> 2 [] pc = "loaded" -> 3
      [] pc = "opened" -> 4 [] pc = "ready" -> 5 [] pc = "planned" -> 6 [] pc = "running" -> 7
      [] pc = "recorded" -> 8 [] OTHER -> 9

Unread(j) == {n \in j.requested : j.read[n] = None}
Unbuilt(j) == {n \in j.requested : j.result[n] = None}

\* A later phase, or one node less that has not begun, or one less without a result.
Closer(old, new) ==
    \/ Place(old.pc) < Place(new.pc)
    \/ /\ old.pc = "running" /\ new.pc = "running" /\ new.requested = old.requested
       /\ Unread(new) \subseteq Unread(old) /\ Unbuilt(new) \subseteq Unbuilt(old)
       /\ Unread(new) # Unread(old) \/ Unbuilt(new) # Unbuilt(old)

\* A step of r, or one that changes its process, brings it closer to its end.
StepsGetCloser(r) == Progress(r) \/ job'[r] # job[r] => Closer(job[r], job'[r])

\* A node of a running process that begins or has a result.
LEMMA NodeGetsCloser ==
    ASSUME StateTypeOK, NEW r \in Runs, Execution(r)
    PROVE  Closer(job[r], job'[r])
<1>1. PICK n \in Nodes : BeginNode(r, n) \/ FinishNode(r, n) \/ FailNode(r, n) \/ SkipNode(r, n)
  BY DEF Execution
<1>2. job[r] \in Jobs /\ Pending(r, n)
  BY <1>1 DEF StateTypeOK, BeginNode, FinishNode, FailNode, SkipNode
<1>3. CASE BeginNode(r, n)
  <2>1. PICK j : j = [job[r] EXCEPT !.read[n] = data] /\ job'[r] = j
    BY <1>3, BecomesFacts DEF BeginNode
  <2>2. /\ j.pc = job[r].pc /\ j.requested = job[r].requested /\ j.result = job[r].result
        /\ j.read[n] = data /\ \A m \in Nodes : m # n => j.read[m] = job[r].read[m]
    BY <1>2, <2>1 DEF Jobs
  <2>3. data # None
    BY NoneAssumption DEF StateTypeOK
  <2>4. job[r].read[n] = None /\ n \in job[r].requested /\ job[r].requested \subseteq Nodes
    BY <1>2, <1>3 DEF BeginNode, Pending, Jobs
  <2>5. n \in Unread(job[r]) /\ n \notin Unread(j) /\ Unread(j) \subseteq Unread(job[r])
    BY <2>2, <2>3, <2>4 DEF Unread
  <2> QED BY <1>2, <2>1, <2>2, <2>5 DEF Closer, Unbuilt, Pending
<1>4. CASE FinishNode(r, n) \/ FailNode(r, n) \/ SkipNode(r, n)
  <2>1. PICK outcome \in {"Success", "Failed", "Skipped"}, tested \in BOOLEAN :
          Becomes(r, [job[r] EXCEPT !.result[n] = [outcome |-> outcome, at |-> clock,
                                                   tested |-> tested]])
    BY <1>4 DEF FinishNode, FailNode, SkipNode
  <2>2. PICK j : /\ j = [job[r] EXCEPT !.result[n] = [outcome |-> outcome, at |-> clock,
                                                      tested |-> tested]]
                 /\ job'[r] = j
    BY <2>1, BecomesFacts
  <2>3. /\ j.pc = job[r].pc /\ j.requested = job[r].requested /\ j.read = job[r].read
        /\ j.result[n] = [outcome |-> outcome, at |-> clock, tested |-> tested]
        /\ \A m \in Nodes : m # n => j.result[m] = job[r].result[m]
    BY <1>2, <2>2 DEF Jobs
  <2>4. j.result[n] # None
    <3>1. j.result[n] \in Results
      BY <2>3 DEF StateTypeOK, Results
    <3> QED BY <3>1, NoneAssumption
  <2>5. job[r].result[n] = None /\ n \in job[r].requested /\ job[r].requested \subseteq Nodes
    BY <1>2 DEF Pending, Jobs
  <2>6. n \in Unbuilt(job[r]) /\ n \notin Unbuilt(j) /\ Unbuilt(j) \subseteq Unbuilt(job[r])
    BY <2>3, <2>4, <2>5 DEF Unbuilt
  <2> QED BY <1>2, <2>2, <2>3, <2>6 DEF Closer, Unread, Pending
<1> QED BY <1>1, <1>3, <1>4

\* Any other step of a process leads to a later phase.
LEMMA PhaseIsLater ==
    ASSUME StateTypeOK, NEW r \in Runs, Begin(r) \/ Progress(r) \/ Failure(r), ~Execution(r)
    PROVE  Place(job[r].pc) < Place(job'[r].pc)
<1>1. job[r] \in Jobs
  BY DEF StateTypeOK
<1>pc. ASSUME NEW j, NEW pc, Becomes(r, j), j.pc = pc PROVE job'[r].pc = pc
  BY <1>pc, BecomesFacts
<1>2. CASE Begin(r)
  <2>1. job'[r].pc \in {"measuring", "prepared"}
    BY <1>1, <1>2, <1>pc DEF Begin, Measure, PrepareUnmeasured, PrepareNothing, MayBegin, Jobs
  <2>2. job[r].pc = "new"
    BY <1>2 DEF Begin, Measure, PrepareUnmeasured, PrepareNothing, MayBegin
  <2> QED BY <2>1, <2>2 DEF Place
<1>3. CASE PrepareMeasured(r) \/ PrepareMeasureFailed(r)
  <2>1. job'[r].pc = "prepared"
    <3>1. ASSUME PrepareMeasured(r) PROVE job'[r].pc = "prepared"
      BY <1>1, <3>1, <1>pc DEF PrepareMeasured, Jobs
    <3>2. ASSUME PrepareMeasureFailed(r) PROVE job'[r].pc = "prepared"
      BY <1>1, <3>2, <1>pc DEF PrepareMeasureFailed, Jobs
    <3> QED BY <1>3, <3>1, <3>2
  <2>2. job[r].pc = "measuring"
    BY <1>3 DEF PrepareMeasured, PrepareMeasureFailed
  <2> QED BY <2>1, <2>2 DEF Place
<1>4. CASE Load(r)
  <2>1. job'[r].pc = "loaded"
    BY <1>1, <1>4, <1>pc DEF Load, Jobs
  <2>2. job[r].pc = "prepared"
    BY <1>4 DEF Load
  <2> QED BY <2>1, <2>2 DEF Place
<1>5. CASE OpenState(r)
  <2>1. job'[r].pc \in {"opened", "ready"}
    BY <1>1, <1>5, <1>pc DEF OpenState, Jobs
  <2>2. job[r].pc = "loaded"
    BY <1>5 DEF OpenState
  <2> QED BY <2>1, <2>2 DEF Place
<1>6. CASE ReadVersions(r)
  <2>1. job'[r].pc = "ready"
    BY <1>1, <1>6, <1>pc DEF ReadVersions, Jobs
  <2>2. job[r].pc = "opened"
    BY <1>6 DEF ReadVersions
  <2> QED BY <2>1, <2>2 DEF Place
<1>7. CASE Plan(r)
  <2>1. PICK requested : job'[r] = PlannedJob(r, requested)
    BY <1>7, BecomesFacts DEF Plan
  <2>2. job[r].pc = "ready" /\ job'[r].pc \in {"planned", "recorded"}
    BY <1>1, <1>7, <2>1 DEF Plan, PlannedJob, Jobs
  <2> QED BY <2>2 DEF Place
<1>8. CASE Start(r)
  <2>1. job'[r].pc = "running"
    BY <1>1, <1>8, <1>pc DEF Start, Jobs
  <2>2. job[r].pc = "planned"
    BY <1>8 DEF Start
  <2> QED BY <2>1, <2>2 DEF Place
<1>9. CASE ExecutorFails(r) \/ Recording(r) \/ RecordFails(r)
  <2>1. job'[r].pc = "recorded"
    <3>1. ASSUME NEW error, NotRecorded(r, error) PROVE job'[r].pc = "recorded"
      BY <1>1, <3>1, <1>pc DEF NotRecorded, Jobs
    <3>2. ASSUME NEW snapshot, Recorded(r, snapshot) PROVE job'[r].pc = "recorded"
      BY <1>1, <3>2, <1>pc DEF Recorded, Jobs
    <3>3. ASSUME ExecutorFails(r) PROVE job'[r].pc = "recorded"
      BY <1>1, <3>3, <1>pc DEF ExecutorFails, Jobs
    <3> QED
      BY <1>9, <3>1, <3>2, <3>3
      DEF Recording, RecordRefused, RecordNothing, RecordCommit, RecordConflict, RecordFails
  <2>2. job[r].pc = "running"
    BY <1>9
    DEF ExecutorFails, Recording, RecordRefused, RecordNothing, RecordCommit, RecordConflict,
        RecordFails, Finished
  <2> QED BY <2>1, <2>2 DEF Place
<1>10. CASE WriteLedger(r)
  <2>1. job'[r] = [Idle("done") EXCEPT !.error = job[r].error] /\ job[r].pc = "recorded"
    BY <1>10, BecomesFacts DEF WriteLedger
  <2>2. job'[r].pc = "done"
    BY <2>1 DEF Idle
  <2> QED BY <2>1, <2>2 DEF Place
<1>11. CASE Kill(r)
  <2>1. job'[r] = Idle("killed") /\ job[r].pc \notin Ended
    BY <1>11, BecomesFacts DEF Kill
  <2>2. job'[r].pc = "killed"
    BY <2>1 DEF Idle
  <2>3. job[r].pc \in {"measuring", "prepared", "loaded", "opened", "ready", "planned", "running",
                      "recorded"}
    BY <1>1, <2>1 DEF Jobs
  <2> QED BY <2>2, <2>3 DEF Place
<1> QED
  BY <1>2, <1>3, <1>4, <1>5, <1>6, <1>7, <1>8, <1>9, <1>10, <1>11 DEF Progress, Failure

\* Every step of a run brings it closer to its end, and no step of another run or of the
\* world takes it back: with NoRunEverWaits and the fairness of its own steps, what
\* EveryRunEnds says.  A conflict, for one, is never tried again (record).
THEOREM RunsGetCloser == Spec => [][\A r \in Runs : StepsGetCloser(r)]_vars
<1>1. StateTypeOK /\ [Next]_vars => [\A r \in Runs : StepsGetCloser(r)]_vars
  <2> SUFFICES ASSUME StateTypeOK, Next, NEW r \in Runs, Progress(r) \/ job'[r] # job[r]
               PROVE  Closer(job[r], job'[r])
    BY DEF StepsGetCloser
  <2>1. ASSUME Begin(r) \/ Progress(r) \/ Failure(r) PROVE Closer(job[r], job'[r])
    BY <2>1, NodeGetsCloser, PhaseIsLater DEF Closer
  <2>2. ASSUME World PROVE job' = job
    BY <2>2 DEF World, Tick, EditCode, NewData, RewriteSources, DropRelation
  <2>3. ASSUME NEW q \in Runs, Begin(q) \/ Progress(q) \/ Failure(q), q # r PROVE job'[r] = job[r]
    BY <2>3, StepOfOne
  <2> QED BY <2>1, <2>2, <2>3 DEF Next
<1> QED BY <1>1, TypesHold, PTL DEF Spec
=============================================================================
