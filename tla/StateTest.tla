------------------------------ MODULE StateTest ------------------------------
(***************************************************************************)
(* `ods state test' (crates/ods-cli/src/commands/state_test.rs) beside the *)
(* commands that build: it runs the checks of what was built and of the    *)
(* sources whose data is new, and commits their results on the head it     *)
(* read before they ran.  One model and one source, each with checks,      *)
(* stand for the project; several targets; commands overlap, fail and are  *)
(* killed.                                                                 *)
(*                                                                         *)
(* What a run decides to build is module StateRun's business: here a run   *)
(* builds the model, and `ods state run' is a build none of whose checks   *)
(* run.                                                                    *)
(***************************************************************************)
EXTENDS Naturals, Sequences

CONSTANTS
    Command,    \* each invocation of `ods state build' or `test'
    Targets,    \* dbt targets
    MaxTime,    \* bound: the last second
    MaxData,    \* bound: the last version of the source's data
    MaxChecks,  \* bound: the versions of the checks people write
    None

\* The first second is 1, and the first version of the checks is.
ASSUME StateTestAssumption ==
    /\ MaxTime \in Nat \ {0} /\ MaxChecks \in Nat \ {0}
    /\ MaxData \in Nat

VARIABLES
    clock,      \* the time, in seconds
    data,       \* the version of the source's data
    rel,        \* rel[t]: the build the model's relation holds in t, 0 for none
    builds,     \* how many builds there were
    manifest,   \* target/manifest.json: [by, checks]
    sources,    \* target/sources.json: [version, at]; history: by, who measured
    hist,       \* the snapshots committed, the head last
    cmd         \* the commands

world == <<clock, data>>
vars == <<clock, data, rel, builds, manifest, sources, hist, cmd>>

(***************************************************************************)
(* A command:                                                              *)
(*   base          the head it read, 0 for none                            *)
(*   ignore        whether it reads no sources.json: a file left by an     *)
(*                 earlier command may be out of date                      *)
(*   queried       the version its measurement read, until the file is     *)
(*                 written                                                 *)
(*   checks, src   its project: the checks' digest, the source's reading   *)
(*   node_due, source_due   whether it runs the model's, the source's checks *)
(*   started       when dbt started                                        *)
(*   build         the build it made of the model, 0 for none              *)
(*   node, source  what it showed of them: pass, fail, skip (some checks   *)
(*                 did not run), or kept (dbt did not build the model)     *)
(*   ran           history: what dbt's checks really read, and who was     *)
(*                 measuring the source meanwhile                          *)
(***************************************************************************)
Kinds == {"build", "test"}
Results == {"pass", "fail", "skip"}

Idle(pc) ==
    [pc |-> pc, kind |-> None, target |-> None, base |-> 0, ignore |-> FALSE,
     queried |-> None, checks |-> None, src |-> None, node_due |-> FALSE, source_due |-> FALSE,
     started |-> None, build |-> 0,
     node |-> "skip", source |-> "skip", at |-> None, ran |-> None]

Ended == {"new", "done"}

Becomes(c, j) == cmd' = [cmd EXCEPT ![c] = j]

\* A model's record, and what the last snapshot says.
NoRecord == [build |-> 0, tested |-> None]

Newest == Len(hist)
NodeAt(i) == IF i = 0 THEN NoRecord ELSE hist[i].node
SourceAt(i) == IF i = 0 THEN None ELSE hist[i].source

Times == 0..MaxTime
Partial == 0        \* the digest of checks that are not all compiled
Digests == {Partial} \cup 1..MaxChecks
Readings == [version : 0..MaxData, at : Times, by : Command \cup {None}]
Ran == [target : Targets, build : Nat, data : 0..MaxData, during : SUBSET Command]
NodeRecords ==
    [build : Nat, tested : {None} \cup [checks : Digests, ran : Ran]]
SourceRecords ==
    [version : {None} \cup 0..MaxData, checks : Digests, at : Times, ran : Ran]
Snapshots ==
    [by : Kinds, target : Targets, node : NodeRecords, source : SourceRecords \cup {None}]
Jobs ==
    [pc : Ended \cup {"measuring", "prepared", "planned", "running", "checked"},
     kind : Kinds \cup {None}, target : Targets \cup {None},
     base : Nat, ignore : BOOLEAN, build : Nat, queried : 0..MaxData \cup {None}, checks : Digests \cup {None},
     src : Readings \cup {None}, node_due : BOOLEAN, source_due : BOOLEAN,
     started : Times \cup {None},
     node : Results \cup {"kept"}, source : Results,
     at : Times \cup {None}, ran : Ran \cup {None}]

TypeOK ==
    /\ clock \in Times /\ data \in 0..MaxData
    /\ rel \in [Targets -> Nat] /\ builds \in Nat
    /\ manifest \in [by : Command \cup {None}, checks : Digests]
    /\ sources \in Readings
    /\ hist \in Seq(Snapshots)
    /\ cmd \in [Command -> Jobs] /\ \A c \in Command : cmd[c].base <= Newest

\* The source was measured once, a second ago.  Nothing was recorded yet, or one
\* run was, without its checks.
Init ==
    /\ clock = 1 /\ data = 0
    /\ manifest = [by |-> None, checks |-> 1]
    /\ sources = [version |-> 0, at |-> 0, by |-> None]
    /\ \/ /\ builds = 0 /\ rel = [t \in Targets |-> 0] /\ hist = <<>>
       \/ \E built \in Targets :
            /\ builds = 1 /\ rel = [t \in Targets |-> IF t = built THEN 1 ELSE 0]
            /\ hist = <<[by |-> "build", target |-> built,
                         node |-> [NoRecord EXCEPT !.build = 1], source |-> None]>>
    /\ cmd = [c \in Command |-> Idle("new")]

(***************************************************************************)
(* The world around the commands.                                          *)
(***************************************************************************)
Tick ==
    /\ clock < MaxTime
    /\ clock' = clock + 1
    /\ UNCHANGED <<data, rel, builds, manifest, sources, hist, cmd>>

NewData ==
    /\ data < MaxData
    /\ data' = data + 1
    /\ UNCHANGED <<clock, rel, builds, manifest, sources, hist, cmd>>

(***************************************************************************)
(* prepare: the source is measured, unless told not to, and the project    *)
(* compiled (module StateRun has --no-compile).  A measurement reads the   *)
(* data before sources.json, and its time, are written; when it fails, the *)
(* old file says nothing.  It writes a manifest too, of checks that are    *)
(* not compiled.  People edit the checks in between: dbt finds any version *)
(* of them when it compiles.                                               *)
(***************************************************************************)
Compile == \E version \in 1..MaxChecks : manifest' = [by |-> None, checks |-> version]

Measure(c, kind, t) ==
    /\ cmd[c].pc = "new"
    /\ manifest' = [by |-> None, checks |-> Partial]
    /\ Becomes(c, [Idle("measuring") EXCEPT !.kind = kind, !.target = t, !.queried = data])
    /\ UNCHANGED <<world, rel, builds, sources, hist>>

\* Fault: the time of the measurement is rounded up.
PrepareRoundedUp(c) ==
    /\ cmd[c].pc = "measuring"
    /\ sources' = [version |-> cmd[c].queried, at |-> clock + 1, by |-> c]
    /\ Compile
    /\ Becomes(c, [cmd[c] EXCEPT !.pc = "prepared", !.queried = None])
    /\ UNCHANGED <<world, rel, builds, hist>>

PrepareMeasured(c) ==
    /\ cmd[c].pc = "measuring"
    /\ sources' = [version |-> cmd[c].queried, at |-> clock, by |-> c]
    /\ Compile
    /\ Becomes(c, [cmd[c] EXCEPT !.pc = "prepared", !.queried = None])
    /\ UNCHANGED <<world, rel, builds, hist>>

PrepareMeasureFailed(c) ==
    /\ cmd[c].pc = "measuring"
    /\ Compile
    /\ Becomes(c, [cmd[c] EXCEPT !.pc = "prepared", !.queried = None, !.ignore = TRUE])
    /\ UNCHANGED <<world, rel, builds, sources, hist>>

\* --no-source-freshness: whatever sources.json holds is read.
PrepareUnmeasured(c, kind, t) ==
    /\ cmd[c].pc = "new"
    /\ Compile
    /\ Becomes(c, [Idle("prepared") EXCEPT !.kind = kind, !.target = t])
    /\ UNCHANGED <<world, rel, builds, sources, hist>>

\* The reading Workspace::load takes.
Loaded(c) == IF cmd[c].ignore THEN None ELSE sources

(***************************************************************************)
(* source_checks: whether the source's checks run.                         *)
(***************************************************************************)
\* Fault: a measurement of the second the checks passed in counts as later.
MeasuredSincePassing(src, before) == src.at >= before.at
\* Measured after the checks last passed: strictly, as times are to the second.
MeasuredAfter(src, before) == src.at > before.at

Due(src, digest, before) ==
    \/ before = None                        \* never passed, or failed last time
    \/ before.checks # digest               \* other checks passed
    \/ src = None                           \* the version is unknown
    \/ ~MeasuredAfter(src, before)          \* it can't show newer data
    \/ before.version = None                \* what they passed on is unknown
    \/ before.version # src.version         \* new data

\* The snapshot whose results count: none, when it is another target's.
InTarget(i, t) == IF i # 0 /\ hist[i].target = t THEN i ELSE 0

(***************************************************************************)
(* Workspace::load, latest, same_target, and what is to be tested.  A test *)
(* needs a recorded build in its target; a source does not.  Nothing to    *)
(* test, and dbt does not run.                                             *)
(***************************************************************************)
\* Fault: nobody asks which target the builds are in.
SameTargetNotAsked(c) == TRUE
SameTarget(c) == InTarget(Newest, cmd[c].target) = Newest

Planned(c, all) ==
    LET digest == manifest.checks
        node   == NodeAt(Newest)
        untested == node.tested = None \/ node.tested.checks # digest
        node_due == cmd[c].kind = "test" /\ node.build # 0 /\ (all \/ untested)
        source_due == all \/ Due(Loaded(c), digest, SourceAt(InTarget(Newest, cmd[c].target)))
    IN  [cmd[c] EXCEPT
            !.pc = IF cmd[c].kind = "test" /\ ~node_due /\ ~source_due THEN "done" ELSE "planned",
            !.base = Newest, !.checks = digest, !.src = Loaded(c),
            !.node_due = node_due, !.source_due = source_due]

Plan(c) ==
    /\ cmd[c].pc = "prepared"
    /\ cmd[c].kind = "test" => SameTarget(c)
    /\ \E all \in BOOLEAN : Becomes(c, Planned(c, all /\ cmd[c].kind = "test"))
    /\ UNCHANGED <<world, rel, builds, manifest, sources, hist>>

\* The builds are another target's: the test is refused.
Refuse(c) ==
    /\ cmd[c].pc = "prepared" /\ cmd[c].kind = "test" /\ ~SameTarget(c)
    /\ Becomes(c, Idle("done"))
    /\ UNCHANGED <<world, rel, builds, manifest, sources, hist>>

(***************************************************************************)
(* execute: dbt parses the project again, builds in a run, then checks     *)
(* what is there.  A model that fails or is skipped leaves its relation.   *)
(* A version counts only if it was measured before dbt started: a test     *)
(* takes the one it planned with, a run the one in the file when it        *)
(* records.  The manifest has the compiled text only of the checks that    *)
(* this invocation runs, so that their digest may be another.              *)
(***************************************************************************)
MeasuredBefore(src, started) == IF src # None /\ src.at < started THEN src ELSE None

Started(c) ==
    [cmd[c] EXCEPT !.pc = "running", !.started = clock,
                   !.src = IF cmd[c].kind = "test" THEN MeasuredBefore(@, clock) ELSE None]

Start(c) ==
    /\ cmd[c].pc = "planned"
    /\ \E digest \in Digests : manifest' = [by |-> c, checks |-> digest]
    /\ \/ /\ cmd[c].kind # "test"
          /\ rel' = [rel EXCEPT ![cmd[c].target] = builds + 1] /\ builds' = builds + 1
          /\ Becomes(c, [Started(c) EXCEPT !.build = builds + 1])
       \/ /\ \E node \in IF cmd[c].kind = "test" THEN {"skip"} ELSE {"fail", "kept"} :
               Becomes(c, [Started(c) EXCEPT !.node = node])
          /\ UNCHANGED <<rel, builds>>
    /\ UNCHANGED <<world, sources, hist>>

\* check_coverage: which checks are whose is known only from the run's own
\* manifest.  Without it no pass counts, and a failure may be anyone's.
Placed(c, node, source, result) ==
    CASE manifest.by = c            -> result
      [] "fail" \in {node, source} -> "fail"
      [] OTHER                      -> "skip"

\* trusted: a test run of dbt that failed with no check failing proves nothing.
Trusted(c, ok, node, source) == cmd[c].kind # "test" \/ ok \/ "fail" \in {node, source}

Believed(c, ok, node, source, result) ==
    IF result = "pass" /\ ~Trusted(c, ok, node, source) THEN "skip"
    ELSE Placed(c, node, source, result)

Measuring == {c \in Command : cmd[c].pc = "measuring"}

NodeChecked(c) == IF cmd[c].kind = "test" THEN cmd[c].node_due ELSE cmd[c].build # 0

\* What a command knows after its checks, of the results dbt gave them.
Checked(c, ok, node, source) ==
    LET checked == [cmd[c] EXCEPT !.pc = "checked", !.node_due = FALSE, !.source_due = FALSE,
            !.node = IF NodeChecked(c) THEN Believed(c, ok, node, source, node) ELSE @,
            !.source = IF cmd[c].source_due THEN Believed(c, ok, node, source, source) ELSE @]
    IN  IF "pass" \in {checked.node, checked.source}
        THEN [checked EXCEPT !.at = clock,
                !.ran = [target |-> cmd[c].target, build |-> rel[cmd[c].target], data |-> data,
                         during |-> Measuring]]
        ELSE [checked EXCEPT !.started = None, !.src = None, !.checks = None]

\* The checks read the relation and the source, and pass, fail or do not run.
Check(c) ==
    /\ cmd[c].pc = "running"
    /\ \E ok \in BOOLEAN,
          node \in IF NodeChecked(c) THEN Results ELSE {"skip"},
          source \in IF cmd[c].source_due THEN Results ELSE {"skip"} :
         Becomes(c, Checked(c, ok, node, source))
    /\ UNCHANGED <<world, rel, builds, manifest, sources, hist>>

(***************************************************************************)
(* Recording.  record_tests leaves the builds alone.  A run's record has   *)
(* the new build, tested if its checks passed; one that failed may have    *)
(* replaced what the kept record describes, so that is tested no more.     *)
(***************************************************************************)
TestMark(c) == [checks |-> cmd[c].checks, ran |-> cmd[c].ran]

RecordTests(c) ==
    [NodeAt(cmd[c].base) EXCEPT !.tested =
        CASE cmd[c].node = "pass" -> TestMark(c)
          [] cmd[c].node = "fail" -> None
          [] OTHER                -> @]

Before(c) == InTarget(cmd[c].base, cmd[c].target)

Advances(c) == cmd[c].build # 0 /\ cmd[c].node # "fail"

RecordRun(c) ==
    CASE Advances(c) -> [build |-> cmd[c].build,
                         tested |-> IF cmd[c].node = "pass" THEN TestMark(c) ELSE None]
      [] cmd[c].node = "fail" -> [NodeAt(Before(c)) EXCEPT !.tested = None]
      [] OTHER -> NodeAt(Before(c))

KnownVersion(c) ==
    LET src == IF cmd[c].kind = "test" THEN cmd[c].src
               ELSE MeasuredBefore(Loaded(c), cmd[c].started)
    IN  IF src = None THEN None ELSE src.version

RecordSourceChecks(c) ==
    CASE cmd[c].source = "pass" ->
            [version |-> KnownVersion(c), checks |-> cmd[c].checks,
             at |-> cmd[c].at, ran |-> cmd[c].ran]
      [] cmd[c].source = "fail" -> None
      [] OTHER -> SourceAt(Before(c))

\* A test's snapshot keeps the target of the one it follows.
Snapshot(c) ==
    [by |-> cmd[c].kind,
     target |-> IF cmd[c].kind = "test" /\ cmd[c].base # 0 THEN hist[cmd[c].base].target
                ELSE cmd[c].target,
     node |-> IF cmd[c].kind = "test" THEN RecordTests(c) ELSE RecordRun(c),
     source |-> RecordSourceChecks(c)]

\* sources_changed: a pass is always a new record, of this run.
SourcesChanged(c) ==
    \/ cmd[c].source = "pass"
    \/ cmd[c].source = "fail" /\ SourceAt(Before(c)) # None

\* A run is recorded only while the manifest is still its own, and only if the
\* model advanced or the source's record changed; a test asks for neither.
Records(c) ==
    /\ cmd[c].pc = "checked"
    /\ cmd[c].kind # "test" =>
         /\ manifest.by = c
         /\ Advances(c) \/ SourcesChanged(c)

\* Fault: the results are put on whatever head there is.
RecordOnAnyHead(c) ==
    /\ Records(c)
    /\ hist' = Append(hist, Snapshot(c))
    /\ Becomes(c, Idle("done"))
    /\ UNCHANGED <<world, rel, builds, manifest, sources>>

Record(c) ==
    /\ Records(c)
    /\ Newest = cmd[c].base
    /\ hist' = Append(hist, Snapshot(c))
    /\ Becomes(c, Idle("done"))
    /\ UNCHANGED <<world, rel, builds, manifest, sources>>

\* The head moved, the store failed, the run is not recorded, or the process
\* is killed: nothing of it is kept.
NotRecorded(c) ==
    /\ cmd[c].pc \notin Ended
    /\ Becomes(c, Idle("done"))
    /\ UNCHANGED <<world, rel, builds, manifest, sources, hist>>

-----------------------------------------------------------------------------
Next ==
    \/ Tick \/ NewData
    \/ \E c \in Command :
        \/ \E kind \in Kinds, t \in Targets : Measure(c, kind, t) \/ PrepareUnmeasured(c, kind, t)
        \/ PrepareMeasured(c) \/ PrepareMeasureFailed(c)
        \/ Plan(c) \/ Refuse(c) \/ Start(c) \/ Check(c) \/ Record(c) \/ NotRecorded(c)

Spec == Init /\ [][Next]_vars

-----------------------------------------------------------------------------
(* Properties                                                              *)

\* A `tested' mark never vouches for a build its checks had not yet seen: they
\* ran in the snapshot's target, on the build the snapshot records or on a later
\* one that replaced it (state_test.rs `record', which commits on the head it
\* read before the checks ran).
TestedNotBeforeBuild ==
    \A i \in DOMAIN hist : hist[i].node.tested # None =>
        /\ hist[i].node.tested.ran.target = hist[i].target
        /\ hist[i].node.tested.ran.build >= hist[i].node.build

\* A test's snapshot has exactly the target and the builds of the snapshot it
\* follows, so it takes back nothing that a run recorded while the checks ran;
\* nor does a run in the same target (state_test.rs and state_run.rs `record').
NoBuildLost ==
    \A i \in 1..Newest - 1 :
        LET before == hist[i] after == hist[i + 1]
        IN  /\ after.by = "test" => /\ after.target = before.target
                                    /\ after.node.build = before.node.build
            /\ after.target = before.target => after.node.build >= before.node.build

\* A source's checks are left out only when the data that was measured is what
\* the checks read when they last passed (sources.rs `decide'), although its
\* version was measured before they ran, and others load data meanwhile.  The
\* one measurement that may be older is one that was under way as the checks
\* passed: it read the data before them and has a time after them.
SkippedSourceIsTested ==
    \A c \in Command :
        cmd[c].pc = "planned" /\ ~cmd[c].source_due =>
            LET ran == hist[cmd[c].base].source.ran
            IN  ran.data = cmd[c].src.version \/ cmd[c].src.by \in ran.during
=============================================================================
