# Open Data Suite: a TLA+ model of State

Open Data Suite (ODS) runs dbt projects and remembers, per project and environment, which
build of every model is the last good one. `ods state run|build` uses that memory to build only
what changed and to *reuse* the rest. A wrong reuse is silent: a table stays stale and every
report says it is fine. This directory models the part of ODS that decides on and records
reuse, and the other parts that keep a file or a process of their own: the database and its
migrations, tests, retries, saved readings, the run journal, the web server that watches them, and
plugins. TLC checks each on small instances; TLAPS proves the central properties for all.

Paths below are relative to the repository root. A source line number refers to the commit the
model was written from.

- [1 The system](#1-the-system)
- [2 The modules and the code](#2-the-modules-and-the-code)
- [3 The runs](#3-the-runs)
- [4 The proofs](#4-the-proofs)
- [5 Where code and text disagree](#5-where-code-and-text-disagree)
- [6 Scope: what the model leaves out](#6-scope-what-the-model-leaves-out)
- [7 Plan](#7-plan)

## 1 The system

### 1.1 Parts that hold or change state

| Part | Code | State | Operations |
| --- | --- | --- | --- |
| State store contract | `crates/ods-sdk/src/contracts/state_store.rs` | per scope, a chain of snapshots and its head | `latest`, `commit` (compare-and-swap), `get`, `history`, `check`, `record_run`, `runs` |
| SQLite store | `providers/ods-store-sqlite/src/lib.rs` | tables `snapshots`, `heads`, `runs`; the write lock; the open transaction | `begin_write`, `commit_in`, `finish`, `record_run`, `check_records`, migrations, `backup`, `set_aside` |
| Source versions | `crates/ods-state/src/versions.rs`, `commands/state_versions.rs` | two readings, each with the time it claims | choose a version per source; keep those read before the run |
| Planner | `crates/ods-state/src/planner.rs` | none (pure) | BUILD or REUSE for each node, with a reason; which relations to check |
| Recorder | `crates/ods-state/src/recorder.rs` | none (pure) | from a run's results to the nodes of the next snapshot |
| `ods state run`/`build` | `crates/ods-cli/src/commands/state_run.rs`, `state_plan.rs` | one process per run: workspace, base snapshot, plan, results | prepare, load, open the state, plan, execute, record, write the ledger |
| dbt executor | `providers/ods-provider-dbt/src/executor.rs` | `target/manifest.json`, `target/sources.json`, the warehouse's relations | `prepare`, `execute`, per-node outcomes |
| Run ledger | same store, `crates/ods-state/src/savings.rs` | one entry per run | append |
| Opening the store | `providers/ods-store-sqlite/src/lib.rs` | the schema version; copies; databases set aside | `open`, `migrate`, `backup`, `set_aside` |
| `ods state test`, source tests | `commands/state_test.rs`, `crates/ods-state/src/sources.rs` | the `tested` marks and the sources' records in the snapshot chain | decide which checks are due, run them, commit what they showed |
| `ods state record` | `commands/state_plan.rs` | the snapshot chain | take over somebody else's run |
| Retry (`--failed`) | `commands/state_retry.rs`, `crates/ods-state/src/retry.rs` | the last-run file | remember, finish, narrow |
| Saved readings | `commands/state_readings.rs` | a file of table versions shared by commands | merge under a lock, replace, load |
| Run journal | `commands/run_journal.rs`, `crates/ods-web/src/live.rs`, `assets/live.js` | a file per run, followed while it is written | append, prune, tail, stream, poll |
| `ods serve` | `crates/ods-web/src/server.rs`, `state_pages.rs`, `assets/dashboard.js` | the snapshot served, its generation; a page | load, watch, replace, reload |
| Process plugins | `providers/ods-provider-process/src/lib.rs` | a process group and three pipes | `run`, `ask`, stop at the timeout |

The other crates (lineage, health, erd, mcp, config, the web pages, warehouse clients) transform
data, render it or talk to services. They keep no state whose interleavings matter; `PROJECT.json`
lists each with the reason it is left out, and section 6 says more.

### 1.2 How the parts interact

A run is one operating-system process. It measures the sources through dbt, which leaves
`sources.json`; compiles, which leaves `manifest.json`; loads both; reads the head of its scope;
asks the warehouse for table versions; plans, asks whether the relations it would reuse exist,
and plans again; lets dbt build; reads the two files *again*; turns results into a snapshot; and
commits it on the head it read at the beginning. Last it appends a ledger entry.

Nothing holds a lock from beginning to end. Two runs of one checkout share both files, the
warehouse and the store, and interleave at every one of these steps. So do people who edit code,
load data, drop tables or run dbt themselves. The only synchronisation is the store's
compare-and-swap at the very end, the id of the invocation in the manifest, and comparisons of
timestamps that have a resolution of one second.

`ods state test` is such a process too: it reads the head, runs checks for as long as they take,
and commits on that head. Every command that opens the store may find an older schema and migrate
it under the feet of others. Beside the database lie two more files that commands share: the saved
readings, guarded by a lock file, and the last run, which `--failed` reads. A run appends its events
to a journal that `ods serve` reads at the same time; the server also watches the artifacts and the
database, and a page in a browser follows both over connections that break. A plugin is a child
process that talks to its host over pipes, and may hang or start processes of its own.

### 1.3 What is hard, and what makes each part correct

| Part | Hard behaviour | Property |
| --- | --- | --- |
| SQLite store | two commits on one head; death or failure between the insert and the move of the head; COMMIT itself failing; a transaction left open | `ChainIntact`, `AnswersAreTrue`, `ImplementsContract`, `EveryCommitReturns` |
| Doctor | two queries, no transaction, others commit in between | `DoctorAlarmsOnlyOnRace` |
| Opening the store | two openers migrate at once; a build that knows less; death inside a migration; a copy that fails because another was first; three files renamed one by one | `SchemaIsWhole`, `MigratedOnce`, `OpenedIsMigrated`, `OldVersionKept`, `NothingDeleted`, `EveryOpenReturns` (and `CopyIsTheOldState`, which fails) |
| Versions, recorder | a file that is rewritten between plan and record; equal seconds; a manifest of another command; a target switched between runs | `RecordedIsTrue` |
| Planner with recorder | data arriving between measurement, build and next measurement | `ReuseMissesNothing` |
| Planner | a reuse that nobody checked; a change hidden by lag or quorum two levels down | `ReusedWereChecked`, `ChangeReachesDescendants` |
| Run | the head used hours after it was read | `NoLostUpdate` |
| Ledger | killed between the commit and the entry; a refused commit | `LedgerAgrees` |
| Executor | a node whose parent failed never gets a result | `NoRunIsStuck`, `EveryRunEnds` |
| Test | the head and the relation are replaced while the checks run; data arrives before, in and after the second they pass in; checks of another target | `TestedNotBeforeBuild`, `NoBuildLost`, `SkippedSourceIsTested` |
| Saved readings | an older reading saved last; two readings of one second; damage; a newer ODS's file | `LatestReadingKept`, `TiesAreUnknown` |
| Retry | a chain of retries, each narrower than the last, some killed, some unable to write the file; a parent that the command did not select | `NothingForgotten`, `RetryReadsNothingStale` |
| Journal | a reader in the middle of a line; a line longer than a chunk; a reconnect; a run killed; a journal pruned | `EveryLineOnce`, `FinishedIsComplete`, `PageEnds` |
| Serve | files that change while they are loaded; a handler between two reads of the state | `CurrentPageIsCurrent`, `PageCatchesUp` |
| Plugins | both sides blocked on full pipes; an answer cut at the limit; a helper that outlives the script | `CallReturns`, `AnswerIsWhole`, `CallLeavesNothing` |

`PROJECT.json` lists the hazards line by line.

## 2 The modules and the code

```
StateStore      <-- refined by --  SqliteStore   <- MCSqliteStore, SqliteStoreProofs
SourceVersions  <-  Planner  <-  Recorder  <-  StateRun   <- MCStateRun, StateRunProofs
                    Planner  <-  PlanCheck               <- MCPlanCheck, PlanCheckProofs
SqliteMigrations                                         <- MCSqliteMigrations, SqliteMigrationsProofs
StateTest                                                <- MCStateTest, StateTestProofs
SavedReadings, JournalTail, ServeWatch, Retry,
PluginProcess                                            <- MCLocalParts <- LocalPartsProofs

Induction  <-  PlannerProofs  <-  StateRunProofs, PlanCheckProofs
Induction  <-  LocalPartsProofs
```

Definitions keep the code's names, in TLA+'s capitalisation (`commit_in`'s statements are
`ReadHead`, `InsertSnapshot`, `MoveHead`). A definition under a comment that begins `Fault:` is
a mutation: a plausible slip in the code just below it, used only to show that a property would
notice (`mutants` in `PROJECT.json`).

**StateStore** is the abstract specification: what `state_store.rs` promises its clients.
`kept` is the set of snapshots, `head` the latest per scope, `want[c]` and `reply[c]` a client's
call and its answer. `Commit` is one atomic step that checks the head, picks an id larger than
every other, adds the snapshot and moves the head; `Conflict` may be answered only if the head
really is another; `Fail` and `Leave` change nothing that is kept.

**SqliteStore** is the code, a statement at a time. `snapshots`, `heads` and `runs` are the
committed tables. `lock` is SQLite's one write lock and `tx` what the open transaction sees.
`pc[w]` says which statement of `commit_in` or `finish` writer `w` is at. `StatementFails` lets
any statement fail, `FinishFails` the COMMIT, `Busy` is the busy timeout, and `Exit` is a process
that ends, or a dropped future, anywhere (`WriteTx`'s `Drop`). The doctor's `check_records` is
two steps, because it is two queries. `Contract` is the refinement mapping: rows and heads as they
are, and a writer inside the transaction is a client whose call is pending.

**SourceVersions** has the order of preference between a table version and `sources.json`, with
the time each claims, and `KeepVersionsReadBefore`: what of it a run may record.

**Planner** is `plan_with` and all it calls, as operators. `PlanWith` is a recursive function over
the acyclic graph, which is what the loop in topological order computes. The inputs of a node are
a *set* of answers, since the code only asks which of them occur.

**Recorder** is `record`: successes advance, failures keep the state without its checks, skips
keep it whole.

**StateRun** composes these into `ods state run|build`. The correspondence, in order:

| Action | Code |
| --- | --- |
| `Measure`, `PrepareMeasured`, `PrepareMeasureFailed`, `PrepareUnmeasured`, `PrepareNothing` | `prepare`; measuring is two steps because values are queried before the file, with its time, is written. It also rewrites the manifest, as every dbt command does |
| `Load` | `Workspace::load`: manifest and `sources.json` |
| `OpenState` | `open_state`: the head becomes `base` |
| `ReadVersions` | `read_table_versions`, stamped with the time the call started; may fail |
| `Plan` | `in_target`, `check_relations`, `plan_against`, `narrow` |
| `Start` | dbt parses again and writes the manifest of this invocation |
| `BeginNode`, `FinishNode`, `FailNode`, `SkipNode`, `ExecutorFails` | dbt's part of `execute`, and `node_outcomes` |
| `RecordRefused`, `RecordNothing`, `RecordCommit`, `RecordConflict`, `RecordFails` | the ways through `record`; exactly one is taken |
| `WriteLedger` | `write_ledger`, which may fail with a warning |
| `Kill` | the process dies, or an early error ends it |
| `Tick`, `EditCode`, `NewData`, `RewriteSources`, `DropRelation` | the world around the runs |

`hist` is the chain of one scope with the head last. That the store really is such a chain under
concurrent commits is what SqliteStore shows; StateRun may therefore commit in one step. `built`
and the job's `held` are history variables: no action's guard reads them, they only let properties
speak of what happened.

**PlanCheck** is the planner alone, as `check_relations` and `plan_against` use it, on any of a
set of cases. MCPlanCheck enumerates them. `checkable` says whether the inspector has the
`relation_existence` capability: without it `check_relations` returns at once, nothing is asked, and
the plan reuses on trust.

**SqliteMigrations** is `open` and what it does to the files. A database is a schema version, the
tables it has and its rows; `main` is the file and `wal` what it holds together with its log. An
opener goes through `migrate` (create the migrations table, read the version, copy if there is data,
look again if the copy failed) and `migrate_in` (take the lock, look which migrations are pending,
run each and insert its row, commit). Openers come from builds that know different versions; each may
fail or die at any statement, commit a row once the store is open, and close in order or not.
`set_aside` moves the database and its log in two steps, either of which may fail. `committed` and
`stranded` are history: the rows ever committed, and those that were only in a log which a failed
`set_aside` left behind.

**StateTest** has one chain of snapshots, one model and one source, each with checks, and commands
that are builds or tests. Its steps are those of `TestReport::build`: the measurement, which queries
(`Measure`) before it writes its file with the time (`PrepareMeasured`), or fails, or is not asked for;
`Plan` (with `same_target`, what is untested, and sources.rs `decide` as `Due`), `Start`, `Check`,
`Record`. `Check` is where dbt's checks read the relation and the data *at that moment*; `Placed` and `Believed` are the
two filters on what they showed (a manifest of another invocation, a dbt that failed with no check
failing). `RecordTests`, `RecordRun`, `RecordSourceChecks` and `KnownVersion` say what a snapshot gets,
for a test and for a build: a build takes the source's version from the file as it is when it
records, a test from what it loaded. `ran` is history: what the checks really read, and which commands
were measuring as they passed; so is `by`, who made a reading.

**SavedReadings** is `save`: ask the warehouse (the time is taken before), take the lock, read, merge,
write a temporary file and rename it, each a step that others interleave with; `tie` is the rule for
one second; `load` is `Loaded`.

**JournalTail** has the journal as a sequence of cells, some of which end a line; the run that
appends; `prune` of another run, in two steps; `Tail`, which reads chunk by chunk, keeps an unfinished
line for later and drops one that is longer than a chunk; the stream, the polls and their limits; and
the page, which reconnects from the last line it got, and falls back to polls.

**ServeWatch** gives every watched file a stamp that is odd while the file is half written. The server
loads file after file; the watch compares times, waits until a change has held for a tick, loads, and
then replaces the snapshot and the generation in two steps, while handlers read. A handler reads the
two in two steps as well: those of `server.rs` the generation first (`PageGeneration`, `PageSnapshot`),
those of `state_pages.rs` (plan, runs, run) the snapshot first (`StatePageSnapshot`,
`StatePageGeneration`). The page reloads when the generation it was made from is no longer the server's,
unless the live view, which only the lineage page has, holds it; nothing makes anybody leave that view.

**Retry** is the last-run file, `LastOutcome::of`, `split_retry` and `narrow`, over a chain of runs and
retries with edits in between. Every write of the file may fail, which is a warning: the old file stays
and the run goes on (`kept`). What the planner decides is reduced to "a node is built when something
of its own changed, or when a node it reads is".

**PluginProcess** is one call: the host writes the request, reads both outputs up to the limit, and
waits for the end of the process group or the timeout. A command that cannot be started is an error at
once. The script does up to three different things of these, in any order: reading its request,
answering, logging, starting a helper that ends or one that does not, and hanging.

**MCLocalParts** puts the last five side by side: they share nothing with one another, so a behaviour
is one part's and the others rest. Each part's properties are stated in its own module.

## 3 The runs

`tlc -config <cfg> <module>`. Sizes are distinct states.

| Run | Module, cfg | Checks | States |
| --- | --- | --- | --- |
| `sqlite_store` | MCSqliteStore, SqliteStore.cfg | `TypeOK`, `ChainIntact`, `AnswersAreTrue`, `DoctorAlarmsOnlyOnRace`, `ImplementsContract`, `EveryCommitReturns` | 672,000 |
| `sqlite_migrations` | MCSqliteMigrations, SqliteMigrations.cfg | `TypeOK`, `SchemaIsWhole`, `MigratedOnce`, `OpenedIsMigrated`, `OldVersionKept`, `NothingDeleted`, `EveryOpenReturns` | 599,000 |
| `run_sequence` | MCStateRun, RunSequence.cfg | `TypeOK`, `ReuseMissesNothing`, `RecordedIsTrue` | 3,500,000 |
| `run_chain` | MCStateRun, RunChain.cfg | `NoLostUpdate`, `LedgerAgrees`, `NoRunIsStuck` | 2,000,000 |
| `run_manifest` | MCStateRun, RunManifest.cfg | `RecordedIsTrue`, `EveryRunEnds` | 510,000 |
| `plan_check` | MCPlanCheck, PlanCheck.cfg | `ReusedWereChecked`, `ChangeReachesDescendants` | 859,000 |
| `state_test` | MCStateTest, StateTest.cfg | `TypeOK`, `TestedNotBeforeBuild`, `NoBuildLost`, `SkippedSourceIsTested` | 6,520,000 |
| `local_parts` | MCLocalParts, LocalParts.cfg | `TypeOK` and twelve properties of five parts | 685,000 |
| `sqlite_copy`, `run_reused_build`, `run_freshness`, `run_failed_checks` | | one property each, violated: section 5 | |

**`sqlite_store`**: two writers and the doctor, two scopes, three snapshots, one ledger entry. Two
writers are enough for every race on one lock. Three snapshots over two scopes give a chain of two
beside another scope's row, so that a parent in the wrong scope, a gap in the ids and a stale
parent all occur. A fork, a head that moves without its row, and an untrue "committed" would each
take three to eight steps of two writers. When the bound on snapshots is reached, an insert can
only fail, which is what a full disk does; the commit still returns. `EveryCommitReturns` also says that
whoever holds the write lock gives it back: an answer with the transaction left open behind it would
keep every other writer waiting.

**`sqlite_migrations`**: two processes, each of a build that knows one or two migrations, one row, one
`set_aside`. Two versions are the least with an older build, a database that is migrated part of the
way, and a build that is too old for what it finds. Every statement may fail and every process die,
inside a migration too.

**`run_sequence`**: two runs, one after the other, of one model that reads one source; measured and
table versions; others rewriting `sources.json`; three seconds; data that may change once, at any
moment. `ReuseMissesNothing` says that a build reused as "unchanged" read all the data there was when
it finished. The danger is data that arrives while the model is building: the next measurement equals
the recorded one only if the recorded one is withheld or older. `RecordedIsTrue` says that no snapshot
records a version newer than the data the build read. Three seconds give "before", "in the same second
as" and "after" for the two instants that are compared.

**`run_chain`**: two overlapping runs of a chain of two models, each in either of two targets,
selecting the first model or both, with failures, skips and kills anywhere. Two models are needed:
what a run did not build is what may be lost to another run, or carried over from another target.
**`run_manifest`**: two codes and overlapping runs of one model, so a manifest is replaced between
build and record. In these two no source is read: the questions do not concern data, and time plays
no part. `run_manifest` is also the run with fairness: both runs end, whatever each does to the other's
manifest, relations and head; `NoRunIsStuck` asks in every state of `run_chain` whether a run that has
begun has a step of its own to take.

**`plan_check`**: 129,024 cases of a chain of three models, two of which read a source: every
combination of what `decide` tells apart (record missing or present, code equal, changed or without
a fingerprint, a parent nobody knows, no parents with or without a self-contained query, policy
honoured or not, versions missing, stale, equal or new, the parents' recorded runs missing, current
or outdated, lag, quorum, refresh, selection), each with an inspector that can check and with one that
cannot, and then every answer for every relation asked about.
Three levels are the least at which a change must pass a node that is itself rebuilt for another
reason.

**`state_test`**: two commands, each a build or a test, in either of two targets, measured, unmeasured
or with a measurement that fails; two versions of the data; the digest of the checks that a compile
gives, and the other one that the manifest of an execution may give; two seconds after the
one the source was first measured in, so that a version may predate the run, the checks pass, and a
measurement come after them, or be under way while they pass. It starts with an empty store or with one recorded, untested build.
`TestedNotBeforeBuild` relates a mark in a snapshot to what the checks read; `NoBuildLost` two
snapshots that follow each other; `SkippedSourceIsTested` a decision to what an earlier command's
checks read.

**`local_parts`**: three savers in two scopes and one second boundary (three are needed for a tie that
a third reading must not break); a journal of four cells with lines up to three, chunks of two, one
broken connection, so that a line crosses a chunk, one is too long for it, and the reader stops inside
both; two files, each written once, and one load that fails or page that is held; pipes of one,
a request and an answer of two and scripts of up to three different doings, so that each side can fill
a pipe; two nodes in either graph, four runs or retries, two edits, so that there is a retry of a retry
with a failed write on the way. `PollCells` is larger than the journal: the effect of the limit is in
section 5.

Runs are interchangeable, as are targets, so the runs of StateRun and StateTest that check safety use
symmetry; the ones with liveness do not. `CHECK_DEADLOCK FALSE` is used where the instance has a fixed number of runs, after which
nothing remains to be done. The store's runs do check deadlock.

**Fairness.** In SqliteStore, `WF(WriterStep(w))`: a commit that was called is polled until its
statements return or fail; nothing forces success, nor a process to live. In StateRun,
`WF(Progress(r))`: the command awaits each of its own steps and dbt's. Nothing forces the world,
the executor's failures, the store's failures or kills to happen. In SqliteMigrations,
`WF(Step(o))`: an `open` that was called is polled. In JournalTail, the server's and the page's loops
run (`Following`), a line that was begun is ended or its run killed (`LineEnds`), and a file that nobody
writes becomes quiet as time passes (`Silence`): `Tail` gives up by a clock. In ServeWatch the watch
ticks, handlers answer, the browser polls, and a write ends; nobody need leave the live view. In
PluginProcess the host's futures are polled, the script goes on unless it hangs, and the timer fires.
The bounds on broken connections and failed loads stand for "not for ever".

## 4 The proofs

Eight modules hold theorems: the seven whose name ends in `Proofs`, and `Induction`. `tlapm M.tla`
checks every step of each. The theorems hold for any finite or infinite set of writers, scopes,
openers, runs, commands, sources, targets, codes, savers and files, for any finite set of nodes, for journals, chunks, pipes
and answers of any size, and for every bound. Where a run states the same property, the run came first: TLC checked each
strengthening below on the run's bounds before it was proved.

### 4.1 Assumptions

| Assumption | Module | Says |
| --- | --- | --- |
| `StoreAssumption` | SqliteStore | `NoWriter` is no writer; bounds are naturals |
| `LatestAssumption`, `BoundsAssumption`, `NoneAssumption` | SqliteMigrations | there is a migration; bounds are naturals; `None` is no opener, no content of a database and no error |
| `NodesAreNotSources`, `NodesAreFinite` | Planner | a project's nodes are finitely many and are not its sources |
| `StateRunAssumption`, `NoneAssumption` | StateRun | the constants' types, and a graph that `order` accepts (it has no cycle); `None` is none of the values it stands beside |
| `CasesAssumption` | PlanCheck | a case is a project, a state, a selection and options, its graph has no cycle, a changed target leaves no recorded build (`in_target`), and an answer is one that `check_relations` gives |
| `StateTestAssumption` | StateTest | bounds are naturals, and there is room for the first measurement and one check |
| `ReadingsAssumption`, `JournalAssumption`, `ServeAssumption`, `RetryAssumption`, `PluginAssumption` | the local parts | bounds and sizes are naturals, a chunk and an answer to a poll are not empty; `None` and `NoAnswer` are no values |

TLC evaluates all of them in the runs. `ReuseIsCurrent` has a hypothesis of its own, that runs do not
overlap; finding 3 in section 5 is why, and `TableReuseIsCurrent` is what holds without it.

### 4.2 Induction

The planner's plan, the nodes downstream of a change, and what a retry must build are recursive
functions over a graph. The library's induction theorems take an operator as a parameter, which the
provers cannot instantiate; `Induction` therefore proves induction over *sets* of naturals
(`SetInduction`: a set that holds 0 and, with each number, the next, holds all) from the library's
well-foundedness of `<`. An induction is then about the set of depths at which the claim holds.

`PlannerProofs` uses it to unfold `PlanWith` (`PlanUnfolds`): a decision depends only on those of the
parents (`PlanNodeIsLocal`); so, by induction on the depth that `Ordered` gives, there is a function
that decides each node from itself; so the one `PlanWith` chooses is such a function. The rest of what
is said about plans comes from that equation: their type (`PlanType`), and what a node that is reused
went through (`ReuseWasDecided`, `ReuseHasEvidence`). `DownstreamUnfolds` (PlanCheckProofs) and
`RetriedFollows` (LocalPartsProofs) are the same argument for the other two functions.

### 4.3 The store

`StoreInvariant` proves `StoreInv`: types; `LockInv`, only the lock's holder is
inside a transaction; `TxInv`, what the transaction sees is what is committed plus its own
statements so far, and the head it checked has not moved since; and `ChainIntact`. The chain alone
is not inductive: COMMIT publishes whatever `tx` holds, so one has to know what that is at each
program point. `AppendKeepsLinked` is the one fact about chains that is needed: appending a row
whose parent is the head, and moving the head to it, keeps every scope linked. `StoreTypesHold` and
`ChainIsAlwaysIntact` follow, and `StoreImplementsContract` uses the same invariant to map each
step to a step of StateStore: the COMMIT to `Commit`, a rollback after a failed comparison to
`Conflict` (for which `TxInv` says that the head still differs), the other statements to stutters.

`AnswersAreAlwaysTrue` adds `AnswerInv`: only a writer that has been answered holds an answer, and only
a commit's answer has an id. That the row is still there when the answer is read follows from rows
never changing, and the id being that of `tx`'s last row from `TxInv`.

`DoctorIsRight` adds `DoctorInv`: the owners the doctor read first are a prefix of the rows there are
now. A head that dangles against the prefix names a row that was committed since.

`CommitsAreAtomic` is the action property: in one step what is stored stays as it is, or changes by one
whole commit (a row whose parent is the head, the head moved to it, its writer told the id). COMMIT
publishes `tx`, which earlier statements filled, so this too rests on `TxInv`. `CommitsGetCloser` is what
is left of `EveryCommitReturns` without fairness: `StatementsLeft` falls with every statement of a
commit, and nobody else moves it.

### 4.4 Opening the store

`MigrationInvariant` proves `MigrationInv`: `LockInv`; `FilesInv`, which files may be there at the same
time, and that a log has the rows of the database it belongs to; `WholeInv`, the tables of every
database, copy and database set aside are those of its version; `TxInv`, a migration's transaction has
the rows that are stored, and between a migration's statements and its row exactly one version's
tables more; `CopyInv`, an opener that found data has, from its copy on, a copy that is kept, of a
version between the one it found and the one stored, with every row it saw. The version only grows
under the lock, so the copy stays older than what the transaction starts from. `SchemaIsAlwaysWhole`,
`NobodyMigratesAgain`, `OpenedStoresAreMigrated`, `OldVersionsAreKept` and `NothingIsEverDeleted` are
read off it. The last exempts the rows in `stranded` and no others: what the database that was moved
held, and what is committed after the failed `set_aside`, is kept.

`OpensGetCloser` gives `EveryOpenReturns` its variant: `Left` falls with every statement of an `open`
and no other opener raises it, and `OpenIsBounded` bounds it by two statements per migration and eight
more. The rounds of `migrate_in`'s loop are the point: `TxInv` says that the version in the transaction
stays below the one the build knows until the last row is in.

### 4.5 The planner

`ReusesWereChecked` and `ChangesReachDescendants` are about every project, recorded state and set of
answers; the first supposes an inspector that can check (ADR-0016 lets any other reuse on trust). The invariant `PlanInv` says what was asked and what the plan is: a plan of the case with the
answers filled in. The first theorem compares *two* plans:
relations are asked about for what a first plan, without answers or refresh, would reuse. If anything
was asked, a node that was not asked about is built, because its relation is unverified. If nothing was
asked, the relations count as not checked at all, and then no node may be reused: `NothingToAsk` shows,
by induction on the depth, that a node the first plan builds is built by the second too, for the same
reason or for a refresh (`PlannedNodesAgree`). The second theorem is an induction along
`Downstream` (`ChangeSpreads`): a child of a node that is rebuilt for its code or by a refresh has an
input that says so, which `decide` looks at before lag and quorum.

### 4.6 The run

`TypesHold` proves `StateTypeOK /\ PhaseOK`: types, and what a process has by the time it reaches a
phase. `RunTypesHold` adds the plans, by `PlanType`, and the ids. The others rest on these:

- `NoUpdateIsLost`. Only `RecordCommit` appends, its base is the head, and by the recorder's
  definition each node of the new snapshot is the run's own, its parent's, or its parent's without
  its checks.
- `LedgerIsTrue`. The strengthening `LedgerInv` adds that a run before its recording has neither
  entry nor commit, and that one after it holds exactly what its entry will say. So a kill between
  commit and entry is harmless, and a run commits at most once.
- `RecordedStateIsTrue`. Three invariants, each using the one before (`RecordInvariant`).
  `VersionsInv`: no reading, in the file, in a process or being measured, is newer than the data.
  `ExecutionInv`: of a running process, each version it may yet record is no newer than what each of
  its builds read. For `sources.json`, which anybody may replace during the run, this is said only
  while the file claims a time before the run's start, and a file written during the run claims a later
  one: this is where the strict comparison of `keep_versions_read_before` is needed. It also says that
  a manifest that names the run holds the code the run built. `RecordedInv`: what a snapshot says is
  true, and the runs it names have stopped building, so that it stays true.
- `ReuseIsCurrent`: `ReuseMissesNothing`, when runs do not overlap. A source that says "unchanged"
  gives the version *v* that is recorded, observed after the build. `RecordedIsTrue` bounds *v* from
  above by what the build read; `FilesInv` and `TablesInv` bound it from below by what there was when
  the build ended, for any reading with a later time has that much; and a build reads no more than
  there is at its end (`BuildsInv`). So the two are equal. `TablesInv`, about table versions, always
  holds, because they are stamped before they are asked for. For `FilesInv`, about `sources.json`,
  stamped when it is written, one needs that nothing was built since the measurement asked: that is
  `AloneInv`, and the only place where overlap matters. `ReuseInv` keeps what was true when the plan
  was made true of the same builds. `ReuseInvariant` proves all of them (`ReuseBasis`).
- `TableReuseIsCurrent`: the same property for overlapping runs, of every source whose version came from
  the warehouse (`TableReuseMissesNothing`). It locates finding 3: only versions from `sources.json`
  can hide data from a reuse.
- `NoRunEverWaits`: a run that has not ended has a step whose guard holds. Of the nodes that have no
  result yet, one of least depth has only parents that are done (`FirstPending`), so it can be built or
  skipped; the guards of `record`'s ways leave no case of a finished execution out. This is
  `NoRunIsStuck` with the guards written out instead of ENABLED.
- `RunsGetCloser`: a variant over phases, and during the execution over what became of each node, falls
  with every step of a run and is not raised by any other. With `NoRunEverWaits` and `WF(Progress(r))`
  that is why `EveryRunEnds` holds; the last inference, from fairness, stays with TLC.

### 4.7 Builds and tests

`TestInvariant` proves `TestInv`. Of every recorded snapshot (`RecordInv`): its build is not newer than
what the relation of its target holds, and a source's record has a version no newer than what its
checks read, while a measurement with a later time has at least that, unless it was under way as they
passed (`SourceInv`, and `SinceInv` of the measurements that are still to be written). Of every command
(`JobInv`): what it remembers of its base, its build and its source against the same. Of a command
whose checks passed (`PassInv`): the build they read is no older than the one in its base and its own,
the data no older than the version it loaded, and a file measured before its start is no newer than
what they read. `TestedMarksAreTrue`,
`BuildsAreKept` and `SkippedSourcesAreTested` follow. The last depends on the strict `>` between
seconds in `decide`, just as `ReuseIsCurrent` does in `source_input`. Its exception is finding 3 again:
a measurement that queried before the checks passed and was written after them. The theorem says that
nothing else lets a source's checks be left out on data they did not see.

### 4.8 The local parts

**Saved readings.** `LatestIsKept` and `TiesStayUnknown` rest on three facts. `LockInv`: a command
between taking and releasing the lock is the one the lock names. `FileCovers`: what the file says of a
scope is no older than any reading saved, and in the same second says what they said, or nothing.
`MergeCovers`: the same of what the lock's holder is about to write, its own reading included. The last
is why the lock is needed: without it the file may change between merge and rename. `tie` must make an
answer unknown for good, so the invariant speaks of all readings of the second and not of the last two.

**The journal.** `JournalInvariant` proves `JournalInv`, for a journal of any length and chunks and polls
of any size. `FileInv`: nothing follows the cell that ends a finished run, and a line that is cut short
and quiet belongs to a run that is over. `TailInv`: the reader is at the end of a line, or inside one
too long for a chunk, and its count is the number of lines before it. `PageInv`: the page has the first
lines, numbered without a gap. `OutInv`: what was read and not sent goes on where the page is, up to
where the reader is. The hard part is a last line without an end: `Tail` reads it only when the file is
quiet, and it would be wrong if cells could follow, for then its number would be used twice;
`Readable` says when a number is final. `take` is a fold over the chunk; `LocalPartsProofs` shows with
`SetInduction` what it has made, used and counted after each cell. `LinesReachThePage` and
`FinishedPagesAreComplete` follow.

**The server.** `PageIsCurrent` rests on `ServeInv`: types, a page's generation is never ahead of the
server's (`PageFollows`), and what a page shows is the server's snapshot or of an earlier generation,
and never earlier than the generation of a page that read that first (`ShownFollows`). The snapshot is replaced before the generation; between the two a handler of `server.rs` may
make a page that is new and carries the old generation, which only makes it reload again. A handler of
`state_pages.rs` reads in the other order, and a reload between its reads leaves an old page under the
new generation: that is `Overtaken`, the one exception, and a bug (section 5).

**Plugins.** `AnswersAreWhole` rests on `StdoutInv`, an account of every byte (as long as nothing was
dropped at the limit, what is kept and what is in the pipe is what was written), and on `EndInv`
(stdout ends only when the pipe is empty and nobody is left who could write). `ScriptInv` says what a
script that ended well has written.

**Retries.** `NothingIsForgotten` adds `CommandInv` and `RequestInv`: what a running command wanted,
asked for and held back, in terms of what is owed, whether or not it could write the file (a run that
could not leaves the file of an earlier one, and what that one owes). A command that is killed
leaves a last run without an outcome, for which `--failed` is refused, so the property speaks of outcomes
that are there: of a killed run it says nothing.
`RetriesReadNothingStale` adds `BuildInv`: with a node, a retry asks for every node it reads that
needs building. That is what `split_retry` computes, walking the nodes parents first
(`RetriedFollows`).

**Side by side.** `PartSteps`: a step of the composition is a step or a stutter of each part. So
`EveryPartKeepsItsInvariant` holds of MCLocalParts' own specification, which the run checks, and
`PartsTypesHold` follows.

### 4.9 Only model-checked

- The temporal properties (`EveryCommitReturns`, `EveryOpenReturns`, `EveryRunEnds`, `PageEnds`,
  `PageCatchesUp`, `CallReturns`, `CallLeavesNothing`) are liveness under fairness, and `NoRunIsStuck`
  is about ENABLED: this prover handles neither. For the first three, and for `NoRunIsStuck`, what they
  rest on is proved (`CommitsGetCloser`, `OpensGetCloser`, `RunsGetCloser`, `NoRunEverWaits`).
- The four properties of section 5 fail, and TLC's counterexamples are what there is to say.

Every other property that a run checks is stated by a theorem.

## 5 Where code and text disagree

Four runs state what a comment of the repository says and end in a counterexample.

1. **The copy before a migration** (`sqlite_copy`, `CopyIsTheOldState`). `lib.rs:359` says that a
   database with data "is copied first, so the old version can be restored whatever happens", and
   ADR-0018 and `docs/cli.md:2645` promise the same. The copy is made before the migration takes the
   write lock. What a process of the old build commits in between is migrated and is in no copy; and an
   opener that found an empty database makes no copy, although others may have migrated it part of the
   way and committed to it by the time it has the lock. The property asks for a copy only of a database
   that has rows; in TLC's trace the committed row is in none. `OldVersionKept` is what does hold: a copy with everything that was committed when the
   opener first looked.
2. **A reuse of what is not there** (`run_reused_build`, `ReusedBuildIsThere`). A run builds edited
   code and is killed, or its checks fail: the relation is replaced and nothing is recorded. The
   edit is reverted. The next run finds the recorded fingerprint unchanged and a relation that
   exists, and reuses it, although `planner.rs:570` says that "Reuse vouches for a build that is
   still there".
3. **When sources.json was read** (`run_freshness`, `ReuseMissesNothing`). `versions.rs:38` says
   that `observed_at` is "no later than the reading started". For `sources.json` it is
   `generated_at`, stamped when the file is written. With overlapping runs a measurement may query
   before another run's build finishes and be written after it; the planner takes its old value for
   current, and the data that arrived in between is missed. Without overlap (`run_sequence`) the
   property holds. The same measurement misleads `decide` in `sources.rs`: if a source's tests passed
   between its queries and its file, they may be skipped although the data they passed on is not what
   was recorded for them. `SkippedSourceIsTested` exempts that case and shows that it is the only one.
4. **Failed checks forgotten** (`run_failed_checks`, `FailedChecksVouchForNothing`).
   `recorder.rs:180` withdraws a node's `tested` mark when a rebuild's checks fail. `record` commits
   nothing if no node advanced and no source's record changed, so the withdrawal is dropped and the
   head still vouches for the checks.

Smaller ones that came up while modelling, without a run of their own:

- **The doctor's false alarm.** `check_records` (`lib.rs:848`) reads all snapshots, then all heads. A
  commit in between gives a head whose row the first query did not return, and a sound store is
  reported to have a dangling head. `DoctorAlarmsOnlyOnRace` shows that this is the only false alarm.
- **After a conflict**, `state_run.rs:1465` says that "the next run builds them again". If the run that
  won recorded the same nodes and code, the next run reuses them.
- **The checks a mark names.** A test records the digest of the checks it planned with; dbt parses the
  project again and may run edited ones (`state.rs:467`).
- **Polling a long journal.** `MAX_POLL_BYTES` (`live.rs:771`) is counted from the beginning of the
  file, since a poll's `Tail` starts there: past that length every answer is empty, and "ask again from
  the last `id`" (`docs/cli.md:1005`) does not help. With `PollCells = 2` `PageEnds` fails.
- **State pages that never reload.** `plan_page`, `runs_page` and `run_page` (`state_pages.rs:134`/`147`,
  `185`/`196`, `223`/`226`) read the snapshot, and after it the generation; `plan_page` and `runs_page`
  compute their view in between. If the watch replaces the snapshot meanwhile, the page is old and has
  the new generation, so that it does not reload until something else changes. ADR-0009 (line 71) says
  that "a new run or measurement reloads open pages", and `docs/cli.md:721` that "open pages reload".
  Every other handler reads the generation first, "so the page notices any reload after it"
  (`server.rs:486`). Without `Overtaken`, `CurrentPageIsCurrent` and `PageCatchesUp` fail.
- **The start of `ods serve`.** What changes between the first load and the watch's first look at the
  files' times is never noticed, until something else changes; `docs/lineage.md:102` promises a reload.
  Without `Unnoticed`, `PageCatchesUp` fails.
- **The number of journals.** `run_journal.rs:70` says that "the directory never holds more than
  `KEEP`"; recent ones are never pruned, so it may.
- **Half a `set_aside`.** If the log cannot be moved after the database was, it stays behind, and the
  database that is created next discards it. `NothingDeleted` exempts the rows that only this log had.

## 6 Scope: what the model leaves out

- **SQLite** is external: one write lock, statements that see committed data plus their own
  transaction, nothing left of a transaction that was not committed. `get`, `history` and `runs` only
  read. Its two side files are one here.
- **dbt and the warehouse** are external. dbt builds what was requested in dependency order from the
  code it finds at its start; a node reads its sources and parents when its build begins; a node is
  skipped only because a requested parent did not succeed; a killed command takes dbt with it.
  Replacing a relation is one step.
- **StateRun's projects** have sources without tests of their own (StateTest has them), so `record_source_checks` changes
  nothing and a commit depends only on advanced nodes. Every node's code can be fingerprinted,
  every policy is honoured, every node can be refreshed, and the inspector can check relations;
  PlanCheck covers the rest of the planner, and an inspector without the capability.
- **StateRun's `RecordCommit`** reads the two files again (`state_run.rs:1368`) and commits (`1461`) in
  one step. What others commit between the two is a conflict either way; a command that in between both
  rewrites a file and reads the old head has no counterpart in the model.
  The manifest that a measurement leaves has the same fingerprints as a compiled one.
  Configured `strategies` for versions are fixed to the default order.
- **Left out of the command**: dry runs and `compile`, which change nothing; output, statistics.
- **StateTest** has one model that every build builds, and no `--no-compile`: StateRun has those. `ods state run` is a build none of whose checks run.
- **Retry** has one command at a time: two that overlap on one last-run file are not modelled, nor are
  failed source tests, which a retry takes over unchanged. The file is replaced by a rename, so a write
  that fails leaves the old one.
- **PluginProcess**: what a script starts stays in its process group. A helper that leaves the group is
  out of the host's reach, and one that also keeps the script's stdin open and unread could hold up
  the call after its timeout's scope (`writing.await`, which is outside it).
- **`RewriteSources`** is somebody else's measurement, queried and written in one step. The two-step
  form is modelled in the runs' own `Measure`/`PrepareMeasured`. `ReuseMissesNothing` without overlap
  rests on this: a foreign measurement that spans a run's build does what finding 3 describes.
- **Data**: a source's data is a number that grows; a fingerprint is the code itself (a collision of
  the digest is not modelled); a snapshot's id is its position in the chain.
- **Bounds**: `MaxSnapshots`, `MaxRuns` (ledger entries, or runs and retries), `MaxTime`, `MaxSecond`,
  `MaxVersion`, `MaxData`, `MaxChecks`, `MaxRows`, `MaxAside`, `MaxCells`, `MaxLine`, `MaxLost`,
  `MaxStamp`, `MaxTrouble`, `MaxWritten`, `MaxEdits`, the number of processes, and `Overlap`, which
  says whether runs overlap.

### Not modelled

Most of the repository's lines are not about state that changes. What is left out, and why:

- **Lineage and SQL analysis** (`ods-lineage`, the sqlparser provider), **health rules, ERD, selection,
  defer and export, explain, failures, the error catalogue**: functions from parsed input to a report,
  over grammars and rule tables. TLC could only enumerate inputs that say little about them; a model
  would be the code again.
- **The web pages, dashboards and terminal views**: rendering. What the server does between requests is
  ServeWatch and JournalTail.
- **MCP, configuration, the command line**: one request, one answer, no state kept.
- **Warehouse clients and the parsing of dbt's files and events**: input and output. StateRun and
  StateTest model what the commands make of the answers, failures included.
- **`ods state record`**: the recorder and the commit of StateRun, applied to a run made by dbt alone.
- **The lock contract**: no command of this commit takes a lock through it.
- **Run statistics and savings**: sums over entries that nothing decides on.

## 7 Plan

What was planned is modelled, and every property that a run checks is proved except those of section
4.9. The model could still grow in two places:

1. **Retries that overlap** on one last-run file: two commands that each write it at their start and at
   their end.
2. **`ods state record` beside runs**: the recorder and the commit, applied to a run that dbt made alone.
