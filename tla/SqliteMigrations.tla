--------------------------- MODULE SqliteMigrations ---------------------------
(***************************************************************************)
(* Opening the SQLite state store: `SqliteStateStore::open', the migration *)
(* it runs, the copy it keeps first, and `set_aside', which moves the      *)
(* database out of the way.  Several processes, of ODS builds that know    *)
(* different schema versions, open one database at once; each of them may  *)
(* die or fail at any statement.  What a commit does inside its            *)
(* transaction is the business of module SqliteStore: here a commit adds   *)
(* one row.                                                                *)
(*                                                                         *)
(* SQLite itself (external): a transaction is taken whole, one writer at a *)
(* time; what is committed is in the write-ahead log until the last        *)
(* connection that is closed in order copies it into the database file,    *)
(* and a log found beside a database file that had to be created is not    *)
(* read.                                                                   *)
(***************************************************************************)
EXTENDS Naturals, FiniteSets

CONSTANTS
    Opener,     \* the processes
    Latest,     \* the last migration the newest build knows
    MaxRows,    \* bound: commits
    MaxAside,   \* bound: calls of set_aside
    None

ASSUME LatestAssumption == Latest \in Nat \ {0}
ASSUME BoundsAssumption == MaxRows \in Nat /\ MaxAside \in Nat

VARIABLES
    main,       \* the database file: what it holds, or None
    wal,        \* its write-ahead log: what the database holds with it, or None
    lock,       \* the opener that has the write lock, or None
    opener,     \* where each process is
    copies,     \* the copies kept before migrations
    aside,      \* what set_aside moved: pairs of a database and its log
    moving,     \* the database set_aside has moved, and not yet its log, or None
    \* Kept for the properties, the program has none of these:
    committed,  \* every row ever committed
    migrations, \* every migration of a database with data: what it found, the copy
    stranded    \* rows that only a log had which set_aside failed to move

disk == <<main, wal, copies, aside, moving>>
history == <<committed, migrations, stranded>>
vars == <<main, wal, lock, opener, copies, aside, moving, committed, migrations, stranded>>

\* What a database holds: the migrations whose row is in ods_migrations, the
\* tables they made, and the rows of the store.
Content == [version : 0..Latest, tables : SUBSET (1..Latest), rows : SUBSET (1..MaxRows)]

\* None is nobody, no file and no reason.
ASSUME NoneAssumption == None \notin Opener /\ None \notin Content /\ None # "exists"

EmptyDatabase == [version |-> 0, tables |-> {}, rows |-> {}]

Phases == {"idle", "table", "version", "copy", "recheck", "begin", "pending", "apply", "row", "open", "error"}

Idle == [phase |-> "idle", known |-> 1, applied |-> 0, tx |-> None, copy |-> None,
         seen |-> {}, why |-> None]

Processes ==
    [phase : Phases, known : 1..Latest, applied : 0..Latest,
     tx : Content \cup {None}, copy : Content \cup {None},
     seen : SUBSET (1..MaxRows), why : {None, "failed", "newer", "exists"}]

TypeOK ==
    /\ main \in Content \cup {None}
    /\ wal \in Content \cup {None}
    /\ lock \in Opener \cup {None}
    /\ opener \in [Opener -> Processes]
    /\ copies \subseteq Content
    /\ aside \subseteq [main : Content \cup {None}, wal : Content \cup {None}]
    /\ moving \in Content \cup {None}
    /\ committed \subseteq 1..MaxRows
    /\ migrations \subseteq [old : Content, read : 0..Latest, copy : Content \cup {None},
                             seen : SUBSET (1..MaxRows)]
    /\ stranded \subseteq 1..MaxRows

Init ==
    /\ main = None /\ wal = None /\ lock = None
    /\ opener = [o \in Opener |-> Idle]
    /\ copies = {} /\ aside = {} /\ moving = None
    /\ committed = {} /\ migrations = {} /\ stranded = {}

-----------------------------------------------------------------------------
\* What a reader of the database sees: the last commit.
Stored == IF wal # None THEN wal ELSE main

InUse == {o \in Opener : opener[o].phase # "idle"}

At(o, phase) == opener[o].phase = phase

\* `open' returns: what it read and copied is of no more use.
Return(o, phase, why) ==
    opener' = [opener EXCEPT ![o] = [Idle EXCEPT !.phase = phase, !.known = opener[o].known, !.why = why]]

\* An error ends `open': the transaction, if there is one, is rolled back.
Stop(o, why) ==
    /\ Return(o, "error", why)
    /\ lock' = IF lock = o THEN None ELSE lock
    /\ UNCHANGED <<disk, history>>

Goto(o, phase) == opener' = [opener EXCEPT ![o].phase = phase]

\* connect: the file is created if there is none.  A build knows the migrations
\* up to `known'.
Connect(o, known) ==
    /\ At(o, "idle") /\ moving = None
    /\ IF main = None THEN main' = EmptyDatabase /\ wal' = None ELSE UNCHANGED <<main, wal>>
    /\ opener' = [opener EXCEPT ![o] = [Idle EXCEPT !.phase = "table", !.known = known]]
    /\ UNCHANGED <<lock, copies, aside, moving, history>>

\* CREATE TABLE IF NOT EXISTS ods_migrations: it needs the write lock, and does
\* nothing when another opener has made the table.
CreateTable(o) ==
    /\ At(o, "table") /\ lock = None
    /\ Goto(o, "version")
    /\ UNCHANGED <<lock, disk, history>>

\* schema_version: nothing to do, a newer database, or a migration.  A database
\* that holds data is copied first.
ReadVersion(o) ==
    /\ At(o, "version")
    /\ LET applied == Stored.version
           known   == opener[o].known
       IN  CASE applied = known -> Return(o, "open", None)
             [] applied > known -> Return(o, "error", "newer")
             [] OTHER -> opener' = [opener EXCEPT ![o] = [@ EXCEPT
                            !.phase = IF applied = 0 THEN "begin" ELSE "copy",
                            !.applied = applied, !.seen = Stored.rows]]
    /\ UNCHANGED <<lock, disk, history>>

\* backup: VACUUM INTO reads one committed state, into a name nobody else uses.
Copy(o) ==
    /\ At(o, "copy")
    /\ copies' = copies \cup {Stored}
    /\ opener' = [opener EXCEPT ![o] = [@ EXCEPT !.phase = "begin", !.copy = Stored]]
    /\ UNCHANGED <<main, wal, lock, aside, moving, history>>

\* The copy fails: another opener may have migrated meanwhile.
\* Fault: a copy that fails is no reason not to migrate.
CopyFailsMigratesAnyway(o) ==
    /\ At(o, "copy")
    /\ Goto(o, "begin")
    /\ UNCHANGED <<lock, disk, history>>

CopyFails(o) ==
    /\ At(o, "copy")
    /\ Goto(o, "recheck")
    /\ UNCHANGED <<lock, disk, history>>

\* Fault: the failed copy is taken for another opener's migration.
RecheckTrusts(o) ==
    /\ At(o, "recheck")
    /\ Return(o, "open", None)
    /\ UNCHANGED <<lock, disk, history>>

\* Fault: the copy is tried again until it can be kept.
RecheckTriesAgain(o) ==
    /\ At(o, "recheck")
    /\ Goto(o, "copy")
    /\ UNCHANGED <<lock, disk, history>>

Recheck(o) ==
    /\ At(o, "recheck")
    /\ IF Stored.version = opener[o].known
       THEN Return(o, "open", None) /\ UNCHANGED <<lock, disk, history>>
       ELSE Stop(o, "failed")

\* begin_write: BEGIN IMMEDIATE.
Begin(o) ==
    /\ At(o, "begin") /\ lock = None
    /\ lock' = o
    /\ opener' = [opener EXCEPT ![o] = [@ EXCEPT !.phase = "pending", !.tx = Stored]]
    /\ UNCHANGED <<disk, history>>

\* migrate_in reads the version again, under the lock.
\* Fault: what was read before the lock is still believed.
PendingAsFirstRead(o) ==
    /\ At(o, "pending")
    /\ opener' = [opener EXCEPT ![o] = [@ EXCEPT !.phase = "apply",
                                                      !.tx.version = opener[o].applied]]
    /\ UNCHANGED <<lock, disk, history>>

Pending(o) ==
    /\ At(o, "pending")
    /\ IF opener[o].tx.version > opener[o].known
       THEN Stop(o, "newer")
       ELSE Goto(o, "apply") /\ UNCHANGED <<lock, disk, history>>

\* The statements of the next pending migration: they fail when another opener
\* has already made the tables.
\* Fault: one migration more than the build knows.
ApplyOneMore(o) ==
    LET version == opener[o].tx.version + 1
    IN  /\ At(o, "apply") /\ version <= opener[o].known + 1
        /\ opener' = [opener EXCEPT ![o] = [@ EXCEPT !.phase = "row", !.tx.tables = @ \cup {version}]]
        /\ UNCHANGED <<lock, disk, history>>

ApplyStatements(o) ==
    LET version == opener[o].tx.version + 1
    IN  /\ At(o, "apply") /\ version <= opener[o].known
        /\ IF version \in opener[o].tx.tables
           THEN Stop(o, "exists")
           ELSE /\ opener' = [opener EXCEPT ![o] = [@ EXCEPT !.phase = "row",
                                  !.tx = [opener[o].tx EXCEPT !.tables = @ \cup {version}]]]
                /\ UNCHANGED <<lock, disk, history>>

\* INSERT INTO ods_migrations.
InsertVersion(o) ==
    /\ At(o, "row")
    /\ opener' = [opener EXCEPT ![o] = [@ EXCEPT !.phase = "apply",
                      !.tx = [opener[o].tx EXCEPT !.version = @ + 1]]]
    /\ UNCHANGED <<lock, disk, history>>

\* finish: COMMIT.
Finish(o) ==
    /\ At(o, "apply") /\ opener[o].tx.version = opener[o].known
    /\ wal' = opener[o].tx
    /\ lock' = None
    /\ Return(o, "open", None)
    /\ migrations' = IF Stored.version \in {0, opener[o].known} THEN migrations
                     ELSE migrations \cup {[old |-> Stored, read |-> opener[o].applied,
                                            copy |-> opener[o].copy, seen |-> opener[o].seen]}
    /\ UNCHANGED <<main, copies, aside, moving, committed, stranded>>

\* Any statement of `open' may fail: the disk, or a lock that is not free
\* within BUSY_TIMEOUT.
\* Fault: what was done of a migration that failed is committed.
FailsHalfway(o) ==
    /\ opener[o].phase \in {"table", "version", "recheck", "begin", "pending", "apply", "row"}
    /\ IF opener[o].tx # None THEN wal' = opener[o].tx ELSE UNCHANGED wal
    /\ Return(o, "error", "failed")
    /\ lock' = IF lock = o THEN None ELSE lock
    /\ UNCHANGED <<main, copies, aside, moving, history>>

Fails(o) ==
    /\ opener[o].phase \in {"table", "version", "recheck", "begin", "pending", "apply", "row"}
    /\ Stop(o, "failed")

\* commit of an open store, as one step (module SqliteStore has its steps).  It
\* does not look at the schema version again.
Commit(o) ==
    LET row == Cardinality(committed) + 1
    IN  /\ At(o, "open") /\ lock = None /\ row <= MaxRows
        /\ committed' = committed \cup {row}
        /\ wal' = [Stored EXCEPT !.rows = @ \cup {row}]
        /\ UNCHANGED <<main, lock, opener, copies, aside, moving, migrations, stranded>>

\* close, or the drop of a store that failed to open: the last connection moves
\* the log into the database file.
Close(o) ==
    /\ opener[o].phase \in {"open", "error"}
    /\ IF InUse = {o} THEN main' = Stored /\ wal' = None ELSE UNCHANGED <<main, wal>>
    /\ opener' = [opener EXCEPT ![o] = Idle]
    /\ UNCHANGED <<lock, copies, aside, moving, history>>

\* The process dies: the log stays.
Die(o) ==
    /\ o \in InUse
    /\ lock' = IF lock = o THEN None ELSE lock
    /\ opener' = [opener EXCEPT ![o] = Idle]
    /\ UNCHANGED <<disk, history>>

-----------------------------------------------------------------------------
(* set_aside, "only ... while nothing else uses it".                       *)

\* The database goes first, under a name none of the three files has.
MoveDatabase ==
    /\ InUse = {} /\ main # None /\ moving = None /\ Cardinality(aside) < MaxAside
    /\ moving' = main
    /\ main' = None
    /\ UNCHANGED <<wal, lock, opener, copies, aside, history>>

\* Then its log, under the same name: SQLite finds it there.
\* Fault: only the database is moved.
MoveLogForgotten ==
    /\ moving # None
    /\ aside' = aside \cup {[main |-> moving, wal |-> None]}
    /\ moving' = None
    /\ UNCHANGED <<main, wal, lock, opener, copies, history>>

MoveLog ==
    /\ moving # None
    /\ aside' = aside \cup {[main |-> moving, wal |-> wal]}
    /\ wal' = None
    /\ moving' = None
    /\ UNCHANGED <<main, lock, opener, copies, history>>

\* The log can't be moved, or the process dies before: "files moved before it
\* stay moved".
MoveLogFails ==
    /\ moving # None /\ wal # None
    /\ aside' = aside \cup {[main |-> moving, wal |-> None]}
    /\ moving' = None
    /\ stranded' = stranded \cup (wal.rows \ moving.rows)
    /\ UNCHANGED <<main, wal, lock, opener, copies, committed, migrations>>

-----------------------------------------------------------------------------
\* One step of `open'.
Step(o) ==
    \/ CreateTable(o) \/ ReadVersion(o) \/ Copy(o) \/ CopyFails(o) \/ Recheck(o)
    \/ Begin(o) \/ Pending(o) \/ ApplyStatements(o) \/ InsertVersion(o) \/ Finish(o)
    \/ Fails(o)

Next ==
    \/ \E o \in Opener :
        \/ \E known \in 1..Latest : Connect(o, known)
        \/ Step(o) \/ Commit(o) \/ Close(o) \/ Die(o)
    \/ MoveDatabase \/ MoveLog \/ MoveLogFails

Spec == Init /\ [][Next]_vars

\* A process that runs executes its next statement, or the statement fails: a
\* writer waits for the lock for BUSY_TIMEOUT at most.
FairSpec == Spec /\ \A o \in Opener : WF_vars(Step(o))

-----------------------------------------------------------------------------
(* Properties                                                              *)

\* The content a set-aside pair has when it is opened.
Opened(pair) == IF pair.wal # None THEN pair.wal ELSE pair.main

\* Whatever fails, and whoever races: the database, every copy kept and every
\* database set aside have exactly the tables of the version they say
\* (migrate: "in one transaction").
SchemaIsWhole ==
    \A c \in ({main, wal} \cup copies \cup {Opened(pair) : pair \in aside}) \ {None} :
        c.tables = 1..c.version

\* Two openers migrate a database once: nobody fails on tables another opener
\* made (migrate_in: "Again, under the write lock").
MigratedOnce == \A o \in Opener : opener[o].why # "exists"

\* `open' returns a store only when the database has the schema the build
\* knows, also when the copy failed because another opener was first.
OpenedIsMigrated ==
    \A o \in Opener : At(o, "open") => Stored.version >= opener[o].known

\* An opener that found data migrates only after it has kept a copy: of the
\* version it found or a later one it did not migrate, with everything that
\* was committed when it first looked.
OldVersionKept ==
    \A m \in migrations : m.read > 0 =>
        /\ m.copy \in copies
        /\ m.copy.version \in m.read..m.old.version
        /\ m.seen \subseteq m.copy.rows

\* Everywhere a row may be found again.
There == ({main, wal, moving} \cup {Opened(pair) : pair \in aside}) \ {None}

\* set_aside: "Nothing is deleted".  Every row that was ever committed is in
\* the database, in one set aside or in the log that is being moved.  Lost,
\* with the next database that is created, may be only what the log alone held
\* when a set_aside failed between its two files: not what the moved database
\* had, nor what is committed later.
NothingDeleted == committed \ stranded \subseteq UNION {c.rows : c \in There}

\* migrate: "A file database that already holds data is copied first, so the
\* old version can be restored whatever happens": the rows a migration found
\* are in some copy, with the version it found.  Broken by a commit that lands
\* between the copy and the transaction, and by an opener that found a new
\* database, which others have migrated and filled when its turn comes.
CopyIsTheOldState ==
    \A m \in migrations : m.old.rows # {} => m.old \in copies

\* An `open' that is called returns, with a store or an error, unless its
\* process dies.
EveryOpenReturns ==
    \A o \in Opener : []<>(opener[o].phase \in {"open", "error", "idle"})
=============================================================================
