----------------------------- MODULE SqliteStore -----------------------------
(***************************************************************************)
(* The SQLite state store (providers/ods-store-sqlite/src/lib.rs): several *)
(* processes commit snapshots to, and append run entries to, one database  *)
(* file, while `ods state doctor' checks it.                               *)
(*                                                                         *)
(* SQLite itself is external: `BEGIN IMMEDIATE' takes the only write lock  *)
(* or gives up after the busy timeout, a statement sees the committed      *)
(* tables plus its own transaction's writes, and a transaction that is not *)
(* committed (rolled back, its connection closed, its process gone) leaves *)
(* nothing behind.                                                         *)
(***************************************************************************)
EXTENDS Naturals, Sequences

CONSTANTS
    Scopes,         \* <project>/<environment> pairs
    Writers,        \* processes that open the database to write
    NoWriter,       \* nobody holds the write lock
    MaxSnapshots,   \* bound: snapshots ever committed
    MaxRuns         \* bound: entries in the run ledger

ASSUME StoreAssumption ==
    /\ NoWriter \notin Writers
    /\ MaxSnapshots \in Nat
    /\ MaxRuns \in Nat

VARIABLES
    snapshots,  \* table: row id -> [scope, parent]; ids are 1, 2, ... (AUTOINCREMENT)
    heads,      \* table: scope -> snapshot id, 0 when the scope has no row
    runs,       \* table: the run ledger, [scope, snapshot] (0: none committed)
    lock,       \* who is inside BEGIN IMMEDIATE
    tx,         \* what the open transaction sees: [snapshots, heads]
    pc,         \* pc[w]: where writer w is
    want,       \* want[w]: the snapshot w commits, [scope, parent]
    answer,     \* answer[w]: what its commit returned, [is, id]
    doctor      \* the check: where it is, the rows it read, the problems it found

vars == <<snapshots, heads, runs, lock, tx, pc, want, answer, doctor>>

Ids == 1..MaxSnapshots

\* The write transaction's program points, in order; a conflict or an error ends at "abort".
InTx == {"read_head", "insert", "move_head", "commit", "conflict", "abort"}

Row == [scope : Scopes, parent : 0..MaxSnapshots]

NoAnswer == [is |-> "none", id |-> 0]

NoTables == [snapshots |-> <<>>, heads |-> [s \in Scopes |-> 0]]

Init ==
    /\ snapshots = NoTables.snapshots
    /\ heads = NoTables.heads
    /\ runs = <<>>
    /\ lock = NoWriter
    /\ tx = NoTables
    /\ pc = [w \in Writers |-> "idle"]
    /\ want \in [Writers -> [scope : Scopes, parent : {0}]]
    /\ answer = [w \in Writers |-> NoAnswer]
    /\ doctor = [pc |-> "rows", owners |-> <<>>, problems |-> {}]

(***************************************************************************)
(* latest: one query joins head and snapshot, so a reader sees both or     *)
(* neither.  The snapshot the writer will commit follows this head.        *)
(***************************************************************************)
Latest(w, s) ==
    /\ pc[w] = "idle"
    /\ want' = [want EXCEPT ![w] = [scope |-> s, parent |-> heads[s]]]
    /\ pc' = [pc EXCEPT ![w] = "call"]
    /\ UNCHANGED <<snapshots, heads, runs, lock, tx, answer, doctor>>

(***************************************************************************)
(* begin_write: BEGIN IMMEDIATE, or busy until the timeout.                *)
(***************************************************************************)
BeginWrite(w) ==
    /\ pc[w] = "call"
    /\ lock = NoWriter
    /\ lock' = w
    /\ tx' = [snapshots |-> snapshots, heads |-> heads]
    /\ pc' = [pc EXCEPT ![w] = "read_head"]
    /\ UNCHANGED <<snapshots, heads, runs, want, answer, doctor>>

Return(w, what, id) ==
    /\ answer' = [answer EXCEPT ![w] = [is |-> what, id |-> id]]
    /\ pc' = [pc EXCEPT ![w] = "answered"]

Busy(w) ==
    /\ pc[w] = "call"
    /\ lock # NoWriter
    /\ Return(w, "unavailable", 0)
    /\ UNCHANGED <<snapshots, heads, runs, lock, tx, want, doctor>>

\* Fault: the head is not compared with the parent.
ReadHeadUnchecked(w) ==
    /\ pc[w] = "read_head"
    /\ pc' = [pc EXCEPT ![w] = "insert"]
    /\ UNCHANGED <<snapshots, heads, runs, lock, tx, want, answer, doctor>>

(***************************************************************************)
(* commit_in, one statement at a time: the head is compared with the       *)
(* snapshot's parent under the write lock, the snapshot is inserted, the   *)
(* head moved.                                                             *)
(***************************************************************************)
ReadHead(w) ==
    /\ pc[w] = "read_head"
    /\ pc' = [pc EXCEPT ![w] = IF tx.heads[want[w].scope] = want[w].parent
                               THEN "insert" ELSE "conflict"]
    /\ UNCHANGED <<snapshots, heads, runs, lock, tx, want, answer, doctor>>

InsertSnapshot(w) ==
    /\ pc[w] = "insert"
    /\ Len(tx.snapshots) < MaxSnapshots
    /\ tx' = [tx EXCEPT !.snapshots = Append(@, want[w])]
    /\ pc' = [pc EXCEPT ![w] = "move_head"]
    /\ UNCHANGED <<snapshots, heads, runs, lock, want, answer, doctor>>

\* Fault: the head moves to the id after the inserted one.
MoveHeadPastRow(w) ==
    /\ pc[w] = "move_head"
    /\ tx' = [tx EXCEPT !.heads[want[w].scope] = Len(tx.snapshots) + 1]
    /\ pc' = [pc EXCEPT ![w] = "commit"]
    /\ UNCHANGED <<snapshots, heads, runs, lock, want, answer, doctor>>

MoveHead(w) ==
    /\ pc[w] = "move_head"
    /\ tx' = [tx EXCEPT !.heads[want[w].scope] = Len(tx.snapshots)]
    /\ pc' = [pc EXCEPT ![w] = "commit"]
    /\ UNCHANGED <<snapshots, heads, runs, lock, want, answer, doctor>>

\* Any statement of the transaction may fail: commit_in returns the error.
StatementFails(w) ==
    /\ pc[w] \in {"read_head", "insert", "move_head"}
    /\ pc' = [pc EXCEPT ![w] = "abort"]
    /\ UNCHANGED <<snapshots, heads, runs, lock, tx, want, answer, doctor>>

\* Fault: the head is written outside the transaction that holds the snapshot.
FinishCommitHeadOnly(w) ==
    /\ pc[w] = "commit"
    /\ heads' = tx.heads
    /\ lock' = NoWriter
    /\ tx' = NoTables
    /\ Return(w, "committed", Len(tx.snapshots))
    /\ UNCHANGED <<snapshots, runs, want, doctor>>

(***************************************************************************)
(* finish: COMMIT when commit_in returned Ok, ROLLBACK otherwise.          *)
(***************************************************************************)
FinishCommit(w) ==
    /\ pc[w] = "commit"
    /\ snapshots' = tx.snapshots
    /\ heads' = tx.heads
    /\ lock' = NoWriter
    /\ tx' = NoTables
    /\ Return(w, "committed", Len(tx.snapshots))
    /\ UNCHANGED <<runs, want, doctor>>

\* Fault: every rolled back commit is reported as a conflict.
FinishRollbackAsConflict(w) ==
    /\ pc[w] \in {"conflict", "abort"}
    /\ lock' = NoWriter
    /\ tx' = NoTables
    /\ Return(w, "conflict", 0)
    /\ UNCHANGED <<snapshots, heads, runs, want, doctor>>

\* Fault: a conflict is answered and leaves the transaction open.
FinishRollbackErrorsOnly(w) ==
    /\ pc[w] \in {"conflict", "abort"}
    /\ lock' = IF pc[w] = "conflict" THEN lock ELSE NoWriter
    /\ tx' = IF pc[w] = "conflict" THEN tx ELSE NoTables
    /\ Return(w, IF pc[w] = "conflict" THEN "conflict" ELSE "failed", 0)
    /\ UNCHANGED <<snapshots, heads, runs, want, doctor>>

FinishRollback(w) ==
    /\ pc[w] \in {"conflict", "abort"}
    /\ lock' = NoWriter
    /\ tx' = NoTables
    /\ Return(w, IF pc[w] = "conflict" THEN "conflict" ELSE "failed", 0)
    /\ UNCHANGED <<snapshots, heads, runs, want, doctor>>

\* Fault: the result of COMMIT is ignored.
FinishFailsIgnored(w) ==
    /\ pc[w] = "commit"
    /\ lock' = NoWriter
    /\ tx' = NoTables
    /\ Return(w, "committed", Len(tx.snapshots))
    /\ UNCHANGED <<snapshots, heads, runs, want, doctor>>

\* COMMIT itself fails: the connection is closed, and SQLite rolls back.
FinishFails(w) ==
    /\ pc[w] = "commit"
    /\ lock' = NoWriter
    /\ tx' = NoTables
    /\ Return(w, "failed", 0)
    /\ UNCHANGED <<snapshots, heads, runs, want, doctor>>

(***************************************************************************)
(* record_run: one INSERT, outside any transaction of commit, whatever the *)
(* commit answered; it needs the write lock for a moment, and may fail.    *)
(***************************************************************************)
RecordRun(w) ==
    /\ pc[w] = "answered"
    /\ lock = NoWriter
    /\ Len(runs) < MaxRuns
    /\ runs' = Append(runs,
                      [scope |-> want[w].scope, snapshot |-> answer[w].id])
    /\ pc' = [pc EXCEPT ![w] = "idle"]
    /\ answer' = [answer EXCEPT ![w] = NoAnswer]
    /\ UNCHANGED <<snapshots, heads, lock, tx, want, doctor>>

(***************************************************************************)
(* The process ends, or is killed: an open transaction goes with it        *)
(* (WriteTx's Drop closes the connection).  Its place is taken by another. *)
(***************************************************************************)
Exit(w) ==
    /\ pc[w] # "idle"
    /\ lock' = IF lock = w THEN NoWriter ELSE lock
    /\ tx' = IF lock = w THEN NoTables ELSE tx
    /\ pc' = [pc EXCEPT ![w] = "idle"]
    /\ answer' = [answer EXCEPT ![w] = NoAnswer]
    /\ UNCHANGED <<snapshots, heads, runs, want, doctor>>

(***************************************************************************)
(* check_records: every row of `snapshots' is read with one query and      *)
(* every head with another, outside any transaction.                       *)
(***************************************************************************)
InScope(owners, id, s) == id \in DOMAIN owners /\ owners[id].scope = s

BrokenChain(rows) ==
    \E id \in DOMAIN rows :
       rows[id].parent # 0 /\ ~InScope(rows, rows[id].parent, rows[id].scope)

\* A head outside its scope, or a scope with snapshots and no head.
DanglingHead(owners, hs) ==
    \E s \in Scopes :
       \/ hs[s] # 0 /\ ~InScope(owners, hs[s], s)
       \/ hs[s] = 0 /\ \E id \in DOMAIN owners : owners[id].scope = s

DoctorReadsRows ==
    /\ doctor.pc = "rows"
    /\ doctor' = [pc |-> "heads", owners |-> snapshots,
                  problems |-> IF BrokenChain(snapshots) THEN {"broken_chain"} ELSE {}]
    /\ UNCHANGED <<snapshots, heads, runs, lock, tx, pc, want, answer>>

DoctorReadsHeads ==
    /\ doctor.pc = "heads"
    /\ doctor' = [doctor EXCEPT
                    !.pc = "report",
                    !.problems = IF DanglingHead(doctor.owners, heads)
                                 THEN @ \cup {"dangling_head"} ELSE @]
    /\ UNCHANGED <<snapshots, heads, runs, lock, tx, pc, want, answer>>

DoctorReports ==
    /\ doctor.pc = "report"
    /\ doctor' = [pc |-> "rows", owners |-> <<>>, problems |-> {}]
    /\ UNCHANGED <<snapshots, heads, runs, lock, tx, pc, want, answer>>

(***************************************************************************)
(* The specification.                                                      *)
(***************************************************************************)
WriterStep(w) ==
    \/ BeginWrite(w) \/ Busy(w)
    \/ ReadHead(w) \/ InsertSnapshot(w) \/ MoveHead(w) \/ StatementFails(w)
    \/ FinishCommit(w) \/ FinishRollback(w) \/ FinishFails(w)

Doctor == DoctorReadsRows \/ DoctorReadsHeads \/ DoctorReports

Next ==
    \/ \E w \in Writers :
         \/ \E s \in Scopes : Latest(w, s)
         \/ WriterStep(w)
         \/ RecordRun(w)
         \/ Exit(w)
    \/ Doctor

Spec == Init /\ [][Next]_vars

\* A commit that was called keeps running: its statements each return or fail.
FairSpec == Spec /\ \A w \in Writers : WF_vars(WriterStep(w))

(***************************************************************************)
(* Properties.                                                             *)
(***************************************************************************)
TypeOK ==
    /\ snapshots \in Seq(Row)
    /\ Len(snapshots) <= MaxSnapshots
    /\ heads \in [Scopes -> 0..MaxSnapshots]
    /\ runs \in Seq([scope : Scopes, snapshot : 0..MaxSnapshots])
    /\ lock \in Writers \cup {NoWriter}
    /\ tx \in [snapshots : Seq(Row), heads : [Scopes -> 0..MaxSnapshots]]
    /\ Len(tx.snapshots) <= MaxSnapshots
    /\ pc \in [Writers -> {"idle", "call", "answered"} \cup InTx]
    /\ want \in [Writers -> Row]
    /\ answer \in [Writers -> [is : {"none", "committed", "conflict", "unavailable", "failed"},
                               id : 0..MaxSnapshots]]
    /\ doctor \in [pc : {"rows", "heads", "report"}, owners : Seq(Row),
                   problems : SUBSET {"broken_chain", "dangling_head"}]

\* The ids of the rows of scope s.
RowsOf(rows, s) == {id \in DOMAIN rows : rows[id].scope = s}

(***************************************************************************)
(* Per scope the committed rows form one chain that ends at the head: each *)
(* row follows the previous row of its scope, so no commit was lost to, or *)
(* forked by, another writer, whatever the interleaving, failure or crash. *)
(***************************************************************************)
Linked(rows, hs) ==
    /\ \A s \in Scopes :
         IF RowsOf(rows, s) = {} THEN hs[s] = 0
         ELSE hs[s] \in RowsOf(rows, s) /\ \A id \in RowsOf(rows, s) : id <= hs[s]
    /\ \A id \in DOMAIN rows :
         LET before == {j \in RowsOf(rows, rows[id].scope) : j < id}
         IN  IF before = {} THEN rows[id].parent = 0
             ELSE rows[id].parent \in before /\ \A j \in before : j <= rows[id].parent

ChainIntact == Linked(snapshots, heads)

(***************************************************************************)
(* Every answer is true: who is told "committed" has its snapshot in the   *)
(* chain, under its id, after the parent it read; and every ledger entry   *)
(* names a snapshot of its own scope, or none.                             *)
(***************************************************************************)
AnswersAreTrue ==
    /\ \A w \in Writers :
         answer[w].is = "committed" =>
            /\ answer[w].id \in DOMAIN snapshots
            /\ snapshots[answer[w].id] = want[w]
    /\ \A i \in DOMAIN runs :
         runs[i].snapshot # 0 => InScope(snapshots, runs[i].snapshot, runs[i].scope)

(***************************************************************************)
(* The doctor never reports a broken chain, and reports a dangling head    *)
(* only when a commit landed between its two queries: a store nobody       *)
(* writes to meanwhile is reported as it is.                               *)
(***************************************************************************)
DoctorAlarmsOnlyOnRace ==
    /\ "broken_chain" \notin doctor.problems
    /\ "dangling_head" \in doctor.problems => Len(snapshots) > Len(doctor.owners)

(***************************************************************************)
(* What holds inside a transaction, and makes the two invariants above     *)
(* inductive: only the lock's holder is in one, and what it sees is what   *)
(* is committed plus the statements it has run.                            *)
(***************************************************************************)
LockInv == \A w \in Writers : pc[w] \in InTx <=> lock = w

TxSees(w) ==
    /\ pc[w] \in {"read_head", "insert"} => tx.snapshots = snapshots
    /\ pc[w] \in {"move_head", "commit"} => tx.snapshots = Append(snapshots, want[w])
    /\ pc[w] \in {"read_head", "insert", "move_head"} => tx.heads = heads
    /\ pc[w] = "commit" => tx.heads = [heads EXCEPT ![want[w].scope] = Len(snapshots) + 1]
    /\ pc[w] \in {"insert", "move_head", "commit"} => heads[want[w].scope] = want[w].parent
    /\ pc[w] \in {"move_head", "commit"} => Len(snapshots) < MaxSnapshots
    /\ pc[w] = "conflict" => heads[want[w].scope] # want[w].parent

TxInv == \A w \in Writers : TxSees(w)

StoreInv == TypeOK /\ LockInv /\ TxInv /\ ChainIntact

\* Every commit that is called returns, or its process ends, and the write lock it
\* took is given back, whatever it answered (WriteTx::finish).
EveryCommitReturns ==
    \A w \in Writers : /\ pc[w] = "call" ~> pc[w] \in {"answered", "idle"}
                       /\ lock = w ~> lock # w

(***************************************************************************)
(* The store implements the contract.                                      *)
(***************************************************************************)
Contract == INSTANCE StateStore WITH
    Clients <- Writers,
    kept    <- {[id |-> id, scope |-> snapshots[id].scope, parent |-> snapshots[id].parent] :
                  id \in DOMAIN snapshots},
    head    <- heads,
    reply   <- [w \in Writers |->
                  IF pc[w] = "idle" THEN "none"
                  ELSE IF pc[w] = "answered" THEN answer[w].is
                  ELSE "pending"]

ImplementsContract == Contract!Spec
=============================================================================
