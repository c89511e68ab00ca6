------------------------- MODULE SqliteStoreProofs -------------------------
(***************************************************************************)
(* Theorems about SqliteStore, for any set of scopes and of writers.       *)
(***************************************************************************)
EXTENDS SqliteStore, TLAPS

(***************************************************************************)
(* A row appended after the head of its scope, with the head moved to it,  *)
(* keeps every scope's chain linked: the fact the compare-and-swap rests   *)
(* on.                                                                     *)
(***************************************************************************)
LEMMA AppendKeepsLinked ==
    ASSUME NEW rows \in Seq(Row), NEW hs \in [Scopes -> Nat], NEW row \in Row,
           Linked(rows, hs), hs[row.scope] = row.parent
    PROVE  Linked(Append(rows, row), [hs EXCEPT ![row.scope] = Len(rows) + 1])
PROOF
  <1> DEFINE new == Append(rows, row)
             n == Len(rows)
             hs2 == [hs EXCEPT ![row.scope] = n + 1]
  <1>1. /\ n \in Nat /\ DOMAIN rows = 1..n /\ DOMAIN new = 1..(n + 1)
        /\ new[n + 1] = row
        /\ \A i \in 1..n : new[i] = rows[i]
        /\ \A i \in 1..n : rows[i] \in Row
    OBVIOUS
  <1>2. row.scope \in Scopes /\ \A i \in 1..n : rows[i].scope \in Scopes
    BY <1>1 DEF Row
  <1>3. ASSUME NEW s \in Scopes
        PROVE  RowsOf(new, s) =
                 IF s = row.scope THEN RowsOf(rows, s) \cup {n + 1} ELSE RowsOf(rows, s)
    <2> HIDE DEF new, n
    <2>1. \A i \in 1..n : i \in RowsOf(new, s) <=> i \in RowsOf(rows, s)
      BY <1>1 DEF RowsOf
    <2>2. n + 1 \in RowsOf(new, s) <=> s = row.scope
      BY <1>1 DEF RowsOf
    <2>3. RowsOf(new, s) \subseteq 1..(n + 1) /\ RowsOf(rows, s) \subseteq 1..n
      BY <1>1 DEF RowsOf
    <2>4. n \in Nat /\ 1..(n + 1) = 1..n \cup {n + 1} /\ n + 1 \notin 1..n
      BY <1>1
    <2>5. CASE s = row.scope
      BY <2>1, <2>2, <2>3, <2>4, <2>5
    <2>6. CASE s # row.scope
      <3>1. RowsOf(new, s) \subseteq 1..n
        BY <2>2, <2>3, <2>4, <2>6
      <3> QED BY <2>1, <2>3, <2>6, <3>1
    <2> QED BY <2>5, <2>6
  <1>4. \A s \in Scopes : RowsOf(rows, s) \subseteq 1..n
    BY <1>1 DEF RowsOf
  <1>5. ASSUME NEW s \in Scopes
        PROVE  IF RowsOf(new, s) = {} THEN hs2[s] = 0
               ELSE hs2[s] \in RowsOf(new, s) /\ \A id \in RowsOf(new, s) : id <= hs2[s]
    <2>1. CASE s = row.scope
      <3>1. hs2[s] = n + 1 /\ n + 1 \in RowsOf(new, s)
        BY <1>2, <1>3, <2>1
      <3>2. \A id \in RowsOf(new, s) : id <= n + 1
        BY <1>1, <1>3, <1>4, <2>1
      <3> QED BY <3>1, <3>2
    <2>2. CASE s # row.scope
      <3>1. hs2[s] = hs[s] /\ RowsOf(new, s) = RowsOf(rows, s)
        BY <1>2, <1>3, <2>2
      <3> QED BY <3>1 DEF Linked
    <2> QED BY <2>1, <2>2
  <1>6. ASSUME NEW id \in DOMAIN new
        PROVE  LET before == {j \in RowsOf(new, new[id].scope) : j < id}
               IN  IF before = {} THEN new[id].parent = 0
                   ELSE new[id].parent \in before /\ \A j \in before : j <= new[id].parent
    <2>1. CASE id = n + 1
      <3>1. {j \in RowsOf(new, new[id].scope) : j < id} = RowsOf(rows, row.scope)
        BY <1>1, <1>2, <1>3, <1>4, <2>1
      <3>2. new[id].parent = hs[row.scope]
        BY <1>1, <2>1
      <3> QED BY <1>2, <3>1, <3>2 DEF Linked
    <2>2. CASE id \in 1..n
      <3>1. new[id] = rows[id] /\ rows[id].scope \in Scopes
        BY <1>1, <1>2, <2>2
      <3>2. {j \in RowsOf(new, new[id].scope) : j < id} = {j \in RowsOf(rows, rows[id].scope) : j < id}
        BY <1>1, <1>3, <2>2, <3>1
      <3> QED BY <1>1, <2>2, <3>1, <3>2 DEF Linked
    <2> QED BY <1>1, <2>1, <2>2
  <1> QED BY <1>5, <1>6 DEF Linked

(***************************************************************************)
(* The initial state, and every step, for the inductive invariant.         *)
(***************************************************************************)
LEMMA InitStoreInv == Init => StoreInv
PROOF
  <1> SUFFICES ASSUME Init PROVE StoreInv OBVIOUS
  <1>1. snapshots = <<>> /\ DOMAIN snapshots = {} /\ Len(snapshots) = 0
        /\ snapshots \in Seq(Row) /\ heads = [s \in Scopes |-> 0]
    BY DEF Init, NoTables
  <1>2. TypeOK
    BY <1>1, StoreAssumption DEF Init, TypeOK, NoTables, NoAnswer, InTx, Row
  <1>3. LockInv /\ TxInv
    BY StoreAssumption DEF Init, LockInv, TxInv, TxSees, InTx
  <1>4. ChainIntact
    BY <1>1 DEF ChainIntact, Linked, RowsOf
  <1> QED BY <1>2, <1>3, <1>4 DEF StoreInv

LEMMA NextStoreInv == StoreInv /\ [Next]_vars => StoreInv'
PROOF
  <1> SUFFICES ASSUME StoreInv, [Next]_vars PROVE StoreInv' OBVIOUS
  <1> USE DEF StoreInv
  <1>1. TypeOK'
    <2> USE StoreAssumption DEF TypeOK
    <2>1. ASSUME NEW w \in Writers, NEW s \in Scopes, Latest(w, s) PROVE TypeOK'
      BY <2>1 DEF Latest, Row
    <2>2. ASSUME NEW w \in Writers, BeginWrite(w) PROVE TypeOK'
      BY <2>2 DEF BeginWrite, InTx
    <2>3. ASSUME NEW w \in Writers, Busy(w) PROVE TypeOK'
      BY <2>3 DEF Busy, Return
    <2>4. ASSUME NEW w \in Writers, ReadHead(w) PROVE TypeOK'
      BY <2>4 DEF ReadHead, InTx
    <2>5. ASSUME NEW w \in Writers, InsertSnapshot(w) PROVE TypeOK'
      <3>1. Append(tx.snapshots, want[w]) \in Seq(Row)
            /\ Len(Append(tx.snapshots, want[w])) <= MaxSnapshots
        BY <2>5 DEF InsertSnapshot
      <3> QED BY <2>5, <3>1 DEF InsertSnapshot, InTx
    <2>6. ASSUME NEW w \in Writers, MoveHead(w) PROVE TypeOK'
      <3>1. want[w].scope \in Scopes
        BY DEF Row
      <3>2. Len(tx.snapshots) \in 0..MaxSnapshots
        OBVIOUS
      <3> QED BY <2>6, <3>1, <3>2 DEF MoveHead, InTx
    <2>7. ASSUME NEW w \in Writers, StatementFails(w) PROVE TypeOK'
      BY <2>7 DEF StatementFails, InTx
    <2>8. ASSUME NEW w \in Writers, FinishCommit(w) PROVE TypeOK'
      BY <2>8 DEF FinishCommit, Return, NoTables
    <2>9. ASSUME NEW w \in Writers, FinishRollback(w) PROVE TypeOK'
      BY <2>9 DEF FinishRollback, Return, NoTables
    <2>10. ASSUME NEW w \in Writers, FinishFails(w) PROVE TypeOK'
      BY <2>10 DEF FinishFails, Return, NoTables
    <2>11. ASSUME NEW w \in Writers, RecordRun(w) PROVE TypeOK'
      BY <2>11 DEF RecordRun, NoAnswer, Row
    <2>12. ASSUME NEW w \in Writers, Exit(w) PROVE TypeOK'
      BY <2>12 DEF Exit, NoAnswer, NoTables
    <2>13. ASSUME Doctor PROVE TypeOK'
      <3>1. doctor' \in [pc : {"rows", "heads", "report"}, owners : Seq(Row),
                          problems : SUBSET {"broken_chain", "dangling_head"}]
        <4>1. CASE DoctorReadsRows
          BY <4>1 DEF DoctorReadsRows
        <4>2. CASE DoctorReadsHeads
          BY <4>2 DEF DoctorReadsHeads
        <4>3. CASE DoctorReports
          BY <4>3 DEF DoctorReports
        <4> QED BY <2>13, <4>1, <4>2, <4>3 DEF Doctor
      <3> QED BY <2>13, <3>1 DEF Doctor, DoctorReadsRows, DoctorReadsHeads, DoctorReports
    <2>14. ASSUME UNCHANGED vars PROVE TypeOK'
      BY <2>14 DEF vars
    <2> QED BY <2>1, <2>2, <2>3, <2>4, <2>5, <2>6, <2>7, <2>8, <2>9, <2>10, <2>11, <2>12,
               <2>13, <2>14 DEF Next, WriterStep
  <1>2. LockInv'
    <2> USE StoreAssumption DEF TypeOK, LockInv, InTx
    <2>1. ASSUME NEW w \in Writers, NEW s \in Scopes, Latest(w, s) PROVE LockInv'
      BY <2>1 DEF Latest
    <2>2. ASSUME NEW w \in Writers, BeginWrite(w) \/ Busy(w) PROVE LockInv'
      BY <2>2 DEF BeginWrite, Busy, Return
    <2>3. ASSUME NEW w \in Writers,
                 ReadHead(w) \/ InsertSnapshot(w) \/ MoveHead(w) \/ StatementFails(w)
          PROVE  LockInv'
      BY <2>3 DEF ReadHead, InsertSnapshot, MoveHead, StatementFails
    <2>4. ASSUME NEW w \in Writers, FinishCommit(w) \/ FinishRollback(w) \/ FinishFails(w)
          PROVE  LockInv'
      BY <2>4 DEF FinishCommit, FinishRollback, FinishFails, Return
    <2>5. ASSUME NEW w \in Writers, RecordRun(w) \/ Exit(w) PROVE LockInv'
      BY <2>5 DEF RecordRun, Exit
    <2>6. ASSUME Doctor \/ UNCHANGED vars PROVE LockInv'
      BY <2>6 DEF Doctor, DoctorReadsRows, DoctorReadsHeads, DoctorReports, vars
    <2> QED BY <2>1, <2>2, <2>3, <2>4, <2>5, <2>6 DEF Next, WriterStep
  <1>3. TxInv'
    <2>0. ASSUME NEW v \in Writers, pc'[v] \notin InTx PROVE TxSees(v)'
      BY <2>0 DEF TxSees, InTx
    <2> USE StoreAssumption DEF LockInv, TxInv
    <2>1. ASSUME NEW w \in Writers, NEW s \in Scopes, Latest(w, s) PROVE TxInv'
      BY <2>1 DEF Latest, TypeOK, TxSees
    <2>2. ASSUME NEW w \in Writers, BeginWrite(w) PROVE TxInv'
      <3>1. TxSees(w)'
        BY <2>2 DEF BeginWrite, TypeOK, TxSees, InTx
      <3>2. ASSUME NEW v \in Writers, v # w PROVE pc'[v] \notin InTx
        BY <2>2, <3>2 DEF BeginWrite, TypeOK
      <3> QED BY <2>0, <3>1, <3>2
    <2>3. ASSUME NEW w \in Writers, Busy(w) PROVE TxInv'
      BY <2>3 DEF Busy, Return, TypeOK, TxSees
    <2>4. ASSUME NEW w \in Writers,
                 ReadHead(w) \/ InsertSnapshot(w) \/ MoveHead(w) \/ StatementFails(w)
          PROVE  TxInv'
      <3>1. lock = w
        BY <2>4 DEF ReadHead, InsertSnapshot, MoveHead, StatementFails, InTx
      <3>2. ASSUME NEW v \in Writers, v # w PROVE TxSees(v)'
        BY <2>0, <2>4, <3>1, <3>2 DEF ReadHead, InsertSnapshot, MoveHead, StatementFails, TypeOK
      <3>3. CASE ReadHead(w) \/ StatementFails(w)
        <4>1. TxSees(w)'
          BY <3>3 DEF ReadHead, StatementFails, TypeOK, TxSees
        <4> QED BY <3>2, <4>1
      <3>4. CASE InsertSnapshot(w)
        BY <3>2, <3>4 DEF InsertSnapshot, TypeOK, TxSees
      <3>5. CASE MoveHead(w)
        <4>1. /\ pc'[w] = "commit"
              /\ tx'.snapshots = tx.snapshots
              /\ tx'.heads = [tx.heads EXCEPT ![want[w].scope] = Len(tx.snapshots)]
              /\ UNCHANGED <<snapshots, heads, want>>
          BY <3>5 DEF MoveHead, TypeOK
        <4>2. Len(Append(snapshots, want[w])) = Len(snapshots) + 1
          BY DEF TypeOK
        <4>3. TxSees(w)'
          BY <3>5, <4>1, <4>2 DEF MoveHead, TxSees
        <4> QED BY <3>2, <4>3
      <3> QED BY <2>4, <3>3, <3>4, <3>5
    <2>5. ASSUME NEW w \in Writers, FinishCommit(w) \/ FinishRollback(w) \/ FinishFails(w)
          PROVE  TxInv'
      <3>1. ASSUME NEW v \in Writers PROVE pc'[v] \notin InTx
        BY <2>5 DEF FinishCommit, FinishRollback, FinishFails, Return, TypeOK, InTx
      <3> QED BY <2>0, <3>1
    <2>6. ASSUME NEW w \in Writers, RecordRun(w) PROVE TxInv'
      BY <2>6 DEF RecordRun, TypeOK, TxSees
    <2>7. ASSUME NEW w \in Writers, Exit(w) PROVE TxInv'
      <3>1. pc' = [pc EXCEPT ![w] = "idle"] /\ UNCHANGED <<snapshots, heads, want>>
        BY <2>7 DEF Exit
      <3>2. CASE lock = w
        <4>1. ASSUME NEW v \in Writers PROVE pc'[v] \notin InTx
          BY <3>1, <3>2 DEF TypeOK, InTx
        <4> QED BY <2>0, <4>1
      <3>3. CASE lock # w
        BY <2>7, <3>1, <3>3 DEF Exit, TypeOK, TxSees
      <3> QED BY <3>2, <3>3
    <2>8. ASSUME Doctor \/ UNCHANGED vars PROVE TxInv'
      BY <2>8 DEF Doctor, DoctorReadsRows, DoctorReadsHeads, DoctorReports, vars, TxSees
    <2> QED BY <2>1, <2>2, <2>3, <2>4, <2>5, <2>6, <2>7, <2>8 DEF Next, WriterStep
  <1>4. ChainIntact'
    <2>1. ASSUME NEW w \in Writers, FinishCommit(w) PROVE ChainIntact'
      <3>1. /\ snapshots' = Append(snapshots, want[w])
            /\ heads' = [heads EXCEPT ![want[w].scope] = Len(snapshots) + 1]
            /\ heads[want[w].scope] = want[w].parent
        BY <2>1 DEF FinishCommit, TxInv, TxSees
      <3>2. snapshots \in Seq(Row) /\ heads \in [Scopes -> Nat] /\ want[w] \in Row
        BY StoreAssumption DEF TypeOK
      <3> QED BY <3>1, <3>2, AppendKeepsLinked DEF ChainIntact
    <2>2. ASSUME UNCHANGED <<snapshots, heads>> PROVE ChainIntact'
      BY <2>2 DEF ChainIntact
    <2> QED BY <2>1, <2>2 DEF Next, WriterStep, Latest, BeginWrite, Busy, ReadHead,
                InsertSnapshot, MoveHead, StatementFails, FinishRollback, FinishFails, RecordRun,
                Exit, Doctor, DoctorReadsRows, DoctorReadsHeads, DoctorReports, vars
  <1> QED BY <1>1, <1>2, <1>3, <1>4

(***************************************************************************)
(* The inductive invariant holds in every reachable state.                 *)
(***************************************************************************)
THEOREM StoreInvariant == Spec => []StoreInv
PROOF
  <1> QED BY InitStoreInv, NextStoreInv, PTL DEF Spec

(***************************************************************************)
(* commit, as the SQLite store runs it, keeps one chain per scope for any  *)
(* number of processes, scopes, conflicts, failures and crashes.           *)
(***************************************************************************)
THEOREM ChainIsAlwaysIntact == Spec => []ChainIntact
PROOF
  <1>1. StoreInv => ChainIntact
    BY DEF StoreInv
  <1> QED BY <1>1, StoreInvariant, PTL

(***************************************************************************)
(* The refinement: the state a client of the contract would see.           *)
(***************************************************************************)
keptBar == {[id |-> id, scope |-> snapshots[id].scope, parent |-> snapshots[id].parent] :
              id \in DOMAIN snapshots}

replyBar == [w \in Writers |->
                  IF pc[w] = "idle" THEN "none"
                  ELSE IF pc[w] = "answered" THEN answer[w].is
                  ELSE "pending"]

LEMMA InitRefines == Init => Contract!Init
PROOF
  <1> SUFFICES ASSUME Init PROVE Contract!Init OBVIOUS
  <1>1. DOMAIN snapshots = {}
    BY DEF Init, NoTables
  <1> QED BY <1>1 DEF Init, NoTables, Contract!Init

LEMMA StepRefines == StoreInv /\ [Next]_vars => [Contract!Next]_(Contract!vars)
PROOF
  <1> SUFFICES ASSUME StoreInv, [Next]_vars PROVE [Contract!Next]_(Contract!vars) OBVIOUS
  <1> USE DEF StoreInv
  <1> DEFINE Stutter == UNCHANGED <<keptBar, heads, want, replyBar>>
  <1>0. Stutter => [Contract!Next]_(Contract!vars)
    BY DEF keptBar, replyBar, Contract!vars
  <1>1. ASSUME NEW w \in Writers, NEW s \in Scopes, Latest(w, s)
        PROVE  Contract!Latest(w, s)
    BY <1>1 DEF Latest, TypeOK, Contract!Latest
  <1>2. ASSUME NEW w \in Writers, BeginWrite(w) PROVE Stutter
    BY <1>2 DEF BeginWrite, TypeOK, keptBar, replyBar
  <1>3. ASSUME NEW w \in Writers, Busy(w) PROVE Contract!Fail(w)
    BY <1>3 DEF Busy, Return, TypeOK, Contract!Fail
  <1>4. ASSUME NEW w \in Writers,
               ReadHead(w) \/ InsertSnapshot(w) \/ MoveHead(w) \/ StatementFails(w)
        PROVE  Stutter
    BY <1>4 DEF ReadHead, InsertSnapshot, MoveHead, StatementFails, TypeOK, keptBar, replyBar
  <1>5. ASSUME NEW w \in Writers, FinishCommit(w) PROVE Contract!Commit(w)
    <2> DEFINE id == Len(snapshots) + 1
    <2>1. /\ snapshots' = Append(snapshots, want[w])
          /\ heads' = [heads EXCEPT ![want[w].scope] = id]
          /\ heads[want[w].scope] = want[w].parent
          /\ Len(snapshots) < MaxSnapshots
          /\ pc[w] = "commit"
      BY <1>5 DEF FinishCommit, TxInv, TxSees
    <2>2. /\ snapshots \in Seq(Row) /\ want[w] \in Row /\ id \in Ids
          /\ DOMAIN snapshots = 1..Len(snapshots)
      BY <2>1, StoreAssumption DEF TypeOK, Ids
    <2>3. keptBar' = keptBar \cup {[id |-> id, scope |-> want[w].scope, parent |-> want[w].parent]}
      <3>1. DOMAIN snapshots' = DOMAIN snapshots \cup {id} /\ snapshots'[id] = want[w]
            /\ \A i \in DOMAIN snapshots : snapshots'[i] = snapshots[i]
        BY <2>1, <2>2
      <3> QED BY <3>1 DEF keptBar
    <2>4. \A snapshot \in keptBar : id > snapshot.id
      BY <2>2 DEF keptBar
    <2>5. replyBar[w] = "pending" /\ replyBar' = [replyBar EXCEPT ![w] = "committed"]
          /\ want' = want
      BY <1>5 DEF FinishCommit, Return, TypeOK, replyBar
    <2> QED BY <2>1, <2>2, <2>3, <2>4, <2>5 DEF Contract!Commit, keptBar, replyBar
  <1>6. ASSUME NEW w \in Writers, FinishRollback(w)
        PROVE  Contract!Conflict(w) \/ Contract!Fail(w)
    <2>1. CASE pc[w] = "conflict"
      <3>1. heads[want[w].scope] # want[w].parent
        BY <2>1 DEF TxInv, TxSees
      <3>2. replyBar[w] = "pending" /\ replyBar' = [replyBar EXCEPT ![w] = "conflict"]
            /\ UNCHANGED <<snapshots, heads, want>>
        BY <1>6, <2>1 DEF FinishRollback, Return, TypeOK, replyBar
      <3> QED BY <3>1, <3>2 DEF Contract!Conflict, keptBar, replyBar
    <2>2. CASE pc[w] = "abort"
      BY <1>6, <2>2 DEF FinishRollback, Return, TypeOK, Contract!Fail
    <2> QED BY <1>6, <2>1, <2>2 DEF FinishRollback
  <1>7. ASSUME NEW w \in Writers, FinishFails(w) PROVE Contract!Fail(w)
    BY <1>7 DEF FinishFails, Return, TypeOK, Contract!Fail
  <1>8. ASSUME NEW w \in Writers, RecordRun(w) \/ Exit(w) PROVE Contract!Leave(w) \/ Stutter
    <2>1. replyBar' = [replyBar EXCEPT ![w] = "none"]
          /\ UNCHANGED <<snapshots, heads, want>>
      BY <1>8 DEF RecordRun, Exit, TypeOK, replyBar
    <2> QED BY <2>1 DEF Contract!Leave, keptBar, replyBar
  <1>9. ASSUME Doctor \/ UNCHANGED vars PROVE Stutter
    BY <1>9 DEF Doctor, DoctorReadsRows, DoctorReadsHeads, DoctorReports, vars, keptBar, replyBar
  <1> QED BY <1>0, <1>1, <1>2, <1>3, <1>4, <1>5, <1>6, <1>7, <1>8, <1>9
             DEF Next, WriterStep, Contract!Next

(***************************************************************************)
(* The SQLite store implements the state_store contract: a commit, as its  *)
(* separate statements, looks to every client like one compare-and-swap    *)
(* that happened, was refused for a head that really was another, or left  *)
(* no trace.                                                               *)
(***************************************************************************)
THEOREM StoreImplementsContract == Spec => ImplementsContract
PROOF
  <1> QED BY InitRefines, StepRefines, StoreInvariant, PTL
          DEF Spec, ImplementsContract, Contract!Spec

(***************************************************************************)
(* Every table, every transaction's view of them and every answer keeps to *)
(* its type, the bounds on ids included.                                   *)
(***************************************************************************)
THEOREM StoreTypesHold == Spec => []TypeOK
PROOF
  <1>1. StoreInv => TypeOK
    BY DEF StoreInv
  <1> QED BY <1>1, StoreInvariant, PTL

(***************************************************************************)
(* Answers.  A writer has an answer only between its commit and the ledger *)
(* entry, and only "committed" comes with an id: with this what the        *)
(* answers say is inductive.                                               *)
(***************************************************************************)
AnswerInv ==
    /\ \A w \in Writers : pc[w] # "answered" => answer[w] = NoAnswer
    /\ \A w \in Writers : answer[w].id # 0 => answer[w].is = "committed"
    /\ AnswersAreTrue

\* The rows that are there stay, under their ids.
Kept == /\ DOMAIN snapshots \subseteq DOMAIN snapshots'
        /\ \A id \in DOMAIN snapshots : snapshots'[id] = snapshots[id]

\* No step removes or changes a snapshot: only COMMIT writes, and it appends.
LEMMA NextKeeps == StoreInv /\ [Next]_vars => Kept
PROOF
  <1> SUFFICES ASSUME StoreInv, [Next]_vars PROVE Kept OBVIOUS
  <1>1. ASSUME NEW w \in Writers, FinishCommit(w) PROVE Kept
    <2>1. snapshots' = Append(snapshots, want[w]) /\ snapshots \in Seq(Row) /\ want[w] \in Row
      BY <1>1 DEF StoreInv, TypeOK, FinishCommit, TxInv, TxSees
    <2> QED BY <2>1 DEF Kept
  <1>2. ASSUME UNCHANGED snapshots PROVE Kept
    BY <1>2 DEF Kept
  <1> QED BY <1>1, <1>2 DEF Next, WriterStep, Latest, BeginWrite, Busy, ReadHead,
              InsertSnapshot, MoveHead, StatementFails, FinishRollback, FinishFails, RecordRun,
              Exit, Doctor, DoctorReadsRows, DoctorReadsHeads, DoctorReports, vars

LEMMA InitAnswerInv == Init => AnswerInv
PROOF
  BY DEF Init, AnswerInv, AnswersAreTrue, NoAnswer

\* A step that leaves the answers, what was asked and the ledger alone.
LEMMA AnswersStay ==
    ASSUME StoreInv, AnswerInv, Kept, UNCHANGED <<answer, want, runs>>,
           \A w \in Writers : pc[w] = "answered" => pc'[w] = "answered"
    PROVE  AnswerInv'
PROOF
  BY DEF StoreInv, TypeOK, AnswerInv, AnswersAreTrue, Kept, InScope

LEMMA NextAnswerInv == StoreInv /\ AnswerInv /\ [Next]_vars => AnswerInv'
PROOF
  <1> SUFFICES ASSUME StoreInv, AnswerInv, [Next]_vars PROVE AnswerInv' OBVIOUS
  <1>k. Kept
    BY NextKeeps
  <1>t. TypeOK
    BY DEF StoreInv
  <1>1. ASSUME NEW w \in Writers, NEW s \in Scopes, Latest(w, s) PROVE AnswerInv'
    <2>1. answer[w] = NoAnswer
      BY <1>1 DEF Latest, AnswerInv
    <2> QED BY <1>1, <1>k, <1>t, <2>1
            DEF Latest, TypeOK, AnswerInv, AnswersAreTrue, Kept, InScope, NoAnswer
  <1>2. ASSUME NEW w \in Writers,
               \/ BeginWrite(w) \/ ReadHead(w) \/ InsertSnapshot(w) \/ MoveHead(w)
               \/ StatementFails(w)
        PROVE  AnswerInv'
    <2>1. /\ UNCHANGED <<answer, want, runs>>
          /\ \A v \in Writers : pc[v] = "answered" => pc'[v] = "answered"
      BY <1>2, <1>t
         DEF BeginWrite, ReadHead, InsertSnapshot, MoveHead, StatementFails, TypeOK
    <2> QED BY <1>k, <2>1, AnswersStay
  <1>3. ASSUME NEW w \in Writers, Busy(w) \/ FinishRollback(w) \/ FinishFails(w)
        PROVE  AnswerInv'
    <2>1. /\ pc' = [pc EXCEPT ![w] = "answered"]
          /\ UNCHANGED <<want, runs>>
          /\ \E what \in {"conflict", "unavailable", "failed"} :
               answer' = [answer EXCEPT ![w] = [is |-> what, id |-> 0]]
      BY <1>3 DEF Busy, FinishRollback, FinishFails, Return
    <2> QED BY <1>k, <1>t, <2>1 DEF TypeOK, AnswerInv, AnswersAreTrue, Kept, InScope
  <1>4. ASSUME NEW w \in Writers, FinishCommit(w) PROVE AnswerInv'
    <2> DEFINE n == Len(snapshots) + 1
    <2>1. /\ snapshots' = Append(snapshots, want[w])
          /\ Len(tx.snapshots) = n
          /\ n \in DOMAIN snapshots' /\ snapshots'[n] = want[w] /\ n # 0
      BY <1>4, <1>t DEF StoreInv, TypeOK, FinishCommit, TxInv, TxSees
    <2>2. /\ pc' = [pc EXCEPT ![w] = "answered"]
          /\ UNCHANGED <<want, runs>>
          /\ answer' = [answer EXCEPT ![w] = [is |-> "committed", id |-> n]]
      BY <1>4, <2>1 DEF FinishCommit, Return
    <2> HIDE DEF n
    <2> QED BY <1>k, <1>t, <2>1, <2>2 DEF TypeOK, AnswerInv, AnswersAreTrue, Kept, InScope
  <1>5. ASSUME NEW w \in Writers, RecordRun(w) PROVE AnswerInv'
    <2> DEFINE entry == [scope |-> want[w].scope, snapshot |-> answer[w].id]
    <2>1. /\ pc' = [pc EXCEPT ![w] = "idle"]
          /\ answer' = [answer EXCEPT ![w] = NoAnswer]
          /\ UNCHANGED <<want, snapshots>>
          /\ runs' = Append(runs, entry)
      BY <1>5 DEF RecordRun
    <2>2. entry.snapshot # 0 => InScope(snapshots, entry.snapshot, entry.scope)
      BY DEF AnswerInv, AnswersAreTrue, InScope
    <2>3. \A i \in DOMAIN runs' : (i \in DOMAIN runs /\ runs'[i] = runs[i]) \/ runs'[i] = entry
      BY <1>t, <2>1 DEF TypeOK
    <2> HIDE DEF entry
    <2>4. \A i \in DOMAIN runs' :
            runs'[i].snapshot # 0 => InScope(snapshots', runs'[i].snapshot, runs'[i].scope)
      BY <2>1, <2>2, <2>3 DEF AnswerInv, AnswersAreTrue
    <2> QED BY <1>t, <2>1, <2>4 DEF TypeOK, AnswerInv, AnswersAreTrue, NoAnswer
  <1>6. ASSUME NEW w \in Writers, Exit(w) PROVE AnswerInv'
    <2>1. /\ pc' = [pc EXCEPT ![w] = "idle"]
          /\ answer' = [answer EXCEPT ![w] = NoAnswer]
          /\ UNCHANGED <<want, snapshots, runs>>
      BY <1>6 DEF Exit
    <2> QED BY <1>t, <2>1 DEF TypeOK, AnswerInv, AnswersAreTrue, NoAnswer
  <1>7. ASSUME Doctor \/ UNCHANGED vars PROVE AnswerInv'
    <2>1. UNCHANGED <<answer, want, runs, pc>>
      BY <1>7 DEF Doctor, DoctorReadsRows, DoctorReadsHeads, DoctorReports, vars
    <2> QED BY <1>k, <2>1, AnswersStay
  <1> QED BY <1>1, <1>2, <1>3, <1>4, <1>5, <1>6, <1>7 DEF Next, WriterStep

(***************************************************************************)
(* Who is told "committed" has its snapshot in the chain under its id, for *)
(* as long as it may use the answer, and every ledger entry names a        *)
(* snapshot of its own scope or none, for any number of processes.         *)
(***************************************************************************)
THEOREM AnswersAreAlwaysTrue == Spec => []AnswersAreTrue
PROOF
  <1>1. AnswerInv => AnswersAreTrue
    BY DEF AnswerInv
  <1> QED BY <1>1, InitAnswerInv, NextAnswerInv, StoreInvariant, PTL DEF Spec

(***************************************************************************)
(* The doctor.  The rows it read stay a prefix of the table: the table     *)
(* grows between its queries, and nothing else happens to it.              *)
(***************************************************************************)
DoctorInv ==
    /\ Len(doctor.owners) <= Len(snapshots)
    /\ \A id \in DOMAIN doctor.owners : doctor.owners[id] = snapshots[id]
    /\ doctor.pc # "report" => "dangling_head" \notin doctor.problems
    /\ DoctorAlarmsOnlyOnRace

\* A chain that is intact gives the doctor nothing to report.
LEMMA LinkedIsHealthy ==
    ASSUME NEW rows \in Seq(Row), NEW hs \in [Scopes -> Nat], Linked(rows, hs)
    PROVE  ~BrokenChain(rows) /\ ~DanglingHead(rows, hs)
PROOF
  <1>1. ASSUME NEW id \in DOMAIN rows PROVE rows[id].scope \in Scopes
    <2>1. rows[id] \in Row
      OBVIOUS
    <2> QED BY <2>1 DEF Row
  <1>2. ASSUME NEW id \in DOMAIN rows, rows[id].parent # 0
        PROVE  InScope(rows, rows[id].parent, rows[id].scope)
    BY <1>1, <1>2 DEF Linked, RowsOf, InScope
  <1>3. ASSUME NEW s \in Scopes, hs[s] # 0 PROVE InScope(rows, hs[s], s)
    BY <1>3 DEF Linked, RowsOf, InScope
  <1>4. ASSUME NEW s \in Scopes, hs[s] = 0, NEW id \in DOMAIN rows, rows[id].scope = s
        PROVE  FALSE
    <2>1. id \in RowsOf(rows, s)
      BY <1>4 DEF RowsOf
    <2>2. 0 \in RowsOf(rows, s)
      BY <1>4, <2>1 DEF Linked
    <2> QED BY <2>2 DEF RowsOf
  <1> QED BY <1>2, <1>3, <1>4 DEF BrokenChain, DanglingHead

LEMMA InitDoctorInv == Init => DoctorInv
PROOF
  BY DEF Init, DoctorInv, DoctorAlarmsOnlyOnRace, NoTables

LEMMA NextDoctorInv == StoreInv /\ DoctorInv /\ [Next]_vars => DoctorInv'
PROOF
  <1> SUFFICES ASSUME StoreInv, DoctorInv, [Next]_vars PROVE DoctorInv' OBVIOUS
  <1>t. TypeOK /\ snapshots \in Seq(Row) /\ heads \in [Scopes -> Nat]
        /\ Linked(snapshots, heads)
    BY StoreAssumption DEF StoreInv, TypeOK, ChainIntact
  <1>k. Kept
    BY NextKeeps
  <1>l. Len(snapshots') \in Nat /\ Len(snapshots) <= Len(snapshots')
    <2>1. ASSUME NEW w \in Writers, FinishCommit(w) PROVE snapshots' = Append(snapshots, want[w])
      BY <2>1 DEF StoreInv, FinishCommit, TxInv, TxSees
    <2>2. ASSUME NEW w \in Writers, snapshots' = Append(snapshots, want[w])
          PROVE  Len(snapshots') \in Nat /\ Len(snapshots) <= Len(snapshots')
      BY <1>t, <2>2 DEF TypeOK
    <2>3. ASSUME UNCHANGED snapshots
          PROVE  Len(snapshots') \in Nat /\ Len(snapshots) <= Len(snapshots')
      BY <1>t, <2>3
    <2> QED BY <2>1, <2>2, <2>3 DEF Next, WriterStep, Latest, BeginWrite, Busy, ReadHead,
                InsertSnapshot, MoveHead, StatementFails, FinishRollback, FinishFails, RecordRun,
                Exit, Doctor, DoctorReadsRows, DoctorReadsHeads, DoctorReports, vars
  <1>d. /\ doctor.owners \in Seq(Row) /\ Len(doctor.owners) \in Nat
        /\ DOMAIN doctor.owners = 1..Len(doctor.owners)
        /\ DOMAIN snapshots = 1..Len(snapshots) /\ Len(snapshots) \in Nat
    BY <1>t DEF TypeOK
  <1>1. ASSUME UNCHANGED doctor PROVE DoctorInv'
    BY <1>1, <1>d, <1>k, <1>l DEF DoctorInv, DoctorAlarmsOnlyOnRace, Kept
  <1>2. ASSUME DoctorReadsRows PROVE DoctorInv'
    <2>1. doctor' = [pc |-> "heads", owners |-> snapshots, problems |-> {}]
          /\ UNCHANGED snapshots
      BY <1>2, <1>t, LinkedIsHealthy DEF DoctorReadsRows
    <2> QED BY <1>d, <2>1 DEF DoctorInv, DoctorAlarmsOnlyOnRace
  <1>3. ASSUME DoctorReadsHeads PROVE DoctorInv'
    <2>1. /\ doctor'.pc = "report" /\ doctor'.owners = doctor.owners /\ UNCHANGED snapshots
          /\ doctor'.problems = IF DanglingHead(doctor.owners, heads)
                                THEN doctor.problems \cup {"dangling_head"} ELSE doctor.problems
          /\ doctor.pc = "heads"
      BY <1>3, <1>t DEF DoctorReadsHeads, TypeOK
    <2>2. CASE Len(doctor.owners) = Len(snapshots)
      <3>1. doctor.owners = snapshots
        BY <1>d, <1>t, <2>2 DEF DoctorInv
      <3>2. doctor'.problems = doctor.problems
        BY <1>t, <2>1, <3>1, LinkedIsHealthy
      <3> QED BY <2>1, <3>2 DEF DoctorInv, DoctorAlarmsOnlyOnRace
    <2>3. CASE Len(doctor.owners) < Len(snapshots)
      BY <2>1, <2>3 DEF DoctorInv, DoctorAlarmsOnlyOnRace
    <2> QED BY <1>d, <2>2, <2>3 DEF DoctorInv
  <1>4. ASSUME DoctorReports PROVE DoctorInv'
    <2>1. doctor' = [pc |-> "rows", owners |-> <<>>, problems |-> {}]
          /\ UNCHANGED snapshots
      BY <1>4 DEF DoctorReports
    <2> QED BY <1>d, <2>1 DEF DoctorInv, DoctorAlarmsOnlyOnRace
  <1> QED BY <1>1, <1>2, <1>3, <1>4 DEF Next, WriterStep, Latest, BeginWrite, Busy, ReadHead,
              InsertSnapshot, MoveHead, StatementFails, FinishCommit, FinishRollback, FinishFails,
              RecordRun, Exit, Doctor, vars

(***************************************************************************)
(* `ods state doctor' never reports a broken chain, and a dangling head    *)
(* only when a commit landed between its two queries, whoever writes       *)
(* meanwhile.                                                              *)
(***************************************************************************)
THEOREM DoctorIsRight == Spec => []DoctorAlarmsOnlyOnRace
PROOF
  <1>1. DoctorInv => DoctorAlarmsOnlyOnRace
    BY DEF DoctorInv
  <1> QED BY <1>1, InitDoctorInv, NextDoctorInv, StoreInvariant, PTL DEF Spec

(***************************************************************************)
(* What may happen to the stored state in one step, whoever takes it: one  *)
(* commit, of a snapshot whose parent is still the head, with the head     *)
(* moved to it and its writer told so; or nothing.  The commit was decided *)
(* statements earlier, under the lock.                                     *)
(***************************************************************************)
OneCommit(w) ==
    /\ want[w].parent = heads[want[w].scope]
    /\ snapshots' = Append(snapshots, want[w])
    /\ heads' = [heads EXCEPT ![want[w].scope] = Len(snapshots')]
    /\ answer'[w] = [is |-> "committed", id |-> Len(snapshots')]

StoredStep == (\E w \in Writers : OneCommit(w)) \/ UNCHANGED <<snapshots, heads>>

\* Only COMMIT touches what is stored, and the transaction it publishes is one commit.
LEMMA NextStoredStep == StoreInv /\ [Next]_vars => StoredStep
PROOF
  <1> SUFFICES ASSUME StoreInv, [Next]_vars PROVE StoredStep OBVIOUS
  <1>1. ASSUME NEW w \in Writers, FinishCommit(w) PROVE OneCommit(w)
    <2>1. /\ pc[w] = "commit" /\ snapshots' = tx.snapshots /\ heads' = tx.heads
          /\ answer' = [answer EXCEPT ![w] = [is |-> "committed", id |-> Len(tx.snapshots)]]
      BY <1>1 DEF FinishCommit, Return
    <2>2. /\ tx.snapshots = Append(snapshots, want[w])
          /\ tx.heads = [heads EXCEPT ![want[w].scope] = Len(snapshots) + 1]
          /\ heads[want[w].scope] = want[w].parent
      BY <2>1 DEF StoreInv, TxInv, TxSees
    <2>3. snapshots \in Seq(Row) /\ want[w] \in Row /\ DOMAIN answer = Writers
      BY DEF StoreInv, TypeOK
    <2>4. Len(Append(snapshots, want[w])) = Len(snapshots) + 1
      BY <2>3
    <2>5. answer'[w] = [is |-> "committed", id |-> Len(tx.snapshots)]
      BY <2>1, <2>3
    <2> QED BY <2>1, <2>2, <2>4, <2>5 DEF OneCommit
  <1> QED BY <1>1 DEF StoredStep, Next, WriterStep, Latest, BeginWrite, Busy, ReadHead,
              InsertSnapshot, MoveHead, StatementFails, FinishRollback, FinishFails, RecordRun,
              Exit, Doctor, DoctorReadsRows, DoctorReadsHeads, DoctorReports, vars

(***************************************************************************)
(* The compare-and-swap of `commit', statement by statement, is one: rows  *)
(* are only ever appended, a head only moves to the row that follows it,   *)
(* both in the same step, and only the writer whose row it is is told so.  *)
(***************************************************************************)
THEOREM CommitsAreAtomic == Spec => [][StoredStep]_vars
PROOF
  <1> QED BY NextStoredStep, StoreInvariant, PTL DEF Spec

(***************************************************************************)
(* What EveryCommitReturns rests on, without its fairness: a commit has at *)
(* most five steps left, one less with each, and nothing that another      *)
(* process does gives it more.  Neither a retry nor the wait for the lock  *)
(* sends it back.                                                          *)
(***************************************************************************)
StatementsLeft(at) ==
    CASE at = "call"      -> 5
      [] at = "read_head" -> 4
      [] at = "insert"    -> 3
      [] at = "move_head" -> 2
      [] at \in {"commit", "conflict", "abort"} -> 1
      [] OTHER            -> 0

\* A step of w leaves it less to do, and only w's own steps, or its end, move it.
CommitGetsCloser(w) ==
    /\ WriterStep(w) => StatementsLeft(pc'[w]) < StatementsLeft(pc[w])
    /\ pc'[w] # pc[w] =>
         WriterStep(w) \/ pc[w] \in {"idle", "answered"} \/ pc'[w] = "idle"

\* StatementsLeft, place by place.
LEMMA LeftAt ==
    /\ StatementsLeft("call") = 5 /\ StatementsLeft("read_head") = 4
    /\ StatementsLeft("insert") = 3 /\ StatementsLeft("move_head") = 2
    /\ StatementsLeft("commit") = 1 /\ StatementsLeft("conflict") = 1
    /\ StatementsLeft("abort") = 1 /\ StatementsLeft("answered") = 0
    /\ StatementsLeft("idle") = 0
PROOF
  <1>1. StatementsLeft("call") = 5 BY DEF StatementsLeft
  <1>2. StatementsLeft("read_head") = 4 BY DEF StatementsLeft
  <1>3. StatementsLeft("insert") = 3 BY DEF StatementsLeft
  <1>4. StatementsLeft("move_head") = 2 BY DEF StatementsLeft
  <1>5. StatementsLeft("commit") = 1 BY DEF StatementsLeft
  <1>6. StatementsLeft("conflict") = 1 BY DEF StatementsLeft
  <1>7. StatementsLeft("abort") = 1 BY DEF StatementsLeft
  <1>8. StatementsLeft("answered") = 0 BY DEF StatementsLeft
  <1>9. StatementsLeft("idle") = 0 BY DEF StatementsLeft
  <1> QED BY <1>1, <1>2, <1>3, <1>4, <1>5, <1>6, <1>7, <1>8, <1>9

\* One step.
LEMMA NextCloser ==
    ASSUME StoreInv, [Next]_vars, NEW w \in Writers
    PROVE  CommitGetsCloser(w)
PROOF
  <1>t. pc \in [Writers -> {"idle", "call", "answered"} \cup InTx]
    BY DEF StoreInv, TypeOK
  <1>1. ASSUME WriterStep(w) PROVE StatementsLeft(pc'[w]) < StatementsLeft(pc[w])
    <2>1. CASE BeginWrite(w)
      <3>1. pc[w] = "call" /\ pc'[w] = "read_head"
        BY <1>t, <2>1 DEF BeginWrite
      <3> QED BY <3>1, LeftAt
    <2>2. CASE Busy(w)
      <3>1. pc[w] = "call" /\ pc'[w] = "answered"
        BY <1>t, <2>2 DEF Busy, Return
      <3> QED BY <3>1, LeftAt
    <2>3. CASE ReadHead(w)
      <3>1. pc[w] = "read_head" /\ (pc'[w] = "insert" \/ pc'[w] = "conflict")
        BY <1>t, <2>3 DEF ReadHead
      <3> QED BY <3>1, LeftAt
    <2>4. CASE InsertSnapshot(w)
      <3>1. pc[w] = "insert" /\ pc'[w] = "move_head"
        BY <1>t, <2>4 DEF InsertSnapshot
      <3> QED BY <3>1, LeftAt
    <2>5. CASE MoveHead(w)
      <3>1. pc[w] = "move_head" /\ pc'[w] = "commit"
        BY <1>t, <2>5 DEF MoveHead
      <3> QED BY <3>1, LeftAt
    <2>6. CASE StatementFails(w)
      <3>1. pc[w] \in {"read_head", "insert", "move_head"} /\ pc'[w] = "abort"
        BY <1>t, <2>6 DEF StatementFails
      <3> QED BY <3>1, LeftAt
    <2>7. CASE FinishCommit(w) \/ FinishRollback(w) \/ FinishFails(w)
      <3>1. pc[w] \in {"commit", "conflict", "abort"} /\ pc'[w] = "answered"
        BY <1>t, <2>7 DEF FinishCommit, FinishRollback, FinishFails, Return
      <3> QED BY <3>1, LeftAt
    <2> QED BY <1>1, <2>1, <2>2, <2>3, <2>4, <2>5, <2>6, <2>7 DEF WriterStep
  <1>2. ASSUME pc'[w] # pc[w]
        PROVE  WriterStep(w) \/ pc[w] \in {"idle", "answered"} \/ pc'[w] = "idle"
    <2>1. ASSUME NEW v \in Writers, v # w, NEW p, pc' = [pc EXCEPT ![v] = p] PROVE FALSE
      BY <1>2, <1>t, <2>1
    <2>2. ASSUME NEW v \in Writers, WriterStep(v) PROVE v = w
      <3>1. \E p : pc' = [pc EXCEPT ![v] = p]
        BY <2>2 DEF WriterStep, BeginWrite, Busy, ReadHead, InsertSnapshot, MoveHead,
           StatementFails, FinishCommit, FinishRollback, FinishFails, Return
      <3> QED BY <2>1, <3>1
    <2>3. ASSUME NEW v \in Writers, NEW s \in Scopes, Latest(v, s) PROVE pc[w] = "idle"
      BY <1>2, <1>t, <2>1, <2>3 DEF Latest
    <2>4. ASSUME NEW v \in Writers, RecordRun(v) \/ Exit(v) PROVE pc'[w] = "idle"
      BY <1>2, <1>t, <2>1, <2>4 DEF RecordRun, Exit
    <2>5. Doctor \/ UNCHANGED vars => FALSE
      BY <1>2 DEF Doctor, DoctorReadsRows, DoctorReadsHeads, DoctorReports, vars
    <2> QED BY <2>2, <2>3, <2>4, <2>5 DEF Next
  <1> QED BY <1>1, <1>2 DEF CommitGetsCloser

(***************************************************************************)
(* Each statement of `commit' brings its return closer, whatever the other *)
(* writers do; only the process itself, or its end, moves it at all.       *)
(***************************************************************************)
THEOREM CommitsGetCloser == Spec => [][\A w \in Writers : CommitGetsCloser(w)]_vars
PROOF
  <1>1. StoreInv /\ [Next]_vars => \A w \in Writers : CommitGetsCloser(w)
    BY NextCloser
  <1> QED BY <1>1, StoreInvariant, PTL DEF Spec
=============================================================================
