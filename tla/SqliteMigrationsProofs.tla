----------------------- MODULE SqliteMigrationsProofs -----------------------
(***************************************************************************)
(* What opening, migrating and setting aside the SQLite state store keeps, *)
(* for any number of processes, of builds and of migrations.               *)
(***************************************************************************)
EXTENDS SqliteMigrations, FiniteSetTheorems, TLAPS

(***************************************************************************)
(* The inductive invariant.                                                *)
(***************************************************************************)
InTx == {"pending", "apply", "row"}

\* Only the lock's holder is inside a transaction.
LockInv == \A o \in Opener : opener[o].phase \in InTx <=> lock = o

\* What the databases set aside hold, opened.
SetAside == {Opened(pair) : pair \in aside} \ {None}

RowsAside == UNION {c.rows : c \in SetAside}

\* Which files there are together, and that a log has what its database has; a
\* log that was left behind has nothing but what is set aside or stranded.
FilesInv ==
    /\ \A o \in Opener : opener[o].phase # "idle" => main # None /\ moving = None
    /\ moving # None => main = None
    /\ main = None /\ moving = None /\ wal # None => wal.rows \ stranded \subseteq RowsAside
    /\ wal # None /\ main # None => main.rows \subseteq wal.rows
    /\ wal # None /\ moving # None => moving.rows \subseteq wal.rows

\* The tables of the version, no fewer and no more.
Whole(c) == c # None => c.tables = 1..c.version

WholeInv ==
    /\ Whole(main) /\ Whole(wal) /\ Whole(moving)
    /\ \A c \in copies : Whole(c)
    /\ \A pair \in aside : Whole(pair.main) /\ Whole(pair.wal)

\* The transaction of a process: what is stored, and the migrations it made.
TxInv(p) ==
    /\ p.tx \in Content
    /\ p.tx.rows = Stored.rows /\ Stored.version <= p.tx.version
    /\ p.phase \in {"pending", "apply"} => p.tx.tables = 1..p.tx.version
    /\ p.phase = "apply" => p.tx.version <= p.known
    /\ p.phase = "row" => p.tx.tables = 1..(p.tx.version + 1) /\ p.tx.version < p.known

\* The copy of a process that found data.
CopyInv(p) ==
    /\ p.copy \in copies
    /\ p.applied <= p.copy.version /\ p.copy.version <= Stored.version
    /\ p.seen \subseteq p.copy.rows

ProcessInv(p) ==
    /\ p.why # "exists"
    /\ p.phase = "open" => p.known <= Stored.version
    /\ p.phase \in {"copy", "recheck"} => p.applied <= Stored.version /\ p.seen \subseteq Stored.rows
    /\ p.phase \in {"begin"} \cup InTx /\ p.applied > 0 => CopyInv(p)
    /\ p.phase \in InTx => TxInv(p)

OpenerInv == \A o \in Opener : ProcessInv(opener[o])

MigrationInv ==
    /\ TypeOK /\ LockInv /\ FilesInv /\ WholeInv /\ OpenerInv
    /\ OldVersionKept /\ NothingDeleted

(***************************************************************************)
(* Facts about what is stored and about one process.                       *)
(***************************************************************************)
LEMMA ContentFacts ==
    ASSUME NEW c \in Content
    PROVE  /\ c # None
           /\ c.version \in Nat /\ c.version <= Latest
           /\ c.tables \subseteq 1..Latest /\ c.rows \subseteq 1..MaxRows
  BY LatestAssumption, NoneAssumption DEF Content

\* Whoever is in use finds a database.
LEMMA StoredFacts ==
    ASSUME TypeOK, WholeInv, main # None
    PROVE  /\ Stored \in Content /\ Whole(Stored)
           /\ Stored.version \in Nat /\ Stored.version <= Latest
  BY ContentFacts DEF TypeOK, Stored, WholeInv

LEMMA IdleFacts == Idle \in Processes /\ ProcessInv(Idle) /\ ProcessInv(Idle)'
<1>1. Idle \in Processes
  BY LatestAssumption DEF Idle, Processes, Phases
<1>2. Idle.phase = "idle" /\ Idle.why # "exists"
  BY NoneAssumption DEF Idle
<1> QED BY <1>1, <1>2 DEF ProcessInv, InTx

\* What a process's invariant speaks of, unchanged.
LEMMA ProcessSame ==
    ASSUME NEW p, UNCHANGED <<main, wal, copies>>, ProcessInv(p)
    PROVE  ProcessInv(p)'
  BY DEF ProcessInv, CopyInv, TxInv, Stored

\* What is stored grows under a process that is not in a transaction.
LEMMA ProcessStays ==
    ASSUME NEW p \in Processes, ProcessInv(p), copies \subseteq copies', copies \subseteq Content,
           Stored \in Content, Stored' \in Content,
           Stored.version <= Stored'.version, Stored.rows \subseteq Stored'.rows,
           p.phase \in InTx => Stored' = Stored
    PROVE  ProcessInv(p)'
<1>1. /\ Stored.version \in Nat /\ Stored'.version \in Nat
      /\ p.known \in Nat /\ p.applied \in Nat
  BY LatestAssumption, ContentFacts DEF Processes
<1>2. ASSUME CopyInv(p) PROVE CopyInv(p)'
  <2>1. p.copy.version \in Nat
    BY <1>2, ContentFacts DEF CopyInv
  <2> QED BY <1>1, <1>2, <2>1 DEF CopyInv
<1>3. ASSUME TxInv(p), p.phase \in InTx PROVE TxInv(p)'
  BY <1>3 DEF TxInv
<1> QED BY <1>1, <1>2, <1>3 DEF ProcessInv

\* A step of one process that leaves the files alone, but for new copies.
LEMMA ProcessStep ==
    ASSUME MigrationInv, NEW o \in Opener, NEW p \in Processes,
           opener' = [opener EXCEPT ![o] = p],
           UNCHANGED <<main, wal, aside, moving, history>>,
           copies \subseteq copies', copies' \subseteq Content, \A c \in copies' : Whole(c),
           p.phase # "idle" => main # None /\ moving = None,
           lock' \in Opener \cup {None},
           p.phase \in InTx <=> lock' = o,
           \A q \in Opener : q # o => (lock' = q <=> lock = q),
           ProcessInv(p)'
    PROVE  MigrationInv'
<1>1. \A q \in Opener : opener'[q] = IF q = o THEN p ELSE opener[q]
  BY DEF MigrationInv, TypeOK
<1>2. TypeOK'
  BY DEF MigrationInv, TypeOK, history
<1>3. LockInv'
  BY <1>1 DEF MigrationInv, LockInv
<1>4. FilesInv'
  BY <1>1 DEF MigrationInv, FilesInv, RowsAside, SetAside, Opened, history
<1>5. WholeInv'
  BY DEF MigrationInv, WholeInv, Whole
<1>6. OpenerInv'
  <2>1. ASSUME NEW q \in Opener, q # o PROVE ProcessInv(opener[q])'
    <3>1. PICK r : r = opener[q]
      OBVIOUS
    <3>2. r \in Processes /\ ProcessInv(r)
      BY <3>1 DEF MigrationInv, TypeOK, OpenerInv
    <3>3. ProcessInv(r)'
      <4>1. CASE main # None
        <5>1. Stored \in Content /\ Stored' = Stored /\ Stored.version \in Nat
          BY <4>1, StoredFacts DEF MigrationInv, Stored
        <5> QED BY <3>2, <5>1, ProcessStays DEF MigrationInv, TypeOK
      <4>2. CASE main = None
        <5>1. r.phase = "idle"
          BY <3>1, <4>2 DEF MigrationInv, FilesInv
        <5> QED BY <3>2, <5>1 DEF ProcessInv, InTx
      <4> QED BY <4>1, <4>2
    <3> QED BY <1>1, <2>1, <3>1, <3>3
  <2>2. ProcessInv(opener[o])'
    BY <1>1
  <2> QED BY <2>1, <2>2 DEF OpenerInv
<1>7. OldVersionKept'
  BY DEF MigrationInv, OldVersionKept, history
<1>8. NothingDeleted'
  BY DEF MigrationInv, NothingDeleted, There, Opened, history
<1> QED BY <1>2, <1>3, <1>4, <1>5, <1>6, <1>7, <1>8 DEF MigrationInv

\* A step of one process that keeps, or gives back, the lock, and writes nothing.
LEMMA LocalStep ==
    ASSUME MigrationInv, NEW o \in Opener, NEW p \in Processes,
           opener' = [opener EXCEPT ![o] = p], opener[o].phase # "idle",
           UNCHANGED <<disk, history>>,
           IF p.phase \in InTx THEN lock = o /\ lock' = o
           ELSE lock' = (IF lock = o THEN None ELSE lock),
           ProcessInv(p)
    PROVE  MigrationInv'
<1>1. ProcessInv(p)'
  BY ProcessSame DEF disk
<1>2. lock' \in Opener \cup {None} /\ (p.phase \in InTx <=> lock' = o)
      /\ \A q \in Opener : q # o => (lock' = q <=> lock = q)
  BY NoneAssumption DEF MigrationInv, TypeOK
<1>3. main # None /\ moving = None
  BY DEF MigrationInv, FilesInv
<1>4. copies' = copies /\ copies' \subseteq Content /\ \A c \in copies' : Whole(c)
  BY DEF MigrationInv, TypeOK, WholeInv, disk
<1> QED BY <1>1, <1>2, <1>3, <1>4, ProcessStep DEF disk

(***************************************************************************)
(* The initial state, and the steps one by one.                            *)
(***************************************************************************)
LEMMA InitInv == Init => MigrationInv
<1> SUFFICES ASSUME Init PROVE MigrationInv OBVIOUS
<1>1. TypeOK
  BY IdleFacts DEF Init, TypeOK
<1>2. OpenerInv /\ \A o \in Opener : opener[o].phase = "idle"
  <2>1. Idle.phase = "idle"
    BY DEF Idle
  <2> QED BY <2>1, IdleFacts DEF Init, OpenerInv
<1>3. LockInv
  BY <1>2, NoneAssumption DEF Init, LockInv, InTx
<1>4. FilesInv /\ WholeInv
  BY <1>2 DEF Init, FilesInv, WholeInv, Whole
<1>5. OldVersionKept /\ NothingDeleted
  BY DEF Init, OldVersionKept, NothingDeleted
<1> QED BY <1>1, <1>2, <1>3, <1>4, <1>5 DEF MigrationInv

\* What a process that is in use knows.
LEMMA UseFacts ==
    ASSUME MigrationInv, NEW o \in Opener, opener[o].phase # "idle"
    PROVE  /\ opener[o] \in Processes /\ ProcessInv(opener[o])
           /\ main # None /\ moving = None
           /\ Stored \in Content /\ Whole(Stored)
           /\ Stored.version \in Nat /\ Stored.version <= Latest
           /\ opener[o].known \in Nat /\ opener[o].applied \in Nat
           /\ opener[o].phase \in InTx <=> lock = o
<1>1. main # None /\ moving = None
  BY DEF MigrationInv, FilesInv
<1>2. opener[o] \in Processes /\ ProcessInv(opener[o]) /\ (opener[o].phase \in InTx <=> lock = o)
  BY DEF MigrationInv, TypeOK, OpenerInv, LockInv
<1>3. opener[o].known \in Nat /\ opener[o].applied \in Nat
  BY <1>2, LatestAssumption DEF Processes
<1> QED BY <1>1, <1>2, <1>3, StoredFacts DEF MigrationInv

\* `open' returns, with an error or with a store that has the build's schema.
LEMMA ReturnStep ==
    ASSUME MigrationInv, NEW o \in Opener, opener[o].phase # "idle",
           NEW phase \in {"open", "error"}, NEW why \in {None, "failed", "newer"},
           Return(o, phase, why), lock' = (IF lock = o THEN None ELSE lock),
           phase = "open" => opener[o].known <= Stored.version,
           UNCHANGED <<disk, history>>
    PROVE  MigrationInv'
<1>1. PICK p : p = [Idle EXCEPT !.phase = phase, !.known = opener[o].known, !.why = why]
  OBVIOUS
<1>2. opener[o].known \in 1..Latest
  BY DEF MigrationInv, TypeOK, Processes
<1>3. p \in Processes /\ p.phase = phase /\ p.known = opener[o].known /\ p.why = why
  BY <1>1, <1>2, IdleFacts DEF Processes, Phases
<1>4. ProcessInv(p)
  BY <1>3, NoneAssumption DEF ProcessInv, InTx
<1>5. p.phase \notin InTx
  BY <1>3 DEF InTx
<1>6. opener' = [opener EXCEPT ![o] = p]
  BY <1>1 DEF Return
<1> QED BY <1>3, <1>4, <1>5, <1>6, LocalStep

LEMMA StopStep ==
    ASSUME MigrationInv, NEW o \in Opener, opener[o].phase # "idle",
           NEW why \in {None, "failed", "newer"}, Stop(o, why)
    PROVE  MigrationInv'
  BY ReturnStep DEF Stop

LEMMA DieStep ==
    ASSUME MigrationInv, NEW o \in Opener, Die(o)
    PROVE  MigrationInv'
<1>1. Idle \in Processes /\ ProcessInv(Idle) /\ Idle.phase \notin InTx
  BY IdleFacts DEF Idle, InTx
<1> QED BY <1>1, LocalStep DEF Die, InUse

\* Before the transaction: the version is read, and a copy kept.
LEMMA PreparationStep ==
    ASSUME MigrationInv, NEW o \in Opener,
           CreateTable(o) \/ ReadVersion(o) \/ Copy(o) \/ CopyFails(o) \/ Recheck(o)
    PROVE  MigrationInv'
<1>0. opener[o].phase \notin InTx /\ opener[o].phase # "idle"
  BY DEF CreateTable, ReadVersion, Copy, CopyFails, Recheck, At, InTx
<1>1. /\ opener[o] \in Processes /\ ProcessInv(opener[o]) /\ main # None /\ moving = None
      /\ Stored \in Content /\ Whole(Stored)
      /\ Stored.version \in Nat /\ Stored.version <= Latest
      /\ opener[o].known \in Nat /\ lock # o
  BY <1>0, UseFacts
<1>2. ASSUME NEW phase \in {"version", "recheck"}, Goto(o, phase), UNCHANGED <<lock, disk, history>>,
             phase = "recheck" => opener[o].phase = "copy"
      PROVE  MigrationInv'
  <2>1. PICK p : p = [opener[o] EXCEPT !.phase = phase]
    OBVIOUS
  <2>2. /\ p \in Processes /\ p.phase = phase /\ p.why = opener[o].why
        /\ p.applied = opener[o].applied /\ p.seen = opener[o].seen
    BY <1>1, <2>1 DEF Processes, Phases
  <2>3. ProcessInv(p) /\ p.phase \notin InTx
    BY <1>1, <1>2, <2>2 DEF ProcessInv, InTx
  <2>4. opener' = [opener EXCEPT ![o] = p]
    BY <1>1, <1>2, <2>1 DEF Goto
  <2> QED BY <1>0, <1>1, <1>2, <2>2, <2>3, <2>4, LocalStep
<1>3. CASE CreateTable(o)
  BY <1>2, <1>3 DEF CreateTable
<1>4. CASE CopyFails(o)
  BY <1>2, <1>4 DEF CopyFails, At
<1>5. CASE Recheck(o)
  BY <1>0, <1>1, <1>5, ReturnStep, StopStep DEF Recheck
<1>6. CASE ReadVersion(o)
  <2>1. CASE Stored.version = opener[o].known
    <3>1. Return(o, "open", None) /\ UNCHANGED <<lock, disk, history>>
      BY <1>1, <1>6, <2>1 DEF ReadVersion
    <3> QED BY <1>0, <1>1, <2>1, <3>1, ReturnStep
  <2>2. CASE Stored.version > opener[o].known
    <3>1. Return(o, "error", "newer") /\ UNCHANGED <<lock, disk, history>>
      BY <1>1, <1>6, <2>2 DEF ReadVersion
    <3> QED BY <1>0, <1>1, <3>1, ReturnStep
  <2>3. CASE Stored.version < opener[o].known
    <3>1. PICK p : p = [opener[o] EXCEPT !.phase = IF Stored.version = 0 THEN "begin" ELSE "copy",
                                         !.applied = Stored.version, !.seen = Stored.rows]
      OBVIOUS
    <3>2. opener' = [opener EXCEPT ![o] = p] /\ UNCHANGED <<lock, disk, history>>
      BY <1>1, <1>6, <2>3, <3>1 DEF ReadVersion
    <3>3. Stored.rows \in SUBSET (1..MaxRows) /\ Stored.version \in 0..Latest
      BY <1>1, ContentFacts
    <3>4. /\ p \in Processes /\ p.phase = (IF Stored.version = 0 THEN "begin" ELSE "copy")
          /\ p.applied = Stored.version /\ p.seen = Stored.rows /\ p.why = opener[o].why
      BY <1>1, <3>1, <3>3 DEF Processes, Phases
    <3>5. ProcessInv(p) /\ p.phase \notin InTx
      BY <1>1, <3>4 DEF ProcessInv, InTx
    <3> QED BY <1>0, <1>1, <3>2, <3>4, <3>5, LocalStep
  <2> QED BY <1>1, <2>1, <2>2, <2>3
<1>7. CASE Copy(o)
  <2>1. PICK p : p = [opener[o] EXCEPT !.phase = "begin", !.copy = Stored]
    OBVIOUS
  <2>2. /\ opener' = [opener EXCEPT ![o] = p] /\ copies' = copies \cup {Stored}
        /\ UNCHANGED <<main, wal, lock, aside, moving, history>> /\ opener[o].phase = "copy"
    BY <1>7, <2>1 DEF Copy, At
  <2>3. /\ p \in Processes /\ p.phase = "begin" /\ p.copy = Stored /\ p.why = opener[o].why
        /\ p.applied = opener[o].applied /\ p.seen = opener[o].seen
    BY <1>1, <2>1 DEF Processes, Phases
  <2>4. ProcessInv(p)'
    <3>1. /\ p.copy \in copies' /\ p.applied <= p.copy.version /\ p.copy.version <= Stored.version
          /\ p.seen \subseteq p.copy.rows /\ p.why # "exists"
      BY <1>1, <2>2, <2>3 DEF ProcessInv
    <3>2. Stored' = Stored
      BY <2>2 DEF Stored
    <3> QED BY <2>3, <3>1, <3>2 DEF ProcessInv, CopyInv, InTx
  <2>5. copies \subseteq copies' /\ copies' \subseteq Content /\ \A c \in copies' : Whole(c)
    BY <1>1, <2>2 DEF MigrationInv, TypeOK, WholeInv
  <2>6. p.phase \notin InTx /\ lock' \in Opener \cup {None} /\ lock' # o
    BY <1>1, <2>2, <2>3 DEF InTx, MigrationInv, TypeOK
  <2> QED BY <1>1, <2>2, <2>3, <2>4, <2>5, <2>6, ProcessStep
<1> QED BY <1>3, <1>4, <1>5, <1>6, <1>7

\* The transaction, until it is committed.
LEMMA TransactionStep ==
    ASSUME MigrationInv, NEW o \in Opener,
           Begin(o) \/ Pending(o) \/ ApplyStatements(o) \/ InsertVersion(o) \/ Fails(o)
    PROVE  MigrationInv'
<1>0. opener[o].phase # "idle"
  BY DEF Begin, Pending, ApplyStatements, InsertVersion, Fails, At
<1>1. /\ opener[o] \in Processes /\ ProcessInv(opener[o]) /\ main # None /\ moving = None
      /\ Stored \in Content /\ Whole(Stored)
      /\ Stored.version \in Nat /\ Stored.version <= Latest
      /\ opener[o].known \in Nat /\ opener[o].known <= Latest
      /\ opener[o].phase \in InTx <=> lock = o
  <2>1. opener[o].known \in 1..Latest
    BY DEF MigrationInv, TypeOK, Processes
  <2> QED BY <1>0, <2>1, UseFacts, LatestAssumption
<1>2. CASE Begin(o)
  <2>1. PICK p : p = [opener[o] EXCEPT !.phase = "pending", !.tx = Stored]
    OBVIOUS
  <2>2. /\ opener' = [opener EXCEPT ![o] = p] /\ lock = None /\ lock' = o
        /\ UNCHANGED <<disk, history>> /\ opener[o].phase = "begin"
    BY <1>2, <2>1 DEF Begin, At
  <2>3. /\ p \in Processes /\ p.phase = "pending" /\ p.tx = Stored /\ p.why = opener[o].why
        /\ p.applied = opener[o].applied /\ p.seen = opener[o].seen /\ p.copy = opener[o].copy
    BY <1>1, <2>1 DEF Processes, Phases
  <2>4. TxInv(p)
    BY <1>1, <2>3, ContentFacts DEF TxInv, Whole
  <2>5. ProcessInv(p)
    BY <1>1, <2>2, <2>3, <2>4 DEF ProcessInv, CopyInv, InTx
  <2>6. ProcessInv(p)'
    BY <2>2, <2>5, ProcessSame DEF disk
  <2>7. copies' = copies /\ copies' \subseteq Content /\ \A c \in copies' : Whole(c)
    BY <2>2 DEF MigrationInv, TypeOK, WholeInv, disk
  <2>8. p.phase \in InTx /\ \A q \in Opener : q # o => (lock' = q <=> lock = q)
    BY <2>2, <2>3, NoneAssumption DEF InTx
  <2> QED BY <1>1, <2>2, <2>3, <2>6, <2>7, <2>8, ProcessStep DEF disk
<1>3. CASE Fails(o)
  BY <1>0, <1>3, StopStep DEF Fails
<1>4. CASE Pending(o)
  <2>1. opener[o].phase = "pending"
    BY <1>4 DEF Pending, At
  <2>2. CASE opener[o].tx.version > opener[o].known
    BY <1>0, <1>4, <2>2, StopStep DEF Pending
  <2>3. CASE ~(opener[o].tx.version > opener[o].known)
    <3>1. PICK p : p = [opener[o] EXCEPT !.phase = "apply"]
      OBVIOUS
    <3>2. opener' = [opener EXCEPT ![o] = p] /\ UNCHANGED <<lock, disk, history>>
      BY <1>1, <1>4, <2>3, <3>1 DEF Pending, Goto
    <3>3. /\ p \in Processes /\ p.phase = "apply" /\ p.tx = opener[o].tx /\ p.why = opener[o].why
          /\ p.applied = opener[o].applied /\ p.seen = opener[o].seen /\ p.copy = opener[o].copy
          /\ p.known = opener[o].known
      BY <1>1, <3>1 DEF Processes, Phases
    <3>4. TxInv(opener[o]) /\ opener[o].tx.version \in Nat
      BY <1>1, <2>1, ContentFacts DEF ProcessInv, InTx, TxInv
    <3>5. TxInv(p)
      BY <1>1, <2>1, <2>3, <3>3, <3>4 DEF TxInv
    <3>6. ProcessInv(p) /\ p.phase \in InTx /\ lock = o
      BY <1>1, <2>1, <3>3, <3>5 DEF ProcessInv, CopyInv, InTx
    <3> QED BY <1>0, <3>2, <3>3, <3>6, LocalStep
  <2> QED BY <2>2, <2>3
<1>5. CASE ApplyStatements(o)
  <2> DEFINE version == opener[o].tx.version + 1
  <2>1. opener[o].phase = "apply" /\ version <= opener[o].known
    BY <1>5 DEF ApplyStatements, At
  <2>2. TxInv(opener[o]) /\ opener[o].tx.version \in Nat /\ opener[o].tx \in Content
    BY <1>1, <2>1, ContentFacts DEF ProcessInv, InTx, TxInv
  <2>3. opener[o].tx.tables = 1..opener[o].tx.version
    BY <2>1, <2>2 DEF TxInv
  <2>4. version \notin opener[o].tx.tables
    BY <2>2, <2>3
  <2>5. PICK tx : tx = [opener[o].tx EXCEPT !.tables = opener[o].tx.tables \cup {version}]
    OBVIOUS
  <2>6. /\ tx \in Content /\ tx.version = opener[o].tx.version /\ tx.rows = opener[o].tx.rows
        /\ tx.tables = 1..version
    <3>1. version \in 1..Latest
      BY <1>1, <2>1, <2>2, LatestAssumption
    <3>2. \A v \in Nat : 1..v \cup {v + 1} = 1..(v + 1)
      OBVIOUS
    <3> QED BY <2>2, <2>3, <2>5, <3>1, <3>2 DEF Content
  <2>7. PICK p : p = [opener[o] EXCEPT !.phase = "row", !.tx = tx]
    OBVIOUS
  <2>8. opener' = [opener EXCEPT ![o] = p] /\ UNCHANGED <<lock, disk, history>>
    BY <1>1, <1>5, <2>2, <2>4, <2>5, <2>7 DEF ApplyStatements, Content
  <2>9. /\ p \in Processes /\ p.phase = "row" /\ p.tx = tx /\ p.why = opener[o].why
        /\ p.applied = opener[o].applied /\ p.seen = opener[o].seen /\ p.copy = opener[o].copy
        /\ p.known = opener[o].known
    BY <1>1, <2>6, <2>7 DEF Processes, Phases
  <2>10. TxInv(p)
    BY <1>1, <2>1, <2>2, <2>6, <2>9 DEF TxInv
  <2>11. ProcessInv(p) /\ p.phase \in InTx /\ lock = o
    BY <1>1, <2>1, <2>9, <2>10 DEF ProcessInv, CopyInv, InTx
  <2> QED BY <1>0, <2>8, <2>9, <2>11, LocalStep
<1>6. CASE InsertVersion(o)
  <2>1. opener[o].phase = "row"
    BY <1>6 DEF InsertVersion, At
  <2>2. TxInv(opener[o]) /\ opener[o].tx.version \in Nat /\ opener[o].tx \in Content
    BY <1>1, <2>1, ContentFacts DEF ProcessInv, InTx, TxInv
  <2>3. PICK tx : tx = [opener[o].tx EXCEPT !.version = opener[o].tx.version + 1]
    OBVIOUS
  <2>4. /\ tx \in Content /\ tx.version = opener[o].tx.version + 1 /\ tx.rows = opener[o].tx.rows
        /\ tx.tables = 1..tx.version /\ tx.version <= opener[o].known
    <3>1. opener[o].tx.version + 1 \in 0..Latest /\ opener[o].tx.version + 1 <= opener[o].known
          /\ opener[o].tx.tables = 1..(opener[o].tx.version + 1)
      BY <1>1, <2>1, <2>2, LatestAssumption DEF TxInv
    <3> QED BY <2>2, <2>3, <3>1 DEF Content
  <2>5. PICK p : p = [opener[o] EXCEPT !.phase = "apply", !.tx = tx]
    OBVIOUS
  <2>6. opener' = [opener EXCEPT ![o] = p] /\ UNCHANGED <<lock, disk, history>>
    BY <1>1, <1>6, <2>2, <2>3, <2>5 DEF InsertVersion, Content
  <2>7. /\ p \in Processes /\ p.phase = "apply" /\ p.tx = tx /\ p.why = opener[o].why
        /\ p.applied = opener[o].applied /\ p.seen = opener[o].seen /\ p.copy = opener[o].copy
        /\ p.known = opener[o].known
    BY <1>1, <2>4, <2>5 DEF Processes, Phases
  <2>8. TxInv(p)
    BY <1>1, <2>2, <2>4, <2>7 DEF TxInv
  <2>9. ProcessInv(p) /\ p.phase \in InTx /\ lock = o
    BY <1>1, <2>1, <2>7, <2>8 DEF ProcessInv, CopyInv, InTx
  <2> QED BY <1>0, <2>6, <2>7, <2>9, LocalStep
<1> QED BY <1>2, <1>3, <1>4, <1>5, <1>6

\* Whatever was somewhere still is.
Covered == \A c \in There : \E d \in There' : c.rows \subseteq d.rows

LEMMA CoveredKeeps ==
    ASSUME NothingDeleted, Covered, UNCHANGED <<committed, stranded>>
    PROVE  NothingDeleted'
  BY DEF NothingDeleted, Covered

\* A write to the log: the migration's COMMIT, or that of a commit.
LEMMA WriteStep ==
    ASSUME MigrationInv, NEW new \in Content, Whole(new), wal' = new, main # None, main' = main,
           Stored.rows \subseteq new.rows, Stored.version <= new.version,
           lock' \in {lock, None},
           opener' \in [Opener -> Processes], OpenerInv',
           \A o \in Opener : /\ opener'[o].phase \in InTx <=> lock' = o
                             /\ opener'[o].phase = "idle" <=> opener[o].phase = "idle",
           UNCHANGED <<copies, aside, moving, stranded>>,
           committed' \subseteq 1..MaxRows, committed' \subseteq committed \cup new.rows,
           migrations' \subseteq [old : Content, read : 0..Latest, copy : Content \cup {None},
                                  seen : SUBSET (1..MaxRows)],
           OldVersionKept'
    PROVE  MigrationInv'
<1>1. TypeOK'
  BY DEF MigrationInv, TypeOK
<1>2. LockInv'
  BY DEF LockInv
<1>3. new # None /\ (moving # None => main = None)
  BY ContentFacts DEF MigrationInv, FilesInv
<1>4. main.rows \subseteq new.rows
  BY DEF MigrationInv, FilesInv, Stored
<1>5. FilesInv'
  BY <1>3, <1>4 DEF MigrationInv, FilesInv
<1>6. WholeInv'
  BY DEF MigrationInv, WholeInv, Whole
<1>7. NothingDeleted'
  <2>1. new \in There'
    BY <1>3 DEF There
  <2>2. ASSUME NEW c \in There PROVE \E d \in There' : c.rows \subseteq d.rows
    <3>1. CASE c = wal
      <4>1. Stored = wal
        BY <2>2, <3>1 DEF Stored, There
      <4> QED BY <2>1, <3>1, <4>1
    <3>2. CASE c # wal
      <4>1. c \in There'
        BY <2>2, <3>2 DEF There, Opened
      <4> QED BY <4>1
    <3> QED BY <3>1, <3>2
  <2>3. ASSUME NEW r \in committed', r \notin stranded PROVE \E d \in There' : r \in d.rows
    <3>1. CASE r \in new.rows
      BY <2>1, <3>1
    <3>2. CASE r \in committed
      <4>1. PICK c \in There : r \in c.rows
        BY <2>3, <3>2 DEF MigrationInv, NothingDeleted
      <4> QED BY <2>2, <4>1
    <3> QED BY <2>3, <3>1, <3>2
  <2>4. stranded' = stranded
    OBVIOUS
  <2> QED BY <2>3, <2>4 DEF NothingDeleted
<1> QED BY <1>1, <1>2, <1>5, <1>6, <1>7 DEF MigrationInv

LEMMA FinishStep ==
    ASSUME MigrationInv, NEW o \in Opener, Finish(o)
    PROVE  MigrationInv'
<1>1. /\ opener[o].phase = "apply" /\ opener[o].tx.version = opener[o].known
      /\ wal' = opener[o].tx /\ lock' = None /\ Return(o, "open", None)
      /\ migrations' = IF Stored.version \in {0, opener[o].known} THEN migrations
                       ELSE migrations \cup {[old |-> Stored, read |-> opener[o].applied,
                                              copy |-> opener[o].copy, seen |-> opener[o].seen]}
      /\ UNCHANGED <<main, copies, aside, moving, committed, stranded>>
  BY DEF Finish, At
<1>2. /\ opener[o] \in Processes /\ ProcessInv(opener[o]) /\ main # None
      /\ Stored \in Content /\ opener[o].known \in Nat /\ lock = o
  BY <1>1, UseFacts DEF InTx
<1>3. PICK new : new = opener[o].tx
  OBVIOUS
<1>4. /\ new \in Content /\ Whole(new) /\ new.rows = Stored.rows
      /\ Stored.version <= new.version /\ new.version = opener[o].known
  BY <1>1, <1>2, <1>3 DEF ProcessInv, TxInv, InTx, Whole
<1>5. Stored' = new
  BY <1>1, <1>3, <1>4, ContentFacts DEF Stored
<1>6. PICK p : p = [Idle EXCEPT !.phase = "open", !.known = opener[o].known, !.why = None]
  OBVIOUS
<1>7. /\ p \in Processes /\ p.phase = "open" /\ p.known = opener[o].known /\ p.why = None
      /\ opener' = [opener EXCEPT ![o] = p]
  <2>1. opener[o].known \in 1..Latest
    BY <1>2 DEF Processes
  <2> QED BY <1>1, <1>6, <2>1, IdleFacts DEF Return, Processes, Phases
<1>8. \A q \in Opener : opener'[q] = IF q = o THEN p ELSE opener[q]
  BY <1>7 DEF MigrationInv, TypeOK
<1>9. ProcessInv(p)'
  <2>1. p.known <= Stored'.version
    BY <1>2, <1>4, <1>5, <1>7
  <2> QED BY <1>7, <2>1, NoneAssumption DEF ProcessInv, InTx
<1>10. OpenerInv'
  <2>1. ASSUME NEW q \in Opener, q # o PROVE ProcessInv(opener[q])'
    <3>1. PICK r : r = opener[q]
      OBVIOUS
    <3>2. r \in Processes /\ ProcessInv(r) /\ r.phase \notin InTx
      BY <1>2, <2>1, <3>1 DEF MigrationInv, TypeOK, OpenerInv, LockInv
    <3>3. ProcessInv(r)'
      BY <1>1, <1>2, <1>4, <1>5, <3>2, ProcessStays DEF MigrationInv, TypeOK
    <3> QED BY <1>8, <2>1, <3>1, <3>3
  <2> QED BY <1>8, <1>9, <2>1 DEF OpenerInv
<1>11. \A q \in Opener : /\ opener'[q].phase \in InTx <=> lock' = q
                         /\ opener'[q].phase = "idle" <=> opener[q].phase = "idle"
  BY <1>1, <1>2, <1>7, <1>8, NoneAssumption DEF MigrationInv, LockInv, InTx
<1>12. PICK m : m = [old |-> Stored, read |-> opener[o].applied,
                     copy |-> opener[o].copy, seen |-> opener[o].seen]
  OBVIOUS
<1>13. migrations' \subseteq migrations \cup {m}
  BY <1>1, <1>12
<1>14. m \in [old : Content, read : 0..Latest, copy : Content \cup {None},
              seen : SUBSET (1..MaxRows)]
  BY <1>2, <1>12 DEF Processes
<1>15. OldVersionKept'
  <2>1. m.read > 0 => /\ m.copy \in copies /\ m.copy.version \in m.read..m.old.version
                      /\ m.seen \subseteq m.copy.rows
    <3> SUFFICES ASSUME m.read > 0
                 PROVE  /\ m.copy \in copies /\ m.copy.version \in m.read..m.old.version
                        /\ m.seen \subseteq m.copy.rows
      OBVIOUS
    <3>1. CopyInv(opener[o])
      BY <1>1, <1>2, <1>12 DEF ProcessInv, InTx
    <3>2. opener[o].copy \in Content
      BY <3>1 DEF CopyInv, MigrationInv, TypeOK
    <3>3. opener[o].copy.version \in Nat /\ Stored.version \in Nat /\ opener[o].applied \in Nat
      BY <1>2, <3>2, ContentFacts, LatestAssumption DEF Processes
    <3> QED BY <1>12, <3>1, <3>3 DEF CopyInv
  <2> QED BY <1>1, <1>13, <2>1 DEF MigrationInv, OldVersionKept
<1>16. /\ opener' \in [Opener -> Processes]
       /\ migrations' \subseteq [old : Content, read : 0..Latest, copy : Content \cup {None},
                                 seen : SUBSET (1..MaxRows)]
       /\ committed' \subseteq 1..MaxRows
  BY <1>1, <1>7, <1>13, <1>14 DEF MigrationInv, TypeOK
<1> QED BY <1>1, <1>2, <1>3, <1>4, <1>10, <1>11, <1>15, <1>16, WriteStep

LEMMA CommitStep ==
    ASSUME MigrationInv, NEW o \in Opener, Commit(o)
    PROVE  MigrationInv'
<1>1. PICK row : row = Cardinality(committed) + 1
  OBVIOUS
<1>2. /\ opener[o].phase = "open" /\ lock = None /\ row <= MaxRows
      /\ committed' = committed \cup {row}
      /\ wal' = [Stored EXCEPT !.rows = @ \cup {row}]
      /\ UNCHANGED <<main, lock, opener, copies, aside, moving, migrations, stranded>>
  BY <1>1 DEF Commit, At
<1>3. row \in 1..MaxRows
  <2>1. IsFiniteSet(1..MaxRows)
    BY BoundsAssumption, FS_Interval
  <2>2. IsFiniteSet(committed)
    BY <2>1, FS_Subset DEF MigrationInv, TypeOK
  <2>3. Cardinality(committed) \in Nat
    BY <2>2, FS_CardinalityType
  <2> QED BY <1>1, <1>2, <2>3, BoundsAssumption
<1>4. main # None /\ Stored \in Content /\ Whole(Stored) /\ Stored.version \in Nat
  BY <1>2, UseFacts
<1>5. PICK new : new = [Stored EXCEPT !.rows = @ \cup {row}]
  OBVIOUS
<1>6. /\ new \in Content /\ new.version = Stored.version /\ new.tables = Stored.tables
      /\ new.rows = Stored.rows \cup {row}
  BY <1>3, <1>4, <1>5 DEF Content
<1>7. Whole(new)
  BY <1>4, <1>6, ContentFacts DEF Whole
<1>8. Stored' = new
  BY <1>2, <1>5, <1>6, ContentFacts DEF Stored
<1>9. OpenerInv'
  <2>1. ASSUME NEW q \in Opener PROVE ProcessInv(opener[q])'
    <3>1. PICK r : r = opener[q]
      OBVIOUS
    <3>2. r \in Processes /\ ProcessInv(r) /\ r.phase \notin InTx
      BY <1>2, <3>1, NoneAssumption DEF MigrationInv, TypeOK, OpenerInv, LockInv
    <3>3. ProcessInv(r)'
      BY <1>2, <1>4, <1>6, <1>8, <3>2, ProcessStays DEF MigrationInv, TypeOK
    <3> QED BY <1>2, <3>1, <3>3
  <2> QED BY <2>1 DEF OpenerInv
<1>10. OldVersionKept'
  BY <1>2 DEF MigrationInv, OldVersionKept
<1>11. \A q \in Opener : /\ opener'[q].phase \in InTx <=> lock' = q
                         /\ opener'[q].phase = "idle" <=> opener[q].phase = "idle"
  BY <1>2 DEF MigrationInv, LockInv
<1>12. /\ opener' \in [Opener -> Processes]
       /\ migrations' \subseteq [old : Content, read : 0..Latest, copy : Content \cup {None},
                                 seen : SUBSET (1..MaxRows)]
       /\ committed' \subseteq 1..MaxRows /\ committed' \subseteq committed \cup new.rows
  BY <1>2, <1>3, <1>6 DEF MigrationInv, TypeOK
<1>13. Stored.rows \subseteq new.rows /\ Stored.version <= new.version /\ wal' = new
       /\ lock' \in {lock, None}
  BY <1>2, <1>4, <1>5, <1>6
<1> QED BY <1>2, <1>4, <1>6, <1>7, <1>9, <1>10, <1>11, <1>12, <1>13, WriteStep

(***************************************************************************)
(* The files appear, are merged and are moved.                             *)
(***************************************************************************)
\* A step while nobody, or only who now leaves or comes, is in use.
LEMMA QuietOpeners ==
    ASSUME MigrationInv, NEW o \in Opener, NEW p \in Processes,
           \A q \in Opener : q # o => opener[q].phase = "idle",
           opener' = [opener EXCEPT ![o] = p], p.phase \in {"idle", "table"}, p.why # "exists",
           opener[o].phase \notin InTx, UNCHANGED lock
    PROVE  /\ opener' \in [Opener -> Processes] /\ OpenerInv' /\ LockInv'
           /\ \A q \in Opener : q # o => opener'[q].phase = "idle"
<1>1. opener' \in [Opener -> Processes] /\ \A q \in Opener : opener'[q] = IF q = o THEN p ELSE opener[q]
  BY DEF MigrationInv, TypeOK
<1>2. \A q \in Opener : opener'[q].why # "exists" /\ opener'[q].phase \in {"idle", "table"}
  BY <1>1 DEF MigrationInv, OpenerInv, ProcessInv
<1>3. OpenerInv'
  BY <1>2 DEF OpenerInv, ProcessInv, InTx
<1>4. LockInv'
  BY <1>1, <1>2 DEF MigrationInv, LockInv, InTx
<1> QED BY <1>1, <1>3, <1>4

LEMMA ConnectStep ==
    ASSUME MigrationInv, NEW o \in Opener, NEW known \in 1..Latest, Connect(o, known)
    PROVE  MigrationInv'
<1>1. PICK p : p = [Idle EXCEPT !.phase = "table", !.known = known]
  OBVIOUS
<1>2. p \in Processes /\ p.phase = "table" /\ p.why # "exists" /\ p.phase \notin InTx
  BY <1>1, IdleFacts, NoneAssumption DEF Processes, Phases, Idle, InTx
<1>3. /\ opener[o].phase = "idle" /\ moving = None /\ opener' = [opener EXCEPT ![o] = p]
      /\ UNCHANGED <<lock, copies, aside, moving, history>>
  BY <1>1 DEF Connect, At
<1>4. CASE main # None
  <2>1. UNCHANGED <<main, wal>>
    BY <1>4 DEF Connect
  <2>2. ProcessInv(p)'
    BY <1>2 DEF ProcessInv, InTx
  <2>3. copies' = copies /\ copies' \subseteq Content /\ \A c \in copies' : Whole(c)
    BY <1>3 DEF MigrationInv, TypeOK, WholeInv
  <2>4. lock' \in Opener \cup {None} /\ lock' # o
    BY <1>3 DEF MigrationInv, TypeOK, LockInv, InTx
  <2> QED BY <1>2, <1>3, <1>4, <2>1, <2>2, <2>3, <2>4, ProcessStep
<1>5. CASE main = None
  <2>1. main' = EmptyDatabase /\ wal' = None
    BY <1>5 DEF Connect
  <2>2. \A q \in Opener : opener[q].phase = "idle"
    BY <1>5 DEF MigrationInv, FilesInv
  <2>3. /\ opener' \in [Opener -> Processes] /\ OpenerInv' /\ LockInv'
    BY <1>2, <1>3, <2>2, QuietOpeners DEF InTx
  <2>4. EmptyDatabase \in Content /\ EmptyDatabase.tables = 1..EmptyDatabase.version
    BY LatestAssumption DEF EmptyDatabase, Content
  <2>5. EmptyDatabase # None
    BY <2>4, ContentFacts
  <2>6. TypeOK'
    BY <1>3, <2>1, <2>3, <2>4 DEF MigrationInv, TypeOK, history
  <2>7. FilesInv'
    BY <1>3, <2>1, <2>5 DEF FilesInv
  <2>8. WholeInv'
    BY <1>3, <2>1, <2>4 DEF MigrationInv, WholeInv, Whole
  <2>9. OldVersionKept'
    BY <1>3 DEF MigrationInv, OldVersionKept, history
  <2>10. NothingDeleted'
    <3> SUFFICES ASSUME NEW r \in committed, r \notin stranded
                 PROVE  \E d \in There' : r \in d.rows
      BY <1>3 DEF NothingDeleted, history
    <3>1. PICK c \in There : r \in c.rows
      BY DEF MigrationInv, NothingDeleted
    <3>2. CASE c = wal
      <4>1. PICK d \in SetAside : r \in d.rows
        BY <1>3, <1>5, <3>1, <3>2 DEF There, MigrationInv, FilesInv, RowsAside
      <4>2. d \in There'
        BY <1>3, <4>1 DEF SetAside, There, Opened
      <4> QED BY <4>1, <4>2
    <3>3. CASE c # wal
      <4>1. c \in There'
        BY <1>3, <1>5, <3>1, <3>3 DEF There, Opened
      <4> QED BY <3>1, <4>1
    <3> QED BY <3>2, <3>3
  <2> QED BY <2>3, <2>6, <2>7, <2>8, <2>9, <2>10 DEF MigrationInv
<1> QED BY <1>4, <1>5

LEMMA CloseStep ==
    ASSUME MigrationInv, NEW o \in Opener, Close(o)
    PROVE  MigrationInv'
<1>1. /\ opener[o].phase \in {"open", "error"} /\ opener' = [opener EXCEPT ![o] = Idle]
      /\ UNCHANGED <<lock, copies, aside, moving, history>>
  BY DEF Close
<1>2. opener[o].phase # "idle" /\ opener[o].phase \notin InTx
  BY <1>1 DEF InTx
<1>3. main # None /\ moving = None /\ Stored \in Content /\ Whole(Stored) /\ lock # o
  BY <1>2, UseFacts
<1>4. Idle \in Processes /\ ProcessInv(Idle) /\ Idle.phase = "idle" /\ Idle.why # "exists"
      /\ Idle.phase \notin InTx
  BY IdleFacts, NoneAssumption DEF Idle, InTx
<1>5. CASE InUse # {o}
  <2>1. UNCHANGED <<disk, history, lock>>
    BY <1>1, <1>5 DEF Close, disk
  <2> QED BY <1>1, <1>2, <1>3, <1>4, <2>1, LocalStep
<1>6. CASE InUse = {o}
  <2>1. main' = Stored /\ wal' = None
    BY <1>6 DEF Close
  <2>2. \A q \in Opener : q # o => opener[q].phase = "idle"
    BY <1>6 DEF InUse
  <2>3. opener' \in [Opener -> Processes] /\ OpenerInv' /\ LockInv'
    BY <1>1, <1>2, <1>4, <2>2, QuietOpeners
  <2>4. Stored # None
    BY <1>3, ContentFacts
  <2>5. TypeOK'
    BY <1>1, <1>3, <2>1, <2>3 DEF MigrationInv, TypeOK, history
  <2>6. FilesInv'
    BY <1>1, <1>3, <2>1, <2>4 DEF FilesInv
  <2>7. WholeInv'
    BY <1>1, <1>3, <2>1 DEF MigrationInv, WholeInv, Whole
  <2>8. OldVersionKept'
    BY <1>1 DEF MigrationInv, OldVersionKept, history
  <2>9. Covered
    <3>1. Stored \in There'
      BY <2>1, <2>4 DEF There
    <3>2. ASSUME NEW c \in There PROVE \E d \in There' : c.rows \subseteq d.rows
      <4>1. CASE c = wal \/ c = main
        <5>1. c.rows \subseteq Stored.rows
          BY <1>3, <3>2, <4>1 DEF There, Stored, MigrationInv, FilesInv
        <5> QED BY <3>1, <5>1
      <4>2. CASE c # wal /\ c # main
        <5>1. c \in There'
          BY <1>1, <3>2, <4>2 DEF There, Opened
        <5> QED BY <5>1
      <4> QED BY <4>1, <4>2
    <3> QED BY <3>2 DEF Covered
  <2>10. NothingDeleted'
    BY <1>1, <2>9, CoveredKeeps DEF MigrationInv, history
  <2> QED BY <2>3, <2>5, <2>6, <2>7, <2>8, <2>10 DEF MigrationInv
<1> QED BY <1>5, <1>6

LEMMA AsideStep ==
    ASSUME MigrationInv, MoveDatabase \/ MoveLog \/ MoveLogFails
    PROVE  MigrationInv'
<1>1. \A q \in Opener : opener[q].phase = "idle"
  BY DEF MoveDatabase, MoveLog, MoveLogFails, InUse, MigrationInv, FilesInv
<1>2. UNCHANGED <<lock, opener, copies, committed, migrations>>
  BY DEF MoveDatabase, MoveLog, MoveLogFails, history
<1>3. OpenerInv' /\ LockInv'
  BY <1>1, <1>2 DEF MigrationInv, OpenerInv, LockInv, ProcessInv, InTx
<1>4. OldVersionKept'
  BY <1>2 DEF MigrationInv, OldVersionKept
<1>5. CASE MoveDatabase
  <2>1. /\ moving' = main /\ main' = None /\ moving = None /\ main # None
        /\ UNCHANGED <<wal, aside, stranded>>
    BY <1>5 DEF MoveDatabase, history
  <2>2. TypeOK' /\ WholeInv'
    BY <1>2, <2>1 DEF MigrationInv, TypeOK, WholeInv, Whole
  <2>3. FilesInv'
    BY <1>1, <1>2, <2>1 DEF MigrationInv, FilesInv
  <2>4. There' = There
    BY <2>1 DEF There, Opened
  <2>5. NothingDeleted'
    BY <1>2, <2>1, <2>4 DEF MigrationInv, NothingDeleted
  <2> QED BY <1>3, <1>4, <2>2, <2>3, <2>5 DEF MigrationInv
<1>6. CASE MoveLog
  <2>1. PICK pair : pair = [main |-> moving, wal |-> wal]
    OBVIOUS
  <2>2. /\ aside' = aside \cup {pair} /\ wal' = None /\ moving' = None /\ moving # None
        /\ UNCHANGED <<main, stranded>>
    BY <1>6, <2>1 DEF MoveLog, history
  <2>3. TypeOK' /\ WholeInv'
    BY <1>2, <2>1, <2>2 DEF MigrationInv, TypeOK, WholeInv, Whole
  <2>4. FilesInv'
    BY <1>1, <1>2, <2>2 DEF MigrationInv, FilesInv
  <2>5. Covered
    <3>1. PICK d : d = Opened(pair)
      OBVIOUS
    <3>2. d = IF wal # None THEN wal ELSE moving
      BY <2>1, <3>1 DEF Opened
    <3>3. d \in There'
      BY <2>2, <3>1, <3>2 DEF There, Opened
    <3>4. ASSUME NEW c \in There PROVE \E e \in There' : c.rows \subseteq e.rows
      <4>1. CASE c = wal \/ c = moving
        <5>1. c.rows \subseteq d.rows
          BY <2>2, <3>2, <3>4, <4>1 DEF There, MigrationInv, FilesInv
        <5> QED BY <3>3, <5>1
      <4>2. CASE c # wal /\ c # moving
        <5>1. c \in There'
          BY <2>2, <3>4, <4>2 DEF There, Opened
        <5> QED BY <5>1
      <4> QED BY <4>1, <4>2
    <3> QED BY <3>4 DEF Covered
  <2>6. NothingDeleted'
    BY <1>2, <2>2, <2>5, CoveredKeeps DEF MigrationInv
  <2> QED BY <1>3, <1>4, <2>3, <2>4, <2>6 DEF MigrationInv
<1>7. CASE MoveLogFails
  <2>1. PICK pair : pair = [main |-> moving, wal |-> None]
    OBVIOUS
  <2>2. /\ aside' = aside \cup {pair} /\ moving' = None /\ moving # None /\ wal # None
        /\ stranded' = stranded \cup (wal.rows \ moving.rows)
        /\ UNCHANGED <<main, wal>>
    BY <1>7, <2>1 DEF MoveLogFails
  <2>3. wal \in Content /\ moving \in Content /\ wal.rows \subseteq 1..MaxRows
    BY <2>2 DEF MigrationInv, TypeOK, Content
  <2>4. TypeOK' /\ WholeInv'
    <3>1. stranded' \subseteq 1..MaxRows
      BY <2>2, <2>3 DEF MigrationInv, TypeOK
    <3>2. TypeOK'
      BY <1>2, <2>1, <2>2, <3>1 DEF MigrationInv, TypeOK
    <3>3. WholeInv'
      BY <1>2, <2>1, <2>2 DEF MigrationInv, WholeInv, Whole
    <3> QED BY <3>2, <3>3
  <2>5. Opened(pair) = moving /\ moving \in There' /\ moving \in SetAside'
    BY <2>1, <2>2 DEF Opened, There, SetAside
  <2>6. FilesInv'
    <3>1. wal.rows \ stranded' \subseteq moving.rows
      BY <2>2
    <3>2. wal'.rows \ stranded' \subseteq RowsAside'
      BY <2>2, <2>5, <3>1 DEF RowsAside
    <3> QED BY <1>1, <1>2, <2>2, <3>2 DEF MigrationInv, FilesInv
  <2>7. NothingDeleted'
    <3> SUFFICES ASSUME NEW r \in committed, r \notin stranded'
                 PROVE  \E d \in There' : r \in d.rows
      BY <1>2 DEF NothingDeleted
    <3>1. PICK c \in There : r \in c.rows
      BY <2>2 DEF MigrationInv, NothingDeleted
    <3>2. c = moving \/ c \in There'
      BY <2>2 DEF There, Opened
    <3> QED BY <2>5, <3>1, <3>2
  <2> QED BY <1>3, <1>4, <2>4, <2>6, <2>7 DEF MigrationInv
<1> QED BY <1>5, <1>6, <1>7

LEMMA NextInv == MigrationInv /\ [Next]_vars => MigrationInv'
<1> SUFFICES ASSUME MigrationInv, [Next]_vars PROVE MigrationInv' OBVIOUS
<1>1. CASE UNCHANGED vars
  BY <1>1 DEF vars, MigrationInv, TypeOK, LockInv, FilesInv, WholeInv, Whole, OpenerInv, ProcessInv,
              CopyInv, TxInv, Stored, OldVersionKept, NothingDeleted, There, Opened, RowsAside, SetAside
<1>2. CASE Next
  BY <1>2, ConnectStep, PreparationStep, TransactionStep, FinishStep, CommitStep, CloseStep, DieStep,
     AsideStep DEF Next, Step
<1> QED BY <1>1, <1>2

(***************************************************************************)
(* The inductive invariant holds in every reachable state.                 *)
(***************************************************************************)
THEOREM MigrationInvariant == Spec => []MigrationInv
  BY InitInv, NextInv, PTL DEF Spec

(***************************************************************************)
(* The files, the copies and the openers keep to their types.              *)
(***************************************************************************)
THEOREM MigrationTypesHold == Spec => []TypeOK
<1>1. MigrationInv => TypeOK
  BY DEF MigrationInv
<1> QED BY <1>1, MigrationInvariant, PTL

(***************************************************************************)
(* Whatever fails and whoever races, the database, every copy and every    *)
(* database set aside have the tables of the version they say (`migrate'). *)
(***************************************************************************)
THEOREM SchemaIsAlwaysWhole == Spec => []SchemaIsWhole
<1>1. MigrationInv => SchemaIsWhole
  BY DEF MigrationInv, WholeInv, Whole, SchemaIsWhole, Opened
<1> QED BY <1>1, MigrationInvariant, PTL

(***************************************************************************)
(* Any number of openers migrate a database once (`migrate_in').           *)
(***************************************************************************)
THEOREM NobodyMigratesAgain == Spec => []MigratedOnce
<1>1. MigrationInv => MigratedOnce
  BY DEF MigrationInv, OpenerInv, ProcessInv, MigratedOnce
<1> QED BY <1>1, MigrationInvariant, PTL

(***************************************************************************)
(* `open' returns no store whose schema is older than the build knows.     *)
(***************************************************************************)
THEOREM OpenedStoresAreMigrated == Spec => []OpenedIsMigrated
<1>1. MigrationInv => OpenedIsMigrated
  <2> SUFFICES ASSUME MigrationInv, NEW o \in Opener, At(o, "open")
               PROVE  Stored.version >= opener[o].known
    BY DEF OpenedIsMigrated
  <2>1. /\ opener[o].known <= Stored.version /\ opener[o].known \in Nat /\ Stored.version \in Nat
    BY UseFacts DEF At, ProcessInv
  <2> QED BY <2>1
<1> QED BY <1>1, MigrationInvariant, PTL

(***************************************************************************)
(* An opener that found data migrates only after it kept a copy of the     *)
(* version it found, or a later one, with all that was committed then.     *)
(***************************************************************************)
THEOREM OldVersionsAreKept == Spec => []OldVersionKept
<1>1. MigrationInv => OldVersionKept
  BY DEF MigrationInv
<1> QED BY <1>1, MigrationInvariant, PTL

(***************************************************************************)
(* Every row ever committed is still somewhere, unless a set_aside failed  *)
(* between its two files, however many databases were set aside.           *)
(***************************************************************************)
THEOREM NothingIsEverDeleted == Spec => []NothingDeleted
<1>1. MigrationInv => NothingDeleted
  BY DEF MigrationInv
<1> QED BY <1>1, MigrationInvariant, PTL

(***************************************************************************)
(* That `open' returns.  Liveness is TLC's (EveryOpenReturns); what it     *)
(* rests on is that a call has a bounded number of statements left, less   *)
(* with each one, whatever the other openers do: nothing sends it back to  *)
(* the copy or to the first reading of the version, and each round of      *)
(* migrate_in's loop leaves one migration less.                            *)
(***************************************************************************)
Left(p) ==
    CASE p.phase = "table"   -> 2 * Latest + 8
      [] p.phase = "version" -> 2 * Latest + 7
      [] p.phase = "copy"    -> 2 * Latest + 6
      [] p.phase = "recheck" -> 2 * Latest + 5
      [] p.phase = "begin"   -> 2 * Latest + 4
      [] p.phase = "pending" -> 2 * Latest + 3
      [] p.phase = "apply"   -> 2 * (p.known - p.tx.version) + 1
      [] p.phase = "row"     -> 2 * (p.known - p.tx.version)
      [] OTHER               -> 0

\* A step of o leaves it less to do, and only o itself, or its death, changes that.
StepsLeaveLess(o) ==
    /\ Step(o) => Left(opener'[o]) < Left(opener[o])
    /\ opener'[o] # opener[o] =>
         Step(o) \/ opener[o].phase \in {"idle", "open", "error"} \/ opener'[o] = Idle

\* What is left, and that there is something left for who has not returned.
LEMMA LeftFacts ==
    ASSUME MigrationInv, NEW o \in Opener
    PROVE  /\ opener[o] \in Processes
           /\ opener[o].known \in Nat /\ opener[o].known <= Latest /\ Latest \in Nat
           /\ opener[o].phase \in {"apply", "row"} =>
                /\ opener[o].tx \in Content /\ opener[o].tx.version \in Nat
                /\ opener[o].tx.version <= opener[o].known
           /\ opener[o].phase = "row" => opener[o].tx.version < opener[o].known
           /\ Left(opener[o]) \in 0..(2 * Latest + 8)
           /\ opener[o].phase \notin {"idle", "open", "error"} => Left(opener[o]) > 0
<1> PICK p : p = opener[o]
  OBVIOUS
<1>1. p \in Processes /\ ProcessInv(p)
  BY DEF MigrationInv, TypeOK, OpenerInv
<1>2. p.known \in Nat /\ p.known <= Latest /\ Latest \in Nat /\ Latest > 0 /\ p.phase \in Phases
  BY <1>1, LatestAssumption DEF Processes
<1>3. ASSUME p.phase \in {"apply", "row"}
      PROVE  /\ p.tx \in Content /\ p.tx.version \in Nat /\ p.tx.version <= p.known
             /\ p.phase = "row" => p.tx.version < p.known
  <2>1. TxInv(p)
    BY <1>1, <1>3 DEF ProcessInv, InTx
  <2>2. p.tx \in Content /\ p.tx.version \in Nat
    BY <2>1, ContentFacts DEF TxInv
  <2> QED BY <1>2, <1>3, <2>1, <2>2 DEF TxInv
<1>4. Left(p) \in 0..(2 * Latest + 8) /\ (p.phase \notin {"idle", "open", "error"} => Left(p) > 0)
  <2>1. CASE p.phase = "apply"
    <3>1. Left(p) = 2 * (p.known - p.tx.version) + 1
      BY <2>1 DEF Left
    <3> QED BY <1>2, <1>3, <2>1, <3>1
  <2>2. CASE p.phase = "row"
    <3>1. Left(p) = 2 * (p.known - p.tx.version)
      BY <2>2 DEF Left
    <3> QED BY <1>2, <1>3, <2>2, <3>1
  <2>3. CASE p.phase = "table"
    <3>1. Left(p) = 2 * Latest + 8
      BY <2>3 DEF Left
    <3> QED BY <1>2, <3>1
  <2>4. CASE p.phase = "version"
    <3>1. Left(p) = 2 * Latest + 7
      BY <2>4 DEF Left
    <3> QED BY <1>2, <3>1
  <2>5. CASE p.phase = "copy"
    <3>1. Left(p) = 2 * Latest + 6
      BY <2>5 DEF Left
    <3> QED BY <1>2, <3>1
  <2>6. CASE p.phase = "recheck"
    <3>1. Left(p) = 2 * Latest + 5
      BY <2>6 DEF Left
    <3> QED BY <1>2, <3>1
  <2>7. CASE p.phase = "begin"
    <3>1. Left(p) = 2 * Latest + 4
      BY <2>7 DEF Left
    <3> QED BY <1>2, <3>1
  <2>8. CASE p.phase = "pending"
    <3>1. Left(p) = 2 * Latest + 3
      BY <2>8 DEF Left
    <3> QED BY <1>2, <3>1
  <2>9. CASE p.phase \in {"idle", "open", "error"}
    <3>1. Left(p) = 0
      BY <2>9 DEF Left
    <3> QED BY <1>2, <2>9, <3>1
  <2> QED BY <1>2, <2>1, <2>2, <2>3, <2>4, <2>5, <2>6, <2>7, <2>8, <2>9 DEF Phases
<1> QED BY <1>1, <1>2, <1>3, <1>4

\* A call that returns has nothing left to do.
LEMMA ReturnedLeft ==
    ASSUME MigrationInv, NEW o \in Opener, NEW phase \in {"open", "error"}, NEW why,
           Return(o, phase, why)
    PROVE  Left(opener'[o]) = 0
<1>1. opener'[o] = [Idle EXCEPT !.phase = phase, !.known = opener[o].known, !.why = why]
  BY DEF Return, MigrationInv, TypeOK
<1>2. opener'[o].phase = phase
  BY <1>1 DEF Idle
<1> QED BY <1>2 DEF Left

\* Step by step, there is less to do.
LEMMA StepLeavesLess ==
    ASSUME MigrationInv, NEW o \in Opener, Step(o)
    PROVE  Left(opener'[o]) < Left(opener[o])
<1> PICK p : p = opener[o]
  OBVIOUS
<1>1. /\ p \in Processes /\ Latest \in Nat /\ p.known \in Nat /\ p.known <= Latest
      /\ p.phase \in {"apply", "row"} =>
           p.tx \in Content /\ p.tx.version \in Nat /\ p.tx.version <= p.known
      /\ p.phase = "row" => p.tx.version < p.known
      /\ p.phase \notin {"idle", "open", "error"} => Left(p) > 0
  BY LeftFacts
<1>2. opener \in [Opener -> Processes]
  BY DEF MigrationInv, TypeOK
<1>3. ASSUME NEW phase \in {"open", "error"}, NEW why, Return(o, phase, why),
             p.phase \notin {"idle", "open", "error"}
      PROVE  Left(opener'[o]) < Left(p)
  <2>1. Left(opener'[o]) = 0
    BY <1>3, ReturnedLeft
  <2> QED BY <1>1, <1>3, <2>1
<1>4. ASSUME NEW why, Stop(o, why), p.phase \notin {"idle", "open", "error"}
      PROVE  Left(opener'[o]) < Left(p)
  BY <1>3, <1>4 DEF Stop
<1>5. CASE CreateTable(o)
  <2>1. opener'[o].phase = "version" /\ p.phase = "table"
    BY <1>1, <1>2, <1>5 DEF CreateTable, Goto, At, Processes
  <2> QED BY <1>1, <2>1 DEF Left
<1>6. CASE ReadVersion(o)
  <2>1. p.phase = "version"
    BY <1>6 DEF ReadVersion, At
  <2>2. CASE Return(o, "open", None) \/ Return(o, "error", "newer")
    BY <1>3, <2>1, <2>2
  <2>3. ASSUME NEW applied, NEW phase \in {"begin", "copy"},
               opener' = [opener EXCEPT ![o] = [@ EXCEPT !.phase = phase,
                            !.applied = applied, !.seen = Stored.rows]]
        PROVE  Left(opener'[o]) < Left(p)
    <3>1. opener'[o].phase = phase
      BY <1>1, <1>2, <2>3 DEF Processes
    <3> QED BY <1>1, <2>1, <3>1 DEF Left
  <2> QED BY <1>6, <2>2, <2>3 DEF ReadVersion
<1>7. CASE Copy(o)
  <2>1. opener'[o].phase = "begin" /\ p.phase = "copy"
    BY <1>1, <1>2, <1>7 DEF Copy, At, Processes
  <2> QED BY <1>1, <2>1 DEF Left
<1>8. CASE CopyFails(o)
  <2>1. opener'[o].phase = "recheck" /\ p.phase = "copy"
    BY <1>1, <1>2, <1>8 DEF CopyFails, Goto, At, Processes
  <2> QED BY <1>1, <2>1 DEF Left
<1>9. CASE Recheck(o)
  BY <1>3, <1>4, <1>9 DEF Recheck, At
<1>10. CASE Begin(o)
  <2>1. opener'[o].phase = "pending" /\ p.phase = "begin"
    BY <1>1, <1>2, <1>10 DEF Begin, At, Processes
  <2> QED BY <1>1, <2>1 DEF Left
<1>11. CASE Pending(o)
  <2>1. p.phase = "pending"
    BY <1>11 DEF Pending, At
  <2>2. CASE Stop(o, "newer")
    BY <1>4, <2>1, <2>2
  <2>3. CASE Goto(o, "apply") /\ ~(p.tx.version > p.known)
    <3>1. opener'[o].phase = "apply" /\ opener'[o].tx = p.tx /\ opener'[o].known = p.known
      BY <1>1, <1>2, <2>3 DEF Goto, Processes
    <3>2. p.tx.version \in Nat
      <4>1. TxInv(p)
        BY <2>1 DEF MigrationInv, OpenerInv, ProcessInv, InTx
      <4> QED BY <4>1, ContentFacts DEF TxInv
    <3> QED BY <1>1, <2>1, <3>1, <3>2 DEF Left
  <2> QED BY <1>11, <2>2, <2>3 DEF Pending
<1>12. CASE ApplyStatements(o)
  <2>1. p.phase = "apply"
    BY <1>12 DEF ApplyStatements, At
  <2>2. CASE Stop(o, "exists")
    BY <1>4, <2>1, <2>2
  <2>3. ASSUME NEW tables,
               opener' = [opener EXCEPT ![o] = [@ EXCEPT !.phase = "row",
                            !.tx = [p.tx EXCEPT !.tables = tables]]]
        PROVE  Left(opener'[o]) < Left(p)
    <3>1. PICK tx : tx = [p.tx EXCEPT !.tables = tables]
      OBVIOUS
    <3>2. tx.version = p.tx.version
      BY <1>1, <2>1, <3>1 DEF Content
    <3>3. opener'[o].phase = "row" /\ opener'[o].tx = tx /\ opener'[o].known = p.known
      BY <1>1, <1>2, <2>3, <3>1 DEF Processes
    <3> QED BY <1>1, <2>1, <3>2, <3>3 DEF Left
  <2>4. \/ Stop(o, "exists")
        \/ \E tables : opener' = [opener EXCEPT ![o] = [@ EXCEPT !.phase = "row",
                                    !.tx = [p.tx EXCEPT !.tables = tables]]]
    BY <1>12 DEF ApplyStatements
  <2> QED BY <2>2, <2>3, <2>4
<1>13. CASE InsertVersion(o)
  <2>1. p.phase = "row"
    BY <1>13 DEF InsertVersion, At
  <2>2. PICK tx : tx = [p.tx EXCEPT !.version = @ + 1]
    OBVIOUS
  <2>3. tx.version = p.tx.version + 1
    BY <1>1, <2>1, <2>2 DEF Content
  <2>4. opener'[o].phase = "apply" /\ opener'[o].tx = tx /\ opener'[o].known = p.known
    BY <1>1, <1>2, <1>13, <2>2 DEF InsertVersion, Processes
  <2> QED BY <1>1, <2>1, <2>3, <2>4 DEF Left
<1>14. CASE Finish(o)
  BY <1>3, <1>14 DEF Finish, At
<1>15. CASE Fails(o)
  BY <1>4, <1>15 DEF Fails
<1> QED
  BY <1>5, <1>6, <1>7, <1>8, <1>9, <1>10, <1>11, <1>12, <1>13, <1>14, <1>15 DEF Step

\* Who changes the state of an opener.
LEMMA OnlyItsSteps ==
    ASSUME MigrationInv, Next, NEW o \in Opener, opener'[o] # opener[o]
    PROVE  Step(o) \/ opener[o].phase \in {"idle", "open", "error"} \/ opener'[o] = Idle
<1>1. opener \in [Opener -> Processes]
  BY DEF MigrationInv, TypeOK
<1>2. ASSUME NEW q \in Opener, NEW p, opener' = [opener EXCEPT ![q] = p] PROVE q = o
  BY <1>1, <1>2
<1>3. ASSUME NEW q \in Opener, Step(q) PROVE q = o
  <2>1. PICK p : opener' = [opener EXCEPT ![q] = p]
    BY <1>3
    DEF Step, CreateTable, ReadVersion, Copy, CopyFails, Recheck, Begin, Pending, ApplyStatements,
        InsertVersion, Finish, Fails, Goto, Stop, Return
  <2> QED BY <1>2, <2>1
<1>4. ASSUME NEW q \in Opener, NEW known, Connect(q, known) PROVE q = o /\ opener[q].phase = "idle"
  BY <1>2, <1>4 DEF Connect, At
<1>5. ASSUME NEW q \in Opener, Close(q) \/ Die(q) PROVE q = o /\ opener'[q] = Idle
  BY <1>1, <1>2, <1>5 DEF Close, Die
<1>6. ASSUME NEW q \in Opener, Commit(q) PROVE FALSE
  BY <1>6 DEF Commit
<1>7. ~(MoveDatabase \/ MoveLog \/ MoveLogFails)
  BY DEF MoveDatabase, MoveLog, MoveLogFails
<1> QED BY <1>3, <1>4, <1>5, <1>6, <1>7 DEF Next

\* A call of `open' has at most two statements per migration and eight more left.
THEOREM OpenIsBounded == Spec => [](\A o \in Opener : Left(opener[o]) \in 0..(2 * Latest + 8))
<1>1. MigrationInv => \A o \in Opener : Left(opener[o]) \in 0..(2 * Latest + 8)
  BY LeftFacts
<1> QED BY <1>1, MigrationInvariant, PTL

(***************************************************************************)
(* Each statement leaves fewer, however many openers race, fail or die: an *)
(* opener that waits for the lock fails after BUSY_TIMEOUT, one whose copy *)
(* failed looks once more and does not copy again, one that lost the race  *)
(* finds less to migrate, and never more (migrate, migrate_in).            *)
(***************************************************************************)
THEOREM OpensGetCloser == Spec => [][\A o \in Opener : StepsLeaveLess(o)]_vars
<1>1. MigrationInv /\ [Next]_vars => [\A o \in Opener : StepsLeaveLess(o)]_vars
  BY StepLeavesLess, OnlyItsSteps DEF StepsLeaveLess
<1> QED BY <1>1, MigrationInvariant, PTL DEF Spec
=============================================================================
