-------------------------- MODULE LocalPartsProofs --------------------------
(***************************************************************************)
(* Proofs about the parts that keep a file or a process of their own and   *)
(* share nothing with one another, the ones MCLocalParts checks side by    *)
(* side: saved readings, `ods serve', script checks and plugins, retries,  *)
(* and the run journal with the page that follows it.  Each part has its   *)
(* own specification and its own invariant.                                *)
(***************************************************************************)
EXTENDS MCLocalParts, Induction, FiniteSetTheorems, SequenceTheorems, TLAPS

-----------------------------------------------------------------------------
(***************************************************************************)
(* The saved readings, for any number of commands and scopes: the latest   *)
(* reading is kept, and two readings of one second that disagree are not   *)
(* believed.  A command that merges or writes has the lock, so that what   *)
(* it merged still covers every reading saved when it writes.              *)
(***************************************************************************)
\* A file covers a reading that was saved: it has that one or a later one, and nothing
\* that contradicts it.
Covers(readings, r) ==
    /\ readings[r.scope] # None
    /\ readings[r.scope].at >= r.at
    /\ readings[r.scope].at = r.at => readings[r.scope].answer \in {r.answer, Unknown}

InLock == {"merging", "writing"}

LockInv == \A c \in Savers : saver[c].pc \in InLock => lock = c

ScopeInv ==
    \A c \in Savers : saver[c].pc \in {"asking", "saving", "merging", "writing"} =>
        saver[c].scope \in Scopes

FileCovers == \A r \in saved : file.is = "ok" /\ Covers(file.readings, r)

MergeCovers ==
    \A c \in Savers : saver[c].pc = "writing" => \A r \in Saved(c) : Covers(saver[c].merged, r)

ReadingsInv == ReadingsTypeOK /\ LockInv /\ ScopeInv /\ FileCovers /\ MergeCovers

SaverStates == [pc : {"new", "asking", "saving", "merging", "writing", "done"},
                scope : Scopes \cup {None}, at : 0..MaxSecond, answer : Answers,
                merged : [Scopes -> Kept \cup {None}]]
Savings == [scope : Scopes, at : 0..MaxSecond, answer : Answers]

\* The empty file and a command at rest have their types.
LEMMA EmptyType == Empty \in [Scopes -> Kept \cup {None}] /\ Resting \in SaverStates
  BY ReadingsAssumption DEF Empty, Resting, SaverStates, Answers, Unknown

\* The initial state satisfies the invariant.
LEMMA ReadingsInvInit == ReadingsInit => ReadingsInv
<1> SUFFICES ASSUME ReadingsInit PROVE ReadingsInv OBVIOUS
<1>1. saver \in [Savers -> SaverStates] /\ \A c \in Savers : saver[c].pc = "new"
  BY EmptyType DEF ReadingsInit, SaverStates, Resting
<1>2. ReadingsTypeOK
  BY <1>1, EmptyType, ReadingsAssumption DEF ReadingsInit, ReadingsTypeOK, FileStates, SaverStates
<1> QED
  BY <1>1, <1>2 DEF ReadingsInit, ReadingsInv, LockInv, ScopeInv, FileCovers, MergeCovers, InLock

\* What a saver that has not begun to write becomes.
LEMMA OneSaver ==
    ASSUME ReadingsInv, NEW c \in Savers, NEW x \in SaverStates,
           saver' = [saver EXCEPT ![c] = x], x.pc \in InLock => lock' = c,
           x.pc \in {"asking", "saving", "merging", "writing"} => x.scope \in Scopes,
           x.pc = "writing" => (\A r \in Saved(c)' : Covers(x.merged, r)),
           \A d \in Savers \ {c} : saver[d].pc \in InLock => lock' = d /\ saved' \subseteq saved
    PROVE  saver' \in [Savers -> SaverStates] /\ LockInv' /\ ScopeInv' /\ MergeCovers'
<1>0. saver \in [Savers -> SaverStates]
  BY DEF ReadingsInv, ReadingsTypeOK, SaverStates
<1>1. saver'[c] = x /\ \A d \in Savers \ {c} : saver'[d] = saver[d]
  BY <1>0
<1>2. saver' \in [Savers -> SaverStates]
  BY <1>0
<1>3. LockInv'
  BY <1>1 DEF ReadingsInv, LockInv
<1>4. ScopeInv'
  BY <1>1 DEF ReadingsInv, ScopeInv
<1>5. ASSUME NEW d \in Savers, saver'[d].pc = "writing"
      PROVE  \A r \in Saved(d)' : Covers(saver'[d].merged, r)
  <2>1. CASE d = c
    BY <1>1, <1>5, <2>1
  <2>2. CASE d # c
    <3>1. saver'[d] = saver[d] /\ saved' \subseteq saved
      BY <1>1, <1>5, <2>2 DEF InLock
    <3>2. Saved(d)' \subseteq Saved(d)
      BY <3>1 DEF Saved
    <3> QED BY <1>5, <3>1, <3>2 DEF ReadingsInv, MergeCovers
  <2> QED BY <2>1, <2>2
<1>6. MergeCovers'
  BY <1>5 DEF MergeCovers
<1> QED BY <1>2, <1>3, <1>4, <1>6

\* The world: time, data, a file that is lost.
LEMMA WorldKeeps ==
    ASSUME ReadingsInv,
           SecondPasses \/ DataArrives \/ \E is \in {"damaged", "newer"} : FileLost(is)
    PROVE  ReadingsInv'
<1>1. CASE SecondPasses
  <2>1. second' \in 0..MaxSecond
    BY <1>1, ReadingsAssumption DEF SecondPasses, ReadingsInv, ReadingsTypeOK
  <2> QED
    BY <1>1, <2>1 DEF SecondPasses, ReadingsInv, ReadingsTypeOK, LockInv, ScopeInv, FileCovers,
                      MergeCovers, Saved
<1>2. CASE DataArrives
  <2>1. version' \in 0..MaxVersion
    BY <1>2, ReadingsAssumption DEF DataArrives, ReadingsInv, ReadingsTypeOK
  <2> QED
    BY <1>2, <2>1 DEF DataArrives, ReadingsInv, ReadingsTypeOK, LockInv, ScopeInv, FileCovers,
                      MergeCovers, Saved
<1>3. ASSUME NEW is \in {"damaged", "newer"}, FileLost(is) PROVE ReadingsInv'
  <2>1. file' \in FileStates /\ saved' = {}
    BY <1>3, EmptyType DEF FileLost, FileStates
  <2>2. ReadingsTypeOK'
    BY <1>3, <2>1 DEF FileLost, ReadingsInv, ReadingsTypeOK
  <2>3. LockInv' /\ ScopeInv' /\ FileCovers'
    BY <1>3, <2>1 DEF FileLost, ReadingsInv, LockInv, ScopeInv, FileCovers
  <2>4. \A c \in Savers : Saved(c)' \subseteq Saved(c)
    BY <1>3, <2>1 DEF FileLost, Saved
  <2>5. MergeCovers'
    BY <1>3, <2>4 DEF FileLost, ReadingsInv, MergeCovers
  <2> QED BY <2>2, <2>3, <2>5 DEF ReadingsInv
<1> QED BY <1>1, <1>2, <1>3

\* What Merge makes of the file covers what the file covered, and the new reading.
LEMMA MergedCovers ==
    ASSUME ReadingsInv, NEW c \in Savers, saver[c].scope \in Scopes, ~NewerKept(c)
    PROVE  /\ Merged(c) \in [Scopes -> Kept \cup {None}]
           /\ \A r \in Saved(c) : Covers(Merged(c), r)
<1> DEFINE s == saver[c].scope
           kept == Before[s]
           tied == IF kept = None THEN FALSE ELSE kept.at = saver[c].at
           new == [at |-> saver[c].at,
                   answer |-> IF tied THEN Tie(saver[c].answer, kept.answer) ELSE saver[c].answer]
<1>0. saver[c] \in SaverStates
  BY DEF ReadingsInv, ReadingsTypeOK, SaverStates
<1>1. Before \in [Scopes -> Kept \cup {None}]
  BY EmptyType DEF ReadingsInv, ReadingsTypeOK, FileStates, Before
<1>2. Merged(c) = [Before EXCEPT ![s] = new]
  BY DEF Merged
<1>3. kept \in Kept \cup {None}
  BY <1>1
<1>4. new.answer \in {saver[c].answer, Unknown} /\ new.at = saver[c].at
  BY DEF Tie
<1>5. new \in Kept /\ new # None
  <2>1. saver[c].at \in 0..MaxSecond /\ new.answer \in Answers
    BY <1>0, <1>4 DEF SaverStates, Answers
  <2> QED BY <2>1, ReadingsAssumption DEF Kept
<1>6. kept # None => kept.at <= saver[c].at
  BY <1>0, <1>3 DEF NewerKept, Kept, SaverStates
<1> HIDE DEF new, kept
<1>7. Merged(c)[s] = new /\ \A t \in Scopes \ {s} : Merged(c)[t] = Before[t]
  BY <1>1, <1>2
<1>8. Merged(c) \in [Scopes -> Kept \cup {None}]
  BY <1>1, <1>2, <1>5
<1>9. ASSUME NEW r \in saved PROVE Covers(Merged(c), r)
  <2>1. r \in Savings /\ Covers(Before, r)
    BY DEF ReadingsInv, ReadingsTypeOK, Savings, FileCovers, Before
  <2>2. CASE r.scope # s
    BY <1>7, <2>1, <2>2 DEF Covers, Savings
  <2>3. CASE r.scope = s
    <3>1. kept # None /\ kept.at >= r.at /\ (kept.at = r.at => kept.answer \in {r.answer, Unknown})
      BY <2>1, <2>3 DEF Covers, kept
    <3>2. kept.at \in Nat /\ r.at \in Nat /\ saver[c].at \in Nat
      BY <1>0, <1>3, <2>1, <3>1 DEF Kept, Savings, SaverStates
    <3>3. new.at >= r.at
      BY <1>4, <1>6, <3>1, <3>2
    <3>4. ASSUME new.at = r.at PROVE new.answer \in {r.answer, Unknown}
      <4>1. kept.at = saver[c].at /\ kept.at = r.at
        BY <1>4, <1>6, <3>1, <3>2, <3>4
      <4>2. new.answer = Tie(saver[c].answer, kept.answer)
        BY <3>1, <4>1 DEF new
      <4> QED BY <3>1, <4>1, <4>2 DEF Tie
    <3> QED BY <1>5, <1>7, <2>3, <3>3, <3>4 DEF Covers
  <2> QED BY <2>2, <2>3
<1>10. ASSUME NEW r, r = [scope |-> s, at |-> saver[c].at, answer |-> saver[c].answer]
       PROVE  Covers(Merged(c), r)
  <2>1. r.scope = s /\ r.at = saver[c].at /\ r.answer = saver[c].answer /\ saver[c].at \in Nat
    BY <1>0, <1>10 DEF SaverStates
  <2> QED BY <1>4, <1>5, <1>7, <2>1 DEF Covers
<1> QED BY <1>8, <1>9, <1>10 DEF Saved

\* The lock is released by a saver that returns; another that has it keeps it.
LEMMA ReturnsKeeps ==
    ASSUME ReadingsInv, NEW c \in Savers, Returns(c), saver[c].pc \in InLock \/ saved' = saved
    PROVE  saver' \in [Savers -> SaverStates] /\ LockInv' /\ ScopeInv' /\ MergeCovers'
           /\ lock' \in Savers \cup {None}
<1>1. saver' = [saver EXCEPT ![c] = Resting] /\ Resting \in SaverStates /\ Resting.pc = "done"
  BY EmptyType DEF Returns, Resting
<1>2. ASSUME NEW d \in Savers \ {c}, saver[d].pc \in InLock
      PROVE  lock' = d /\ saved' \subseteq saved
  <2>1. lock = d /\ lock # c /\ saver[c].pc \notin InLock
    BY <1>2 DEF ReadingsInv, LockInv
  <2> QED BY <2>1 DEF Returns
<1>3. lock' \in Savers \cup {None}
  BY DEF Returns, ReadingsInv, ReadingsTypeOK
<1> QED BY <1>1, <1>2, <1>3, OneSaver DEF InLock

\* A step of one command.
LEMMA SaverKeeps ==
    ASSUME ReadingsInv, NEW c \in Savers,
           \/ \E s \in Scopes : Start(c, s)
           \/ \E answer \in {version, Unknown} : Probe(c, answer)
           \/ Locked(c) \/ Refused(c) \/ Outdated(c) \/ Merge(c) \/ Write(c) \/ Fails(c)
    PROVE  ReadingsInv'
<1>0. saver \in [Savers -> SaverStates] /\ saver[c] \in SaverStates
  BY DEF ReadingsInv, ReadingsTypeOK, SaverStates
<1>1. ASSUME saver' \in [Savers -> SaverStates], LockInv', ScopeInv', MergeCovers',
             lock' \in Savers \cup {None}, second' = second, version' = version,
             file' = file, saved' = saved
      PROVE  ReadingsInv'
  BY <1>1 DEF ReadingsInv, ReadingsTypeOK, SaverStates, FileCovers
<1>2. ASSUME NEW s \in Scopes, Start(c, s) PROVE ReadingsInv'
  <2> DEFINE x == [Resting EXCEPT !.pc = "asking", !.scope = s, !.at = second]
  <2>1. x \in SaverStates /\ x.pc = "asking" /\ x.scope = s
    BY EmptyType DEF SaverStates, ReadingsInv, ReadingsTypeOK
  <2>2. saver' = [saver EXCEPT ![c] = x] /\ lock' = lock /\ saved' = saved
    BY <1>2 DEF Start
  <2>3. \A d \in Savers \ {c} : saver[d].pc \in InLock => lock' = d /\ saved' \subseteq saved
    BY <2>2 DEF ReadingsInv, LockInv
  <2> HIDE DEF x
  <2>4. saver' \in [Savers -> SaverStates] /\ LockInv' /\ ScopeInv' /\ MergeCovers'
    BY <2>1, <2>2, <2>3, OneSaver DEF InLock
  <2> QED BY <1>1, <1>2, <2>2, <2>4 DEF Start, ReadingsInv, ReadingsTypeOK
<1>3. ASSUME NEW answer \in {version, Unknown}, Probe(c, answer) PROVE ReadingsInv'
  <2>1. PICK x : x = [saver[c] EXCEPT !.pc = "saving", !.answer = answer]
    OBVIOUS
  <2>2. saver' = [saver EXCEPT ![c] = x] /\ lock' = lock /\ saved' = saved
    BY <1>0, <1>3, <2>1 DEF Probe
  <2>3. x \in SaverStates /\ x.pc = "saving" /\ x.scope \in Scopes
    <3>1. answer \in Answers
      BY DEF Answers, ReadingsInv, ReadingsTypeOK
    <3>2. saver[c].scope \in Scopes
      BY <1>3 DEF Probe, At, ReadingsInv, ScopeInv
    <3> QED BY <1>0, <2>1, <3>1, <3>2 DEF SaverStates
  <2>4. \A d \in Savers \ {c} : saver[d].pc \in InLock => lock' = d /\ saved' \subseteq saved
    BY <2>2 DEF ReadingsInv, LockInv
  <2>5. saver' \in [Savers -> SaverStates] /\ LockInv' /\ ScopeInv' /\ MergeCovers'
    BY <2>2, <2>3, <2>4, OneSaver DEF InLock
  <2> QED BY <1>1, <1>3, <2>2, <2>5 DEF Probe, ReadingsInv, ReadingsTypeOK
<1>4. CASE Locked(c)
  <2>1. PICK x : x = [saver[c] EXCEPT !.pc = "merging"]
    OBVIOUS
  <2>2. saver' = [saver EXCEPT ![c] = x] /\ lock' = c /\ lock = None /\ saved' = saved
    BY <1>0, <1>4, <2>1 DEF Locked, Goes
  <2>3. x \in SaverStates /\ x.pc = "merging" /\ x.scope \in Scopes
    <3>1. saver[c].scope \in Scopes
      BY <1>4 DEF Locked, At, ReadingsInv, ScopeInv
    <3> QED BY <1>0, <2>1, <3>1 DEF SaverStates
  <2>4. \A d \in Savers : saver[d].pc \notin InLock
    BY <2>2, ReadingsAssumption DEF ReadingsInv, LockInv
  <2>5. saver' \in [Savers -> SaverStates] /\ LockInv' /\ ScopeInv' /\ MergeCovers'
    BY <2>2, <2>3, <2>4, OneSaver DEF InLock
  <2> QED BY <1>1, <1>4, <2>2, <2>5 DEF Locked
<1>5. CASE Refused(c) \/ Fails(c)
  <2>1. Returns(c) /\ saved' = saved /\ file' = file /\ second' = second /\ version' = version
    BY <1>5 DEF Refused, Fails
  <2> QED BY <1>1, <2>1, ReturnsKeeps
<1>6. CASE Outdated(c)
  <2>1. /\ Returns(c) /\ saver[c].pc \in InLock /\ saved' = Saved(c) /\ file' = file
        /\ second' = second /\ version' = version /\ NewerKept(c) /\ saver[c].scope \in Scopes
    BY <1>6 DEF Outdated, At, InLock, ReadingsInv, ScopeInv
  <2>2. /\ saver' \in [Savers -> SaverStates] /\ LockInv' /\ ScopeInv' /\ MergeCovers'
        /\ lock' \in Savers \cup {None}
    BY <2>1, ReturnsKeeps
  <2>3. PICK r : r = [scope |-> saver[c].scope, at |-> saver[c].at, answer |-> saver[c].answer]
    OBVIOUS
  <2>4. r \in Savings /\ saved' = saved \cup {r}
    BY <1>0, <2>1, <2>3 DEF Savings, SaverStates, Saved
  <2>5. file.is = "ok" /\ Covers(file.readings, r)
    <3>1. Before[saver[c].scope] # None /\ Before[saver[c].scope].at > saver[c].at
      BY <2>1 DEF NewerKept
    <3>2. file.is = "ok" /\ Before = file.readings
      BY <2>1, <3>1 DEF Before, Empty
    <3>3. file.readings[saver[c].scope] \in Kept
      BY <2>1, <3>1, <3>2 DEF ReadingsInv, ReadingsTypeOK, FileStates
    <3> QED BY <1>0, <2>3, <3>1, <3>2, <3>3 DEF Covers, Kept, SaverStates
  <2>6. ReadingsTypeOK'
    BY <2>1, <2>2, <2>4 DEF ReadingsInv, ReadingsTypeOK, SaverStates, Savings
  <2>7. FileCovers'
    BY <2>1, <2>4, <2>5 DEF ReadingsInv, FileCovers
  <2> QED BY <2>2, <2>6, <2>7 DEF ReadingsInv
<1>7. CASE Merge(c)
  <2>1. /\ saver[c].pc = "merging" /\ ~NewerKept(c) /\ lock' = lock /\ saved' = saved
        /\ saver[c].scope \in Scopes /\ lock = c
    BY <1>7 DEF Merge, At, ReadingsInv, ScopeInv, LockInv, InLock
  <2>2. /\ Merged(c) \in [Scopes -> Kept \cup {None}]
        /\ \A r \in Saved(c) : Covers(Merged(c), r)
    BY <2>1, MergedCovers
  <2>3. PICK m : m = Merged(c)
    OBVIOUS
  <2>4. PICK x : x = [saver[c] EXCEPT !.pc = "writing", !.merged = m]
    OBVIOUS
  <2>5. saver' = [saver EXCEPT ![c] = x]
    BY <1>0, <1>7, <2>3, <2>4 DEF Merge
  <2>6. /\ x \in SaverStates /\ x.pc = "writing" /\ x.scope = saver[c].scope /\ x.merged = m
        /\ x.at = saver[c].at /\ x.answer = saver[c].answer
    BY <1>0, <2>2, <2>3, <2>4 DEF SaverStates
  <2>7. Saved(c)' = Saved(c)
    <3>1. saver'[c] = x
      BY <1>0, <2>5
    <3> QED BY <2>1, <2>6, <3>1 DEF Saved
  <2>8. \A d \in Savers \ {c} : saver[d].pc \notin InLock
    BY <2>1 DEF ReadingsInv, LockInv
  <2>9. saver' \in [Savers -> SaverStates] /\ LockInv' /\ ScopeInv' /\ MergeCovers'
    BY <2>1, <2>2, <2>3, <2>5, <2>6, <2>7, <2>8, OneSaver
  <2> QED BY <1>1, <1>7, <2>9 DEF Merge, ReadingsInv, ReadingsTypeOK
<1>8. CASE Write(c)
  <2>1. /\ saver[c].pc = "writing" /\ Returns(c) /\ saved' = Saved(c)
        /\ file' = [is |-> "ok", readings |-> saver[c].merged]
        /\ second' = second /\ version' = version /\ saver[c].scope \in Scopes
    BY <1>8 DEF Write, At, ReadingsInv, ScopeInv
  <2>2. /\ saver' \in [Savers -> SaverStates] /\ LockInv' /\ ScopeInv' /\ MergeCovers'
        /\ lock' \in Savers \cup {None}
    BY <2>1, ReturnsKeeps DEF InLock
  <2>3. \A r \in saved' : Covers(saver[c].merged, r)
    BY <2>1 DEF ReadingsInv, MergeCovers
  <2>4. FileCovers'
    BY <2>1, <2>3 DEF FileCovers
  <2>5. saved' \subseteq Savings
    BY <1>0, <2>1 DEF Saved, Savings, SaverStates, ReadingsInv, ReadingsTypeOK
  <2>6. file' \in FileStates
    BY <1>0, <2>1 DEF FileStates, SaverStates
  <2>7. ReadingsTypeOK'
    BY <2>1, <2>2, <2>5, <2>6 DEF ReadingsInv, ReadingsTypeOK, SaverStates, Savings
  <2> QED BY <2>2, <2>4, <2>7 DEF ReadingsInv
<1> QED BY <1>2, <1>3, <1>4, <1>5, <1>6, <1>7, <1>8

\* Every step keeps the invariant.
LEMMA ReadingsInvStep == ReadingsInv /\ [ReadingsNext]_readingsVars => ReadingsInv'
<1> SUFFICES ASSUME ReadingsInv, [ReadingsNext]_readingsVars PROVE ReadingsInv' OBVIOUS
<1>1. CASE UNCHANGED readingsVars
  BY <1>1 DEF readingsVars, ReadingsInv, ReadingsTypeOK, LockInv, ScopeInv, FileCovers,
              MergeCovers, Saved
<1>2. CASE ReadingsNext
  BY <1>2, WorldKeeps, SaverKeeps DEF ReadingsNext
<1> QED BY <1>1, <1>2

(***************************************************************************)
(* For any number of commands and scopes, once save has returned, no       *)
(* command that loads the scope sees a reading taken before the one saved  *)
(* (state_readings.rs, save).                                              *)
(***************************************************************************)
THEOREM LatestIsKept == ReadingsSpec => []LatestReadingKept
<1>1. ReadingsInv => LatestReadingKept
  BY DEF ReadingsInv, FileCovers, Covers, LatestReadingKept, Loaded
<1> QED BY <1>1, ReadingsInvInit, ReadingsInvStep, PTL DEF ReadingsSpec

(***************************************************************************)
(* For any number of commands and scopes, two readings of one second that  *)
(* disagree are never believed (state_readings.rs, tie).                   *)
(***************************************************************************)
THEOREM TiesStayUnknown == ReadingsSpec => []TiesAreUnknown
<1>1. ReadingsInv => TiesAreUnknown
  BY DEF ReadingsInv, FileCovers, Covers, TiesAreUnknown, Loaded
<1> QED BY <1>1, ReadingsInvInit, ReadingsInvStep, PTL DEF ReadingsSpec

\* The saved readings, the lock and the commands have their types.
THEOREM ReadingsTypesHold == ReadingsSpec => []ReadingsTypeOK
<1>1. ReadingsInv => ReadingsTypeOK
  BY DEF ReadingsInv
<1> QED BY <1>1, ReadingsInvInit, ReadingsInvStep, PTL DEF ReadingsSpec

-----------------------------------------------------------------------------
(***************************************************************************)
(* A page of `ods serve' that will not reload is current, for any files    *)
(* and any number of changes.                                              *)
(***************************************************************************)
\* A page is never ahead of the server, and there is none before the first load.
PageFollows ==
    /\ browser.generation <= server.generation
    /\ server.pc \in {"first", "ended"} => browser.pc = "reload"

\* A handler has read the snapshot.
HasSnapshot == browser.pc = "shown" \/ (browser.pc = "half" /\ browser.page = "state")

\* What a page shows is the server's snapshot, or of an earlier generation; where the
\* generation was read first, it is not the later one.
ShownFollows ==
    /\ HasSnapshot => /\ browser.of <= SnapshotOf
                      /\ browser.of = SnapshotOf => browser.shown = server.snapshot
    /\ browser.pc = "shown" /\ browser.page = "other" => browser.generation <= browser.of

ServeInv == ServeTypeOK /\ PageFollows /\ ShownFollows

\* The initial states satisfy the invariant.
LEMMA ServeInvInit == ServeInit => ServeInv
  BY ServeAssumption
  DEF ServeInit, ServerInit, BrowserInit, ServeInv, ServeTypeOK, Stamps, Pages, PageFollows,
      ShownFollows, HasSnapshot

\* The world: a file changes.
LEMMA WriteFileKeeps ==
    ASSUME ServeInv, NEW f \in Files, WriteFile(f) PROVE ServeInv'
<1>1. stamp' \in Stamps
  BY ServeAssumption DEF ServeInv, ServeTypeOK, WriteFile, Stamps
<1>2. server' = server /\ browser' = browser /\ trouble' = trouble
  BY DEF WriteFile
<1> QED
  BY <1>1, <1>2 DEF ServeInv, ServeTypeOK, PageFollows, ShownFollows, HasSnapshot, SnapshotOf

\* The server: only Reload replaces the snapshot, with one of a generation no page shows.
LEMMA ServerKeeps ==
    ASSUME ServeInv,
           \/ \E f \in Files : LoadFile(f)
           \/ FirstLoad \/ WatchStarts \/ Look \/ Reload \/ Reloaded \/ ReloadFails
    PROVE  ServeInv'
<1> USE DEF ServeInv, ServeTypeOK, PageFollows, ShownFollows, HasSnapshot, SnapshotOf
<1>1. stamp' = stamp /\ browser' = browser
  BY DEF LoadFile, FirstLoad, WatchStarts, Look, Reload, Reloaded, ReloadFails
<1>2. ASSUME NEW f \in Files, LoadFile(f) PROVE ServeInv'
  <2>1. server.read' \in Stamps
    BY <1>2 DEF LoadFile, Stamps
  <2> QED BY <1>1, <1>2, <2>1 DEF LoadFile
<1>3. CASE FirstLoad
  BY <1>1, <1>3 DEF FirstLoad
<1>4. CASE WatchStarts
  BY <1>1, <1>4 DEF WatchStarts
<1>5. CASE Look
  BY <1>1, <1>5 DEF Look
<1>6. CASE Reload
  <2>1. /\ server' = [Publish(TRUE, server) EXCEPT !.pc = "replaced"]
        /\ Publish(TRUE, server) = [server EXCEPT !.snapshot = server.read]
        /\ trouble' = trouble /\ server.pc = "loading"
    BY <1>6 DEF Reload, Publish
  <2>2. server'.pc = "replaced" /\ server'.generation = server.generation
    BY <2>1
  <2>3. ServeTypeOK'
    BY <1>1, <2>1
  <2>4. SnapshotOf = server.generation /\ SnapshotOf' = server.generation + 1
    BY <2>1, <2>2
  <2>5. HasSnapshot => browser.of < SnapshotOf'
    BY <2>4
  <2>6. PageFollows'
    BY <1>1, <2>1, <2>2
  <2>7. ShownFollows'
    BY <1>1, <2>2, <2>3, <2>4, <2>5
  <2> QED BY <2>3, <2>6, <2>7
<1>7. CASE Reloaded
  <2> DEFINE next == server.generation + 1
  <2>0. next \in Nat /\ next > server.generation
    OBVIOUS
  <2>a. SnapshotOf = next
    BY <1>7 DEF Reloaded
  <2> HIDE DEF next
  <2>1. /\ server' = [Publish(FALSE, server) EXCEPT !.pc = "watching", !.error = FALSE]
        /\ Publish(FALSE, server) = [server EXCEPT !.generation = next]
        /\ trouble' = trouble
    BY <1>7 DEF Reloaded, Publish, next
  <2>2. /\ server'.pc = "watching" /\ server'.generation = next
        /\ server'.snapshot = server.snapshot
    BY <2>1
  <2>3. ServeTypeOK'
    BY <1>1, <2>0, <2>1
  <2>4. SnapshotOf' = SnapshotOf
    BY <2>a, <2>2
  <2>5. PageFollows'
    BY <1>1, <2>0, <2>2
  <2>6. ShownFollows'
    BY <1>1, <2>2, <2>4
  <2> QED BY <2>3, <2>5, <2>6
<1>8. CASE ReloadFails
  <2>1. trouble' \in 0..MaxTrouble
    BY <1>8, ServeAssumption DEF ReloadFails
  <2> QED BY <1>1, <1>8, <2>1 DEF ReloadFails
<1> QED BY <1>2, <1>3, <1>4, <1>5, <1>6, <1>7, <1>8

\* The page: where it takes the generation first, the snapshot can only be newer.
LEMMA PageKeeps ==
    ASSUME ServeInv,
           \/ PageGeneration \/ PageSnapshot \/ StatePageSnapshot \/ StatePageGeneration
           \/ AskVersion \/ Hold \/ Release
    PROVE  ServeInv'
<1> USE DEF ServeInv, ServeTypeOK, PageFollows, ShownFollows, HasSnapshot
<1>1. stamp' = stamp /\ server' = server /\ SnapshotOf' = SnapshotOf
  BY DEF PageGeneration, PageSnapshot, StatePageSnapshot, StatePageGeneration, AskVersion, Hold,
         Release, SnapshotOf
<1>2. SnapshotOf \in Nat /\ server.generation <= SnapshotOf
  BY DEF SnapshotOf
<1>3. CASE PageGeneration
  <2>1. /\ browser' = [browser EXCEPT !.pc = "half", !.generation = server.generation]
        /\ browser.page = "other" /\ trouble' = trouble
        /\ server.pc \notin {"first", "ended"}
    BY <1>3 DEF PageGeneration, Serving
  <2>2. /\ browser' \in [page : Pages, pc : {"half"}, generation : Nat, shown : Stamps, of : Nat,
                        held : BOOLEAN, owed : BOOLEAN]
        /\ browser'.pc = "half" /\ browser'.page = "other"
        /\ browser'.generation = server.generation /\ browser'.shown = browser.shown /\ browser'.of = browser.of
    BY <1>2, <2>1
  <2>3. ServeTypeOK'
    BY <1>1, <2>1, <2>2
  <2>4. PageFollows'
    BY <1>1, <2>1, <2>2
  <2>5. ShownFollows'
    BY <1>1, <1>2, <1>3, <2>2 DEF PageGeneration
  <2> QED BY <2>3, <2>4, <2>5
<1>4. CASE PageSnapshot
  <2>1. /\ browser' = [browser EXCEPT !.pc = "shown", !.shown = server.snapshot,
                                     !.of = SnapshotOf]
        /\ browser.page = "other" /\ trouble' = trouble
        /\ server.pc \notin {"first", "ended"}
    BY <1>4 DEF PageSnapshot
  <2>2. /\ browser' \in [page : Pages, pc : {"shown"}, generation : Nat, shown : Stamps, of : Nat,
                        held : BOOLEAN, owed : BOOLEAN]
        /\ browser'.pc = "shown" /\ browser'.page = "other"
        /\ browser'.generation = browser.generation /\ browser'.shown = server.snapshot /\ browser'.of = SnapshotOf
    BY <1>2, <2>1
  <2>3. ServeTypeOK'
    BY <1>1, <2>1, <2>2
  <2>4. PageFollows'
    BY <1>1, <2>1, <2>2
  <2>5. ShownFollows'
    BY <1>1, <1>2, <1>4, <2>2 DEF PageSnapshot
  <2> QED BY <2>3, <2>4, <2>5
<1>5. CASE StatePageSnapshot
  <2>1. /\ browser' = [browser EXCEPT !.pc = "half", !.shown = server.snapshot,
                                     !.of = SnapshotOf]
        /\ browser.page = "state" /\ trouble' = trouble
        /\ server.pc \notin {"first", "ended"}
    BY <1>5 DEF StatePageSnapshot, Serving
  <2>2. /\ browser' \in [page : Pages, pc : {"half"}, generation : Nat, shown : Stamps, of : Nat,
                        held : BOOLEAN, owed : BOOLEAN]
        /\ browser'.pc = "half" /\ browser'.page = "state"
        /\ browser'.generation = browser.generation /\ browser'.shown = server.snapshot /\ browser'.of = SnapshotOf
    BY <1>2, <2>1
  <2>3. ServeTypeOK'
    BY <1>1, <2>1, <2>2
  <2>4. PageFollows'
    BY <1>1, <2>1, <2>2
  <2>5. ShownFollows'
    BY <1>1, <1>2, <1>5, <2>2 DEF StatePageSnapshot
  <2> QED BY <2>3, <2>4, <2>5
<1>6. CASE StatePageGeneration
  <2>1. /\ browser' = [browser EXCEPT !.pc = "shown", !.generation = server.generation]
        /\ browser.page = "state" /\ trouble' = trouble
        /\ server.pc \notin {"first", "ended"}
    BY <1>6 DEF StatePageGeneration
  <2>2. /\ browser' \in [page : Pages, pc : {"shown"}, generation : Nat, shown : Stamps, of : Nat,
                        held : BOOLEAN, owed : BOOLEAN]
        /\ browser'.pc = "shown" /\ browser'.page = "state"
        /\ browser'.generation = server.generation /\ browser'.shown = browser.shown /\ browser'.of = browser.of
    BY <1>2, <2>1
  <2>3. ServeTypeOK'
    BY <1>1, <2>1, <2>2
  <2>4. PageFollows'
    BY <1>1, <2>1, <2>2
  <2>5. ShownFollows'
    BY <1>1, <1>2, <1>6, <2>2 DEF StatePageGeneration
  <2> QED BY <2>3, <2>4, <2>5
<1>7. CASE AskVersion
  BY <1>1, <1>7 DEF AskVersion
<1>8. CASE Hold
  <2>1. trouble' \in 0..MaxTrouble
    BY <1>8, ServeAssumption DEF Hold
  <2> QED BY <1>1, <1>8, <2>1 DEF Hold
<1>9. CASE Release
  BY <1>1, <1>9 DEF Release
<1> QED BY <1>3, <1>4, <1>5, <1>6, <1>7, <1>8, <1>9

\* Every step keeps the invariant.
LEMMA ServeInvStep == ServeInv /\ [ServeNext]_serveVars => ServeInv'
<1> SUFFICES ASSUME ServeInv, [ServeNext]_serveVars PROVE ServeInv' OBVIOUS
<1>1. CASE UNCHANGED serveVars
  BY <1>1 DEF serveVars, ServeInv, ServeTypeOK, PageFollows, ShownFollows, HasSnapshot, SnapshotOf
<1>2. CASE ServeNext
  BY <1>2, WriteFileKeeps, ServerKeeps, PageKeeps DEF ServeNext
<1> QED BY <1>1, <1>2

(***************************************************************************)
(* A page that has the server's generation, and so does not reload, shows  *)
(* the server's snapshot: for any files, changes, failing loads and held   *)
(* pages (watch replaces the snapshot before it counts the generation, and *)
(* the handlers read them the other way round).  The one exception is a    *)
(* page of state_pages.rs, whose handler reads them in watch's own order   *)
(* and was overtaken by a reload.                                          *)
(***************************************************************************)
THEOREM PageIsCurrent == ServeSpec => []CurrentPageIsCurrent
<1>1. ServeInv => CurrentPageIsCurrent
  BY DEF ServeInv, ServeTypeOK, PageFollows, ShownFollows, HasSnapshot, SnapshotOf, Pages,
         CurrentPageIsCurrent, Overtaken
<1> QED BY <1>1, ServeInvInit, ServeInvStep, PTL DEF ServeSpec

\* The files, the server and the page have their types.
THEOREM ServeTypesHold == ServeSpec => []ServeTypeOK
<1>1. ServeInv => ServeTypeOK
  BY DEF ServeInv
<1> QED BY <1>1, ServeInvInit, ServeInvStep, PTL DEF ServeSpec

-----------------------------------------------------------------------------
(***************************************************************************)
(* Proofs about one call of a script check or a plugin (PluginProcess):    *)
(* its state has its type, and an answer it returns is everything the      *)
(* script wrote, whatever the pipes hold, whatever the limit on an answer, *)
(* and in whatever order the script reads, answers, logs, starts others,   *)
(* is stopped or ends.                                                     *)
(***************************************************************************)
(***************************************************************************)
(* The invariant.                                                          *)
(***************************************************************************)
\* What the script has put on stdout so far: it answers in one go.
Written == IF Doing = "answer" THEN script.wrote ELSE script.answer

\* A script that is neither answering nor logging has nothing half written, and one that
\* still has to answer has not answered.  One that ended well did all it had to do.
ScriptInv ==
    /\ Doing \notin {"answer", "log"} => script.wrote = 0
    /\ (\E i \in DOMAIN script.todo : script.todo[i] = "answer") => script.answer = 0
    /\ script.status = "ok" => script.todo = <<>>

\* Until something had to be dropped, what was written is kept or still in the pipe.
StdoutInv == ~call.over => call.kept + pipe["out"] = Written

\* An output only ends once it is empty and nobody is left to write to it.
EndInv == "out" \in call.ended => pipe["out"] = 0 /\ ~AnyAlive

\* A call that is over without an error saw both outputs end.
CallInv ==
    /\ call.pc = "ended" => call.ended = {"out", "err"}
    /\ call.result = "answer" =>
         "out" \in call.ended /\ script.status = "ok" /\ ~call.over

PluginInv == PluginTypeOK /\ ScriptInv /\ StdoutInv /\ EndInv /\ CallInv

(***************************************************************************)
(* What is left of a program once its first step is done.                  *)
(***************************************************************************)
LEMMA ProgramType ==
    /\ \A p \in Programs : p \in Seq(Doings) /\ Len(p) <= 3
    /\ \A p \in Seq(Doings) :
         (Len(p) <= 3 /\ \A i, j \in DOMAIN p : p[i] = p[j] => i = j) => p \in Programs
<1>1. ASSUME NEW p \in BoundedSeq(Doings, 3)
      PROVE  p \in Seq(Doings) /\ Len(p) <= 3
  <2>1. PICK m \in 0..3 : p \in [1..m -> Doings]
    BY DEF BoundedSeq, SeqOf
  <2> QED
    BY <2>1
<1>2. ASSUME NEW p \in Seq(Doings), Len(p) <= 3
      PROVE  p \in BoundedSeq(Doings, 3)
  <2>1. Len(p) \in Nat /\ DOMAIN p = 1..Len(p) /\ \A i \in 1..Len(p) : p[i] \in Doings
    OBVIOUS
  <2>2. Len(p) \in 0..3
    BY <1>2, <2>1
  <2>3. p = [i \in 1..Len(p) |-> p[i]]
    BY <2>1
  <2>4. p \in [1..Len(p) -> Doings]
    BY <2>1, <2>3
  <2> QED
    BY <2>2, <2>4 DEF BoundedSeq, SeqOf
<1> QED
  BY <1>1, <1>2 DEF Programs

LEMMA ProgramGoesOn ==
    ASSUME NEW p \in Programs, p # <<>>
    PROVE  /\ Tail(p) \in Programs
           /\ Head(p) \in Doings /\ Head(p) = p[1]
           /\ \A i \in DOMAIN Tail(p) : /\ i + 1 \in DOMAIN p
                                        /\ Tail(p)[i] = p[i + 1]
                                        /\ Tail(p)[i] # Head(p)
           /\ Tail(p) # <<>> => Head(Tail(p)) = Tail(p)[1] /\ 1 \in DOMAIN Tail(p)
<1>1. p \in Seq(Doings) /\ Len(p) <= 3
  BY ProgramType
<1>2. \A i, j \in DOMAIN p : p[i] = p[j] => i = j
  BY DEF Programs
<1>3. /\ Len(p) > 0 /\ DOMAIN p = 1..Len(p)
      /\ Head(p) = p[1] /\ Head(p) \in Doings
  BY <1>1
<1>4. /\ Tail(p) \in Seq(Doings) /\ Len(Tail(p)) = Len(p) - 1
      /\ DOMAIN Tail(p) = 1..(Len(p) - 1)
      /\ \A i \in 1..(Len(p) - 1) : Tail(p)[i] = p[i + 1]
  BY <1>1, <1>3
<1>5. \A i, j \in DOMAIN Tail(p) : Tail(p)[i] = Tail(p)[j] => i = j
  BY <1>1, <1>2, <1>3, <1>4
<1>6. Tail(p) \in Programs
  <2>1. Tail(p) \in Seq(Doings) /\ Len(Tail(p)) <= 3
    BY <1>1, <1>4
  <2> QED
    BY <1>5, <2>1, ProgramType
<1>7. \A i \in DOMAIN Tail(p) : /\ i + 1 \in DOMAIN p /\ Tail(p)[i] = p[i + 1]
                                /\ Tail(p)[i] # Head(p)
  BY <1>1, <1>2, <1>3, <1>4
<1>8. Tail(p) # <<>> => Head(Tail(p)) = Tail(p)[1] /\ 1 \in DOMAIN Tail(p)
  BY <1>4
<1> QED
  BY <1>3, <1>6, <1>7, <1>8

(***************************************************************************)
(* The four parts of the type invariant, which steps disturb one by one.   *)
(***************************************************************************)
PipeOK == pipe \in [{"in", "out", "err"} -> 0..PipeSize]
ScriptOK ==
    script \in [alive : BOOLEAN, todo : Programs, wrote : 0..MaxWritten,
                answer : {0} \cup (AnswerLimit..MaxWritten),
                status : {"ok", "failed", NoAnswer}, says : {"good", "junk", "other major"}]
HelperOK == helper \in [alive : BOOLEAN, hangs : BOOLEAN]
CallOK ==
    call \in [pc : {"waiting", "ended", "returned"}, left : 0..RequestSize, open : BOOLEAN,
              kept : 0..AnswerLimit, over : BOOLEAN, ended : SUBSET {"out", "err"},
              killed : BOOLEAN, result : {NoAnswer, "answer", "error"}]

LEMMA TypeParts == PluginTypeOK <=> (PipeOK /\ ScriptOK /\ HelperOK /\ CallOK)
BY DEF PluginTypeOK, PipeOK, ScriptOK, HelperOK, CallOK

LEMMA NextTypeParts == PipeOK' /\ ScriptOK' /\ HelperOK' /\ CallOK' => PluginTypeOK'
BY DEF PluginTypeOK, PipeOK, ScriptOK, HelperOK, CallOK

\* What a step leaves alone keeps its type.
LEMMA SameType ==
    ASSUME PluginTypeOK
    PROVE  /\ UNCHANGED pipe => PipeOK'
           /\ UNCHANGED script => ScriptOK'
           /\ UNCHANGED helper => HelperOK'
           /\ UNCHANGED call => CallOK'
<1>1. PipeOK /\ ScriptOK /\ HelperOK /\ CallOK
  BY TypeParts
<1>2. UNCHANGED pipe => PipeOK'
  BY <1>1 DEF PipeOK
<1>3. UNCHANGED script => ScriptOK'
  BY <1>1 DEF ScriptOK
<1>4. UNCHANGED helper => HelperOK'
  BY <1>1 DEF HelperOK
<1>5. UNCHANGED call => CallOK'
  BY <1>1 DEF CallOK
<1> QED
  BY <1>2, <1>3, <1>4, <1>5

LEMMA Numbers ==
    ASSUME PluginTypeOK
    PROVE  /\ \A x \in {"in", "out", "err"} : pipe[x] \in 0..PipeSize
           /\ pipe["out"] \in Nat /\ call.kept \in Nat
           /\ script.wrote \in Nat /\ script.answer \in Nat /\ Written \in Nat
<1>1. \A x \in {"in", "out", "err"} : pipe[x] \in 0..PipeSize
  BY TypeParts DEF PipeOK
<1>2. call.kept \in 0..AnswerLimit
  BY TypeParts DEF CallOK
<1>3. script.wrote \in 0..MaxWritten /\ script.answer \in {0} \cup (AnswerLimit..MaxWritten)
  BY TypeParts DEF ScriptOK
<1>4. pipe["out"] \in Nat /\ call.kept \in Nat
  BY <1>1, <1>2, PluginAssumption
<1>5. script.wrote \in Nat /\ script.answer \in Nat
  BY <1>3, PluginAssumption
<1> QED
  BY <1>1, <1>4, <1>5 DEF Written

(***************************************************************************)
(* The proof that every step keeps the invariant.                          *)
(***************************************************************************)
LEMMA InitHolds == PluginInit => PluginInv
<1>0. /\ 0 \in 0..PipeSize /\ 0 \in 0..MaxWritten /\ 0 \in 0..AnswerLimit
      /\ {0, RequestSize} \subseteq 0..RequestSize /\ 0 + 0 = 0
  BY PluginAssumption
<1> SUFFICES ASSUME PluginInit PROVE PluginInv
  OBVIOUS
<1>1. PICK p \in Programs, says \in {"good", "junk", "other major"}, started \in BOOLEAN :
         /\ script = [alive |-> started, todo |-> p, wrote |-> 0, answer |-> 0,
                      status |-> NoAnswer, says |-> says]
         /\ call = Called(started)
  BY DEF PluginInit
<1>2. /\ pipe = [x \in {"in", "out", "err"} |-> 0]
      /\ helper = [alive |-> FALSE, hangs |-> FALSE]
  BY DEF PluginInit
<1>c. /\ call.pc \in {"waiting", "returned"} /\ call.result \in {NoAnswer, "error"}
      /\ call.left \in 0..RequestSize /\ call.open \in BOOLEAN /\ call.killed = FALSE
      /\ call.kept = 0 /\ call.over = FALSE /\ call.ended = {}
  BY <1>0, <1>1 DEF Called
<1>o. CallOK
  <2>1. CASE started
    BY <1>0, <1>1, <2>1 DEF Called, CallOK
  <2>2. CASE ~started
    BY <1>0, <1>1, <2>2 DEF Called, CallOK
  <2> QED
    BY <2>1, <2>2
<1>3. PluginTypeOK
  <2>1. PipeOK
    BY <1>2, <1>0 DEF PipeOK
  <2>2. ScriptOK
    BY <1>1, <1>0 DEF ScriptOK
  <2>3. HelperOK
    BY <1>2 DEF HelperOK
  <2> QED
    BY <1>o, <2>1, <2>2, <2>3, TypeParts
<1>4. ScriptInv
  BY <1>1, PluginAssumption DEF ScriptInv
<1>5. StdoutInv
  <2>1. script.wrote = 0 /\ script.answer = 0
    BY <1>1
  <2>2. call.kept = 0 /\ pipe["out"] = 0
    BY <1>2, <1>c
  <2>3. Written = 0
    BY <2>1 DEF Written
  <2> QED
    BY <1>0, <2>2, <2>3, Zenon DEF StdoutInv
<1>6. EndInv /\ CallInv
  BY <1>c, PluginAssumption DEF EndInv, CallInv
<1> QED
  BY <1>3, <1>4, <1>5, <1>6 DEF PluginInv

\* The script's program as the invariant gives it.
LEMMA DoingFacts ==
    ASSUME PluginTypeOK
    PROVE  /\ script.todo \in Programs
           /\ script.todo = <<>> => Doing = NoAnswer
           /\ script.todo # <<>> => Doing = Head(script.todo) /\ Doing \in Doings
           /\ Doing \in Doings => script.todo # <<>>
<1>1. script.todo \in Programs
  BY DEF PluginTypeOK
<1> QED
  BY <1>1, ProgramGoesOn, PluginAssumption DEF Doing

\* A script that has written nothing goes on to what it does next.
LEMMA GoingOnKeeps ==
    ASSUME PluginInv, script.alive, Doing \in Doings \ {"answer", "log"},
           Moves(Tail(script.todo)), UNCHANGED <<pipe, call>>,
           helper' \in [alive : BOOLEAN, hangs : BOOLEAN]
    PROVE  PluginInv'
<1> USE PluginAssumption
<1> USE DEF PluginInv
<1> DEFINE p == script.todo
<1>1. /\ p \in Programs /\ p # <<>> /\ Doing = Head(p)
  BY DoingFacts
<1>2. /\ Tail(p) \in Programs
      /\ \A i \in DOMAIN Tail(p) : /\ i + 1 \in DOMAIN p /\ Tail(p)[i] = p[i + 1]
                                   /\ Tail(p)[i] # Head(p)
      /\ Tail(p) # <<>> => Head(Tail(p)) = Tail(p)[1] /\ 1 \in DOMAIN Tail(p)
  BY <1>1, ProgramGoesOn
<1>3. script' = [script EXCEPT !.todo = Tail(p)]
  BY DEF Moves
<1>4. PluginTypeOK'
  BY <1>2, <1>3 DEF PluginTypeOK
<1>5. /\ script'.todo = Tail(p) /\ script'.wrote = script.wrote
      /\ script'.answer = script.answer /\ script'.status = script.status
      /\ script'.alive = script.alive
  BY <1>3 DEF PluginTypeOK
<1>6. script.wrote = 0
  BY DEF ScriptInv
<1>7. ScriptInv'
  <2>1. (\E i \in DOMAIN Tail(p) : Tail(p)[i] = "answer") => script.answer = 0
    BY <1>2 DEF ScriptInv
  <2>2. script.status # "ok"
    BY <1>1 DEF ScriptInv
  <2> QED
    BY <1>5, <1>6, <2>1, <2>2 DEF ScriptInv
<1>8. Written' = Written
  <2>1. Written = script.answer
    BY DEF Written
  <2>2. CASE Doing' = "answer"
    <3>1. Tail(p) # <<>> /\ Head(Tail(p)) = "answer"
      BY <1>5, <2>2 DEF Doing, Doings
    <3>2. script.answer = 0
      BY <3>1, <1>2 DEF ScriptInv
    <3> QED
      BY <2>1, <2>2, <3>2, <1>5, <1>6 DEF Written
  <2>3. CASE Doing' # "answer"
    BY <2>1, <2>3, <1>5 DEF Written
  <2> QED
    BY <2>2, <2>3
<1>9. StdoutInv'
  BY <1>8 DEF StdoutInv
<1>10. EndInv' /\ CallInv'
  BY <1>5 DEF EndInv, CallInv, AnyAlive
<1> QED
  BY <1>4, <1>7, <1>9, <1>10

\* It reads its request, or has read all of it.
LEMMA ScriptReadsKeeps == PluginInv /\ ScriptReads => PluginInv'
<1> SUFFICES ASSUME PluginInv, ScriptReads PROVE PluginInv'
  OBVIOUS
<1> USE PluginAssumption
<1> USE DEF PluginInv
<1>1. script.alive /\ Doing = "read" /\ UNCHANGED <<helper, call>>
  BY DEF ScriptReads
<1>2. CASE pipe["in"] > 0 /\ pipe' = [pipe EXCEPT !["in"] = @ - 1] /\ UNCHANGED script
  <2>1. PluginTypeOK'
    <3>1. PipeOK'
      BY <1>2, Numbers, TypeParts DEF PipeOK
    <3> QED
      BY <1>1, <1>2, <3>1, SameType, NextTypeParts
  <2>2. pipe'["out"] = pipe["out"]
    BY <1>2 DEF PluginTypeOK
  <2> QED
    BY <1>1, <1>2, <2>1, <2>2 DEF ScriptInv, StdoutInv, EndInv, CallInv, Written, Doing, AnyAlive
<1>3. CASE Moves(Tail(script.todo)) /\ UNCHANGED pipe
  <2>1. helper' \in [alive : BOOLEAN, hangs : BOOLEAN]
    BY <1>1 DEF PluginTypeOK
  <2> QED
    BY <1>1, <1>3, <2>1, GoingOnKeeps DEF Doings
<1> QED
  BY <1>1, <1>2, <1>3 DEF ScriptReads

\* It writes to stdout or to stderr, or is done with it.
LEMMA ScriptWritesKeeps ==
    \A to \in {"out", "err"} : PluginInv /\ ScriptWrites(to) => PluginInv'
<1> SUFFICES ASSUME NEW to \in {"out", "err"}, PluginInv, ScriptWrites(to) PROVE PluginInv'
  OBVIOUS
<1> USE PluginAssumption
<1> USE DEF PluginInv
<1> DEFINE p == script.todo
<1>1. /\ script.alive /\ Doing = (IF to = "out" THEN "answer" ELSE "log")
      /\ UNCHANGED <<helper, call>>
  BY DEF ScriptWrites
<1>2. p \in Programs /\ p # <<>> /\ Doing = Head(p)
  BY <1>1, DoingFacts DEF Doings
<1>3. script.status # "ok"
  BY <1>2 DEF ScriptInv
<1>4. CASE /\ script.wrote < MaxWritten /\ pipe[to] < PipeSize
           /\ pipe' = [pipe EXCEPT ![to] = @ + 1]
           /\ script' = [script EXCEPT !.wrote = @ + 1]
  <2>1. PluginTypeOK'
    <3>1. PipeOK'
      BY <1>4, Numbers, TypeParts DEF PipeOK
    <3>2. ScriptOK'
      <4>1. script.wrote \in 0..MaxWritten
        BY TypeParts DEF ScriptOK
      <4>2. script.wrote + 1 \in 0..MaxWritten
        BY <1>4, <4>1
      <4> QED
        BY <1>4, <4>2, TypeParts DEF ScriptOK
    <3> QED
      BY <1>1, <3>1, <3>2, SameType, NextTypeParts
  <2>2. /\ script'.todo = p /\ script'.wrote = script.wrote + 1 /\ script'.alive
        /\ script'.answer = script.answer /\ script'.status = script.status
    BY <1>1, <1>4 DEF PluginTypeOK
  <2>3. Doing' = Doing
    BY <2>2 DEF Doing
  <2>4. ScriptInv'
    BY <1>1, <1>3, <2>2, <2>3 DEF ScriptInv
  <2>5. StdoutInv'
    <3>1. pipe'["out"] = (IF to = "out" THEN pipe["out"] + 1 ELSE pipe["out"])
      BY <1>4 DEF PluginTypeOK
    <3>2. Written' = (IF to = "out" THEN Written + 1 ELSE Written)
      BY <1>1, <2>2, <2>3 DEF Written
    <3>3. /\ pipe["out"] \in Nat /\ call.kept \in Nat
          /\ script.wrote \in Nat /\ script.answer \in Nat
      BY Numbers
    <3> QED
      BY <1>1, <3>1, <3>2, <3>3 DEF StdoutInv, Written
  <2>6. EndInv' /\ CallInv'
    BY <1>1, <2>2, <1>3 DEF EndInv, CallInv, AnyAlive
  <2> QED
    BY <2>1, <2>4, <2>5, <2>6
<1>5. CASE /\ script.wrote >= AnswerLimit
           /\ script' = [script EXCEPT !.todo = Tail(@), !.wrote = 0,
                                      !.answer = IF to = "out" THEN script.wrote ELSE @]
           /\ UNCHANGED pipe
  <2>1. /\ Tail(p) \in Programs
        /\ \A i \in DOMAIN Tail(p) : /\ i + 1 \in DOMAIN p /\ Tail(p)[i] = p[i + 1]
                                     /\ Tail(p)[i] # Head(p)
        /\ Tail(p) # <<>> => Head(Tail(p)) = Tail(p)[1] /\ 1 \in DOMAIN Tail(p)
    BY <1>2, ProgramGoesOn
  <2>2. /\ script'.todo = Tail(p) /\ script'.wrote = 0 /\ script'.alive
        /\ script'.answer = (IF to = "out" THEN script.wrote ELSE script.answer)
        /\ script'.status = script.status
    BY <1>1, <1>5 DEF PluginTypeOK
  <2>3. PluginTypeOK'
    <3>1. script.wrote \in {0} \cup (AnswerLimit..MaxWritten) /\ 0 \in 0..MaxWritten
      <4>1. script.wrote \in 0..MaxWritten
        BY TypeParts DEF ScriptOK
      <4> QED
        BY <1>5, <4>1
    <3>2. ScriptOK'
      BY <1>5, <2>1, <3>1, TypeParts DEF ScriptOK
    <3> QED
      BY <1>1, <1>5, <3>2, SameType, NextTypeParts
  <2>4. ScriptInv'
    <3>1. (\E i \in DOMAIN Tail(p) : Tail(p)[i] = "answer") => script'.answer = 0
      BY <1>1, <1>2, <2>1, <2>2 DEF ScriptInv
    <3> QED
      BY <1>3, <2>2, <3>1 DEF ScriptInv
  <2>5. Written' = Written
    <3>1. CASE to = "out"
      <4>1. Doing' # "answer"
        <5>1. Head(p) = "answer"
          BY <3>1, <1>1, <1>2
        <5>2. CASE Tail(p) = <<>>
          BY <2>2, <5>2 DEF Doing
        <5>3. CASE Tail(p) # <<>>
          <6>1. Head(Tail(p)) # "answer"
            BY <2>1, <5>1, <5>3
          <6> QED
            BY <2>2, <5>3, <6>1 DEF Doing
        <5> QED
          BY <5>2, <5>3
      <4> QED
        BY <3>1, <4>1, <1>1, <2>2 DEF Written
    <3>2. CASE to = "err" /\ Doing' = "answer"
      <4>1. Tail(p) # <<>> /\ Head(Tail(p)) = "answer"
        BY <3>2, <2>2 DEF Doing, Doings
      <4>2. script.answer = 0
        BY <4>1, <2>1 DEF ScriptInv
      <4> QED
        BY <3>2, <4>2, <1>1, <2>2 DEF Written
    <3>3. CASE to = "err" /\ Doing' # "answer"
      BY <3>3, <1>1, <2>2 DEF Written
    <3> QED
      BY <3>1, <3>2, <3>3
  <2>6. StdoutInv'
    BY <1>1, <1>5, <2>5 DEF StdoutInv
  <2>7. EndInv' /\ CallInv'
    BY <1>1, <1>3, <2>2 DEF EndInv, CallInv, AnyAlive
  <2> QED
    BY <2>3, <2>4, <2>6, <2>7
<1> QED
  BY <1>4, <1>5 DEF ScriptWrites

\* It starts a process, which lives no longer than the outputs stay open.
LEMMA ScriptStartsKeeps == PluginInv /\ ScriptStarts => PluginInv'
<1> SUFFICES ASSUME PluginInv, ScriptStarts PROVE PluginInv'
  OBVIOUS
<1>1. helper' \in [alive : BOOLEAN, hangs : BOOLEAN]
  BY DEF ScriptStarts
<1> QED
  BY <1>1, GoingOnKeeps DEF ScriptStarts, Doings

\* The processes end: by themselves, or by the signal.
LEMMA ProcessEndsKeeps ==
    PluginInv /\ ((\E status \in {"ok", "failed"} : ScriptExits(status)) \/ HelperEnds \/ Killed)
        => PluginInv'
<1> SUFFICES ASSUME PluginInv,
                    (\E status \in {"ok", "failed"} : ScriptExits(status)) \/ HelperEnds \/ Killed
             PROVE  PluginInv'
  OBVIOUS
<1> USE PluginAssumption
<1> USE DEF PluginInv
<1>1. ASSUME NEW status \in {"ok", "failed"}, ScriptExits(status)
      PROVE  PluginInv'
  <2>1. /\ script.alive /\ script.todo = <<>>
        /\ script' = [script EXCEPT !.alive = FALSE, !.status = status]
        /\ UNCHANGED <<pipe, helper, call>>
    BY <1>1 DEF ScriptExits
  <2>2. PluginTypeOK'
    BY <2>1 DEF PluginTypeOK
  <2>3. /\ script'.todo = <<>> /\ script'.wrote = script.wrote
        /\ script'.answer = script.answer /\ script'.alive = FALSE
    BY <2>1 DEF PluginTypeOK
  <2>4. Doing' = Doing
    BY <2>1, <2>3 DEF Doing
  <2>5. ScriptInv' /\ StdoutInv'
    BY <2>1, <2>3, <2>4 DEF ScriptInv, StdoutInv, Written
  <2>6. EndInv' /\ CallInv'
    BY <2>1, <2>3 DEF EndInv, CallInv, AnyAlive
  <2> QED
    BY <2>2, <2>5, <2>6
<1>2. ASSUME HelperEnds \/ Killed
      PROVE  PluginInv'
  <2>1. /\ UNCHANGED <<pipe, call>>
        /\ script' = script \/ script' = [script EXCEPT !.alive = FALSE]
        /\ helper' = [helper EXCEPT !.alive = FALSE]
    BY <1>2 DEF HelperEnds, Killed
  <2>2. PluginTypeOK'
    BY <2>1 DEF PluginTypeOK
  <2>3. /\ script'.todo = script.todo /\ script'.wrote = script.wrote
        /\ script'.answer = script.answer /\ script'.status = script.status
        /\ script'.alive => script.alive
        /\ ~helper'.alive
    BY <2>1 DEF PluginTypeOK
  <2>4. Doing' = Doing
    BY <2>3 DEF Doing
  <2>5. ScriptInv' /\ StdoutInv'
    BY <2>1, <2>3, <2>4 DEF ScriptInv, StdoutInv, Written
  <2>6. EndInv' /\ CallInv'
    BY <2>1, <2>3 DEF EndInv, CallInv, AnyAlive
  <2> QED
    BY <2>2, <2>5, <2>6
<1> QED
  BY <1>1, <1>2

\* The host writes the request and closes it.
LEMMA RequestKeeps == PluginInv /\ (WriteRequest \/ CloseRequest) => PluginInv'
<1> SUFFICES ASSUME PluginInv, WriteRequest \/ CloseRequest PROVE PluginInv'
  OBVIOUS
<1> USE PluginAssumption
<1> USE DEF PluginInv
<1>1. UNCHANGED <<script, helper>>
  BY DEF WriteRequest, CloseRequest
<1>2. PluginTypeOK'
  <2>1. PipeOK'
    BY Numbers, TypeParts DEF PipeOK, WriteRequest, CloseRequest
  <2>2. call.left \in 0..RequestSize
    BY TypeParts DEF CallOK
  <2>3. CallOK'
    <3>1. CASE WriteRequest
      <4>1. call.left - 1 \in 0..RequestSize /\ call' = [call EXCEPT !.left = call.left - 1]
        BY <2>2, <3>1 DEF WriteRequest
      <4> QED
        BY <4>1, TypeParts DEF CallOK
    <3>2. CASE CloseRequest
      <4>1. 0 \in 0..RequestSize /\ call' = [call EXCEPT !.open = FALSE, !.left = 0]
        BY <3>2 DEF CloseRequest
      <4> QED
        BY <4>1, TypeParts DEF CallOK
    <3> QED
      BY <3>1, <3>2
  <2> QED
    BY <1>1, <2>1, <2>3, SameType, NextTypeParts
<1>3. /\ pipe'["out"] = pipe["out"] /\ call'.kept = call.kept /\ call'.over = call.over
      /\ call'.ended = call.ended /\ call'.pc = call.pc /\ call'.result = call.result
  BY DEF PluginTypeOK, WriteRequest, CloseRequest
<1> QED
  BY <1>1, <1>2, <1>3
     DEF ScriptInv, StdoutInv, EndInv, CallInv, Written, Doing, AnyAlive

\* It reads an output; of stdout it keeps what the limit allows.
LEMMA ReadOutputKeeps ==
    \A from \in {"out", "err"} : PluginInv /\ ReadOutput(from) => PluginInv'
<1> SUFFICES ASSUME NEW from \in {"out", "err"}, PluginInv, ReadOutput(from) PROVE PluginInv'
  OBVIOUS
<1> USE PluginAssumption
<1> USE DEF PluginInv
<1>1. /\ call.pc = "waiting" /\ from \notin call.ended /\ pipe[from] > 0
      /\ pipe' = [pipe EXCEPT ![from] = @ - 1]
      /\ call' = (IF from = "out" THEN Keeps(call) ELSE call)
      /\ UNCHANGED <<script, helper>>
  BY DEF ReadOutput, Reads
<1>2. Keeps(call) = IF call.kept < AnswerLimit THEN [call EXCEPT !.kept = @ + 1]
                                               ELSE [call EXCEPT !.over = TRUE]
  BY DEF Keeps
<1>3. PluginTypeOK'
  <2>1. PipeOK'
    BY <1>1, Numbers, TypeParts DEF PipeOK
  <2>2. Keeps(call) \in [pc : {"waiting", "ended", "returned"}, left : 0..RequestSize,
                         open : BOOLEAN, kept : 0..AnswerLimit, over : BOOLEAN,
                         ended : SUBSET {"out", "err"}, killed : BOOLEAN,
                         result : {NoAnswer, "answer", "error"}]
    <3>1. call.kept \in 0..AnswerLimit
      BY TypeParts DEF CallOK
    <3>2. call.kept < AnswerLimit => call.kept + 1 \in 0..AnswerLimit
      BY <3>1
    <3> QED
      BY <1>2, <3>2, TypeParts DEF CallOK
  <2>3. CallOK'
    BY <1>1, <2>2, TypeParts DEF CallOK
  <2> QED
    BY <1>1, <2>1, <2>3, SameType, NextTypeParts
<1>4. /\ call'.ended = call.ended /\ call'.pc = call.pc /\ call'.result = call.result
      /\ call.kept \in Nat /\ pipe["out"] \in Nat
      /\ from = "out" => pipe'["out"] = pipe["out"] - 1
      /\ from # "out" => pipe'["out"] = pipe["out"] /\ call' = call
      /\ from = "out" /\ ~call'.over => ~call.over /\ call'.kept = call.kept + 1
  <2>1. call.kept \in Nat /\ pipe["out"] \in Nat
    BY Numbers
  <2>2. from = "out" => pipe'["out"] = pipe["out"] - 1
    BY <1>1, TypeParts DEF PipeOK
  <2>3. from # "out" => pipe'["out"] = pipe["out"] /\ call' = call
    BY <1>1, TypeParts DEF PipeOK
  <2>4. /\ Keeps(call).ended = call.ended /\ Keeps(call).pc = call.pc
        /\ Keeps(call).result = call.result
        /\ ~Keeps(call).over => ~call.over /\ Keeps(call).kept = call.kept + 1
    BY <1>2, TypeParts DEF CallOK
  <2> QED
    BY <1>1, <2>1, <2>2, <2>3, <2>4
<1>5. Written' = Written /\ ScriptInv'
  BY <1>1 DEF Written, Doing, ScriptInv
<1>6. StdoutInv'
  <2>1. Written \in Nat
    BY Numbers
  <2> QED
    BY <1>4, <1>5, <2>1 DEF StdoutInv
<1>7. EndInv'
  BY <1>1, <1>4 DEF EndInv, AnyAlive
<1>8. CallInv'
  <2>1. call.result = "answer" => from # "out"
    BY <1>1 DEF CallInv
  <2> QED
    BY <1>1, <1>4, <2>1 DEF CallInv
<1> QED
  BY <1>3, <1>5, <1>6, <1>7, <1>8

\* An output ends, and the whole group.
LEMMA EndsKeeps ==
    PluginInv /\ ((\E from \in {"out", "err"} : OutputEnds(from)) \/ GroupEnds) => PluginInv'
<1> SUFFICES ASSUME PluginInv, (\E from \in {"out", "err"} : OutputEnds(from)) \/ GroupEnds
             PROVE  PluginInv'
  OBVIOUS
<1> USE PluginAssumption
<1> USE DEF PluginInv
<1>1. ASSUME NEW from \in {"out", "err"}, OutputEnds(from)
      PROVE  PluginInv'
  <2>1. /\ call.pc = "waiting" /\ pipe[from] = 0 /\ ~AnyAlive
        /\ call' = [call EXCEPT !.ended = @ \cup {from}]
        /\ UNCHANGED <<pipe, script, helper>>
    BY <1>1 DEF OutputEnds, Reads
  <2>2. PluginTypeOK'
    BY <2>1 DEF PluginTypeOK
  <2>3. /\ call'.ended = call.ended \cup {from} /\ call'.pc = "waiting"
        /\ call'.kept = call.kept /\ call'.over = call.over /\ call'.result = call.result
    BY <2>1 DEF PluginTypeOK
  <2> QED
    BY <2>1, <2>2, <2>3 DEF ScriptInv, StdoutInv, EndInv, CallInv, Written, Doing, AnyAlive
<1>2. ASSUME GroupEnds
      PROVE  PluginInv'
  <2>1. /\ call.ended = {"out", "err"}
        /\ call' = [call EXCEPT !.pc = "ended"]
        /\ UNCHANGED <<pipe, script, helper>>
    BY <1>2 DEF GroupEnds
  <2>2. PluginTypeOK'
    BY <2>1 DEF PluginTypeOK
  <2>3. /\ call'.ended = call.ended /\ call'.kept = call.kept /\ call'.over = call.over
        /\ call'.result = call.result
    BY <2>1 DEF PluginTypeOK
  <2> QED
    BY <2>1, <2>2, <2>3 DEF ScriptInv, StdoutInv, EndInv, CallInv, Written, Doing, AnyAlive
<1> QED
  BY <1>1, <1>2

\* The call returns, or is stopped.
LEMMA CallIsOverKeeps == PluginInv /\ (RunReturns \/ Stops) => PluginInv'
<1> SUFFICES ASSUME PluginInv, RunReturns \/ Stops PROVE PluginInv'
  OBVIOUS
<1> USE PluginAssumption
<1> USE DEF PluginInv
<1>1. UNCHANGED <<pipe, script, helper>>
  BY DEF RunReturns, Stops
<1>2. PluginTypeOK'
  <2>1. CASE RunReturns
    <3>1. PICK r \in {"answer", "error"} :
            call' = [call EXCEPT !.pc = "returned", !.result = r]
      BY <2>1 DEF RunReturns
    <3>2. CallOK'
      BY <3>1, TypeParts DEF CallOK
    <3> QED
      BY <1>1, <3>2, SameType, NextTypeParts
  <2>2. CASE Stops
    <3>1. CallOK'
      BY <2>2, TypeParts DEF CallOK, Stops
    <3> QED
      BY <1>1, <3>1, SameType, NextTypeParts
  <2> QED
    BY <2>1, <2>2
<1>3. /\ call'.ended = call.ended /\ call'.kept = call.kept /\ call'.over = call.over
      /\ call'.pc = "returned"
  BY TypeParts DEF CallOK, RunReturns, Stops
<1>4. ScriptInv' /\ StdoutInv' /\ EndInv'
  BY <1>1, <1>3 DEF ScriptInv, StdoutInv, EndInv, Written, Doing, AnyAlive
<1>5. call'.result = "answer" => call.pc = "ended" /\ script.status = "ok" /\ ~call.over
  BY DEF PluginTypeOK, RunReturns, Stops
<1>6. CallInv'
  BY <1>1, <1>3, <1>5 DEF CallInv
<1> QED
  BY <1>2, <1>4, <1>6

LEMMA NextHolds == PluginInv /\ [PluginNext]_pluginVars => PluginInv'
<1> SUFFICES ASSUME PluginInv, [PluginNext]_pluginVars PROVE PluginInv'
  OBVIOUS
<1>1. CASE HostStep
  BY <1>1, RequestKeeps, ReadOutputKeeps, EndsKeeps, CallIsOverKeeps DEF HostStep
<1>2. CASE ScriptStep
  BY <1>2, ScriptReadsKeeps, ScriptStartsKeeps, ScriptWritesKeeps, ProcessEndsKeeps
     DEF ScriptStep
<1>3. CASE Stops
  BY <1>3, CallIsOverKeeps
<1>4. CASE UNCHANGED pluginVars
  <2>1. UNCHANGED <<pipe, script, helper, call>>
    BY <1>4 DEF pluginVars
  <2>2. PluginTypeOK'
    BY <2>1, SameType, NextTypeParts DEF PluginInv
  <2> QED
    BY <2>1, <2>2 DEF PluginInv, ScriptInv, StdoutInv, EndInv, CallInv, Written, Doing, AnyAlive
<1> QED
  BY <1>1, <1>2, <1>3, <1>4 DEF PluginNext

(***************************************************************************)
(* The theorems.                                                           *)
(***************************************************************************)
\* Whatever the script does and whenever the call is stopped, what the script wrote to
\* stdout is kept, still in the pipe, or known to have been dropped (run, read_capped).
THEOREM PluginInvariant == PluginSpec => []PluginInv
<1>1. PluginInit => PluginInv
  BY InitHolds
<1>2. PluginInv /\ [PluginNext]_pluginVars => PluginInv'
  BY NextHolds
<1> QED
  BY <1>1, <1>2, PTL DEF PluginSpec

\* A call's state has its type: in particular no more of an answer is kept than the limit
\* (read_capped), and no pipe holds more than its size.
THEOREM PluginTypesHold == PluginSpec => []PluginTypeOK
<1>1. PluginInv => PluginTypeOK
  BY DEF PluginInv
<1> QED
  BY <1>1, PluginInvariant, PTL

\* A call that returns an answer returns everything the script wrote to stdout, from a
\* script that ended well and left nothing running: an answer that was cut at the limit,
\* or that a timeout or a failure interrupted, is an error (run, ask).
THEOREM AnswersAreWhole == PluginSpec => []AnswerIsWhole
<1>1. ASSUME PluginInv PROVE AnswerIsWhole
  <2> SUFFICES ASSUME call.result = "answer"
               PROVE  script.status = "ok" /\ ~AnyAlive /\ call.kept = script.answer
    BY DEF AnswerIsWhole
  <2>1. "out" \in call.ended /\ script.status = "ok" /\ ~call.over
    BY <1>1 DEF PluginInv, CallInv
  <2>2. pipe["out"] = 0 /\ ~AnyAlive
    BY <1>1, <2>1 DEF PluginInv, EndInv
  <2>3. Written = script.answer
    BY <1>1, <2>1, PluginAssumption DEF PluginInv, ScriptInv, Written, Doing, Doings
  <2>4. call.kept + 0 = script.answer /\ call.kept \in Nat
    BY <1>1, <2>1, <2>2, <2>3, Numbers DEF PluginInv, StdoutInv
  <2> QED
    BY <2>1, <2>2, <2>4
<1> QED
  BY <1>1, PluginInvariant, PTL

-----------------------------------------------------------------------------
(***************************************************************************)
(* A chain of retries forgets nothing that failed, and builds nothing on a *)
(* node that needs building, for any graph, any number of runs, retries    *)
(* and edits.                                                              *)
(***************************************************************************)
\* What the file's outcome has, if there is one.
FileHasOwed == last = Absent \/ last.outcome = Absent \/ owed \subseteq last.outcome

\* What a command at work has: it knows its command line; a retry wants all that is owed,
\* and the file names the same run; a run that could not be kept leaves the file alone.
CommandInv ==
    job.pc # "idle" =>
        /\ job.last \in LastRuns
        /\ job.retry => /\ last \in LastRuns /\ last.narrow = job.last.narrow
                        /\ last.outcome \in {Absent, job.wanted} /\ owed \subseteq job.wanted
        /\ ~job.retry /\ job.kept => last = job.last /\ last.outcome = Absent /\ owed = {}
        /\ ~job.retry /\ ~job.kept => FileHasOwed

\* What a command wants and may build is requested or held back.
RequestInv ==
    job.pc = "running" =>
        /\ job.requested \subseteq job.last.narrow
        /\ job.retry => /\ job.requested \subseteq job.wanted
                        /\ job.wanted \cap job.build \cap job.last.narrow
                             \subseteq job.requested \cup job.held

OwedInv == owed # {} => last \in LastRuns /\ owed \subseteq last.narrow

RetryInv == RetryTypeOK /\ OwedInv /\ CommandInv /\ RequestInv /\ NothingForgotten

\* The initial state satisfies the invariant.
LEMMA RetryInvInit == RetryInit => RetryInv
<1> SUFFICES ASSUME RetryInit PROVE RetryInv OBVIOUS
<1>1. reads \in [Nodes -> SUBSET Nodes] /\ runs \in 0..MaxRuns /\ edits \in 0..MaxEdits
  BY RetryAssumption DEF RetryInit
<1> QED
  BY <1>1 DEF RetryInit, NoJob, RetryInv, RetryTypeOK, OwedInv, CommandInv, RequestInv,
              NothingForgotten

\* Run: the file has the command line and no outcome, or is as it was.
LEMMA RunBeginKeeps ==
    ASSUME RetryInv, NEW select \in SUBSET Nodes, NEW narrow \in SUBSET Nodes,
           NEW refresh \in BOOLEAN, NEW kept \in BOOLEAN, Run(select, narrow, refresh, kept)
    PROVE  RetryInv'
<1>1. PICK line : line = [select |-> select, narrow |-> narrow, refresh |-> refresh,
                          outcome |-> Absent]
  OBVIOUS
<1>2. line \in LastRuns /\ line.outcome = Absent
  BY <1>1 DEF LastRuns
<1>3. /\ last' = IF kept THEN line ELSE last
      /\ job' = [NoJob EXCEPT !.pc = "started", !.last = line, !.kept = kept]
      /\ owed' = IF kept THEN {} ELSE owed
      /\ job.pc = "idle" /\ runs' = runs + 1 /\ runs < MaxRuns
      /\ UNCHANGED <<reads, due, edits>>
  BY <1>1 DEF Run
<1>4. job'.pc = "started" /\ job'.last = line /\ job'.kept = kept /\ ~job'.retry
  BY <1>3 DEF NoJob
<1>5. RetryTypeOK'
  <2>1. runs' \in 0..MaxRuns
    BY <1>3, RetryAssumption DEF RetryInv, RetryTypeOK
  <2>2. last' \in {Absent} \cup LastRuns /\ owed' \subseteq Nodes
    BY <1>2, <1>3 DEF RetryInv, RetryTypeOK
  <2> QED
    BY <1>2, <1>3, <2>1, <2>2 DEF RetryInv, RetryTypeOK, NoJob
<1>6. FileHasOwed
  BY <1>3 DEF RetryInv, NothingForgotten, FileHasOwed
<1>7. OwedInv'
  BY <1>3 DEF RetryInv, OwedInv
<1>8. CommandInv'
  BY <1>2, <1>3, <1>4, <1>6 DEF CommandInv, FileHasOwed
<1>9. RequestInv' /\ NothingForgotten'
  BY <1>4 DEF RequestInv, NothingForgotten
<1> QED BY <1>5, <1>7, <1>8, <1>9 DEF RetryInv

\* RetryFailed: it wants what the file says failed.
LEMMA RetryFailedKeeps ==
    ASSUME RetryInv, NEW kept \in BOOLEAN, RetryFailed(kept)
    PROVE  RetryInv'
<1>1. PICK line : line = [last EXCEPT !.outcome = Absent]
  OBVIOUS
<1>2. /\ last' = IF kept THEN line ELSE last
      /\ job' = [NoJob EXCEPT !.pc = "started", !.retry = TRUE, !.last = line, !.kept = kept,
                             !.wanted = last.outcome]
      /\ job.pc = "idle" /\ runs' = runs + 1 /\ runs < MaxRuns
      /\ last # Absent /\ last.outcome # Absent
      /\ UNCHANGED <<reads, due, edits, owed>>
  BY <1>1 DEF RetryFailed
<1>3. last \in LastRuns /\ last.outcome \in SUBSET Nodes
  BY <1>2 DEF RetryInv, RetryTypeOK, LastRuns
<1>4. line \in LastRuns /\ line.narrow = last.narrow /\ line.outcome = Absent
  BY <1>1, <1>3 DEF LastRuns
<1>5. /\ job'.pc = "started" /\ job'.retry /\ job'.last = line /\ job'.wanted = last.outcome
  BY <1>2 DEF NoJob
<1>6. RetryTypeOK'
  <2>1. runs' \in 0..MaxRuns
    BY <1>2, RetryAssumption DEF RetryInv, RetryTypeOK
  <2>2. last' \in {Absent} \cup LastRuns
    BY <1>2, <1>3, <1>4
  <2> QED
    BY <1>2, <1>3, <1>4, <2>1, <2>2 DEF RetryInv, RetryTypeOK, NoJob
<1>7. owed \subseteq last.outcome
  BY <1>2 DEF RetryInv, NothingForgotten
<1>8. last' \in LastRuns /\ last'.narrow = last.narrow /\ last'.outcome \in {Absent, last.outcome}
  BY <1>2, <1>3, <1>4
<1>9. OwedInv'
  BY <1>2, <1>8 DEF RetryInv, OwedInv
<1>10. CommandInv'
  BY <1>2, <1>4, <1>5, <1>7, <1>8 DEF CommandInv
<1>11. RequestInv' /\ NothingForgotten'
  BY <1>5 DEF RequestInv, NothingForgotten
<1> QED BY <1>6, <1>9, <1>10, <1>11 DEF RetryInv

\* Plan: what a retry does not keep of what it wants and may build, it holds back.
LEMMA PlanKeeps == ASSUME RetryInv, Plan PROVE RetryInv'
<1>0. PICK line : line = job.last
  OBVIOUS
<1>1. PICK all, build, can, kept :
        /\ all = Planned
        /\ build = IF line.refresh THEN line.select ELSE all \cap line.select
        /\ can = build \cap line.narrow
        /\ kept = Retried(line.select, job.wanted, can, build, all)
        /\ job' = [job EXCEPT !.pc = "running", !.build = build, !.all = all,
                              !.requested = IF job.retry THEN kept ELSE can,
                              !.held = IF job.retry THEN (job.wanted \cap can) \ kept ELSE {}]
  BY <1>0 DEF Plan
<1>2. job.pc = "started" /\ UNCHANGED <<reads, due, last, runs, edits, owed>>
  BY DEF Plan
<1>3. line \in LastRuns
  BY <1>0, <1>2 DEF RetryInv, CommandInv
<1>4. all \in SUBSET Nodes /\ build \in SUBSET Nodes /\ can \in SUBSET Nodes /\ kept \subseteq can
  <2>1. all \in SUBSET Nodes
    BY <1>1 DEF Planned
  <2>2. kept \subseteq can
    BY <1>1 DEF Retried
  <2> QED BY <1>1, <1>3, <2>1, <2>2 DEF LastRuns
<1>5. PICK requested, held :
        /\ requested = IF job.retry THEN kept ELSE can
        /\ held = IF job.retry THEN (job.wanted \cap can) \ kept ELSE {}
  OBVIOUS
<1>6. /\ requested \subseteq can /\ (job.retry => kept \subseteq job.wanted) /\ requested \in SUBSET Nodes /\ held \in SUBSET Nodes
      /\ job.retry => job.wanted \cap can \subseteq requested \cup held
  BY <1>1, <1>4, <1>5 DEF Retried
<1>7. job' = [job EXCEPT !.pc = "running", !.build = build, !.all = all,
                         !.requested = requested, !.held = held]
  BY <1>1, <1>5
<1>8. RetryTypeOK'
  BY <1>2, <1>4, <1>6, <1>7 DEF RetryInv, RetryTypeOK
<1>9. /\ job'.pc = "running" /\ job'.retry = job.retry /\ job'.wanted = job.wanted
      /\ job'.last = line /\ job'.kept = job.kept
      /\ job'.build = build /\ job'.requested = requested /\ job'.held = held
  BY <1>0, <1>7 DEF RetryInv, RetryTypeOK
<1>10. OwedInv' /\ CommandInv'
  BY <1>0, <1>2, <1>9 DEF RetryInv, OwedInv, CommandInv, FileHasOwed
<1>11. RequestInv'
  <2>1. requested \subseteq line.narrow /\ (job.retry => requested \subseteq job.wanted)
    BY <1>1, <1>5, <1>6
  <2>2. job.retry => job.wanted \cap build \cap line.narrow \subseteq requested \cup held
    BY <1>1, <1>6
  <2> QED BY <1>9, <2>1, <2>2 DEF RequestInv
<1> QED BY <1>8, <1>9, <1>10, <1>11 DEF RetryInv, NothingForgotten

\* Edit, NodeDone and Stop leave what is owed and what is kept alone.
LEMMA QuietKeeps ==
    ASSUME RetryInv,
           \/ \E n \in Nodes : Edit(n) \/ \E well \in BOOLEAN : NodeDone(n, well)
           \/ Stop
    PROVE  RetryInv'
<1> USE DEF RetryInv, RetryTypeOK, OwedInv, CommandInv, RequestInv, FileHasOwed, NothingForgotten
<1>1. ASSUME NEW n \in Nodes, Edit(n) PROVE RetryInv'
  <2>1. edits' \in 0..MaxEdits
    BY <1>1, RetryAssumption DEF Edit
  <2> QED BY <1>1, <2>1 DEF Edit
<1>2. ASSUME NEW n \in Nodes, NEW well \in BOOLEAN, NodeDone(n, well) PROVE RetryInv'
  <2>1. PICK ok \in SUBSET Nodes, failed \in SUBSET Nodes :
          job' = [job EXCEPT !.ok = ok, !.failed = failed]
    <3>1. CASE well
      <4>1. job' = [job EXCEPT !.ok = job.ok \cup {n}, !.failed = job.failed]
        BY <1>2, <3>1 DEF NodeDone
      <4> QED BY <4>1
    <3>2. CASE ~well
      <4>1. job' = [job EXCEPT !.ok = job.ok, !.failed = job.failed \cup {n}]
        BY <1>2, <3>2 DEF NodeDone
      <4> QED BY <4>1
    <3> QED BY <3>1, <3>2
  <2> QED BY <1>2, <2>1 DEF NodeDone
<1>3. CASE Stop
  <2>1. job.pc # "idle" /\ job' = NoJob /\ UNCHANGED <<reads, due, last, runs, edits, owed>>
    BY <1>3 DEF Stop
  <2> QED BY <2>1 DEF NoJob
<1> QED BY <1>1, <1>2, <1>3

\* Finish: what failed, was held back or was not recorded is the outcome; if it can't be
\* written, the file has no outcome, or the one a retry wanted, or names another run.
LEMMA FinishKeeps ==
    ASSUME RetryInv, NEW recorded \in BOOLEAN, NEW kept \in BOOLEAN, Finish(recorded, kept)
    PROVE  RetryInv'
<1>1. PICK built, before : /\ built = IF recorded THEN job.ok ELSE {}
                           /\ before = IF job.retry THEN owed ELSE {}
  OBVIOUS
<1>2. /\ job.pc = "running" /\ Waiting = {} /\ job' = NoJob
      /\ last' = IF kept THEN [job.last EXCEPT !.outcome = Outcome(recorded)] ELSE last
      /\ due' = (due \ built) \cup {n \in Nodes \ built : reads[n] \cap built # {}}
      /\ owed' = IF Named(kept)
                 THEN {n \in before \cup job.requested : n \notin built /\ n \in job.build}
                 ELSE owed \ built
      /\ UNCHANGED <<reads, runs, edits>>
  BY <1>1 DEF Finish
<1>3. /\ job.last \in LastRuns /\ Outcome(recorded) \in SUBSET Nodes
      /\ job.last.narrow \in SUBSET Nodes /\ job.requested \in SUBSET Nodes
  BY <1>2 DEF RetryInv, RetryTypeOK, CommandInv, Outcome, LastRuns
<1>4. job.retry => /\ last \in LastRuns /\ last.narrow = job.last.narrow
                   /\ last.outcome \in {Absent, job.wanted} /\ owed \subseteq job.wanted
                   /\ owed \subseteq job.last.narrow
  BY <1>2 DEF RetryInv, CommandInv, OwedInv
<1>5. /\ job.requested \subseteq job.last.narrow
      /\ job.retry => /\ job.requested \subseteq job.wanted
                      /\ job.wanted \cap job.build \cap job.last.narrow
                           \subseteq job.requested \cup job.held
  BY <1>2 DEF RetryInv, RequestInv
<1>6. before \cup job.requested \subseteq job.last.narrow
  BY <1>1, <1>4, <1>5
<1>7. RetryTypeOK'
  <2>1. due' \subseteq Nodes
    BY <1>2 DEF RetryInv, RetryTypeOK
  <2>2. owed' \subseteq Nodes
    BY <1>2, <1>3, <1>6 DEF RetryInv, RetryTypeOK
  <2>3. last' \in {Absent} \cup LastRuns
    BY <1>2, <1>3 DEF RetryInv, RetryTypeOK, LastRuns
  <2> QED BY <1>2, <2>1, <2>2, <2>3 DEF RetryInv, RetryTypeOK, NoJob
<1>8. CommandInv' /\ RequestInv'
  BY <1>2 DEF CommandInv, RequestInv, NoJob
<1>9. CASE kept
  <2>1. /\ last' \in LastRuns /\ last'.narrow = job.last.narrow
        /\ last'.outcome = Outcome(recorded)
    BY <1>2, <1>3, <1>9 DEF LastRuns
  <2>2. owed' = {n \in before \cup job.requested : n \notin built /\ n \in job.build}
    BY <1>2, <1>9 DEF Named
  <2>3. ASSUME NEW n \in owed' PROVE n \in Outcome(recorded)
    <3>1. n \in before \cup job.requested /\ n \notin built /\ n \in job.build
      BY <2>2
    <3>2. CASE n \in job.requested
      BY <1>1, <1>2, <3>1, <3>2 DEF Waiting, Outcome
    <3>3. CASE n \notin job.requested
      <4>1. job.retry /\ n \in job.wanted \cap job.build \cap job.last.narrow
        BY <1>1, <1>4, <3>1, <3>3
      <4>2. n \in job.held
        BY <1>5, <3>3, <4>1
      <4> QED BY <4>2 DEF Outcome
    <3> QED BY <3>2, <3>3
  <2>4. OwedInv'
    BY <1>6, <2>1, <2>2 DEF OwedInv
  <2>5. NothingForgotten'
    BY <2>1, <2>3 DEF NothingForgotten
  <2> QED BY <1>7, <1>8, <2>4, <2>5 DEF RetryInv
<1>10. CASE ~kept /\ job.retry
  <2>1. last' = last /\ owed' \subseteq owed \cup job.requested
    BY <1>1, <1>2, <1>10 DEF Named
  <2>2. owed' \subseteq job.wanted /\ owed' \subseteq job.last.narrow
    BY <1>4, <1>5, <1>10, <2>1
  <2>3. OwedInv' /\ NothingForgotten'
    BY <1>4, <1>10, <2>1, <2>2 DEF OwedInv, NothingForgotten
  <2> QED BY <1>7, <1>8, <2>3 DEF RetryInv
<1>11. CASE ~kept /\ ~job.retry /\ job.kept
  <2>1. last' = last /\ last = job.last /\ last.outcome = Absent /\ owed' \subseteq job.requested
    BY <1>1, <1>2, <1>11 DEF Named, RetryInv, CommandInv
  <2>2. OwedInv' /\ NothingForgotten'
    BY <1>3, <1>5, <2>1 DEF OwedInv, NothingForgotten
  <2> QED BY <1>7, <1>8, <2>2 DEF RetryInv
<1>12. CASE ~kept /\ ~job.retry /\ ~job.kept
  <2>1. last' = last /\ owed' \subseteq owed /\ FileHasOwed
    BY <1>2, <1>12 DEF Named, RetryInv, CommandInv
  <2>2. OwedInv' /\ NothingForgotten'
    BY <2>1 DEF RetryInv, OwedInv, NothingForgotten, FileHasOwed
  <2> QED BY <1>7, <1>8, <2>2 DEF RetryInv
<1> QED BY <1>9, <1>10, <1>11, <1>12

\* Every step keeps the invariant.
LEMMA RetryInvStep == RetryInv /\ [RetryNext]_retryVars => RetryInv'
<1> SUFFICES ASSUME RetryInv, [RetryNext]_retryVars PROVE RetryInv' OBVIOUS
<1>1. CASE UNCHANGED retryVars
  BY <1>1 DEF retryVars, RetryInv, RetryTypeOK, OwedInv, CommandInv, RequestInv, FileHasOwed,
              NothingForgotten
<1>2. CASE RetryNext
  BY <1>2, RunBeginKeeps, RetryFailedKeeps, PlanKeeps, QuietKeeps, FinishKeeps DEF RetryNext
<1> QED BY <1>1, <1>2

(***************************************************************************)
(* For any graph and any chain of runs and retries, killed or not, and     *)
(* able to write the file or not: a node that failed in the run the file   *)
(* names, or since in a retry of it, and still needs building, is in what  *)
(* the next --failed retries, if the file has an outcome (LastOutcome::of, *)
(* RetryReport::narrow, Remembered::keep).                                 *)
(***************************************************************************)
THEOREM NothingIsForgotten == RetrySpec => []NothingForgotten
<1>1. RetryInv => NothingForgotten
  BY DEF RetryInv
<1> QED BY <1>1, RetryInvInit, RetryInvStep, PTL DEF RetrySpec

(***************************************************************************)
(* What a retry keeps (split_retry): with a node, all that it reads and    *)
(* that needs building.  The function is defined node by node in plan      *)
(* order; that there is one is shown for the first k nodes, by induction.  *)
(***************************************************************************)
LEMMA RetriedFollows ==
    ASSUME reads \in [Nodes -> SUBSET Nodes], \A n \in Nodes : reads[n] \subseteq 1..(n - 1),
           NEW select, NEW wanted, NEW can, NEW build, NEW all,
           NEW n \in Nodes, n \in Retried(select, wanted, can, build, all),
           NEW p \in reads[n], NeedsBuilding(select, build, all, p)
    PROVE  p \in Retried(select, wanted, can, build, all)
<1> DEFINE IsKept(f, m) == /\ m \in wanted \cap can
                           /\ \A q \in reads[m] : NeedsBuilding(select, build, all, q) => f[q]
           Good(k) == \E f \in [1..k -> BOOLEAN] : \A m \in (1..k) \cap Nodes : f[m] = IsKept(f, m)
           S == {k \in Nat : Good(k)}
           built == CHOOSE f : f = [m \in Nodes |-> IsKept(f, m)]
<1>1. 0 \in S
  <2>1. [m \in 1..0 |-> TRUE] \in [1..0 -> BOOLEAN] /\ (1..0) \cap Nodes = {}
    OBVIOUS
  <2> QED
    BY <2>1
<1>2. ASSUME NEW k \in Nat, k \in S PROVE k + 1 \in S
  <2>1. PICK f \in [1..k -> BOOLEAN] : \A m \in (1..k) \cap Nodes : f[m] = IsKept(f, m)
    BY <1>2
  <2>2. PICK b \in BOOLEAN : b = IsKept(f, k + 1)
    <3>1. IsKept(f, k + 1) \in BOOLEAN
      BY Zenon
    <3> QED
      BY <3>1, Zenon
  <2>3. PICK g : g = [m \in 1..(k + 1) |-> IF m = k + 1 THEN b ELSE f[m]]
    OBVIOUS
  <2>4. /\ g \in [1..(k + 1) -> BOOLEAN] /\ g[k + 1] = b
        /\ \A m \in 1..k : g[m] = f[m]
    BY <2>3
  <2>5. ASSUME NEW m \in (1..(k + 1)) \cap Nodes PROVE g[m] = IsKept(g, m)
    <3>1. m \in Nodes /\ m \in Nat /\ m <= k + 1
      BY RetryAssumption DEF Nodes
    <3>2. \A q \in reads[m] : q \in 1..(m - 1)
      BY <3>1
    <3>3. \A q \in reads[m] : g[q] = f[q]
      <4>1. \A q \in 1..(m - 1) : q \in 1..k
        BY <3>1
      <4> QED BY <2>4, <3>2, <4>1, Zenon
    <3>4. IsKept(g, m) = IsKept(f, m)
      <4>1. IsKept(g, m) <=> IsKept(f, m)
        BY <3>3, Zenon
      <4>2. IsKept(g, m) \in BOOLEAN /\ IsKept(f, m) \in BOOLEAN
        BY Zenon
      <4> QED BY <4>1, <4>2, Zenon
    <3>5. g[m] = IsKept(f, m)
      <4>1. CASE m = k + 1
        BY <2>4, <2>2, <4>1, Zenon
      <4>2. CASE m # k + 1
        <5>1. m \in 1..k
          BY <3>1, <4>2
        <5>2. g[m] = f[m] /\ f[m] = IsKept(f, m)
          BY <5>1, <3>1, <2>1, <2>4, Zenon
        <5> QED BY <5>2, Zenon
      <4> QED BY <4>1, <4>2
    <3> QED
      BY <3>4, <3>5, Zenon
  <2>6. Good(k + 1)
    BY <2>4, <2>5, Zenon
  <2>7. k + 1 \in Nat
    OBVIOUS
  <2> QED
    BY <2>6, <2>7, Zenon
<1>3. Good(N)
  <2>1. N \in S
    <3> HIDE DEF S
    <3> QED BY <1>1, <1>2, SetInduction, RetryAssumption
  <2> QED
    BY <2>1
<1>4. \E f : f = [m \in Nodes |-> IsKept(f, m)]
  <2>1. PICK f \in [1..N -> BOOLEAN] : \A m \in (1..N) \cap Nodes : f[m] = IsKept(f, m)
    BY <1>3
  <2>2. f = [m \in Nodes |-> IsKept(f, m)]
    BY <2>1 DEF Nodes
  <2> QED
    BY <2>2
<1>5. built = [m \in Nodes |-> IsKept(built, m)]
  BY <1>4
<1>6. Retried(select, wanted, can, build, all) = {m \in wanted \cap can : built[m]}
  BY DEF Retried
<1>7. built[n] /\ built[n] = IsKept(built, n)
  <2> HIDE DEF built
  <2> QED
    BY <1>5, <1>6
<1>8. built[p] /\ p \in Nodes
  <2> HIDE DEF built
  <2> QED
    BY <1>7
<1>9. built[p] = IsKept(built, p)
  <2> HIDE DEF built
  <2> QED
    BY <1>5, <1>8
<1> QED
  <2> HIDE DEF built
  <2> QED
    BY <1>6, <1>8, <1>9

\* A node reads nodes before it; a retry only builds what it requested, after the nodes it
\* reads, and requests a node only with those of them that need building.
BuildInv ==
    /\ \A n \in Nodes : reads[n] \subseteq 1..(n - 1)
    /\ job.pc # "running" => job.ok = {}
    /\ job.ok \subseteq job.requested
    /\ job.pc = "running" /\ job.retry =>
         \A n \in job.requested : reads[n] \cap job.all \subseteq job.requested

StaleInv == BuildInv /\ RetryReadsNothingStale

LEMMA StaleInvInit == RetryInit => StaleInv
BY DEF RetryInit, NoJob, StaleInv, BuildInv, RetryReadsNothingStale

\* Steps that leave nothing built, or change nothing that it is about.
LEMMA OtherStepsKeep ==
    ASSUME RetryInv, StaleInv,
           \/ \E select, narrow \in SUBSET Nodes, refresh, kept \in BOOLEAN :
                Run(select, narrow, refresh, kept)
           \/ \E n \in Nodes : Edit(n)
           \/ \E recorded, kept \in BOOLEAN : Finish(recorded, kept)
           \/ \E kept \in BOOLEAN : RetryFailed(kept)
           \/ Stop \/ UNCHANGED retryVars
    PROVE  StaleInv'
<1>1. reads' = reads
  BY DEF Run, Edit, Finish, RetryFailed, Stop, retryVars
<1>2. CASE job' = job
  BY <1>1, <1>2 DEF StaleInv, BuildInv, RetryReadsNothingStale
<1>3. CASE job'.pc # "running" /\ job'.ok = {}
  BY <1>1, <1>3 DEF StaleInv, BuildInv, RetryReadsNothingStale
<1>4. job' = job \/ (job'.pc # "running" /\ job'.ok = {})
  <2>1. \/ job' = job \/ job' = NoJob
        \/ \E line, kept : job' = [NoJob EXCEPT !.pc = "started", !.last = line, !.kept = kept]
        \/ \E line, kept : job' = [NoJob EXCEPT !.pc = "started", !.retry = TRUE, !.last = line,
                                                !.kept = kept, !.wanted = last.outcome]
    BY DEF Run, Edit, Finish, RetryFailed, Stop, retryVars
  <2>2. CASE job' = NoJob
    BY <2>2 DEF NoJob
  <2>3. CASE \E line, kept : job' = [NoJob EXCEPT !.pc = "started", !.last = line, !.kept = kept]
    BY <2>3 DEF NoJob
  <2>4. CASE \E line, kept : job' = [NoJob EXCEPT !.pc = "started", !.retry = TRUE, !.last = line,
                                                  !.kept = kept, !.wanted = last.outcome]
    BY <2>4 DEF NoJob
  <2> QED
    BY <2>1, <2>2, <2>3, <2>4
<1> QED
  BY <1>2, <1>3, <1>4

\* Plan: a retry requests what Retried keeps.
LEMMA PlanKeepsOrder == ASSUME RetryInv, StaleInv, Plan PROVE StaleInv'
<1>0. PICK line : line = job.last
  OBVIOUS
<1>1. PICK all, build, can, kept :
        /\ all = Planned
        /\ build = IF line.refresh THEN line.select ELSE all \cap line.select
        /\ can = build \cap line.narrow
        /\ kept = Retried(line.select, job.wanted, can, build, all)
        /\ job' = [job EXCEPT !.pc = "running", !.build = build, !.all = all,
                              !.requested = IF job.retry THEN kept ELSE can,
                              !.held = IF job.retry THEN (job.wanted \cap can) \ kept ELSE {}]
  BY <1>0 DEF Plan
<1>2. job.pc = "started" /\ reads' = reads /\ job.ok = {}
  BY DEF Plan, StaleInv, BuildInv
<1>3. /\ job'.pc = "running" /\ job'.retry = job.retry /\ job'.all = all /\ job'.ok = {}
      /\ job.retry => job'.requested = kept
  BY <1>1, <1>2 DEF RetryInv, RetryTypeOK
<1>4. ASSUME job.retry, NEW n \in kept, NEW p \in reads[n], p \in all
      PROVE  p \in kept
  <2>1. line \in LastRuns /\ can \subseteq Nodes
    BY <1>0, <1>1, <1>2 DEF RetryInv, CommandInv, LastRuns
  <2>2. n \in Nodes
    BY <1>1, <2>1 DEF Retried
  <2>3. NeedsBuilding(line.select, build, all, p)
    BY <1>1, <1>4 DEF NeedsBuilding
  <2>4. reads \in [Nodes -> SUBSET Nodes] /\ \A m \in Nodes : reads[m] \subseteq 1..(m - 1)
    BY DEF RetryInv, RetryTypeOK, StaleInv, BuildInv
  <2> QED
    BY <1>1, <2>2, <2>3, <2>4, RetriedFollows
<1> QED
  BY <1>2, <1>3, <1>4 DEF StaleInv, BuildInv, RetryReadsNothingStale

\* NodeDone: in plan order, so that what the node reads and was requested is done.
LEMMA NodeDoneKeepsOrder ==
    ASSUME RetryInv, StaleInv, NEW n \in Nodes, NEW well \in BOOLEAN, NodeDone(n, well)
    PROVE  StaleInv'
<1>1. /\ job.pc = "running" /\ n \in job.requested
      /\ \A p \in Waiting : n <= p
      /\ well => reads[n] \cap job.failed = {}
      /\ reads' = reads
  BY DEF NodeDone, Waiting
<1>2. /\ job'.pc = job.pc /\ job'.retry = job.retry /\ job'.all = job.all
      /\ job'.requested = job.requested
      /\ job'.ok = IF well THEN job.ok \cup {n} ELSE job.ok
  BY DEF NodeDone, RetryInv, RetryTypeOK
<1>3. ASSUME well, job.retry, NEW p \in reads[n], p \in job.all
      PROVE  p \in job.ok
  <2>1. p \in job.requested
    BY <1>1, <1>3 DEF StaleInv, BuildInv
  <2>2. n \in Nat /\ p \in 1..(n - 1)
    BY <1>3, RetryAssumption DEF StaleInv, BuildInv, Nodes
  <2>3. ~(n <= p)
    BY <2>2
  <2>4. p \in job.ok \cup job.failed
    BY <1>1, <2>1, <2>3 DEF Waiting
  <2> QED
    BY <1>1, <1>3, <2>4
<1>4. RetryReadsNothingStale'
  BY <1>1, <1>2, <1>3 DEF StaleInv, RetryReadsNothingStale
<1>5. BuildInv'
  BY <1>1, <1>2 DEF StaleInv, BuildInv
<1> QED
  BY <1>4, <1>5 DEF StaleInv

\* Every step of a chain of runs and retries keeps the order.
LEMMA StaleInvStep == RetryInv /\ StaleInv /\ [RetryNext]_retryVars => StaleInv'
<1> SUFFICES ASSUME RetryInv, StaleInv, [RetryNext]_retryVars PROVE StaleInv'
  OBVIOUS
<1> QED
  BY OtherStepsKeep, PlanKeepsOrder, NodeDoneKeepsOrder DEF RetryNext

(***************************************************************************)
(* For any graph and any chain of runs and retries, edits and kills        *)
(* between them: what a retry builds reads no node that needs building,    *)
(* selected by the command or not, unless the retry built it first         *)
(* (split_retry).                                                          *)
(***************************************************************************)
THEOREM RetriesReadNothingStale == RetrySpec => []RetryReadsNothingStale
<1>1. StaleInv => RetryReadsNothingStale
  BY DEF StaleInv
<1> QED
  BY <1>1, RetryInvInit, RetryInvStep, StaleInvInit, StaleInvStep, PTL DEF RetrySpec

\* The state of a chain of runs and retries has its type.
THEOREM RetryTypesHold == RetrySpec => []RetryTypeOK
<1>1. RetryInv => RetryTypeOK
  BY DEF RetryInv
<1> QED
  BY <1>1, RetryInvInit, RetryInvStep, PTL DEF RetrySpec

-----------------------------------------------------------------------------
(***************************************************************************)
(* The run journal and the page that follows it, for a journal of any      *)
(* length and chunks and polls of any size.  The reader is always at the   *)
(* end of a line, or inside one too long for a chunk, and has counted the  *)
(* lines before it; the page has the first lines, numbered without a gap;  *)
(* what was read and not sent goes on from there.  A line the file ends    *)
(* inside can be read only when the run is over, since no cell follows it  *)
(* then: this is what makes a line's number and kind final once a message  *)
(* carries them.                                                           *)
(***************************************************************************)
\* The reader's state, whatever the page and the file are.
TailStates == [opened : BOOLEAN, off : Nat, line : Nat, since : Nat, overlong : BOOLEAN,
               finished : BOOLEAN, done : BOOLEAN, more : BOOLEAN]
Connected == {"stream", "asked"}

FlagTypes ==
    /\ there \in BOOLEAN /\ quiet \in BOOLEAN /\ listed \in BOOLEAN
    /\ run \in {"new", "going", "ended"} /\ lost \in 0..MaxLost

\* The file: the run's last words end it, and a line that is cut short and quiet stays so.
FileInv ==
    /\ cells \in Seq(Cells) /\ Len(cells) <= MaxCells
    /\ FlagTypes
    /\ run = "new" => cells = <<>>
    /\ \A i \in 1..Len(cells) : cells[i] = "finished" => i = Len(cells) /\ run = "ended"
    /\ quiet /\ MidLine(cells) => run = "ended"

\* The reader is at the end of a line, or inside one it skips.
TailInv ==
    /\ tail \in TailStates
    /\ tail.off <= Len(cells) /\ tail.line = LinesIn(cells, tail.off)
    /\ IF tail.overlong THEN Inside(cells, tail.off, Chunk)
       ELSE tail.off > 0 => IsEnd(cells[tail.off])
    /\ tail.finished => /\ run = "ended" /\ tail.off = Len(cells) /\ tail.off > 0
                        /\ cells[Len(cells)] = "finished"
    /\ tail.since <= Len(page.got)
    /\ tail.more => ~tail.done

\* A message numbered n can be there: the journal has the line, or ends inside it for good.
Readable(n) == n <= Lines(cells) \/ (n = Lines(cells) + 1 /\ MidLine(cells) /\ run = "ended")

Messages == [id : Nat, kind : Kinds \cup Ends]
PageStates == {"connect", "stream", "reconnect", "poll", "asked", "done"}

\* A page has the first lines of the journal, as the journal has them.
PageRecords == [doing : PageStates, got : Seq(Messages), last : Nat,
                ended : Ends \cup {GoesOn, "missing"}, waiting : BOOLEAN]
HasLines(p) ==
    /\ p \in PageRecords
    /\ p.last = Len(p.got)
    /\ \A i \in 1..Len(p.got) : Readable(i) /\ p.got[i] = Message(i, LineKind(cells, i))

\* One that was told that the run finished has them all.
PageInv ==
    /\ HasLines(page)
    /\ page.doing = "connect" => page.got = <<>>
    /\ page.waiting => /\ page.doing \in {"poll", "asked"}
                       /\ page.got # <<>> => page.doing = "poll" /\ ~there
    /\ page.ended = "end finished" =>
        page.doing = "done" /\ run = "ended" /\ Len(page.got) = Lines(cells)

\* What is read and not sent goes on where the page is, up to where the reader is.
NextLine == IF tail.line > tail.since THEN tail.line ELSE tail.since
OutInv ==
    /\ out \in Seq(Messages)
    /\ out # <<>> => page.doing \in Connected
    /\ page.doing \in Connected /\ ~tail.done => Len(page.got) + Len(out) = NextLine
    /\ \A k \in 1..Len(out) :
        IF out[k].kind \in Ends
        THEN /\ k = Len(out) /\ tail.done
             /\ out[k].kind = "end finished" =>
                    run = "ended" /\ Len(page.got) + k = Lines(cells) + 1
        ELSE LET n == Len(page.got) + k
             IN  Readable(n) /\ out[k] = Message(n, LineKind(cells, n))

JournalInv == FileInv /\ TailInv /\ PageInv /\ OutInv

-----------------------------------------------------------------------------
\* How many lines end in the first cells.
LEMMA CountType ==
    ASSUME NEW c, NEW i \in Nat
    PROVE  IsFiniteSet({j \in 1..i : IsEnd(c[j])}) /\ LinesIn(c, i) \in Nat
<1>1. IsFiniteSet(1..i)
  BY FS_Interval
<1>2. {j \in 1..i : IsEnd(c[j])} \in SUBSET (1..i)
  OBVIOUS
<1>3. IsFiniteSet({j \in 1..i : IsEnd(c[j])})
  BY <1>1, <1>2, FS_Subset
<1> QED
  BY <1>3, FS_CardinalityType DEF LinesIn

\* A number of lines is a natural number.
LEMMA CountNat == ASSUME NEW c, NEW i \in Nat PROVE LinesIn(c, i) \in Nat
  BY CountType

\* Nothing is no line.
LEMMA CountZero == ASSUME NEW c PROVE LinesIn(c, 0) = 0
<1>1. {j \in 1..0 : IsEnd(c[j])} = {}
  OBVIOUS
<1> QED
  BY <1>1, FS_EmptySet DEF LinesIn

\* One cell more is one line more when the cell ends a line.
LEMMA CountNext ==
    ASSUME NEW c, NEW i \in Nat
    PROVE  LinesIn(c, i + 1) = IF IsEnd(c[i + 1]) THEN LinesIn(c, i) + 1 ELSE LinesIn(c, i)
<1> DEFINE Here(k) == {j \in 1..k : IsEnd(c[j])}
<1>1. IsFiniteSet(Here(i)) /\ i + 1 \notin Here(i)
  BY CountType
<1>2. CASE IsEnd(c[i + 1])
  <2>1. Here(i + 1) = Here(i) \cup {i + 1}
    BY <1>2
  <2>2. Cardinality(Here(i) \cup {i + 1}) = Cardinality(Here(i)) + 1
    BY <1>1, FS_AddElement
  <2> QED
    BY <1>2, <2>1, <2>2 DEF LinesIn
<1>3. CASE ~IsEnd(c[i + 1])
  <2>1. Here(i + 1) = Here(i)
    BY <1>3
  <2> QED
    BY <1>3, <2>1 DEF LinesIn
<1> QED
  BY <1>2, <1>3

\* No line ends between i and k.
LEMMA CountSame ==
    ASSUME NEW c, NEW i \in Nat, NEW k \in Nat, i <= k, \A j \in (i + 1)..k : ~IsEnd(c[j])
    PROVE  LinesIn(c, k) = LinesIn(c, i)
<1>1. {j \in 1..i : IsEnd(c[j])} = {j \in 1..k : IsEnd(c[j])}
  OBVIOUS
<1> QED
  BY <1>1 DEF LinesIn

\* What is longer has no fewer lines.
LEMMA CountGrows ==
    ASSUME NEW c, NEW i \in Nat, NEW k \in Nat, i <= k
    PROVE  LinesIn(c, i) <= LinesIn(c, k)
<1>1. {j \in 1..i : IsEnd(c[j])} \in SUBSET {j \in 1..k : IsEnd(c[j])}
  OBVIOUS
<1> QED
  BY <1>1, CountType, FS_Subset DEF LinesIn

\* A line that ends after i is one more.
LEMMA CountMore ==
    ASSUME NEW c, NEW i \in Nat, NEW k \in Nat, i < k, IsEnd(c[k])
    PROVE  LinesIn(c, i) < LinesIn(c, k)
<1>1. k - 1 \in Nat /\ i <= k - 1 /\ (k - 1) + 1 = k
  OBVIOUS
<1>2. LinesIn(c, k) = LinesIn(c, k - 1) + 1
  BY <1>1, CountNext
<1>3. LinesIn(c, i) <= LinesIn(c, k - 1)
  BY <1>1, CountGrows
<1>4. LinesIn(c, i) \in Nat /\ LinesIn(c, k - 1) \in Nat
  BY <1>1, CountNat
<1> QED
  BY <1>2, <1>3, <1>4

\* Nothing of the file changes when something is appended to it.
LEMMA CountAppend ==
    ASSUME NEW c \in Seq(Cells), NEW x \in Cells
    PROVE  /\ Append(c, x) \in Seq(Cells) /\ Len(Append(c, x)) = Len(c) + 1
           /\ \A i \in 1..Len(c) : Append(c, x)[i] = c[i]
           /\ Append(c, x)[Len(c) + 1] = x
           /\ \A i \in 0..Len(c) : LinesIn(Append(c, x), i) = LinesIn(c, i)
           /\ Lines(Append(c, x)) = IF IsEnd(x) THEN Lines(c) + 1 ELSE Lines(c)
<1> DEFINE d == Append(c, x)
<1>1. /\ d \in Seq(Cells) /\ Len(d) = Len(c) + 1 /\ Len(c) \in Nat
      /\ \A i \in 1..Len(c) : d[i] = c[i]
      /\ d[Len(c) + 1] = x
  OBVIOUS
<1> HIDE DEF d
<1>2. ASSUME NEW i \in 0..Len(c) PROVE LinesIn(d, i) = LinesIn(c, i)
  <2>1. {j \in 1..i : IsEnd(d[j])} = {j \in 1..i : IsEnd(c[j])}
    BY <1>1
  <2> QED
    BY <2>1 DEF LinesIn
<1>3. LinesIn(d, Len(c) + 1) = IF IsEnd(x) THEN LinesIn(c, Len(c)) + 1 ELSE LinesIn(c, Len(c))
  <2>1. LinesIn(d, Len(c) + 1) =
            IF IsEnd(d[Len(c) + 1]) THEN LinesIn(d, Len(c)) + 1 ELSE LinesIn(d, Len(c))
    BY <1>1, CountNext
  <2>2. LinesIn(d, Len(c)) = LinesIn(c, Len(c))
    BY <1>1, <1>2
  <2> QED
    BY <1>1, <2>1, <2>2
<1> QED
  BY <1>1, <1>2, <1>3 DEF Lines, d

\* The line that ends at i.
LEMMA EndOfLine ==
    ASSUME NEW c \in Seq(Cells), NEW i \in 1..Len(c), IsEnd(c[i])
    PROVE  /\ LineEnd(c, LinesIn(c, i)) = i
           /\ LinesIn(c, i) \in 1..Lines(c)
           /\ LineKind(c, LinesIn(c, i)) = KindAt(c, i)
<1>1. Len(c) \in Nat /\ i \in Nat /\ i <= Len(c) /\ DOMAIN c = 1..Len(c)
  OBVIOUS
<1>2. ASSUME NEW k \in DOMAIN c, IsEnd(c[k]), LinesIn(c, k) = LinesIn(c, i) PROVE k = i
  <2>1. k \in Nat
    BY <1>1, <1>2
  <2>2. LinesIn(c, i) \in Nat
    BY <1>1, CountNat
  <2>3. ~(k < i)
    <3>1. k < i => LinesIn(c, k) < LinesIn(c, i)
      BY <1>1, <2>1, CountMore
    <3> QED
      BY <3>1, <1>2, <2>2
  <2>4. ~(i < k)
    <3>1. i < k => LinesIn(c, i) < LinesIn(c, k)
      BY <1>1, <1>2, <2>1, CountMore
    <3> QED
      BY <3>1, <1>2, <2>2
  <2> QED
    BY <1>1, <2>1, <2>3, <2>4
<1>3. LineEnd(c, LinesIn(c, i)) = i
  BY <1>1, <1>2 DEF LineEnd
<1>4. LinesIn(c, i) <= LinesIn(c, Len(c)) /\ LinesIn(c, i) \in Nat /\ LinesIn(c, Len(c)) \in Nat
  BY <1>1, CountGrows, CountNat
<1>5. LinesIn(c, 0) = 0 /\ LinesIn(c, 0) < LinesIn(c, i)
  BY <1>1, CountZero, CountMore
<1>6. LinesIn(c, i) \in 1..Lines(c)
  BY <1>4, <1>5 DEF Lines
<1>7. ~(LinesIn(c, i) > Lines(c))
  BY <1>4 DEF Lines
<1> QED
  BY <1>3, <1>6, <1>7 DEF LineKind

\* Every line ends somewhere.
LEMMA LineExists ==
    ASSUME NEW c \in Seq(Cells), NEW n \in 1..Lines(c)
    PROVE  \E i \in 1..Len(c) : IsEnd(c[i]) /\ LinesIn(c, i) = n
<1> DEFINE T == {i \in 0..Len(c) : LinesIn(c, i) >= n}
<1>1. Len(c) \in Nat /\ Lines(c) \in Nat /\ n \in Nat /\ n >= 1 /\ n <= Lines(c)
  <2>1. Len(c) \in Nat /\ LinesIn(c, Len(c)) \in Nat
    BY CountNat
  <2> QED
    BY <2>1 DEF Lines
<1>2. T \subseteq Nat /\ Len(c) \in T
  BY <1>1 DEF Lines
<1>3. PICK i \in T : \A y \in T : i <= y
  BY <1>2, LeastNumber
<1>4. i \in 0..Len(c) /\ LinesIn(c, i) >= n /\ LinesIn(c, i) \in Nat
  <2>1. i \in 0..Len(c) /\ LinesIn(c, i) >= n /\ i \in Nat
    BY <1>1, <1>3
  <2> QED
    BY <2>1, CountNat
<1>5. i # 0
  BY <1>1, <1>4, CountZero
<1>6. i - 1 \in 0..Len(c) /\ i - 1 \in Nat /\ (i - 1) + 1 = i /\ i - 1 \notin T
  BY <1>3, <1>4, <1>5
<1>7. ~(LinesIn(c, i - 1) >= n) /\ LinesIn(c, i - 1) \in Nat
  BY <1>6, CountNat
<1>8. LinesIn(c, i) = IF IsEnd(c[i]) THEN LinesIn(c, i - 1) + 1 ELSE LinesIn(c, i - 1)
  BY <1>6, CountNext
<1> QED
  BY <1>1, <1>4, <1>5, <1>6, <1>7, <1>8

\* A line stays what it is when the file grows.
LEMMA LineStays ==
    ASSUME NEW c \in Seq(Cells), NEW x \in Cells, NEW n \in 1..Lines(c)
    PROVE  LineKind(Append(c, x), n) = LineKind(c, n)
<1>1. PICK i \in 1..Len(c) : IsEnd(c[i]) /\ LinesIn(c, i) = n
  BY LineExists
<1> DEFINE d == Append(c, x)
<1>2. /\ d \in Seq(Cells) /\ Len(d) = Len(c) + 1 /\ Len(c) \in Nat
      /\ \A k \in 1..Len(c) : d[k] = c[k]
      /\ LinesIn(d, i) = LinesIn(c, i)
  BY CountAppend
<1> HIDE DEF d
<1>3. i \in 1..Len(d) /\ IsEnd(d[i])
  BY <1>1, <1>2
<1>4. LineKind(d, n) = KindAt(d, i) /\ LineKind(c, n) = KindAt(c, i)
  BY <1>1, <1>2, <1>3, EndOfLine
<1>5. Inside(d, i - 1, Chunk) <=> Inside(c, i - 1, Chunk)
  BY <1>2, JournalAssumption DEF Inside
<1> QED
  BY <1>1, <1>2, <1>4, <1>5 DEF KindAt, d

-----------------------------------------------------------------------------
\* The chunk that is read, and the complete lines in it.
LEMMA ChunkIs ==
    ASSUME cells \in Seq(Cells), tail.off \in Nat, tail.off <= Len(cells)
    PROVE  /\ Want \in 0..Chunk /\ tail.off + Want <= Len(cells)
           /\ tail.off + Chunk >= Len(cells) => tail.off + Want = Len(cells)
           /\ Complete \in 0..Want /\ (Complete > 0 => IsEnd(cells[tail.off + Complete]))
           /\ \A j \in (Complete + 1)..Want : ~IsEnd(cells[tail.off + j])
<1>1. /\ Want \in 0..Chunk /\ Want \in Nat /\ tail.off + Want <= Len(cells)
      /\ tail.off + Chunk >= Len(cells) => tail.off + Want = Len(cells)
  BY JournalAssumption DEF Want
<1> DEFINE Rest(k) == \A j \in (k + 1)..Want : ~IsEnd(cells[tail.off + j])
           T == {k \in 0..Want : Rest(k)}
<1>2. T \subseteq Nat /\ Want \in T
  BY <1>1
<1>3. PICK k \in T : \A y \in T : k <= y
  BY <1>2, LeastNumber
<1>4. k > 0 => IsEnd(cells[tail.off + k])
  <2> SUFFICES ASSUME k > 0, ~IsEnd(cells[tail.off + k]) PROVE FALSE
    OBVIOUS
  <2>1. k - 1 \in 0..Want /\ k - 1 \notin T /\ k \in 0..Want /\ Rest(k)
    BY <1>1, <1>3
  <2>2. PICK j \in k..Want : IsEnd(cells[tail.off + j])
    BY <1>1, <2>1
  <2>3. j # k
    BY <2>2
  <2> QED
    BY <1>1, <2>1, <2>2, <2>3
<1>5. \E y \in 0..Want : (y > 0 => IsEnd(cells[tail.off + y])) /\ Rest(y)
  BY <1>3, <1>4
<1> QED
  BY <1>1, <1>5 DEF Complete

TakeStates == [made : Seq(Messages), used : Nat, line : Nat, since : Nat, overlong : BOOLEAN,
               finished : BOOLEAN]
TakeStart == [made |-> <<>>, used |-> 0, line |-> tail.line, since |-> tail.since,
              overlong |-> tail.overlong, finished |-> tail.finished]

\* take's loop: cell after cell, up to the last complete line.
LEMMA TakeUnfolds ==
    ASSUME NEW budget, Complete \in Nat
    PROVE  \E f : /\ f = [k \in 0..Complete |-> IF k = 0 THEN TakeStart
                                  ELSE TakeCell(budget, f[k - 1], cells[tail.off + k])]
                  /\ Taken(budget) =
                        IF Complete = 0 /\ Want >= Chunk
                        THEN [TakeStart EXCEPT !.used = Chunk, !.overlong = TRUE]
                        ELSE f[Complete]
<1> DEFINE Step(f, k) == IF k = 0 THEN TakeStart
                         ELSE TakeCell(budget, f[k - 1], cells[tail.off + k])
           S == {m \in Nat : \E f : f = [k \in 0..m |-> Step(f, k)]}
           d == CHOOSE f : f = [k \in 0..Complete |-> Step(f, k)]
<1>1. 0 \in S
  <2>1. PICK f : f = [k \in 0..0 |-> TakeStart]
    OBVIOUS
  <2>2. \A k \in 0..0 : Step(f, k) = TakeStart
    OBVIOUS
  <2>3. f = [k \in 0..0 |-> Step(f, k)]
    BY <2>1, <2>2, Zenon
  <2> QED
    BY <2>3
<1>2. ASSUME NEW m \in Nat, m \in S PROVE m + 1 \in S
  <2>1. PICK f : f = [k \in 0..m |-> Step(f, k)]
    BY <1>2
  <2>2. PICK g : g = [k \in 0..(m + 1) |-> IF k = m + 1 THEN Step(f, k) ELSE f[k]]
    OBVIOUS
  <2>3. \A k \in 0..m : g[k] = f[k] /\ f[k] = Step(f, k)
    <3>1. \A k \in 0..m : k \in 0..(m + 1) /\ k # m + 1
      OBVIOUS
    <3>2. \A k \in 0..m : g[k] = f[k]
      BY <2>2, <3>1
    <3>3. \A k \in 0..m : f[k] = Step(f, k)
      BY <2>1, Zenon
    <3> QED
      BY <3>2, <3>3
  <2>4. \A k \in 0..(m + 1) : Step(g, k) = Step(f, k)
    <3> SUFFICES ASSUME NEW k \in 0..(m + 1), k # 0 PROVE g[k - 1] = f[k - 1]
      BY Zenon
    <3> QED
      BY <2>3
  <2>5. \A k \in 0..(m + 1) : g[k] = Step(g, k)
    <3> SUFFICES ASSUME NEW k \in 0..(m + 1) PROVE g[k] = Step(g, k)
      OBVIOUS
    <3> HIDE DEF Step
    <3>1. CASE k = m + 1
      BY <2>2, <2>4, <3>1
    <3>2. CASE k # m + 1
      BY <2>2, <2>3, <2>4, <3>2
    <3> QED
      BY <3>1, <3>2
  <2>6. g = [k \in 0..(m + 1) |-> g[k]]
    BY <2>2
  <2>7. g = [k \in 0..(m + 1) |-> Step(g, k)]
    <3> HIDE DEF Step
    <3> QED
      BY <2>5, <2>6, Zenon
  <2> QED
    BY <2>7
<1>3. Complete \in S
  <2> HIDE DEF S
  <2> QED
    BY <1>1, <1>2, SetInduction
<1>4. d = [k \in 0..Complete |-> Step(d, k)]
  <2> HIDE DEF Step
  <2> QED
    BY <1>3
<1>5. Taken(budget) = IF Complete = 0 /\ Want >= Chunk
                      THEN [TakeStart EXCEPT !.used = Chunk, !.overlong = TRUE]
                      ELSE d[Complete]
  BY DEF Taken, TakeStart
<1> HIDE DEF d
<1> QED
  BY <1>4, <1>5, Zenon

\* The messages made from the lines between the reader and the n-th line.
MadeIs(made, line) ==
    /\ Len(made) + NextLine = (IF line > tail.since THEN line ELSE tail.since)
    /\ \A i \in 1..Len(made) :
        /\ made[i] = Message(NextLine + i, LineKind(cells, NextLine + i))
        /\ made[i].kind \in Kinds

\* After k cells: how far the loop is, and what it made of the lines.
TookCells(budget, t, k) ==
    /\ t \in TakeStates /\ t.since = tail.since
    /\ t.used <= k
    /\ t.used = k \/ Len(t.made) >= budget
    /\ Len(t.made) >= budget => t.used > 0 /\ IsEnd(cells[tail.off + t.used])
    /\ t.line = LinesIn(cells, tail.off + t.used)
    /\ t.overlong => tail.overlong /\ \A j \in 1..t.used : ~IsEnd(cells[tail.off + j])
    /\ ~t.overlong => \E b \in 0..t.used : tail.off + b = 0 \/ IsEnd(cells[tail.off + b])
    /\ t.finished => /\ run = "ended" /\ tail.off + t.used = Len(cells) /\ Len(cells) > 0
                     /\ cells[Len(cells)] = "finished"
    /\ MadeIs(t.made, t.line)

\* The next line's number is at least each of the two it is the larger of.
LEMMA NextLineType ==
    ASSUME TailInv PROVE NextLine \in Nat /\ NextLine >= tail.line /\ NextLine >= tail.since
  BY DEF TailInv, TailStates, NextLine

\* What a read begins with is where the reader and the page are.
LEMMA TakeStartIs ==
    ASSUME FileInv, TailInv, NEW budget \in Nat \ {0}
    PROVE  TookCells(budget, TakeStart, 0)
<1> PICK t : t = TakeStart OBVIOUS
<1>1. /\ tail.off \in Nat /\ tail.line \in Nat /\ tail.since \in Nat
      /\ tail.overlong \in BOOLEAN /\ tail.finished \in BOOLEAN
      /\ tail.line = LinesIn(cells, tail.off)
  BY DEF TailInv, TailStates
<1>2. /\ t.made = <<>> /\ t.used = 0 /\ t.line = tail.line /\ t.since = tail.since
      /\ t.overlong = tail.overlong /\ t.finished = tail.finished
  BY DEF TakeStart
<1>3. t \in TakeStates
  BY <1>1 DEF TakeStart, TakeStates
<1>4. MadeIs(t.made, t.line)
  BY <1>1, <1>2 DEF MadeIs, NextLine
<1>5. ~t.overlong => \E b \in 0..t.used : tail.off + b = 0 \/ IsEnd(cells[tail.off + b])
  BY <1>1, <1>2 DEF TailInv
<1>6. t.finished => /\ run = "ended" /\ tail.off + t.used = Len(cells) /\ Len(cells) > 0
                    /\ cells[Len(cells)] = "finished"
  BY <1>1, <1>2 DEF TailInv
<1> QED
  BY <1>1, <1>2, <1>3, <1>4, <1>5, <1>6 DEF TookCells

\* What the reader makes of the line that ends at the next cell.
LEMMA KindOfLine ==
    ASSUME FileInv, TailInv, NEW budget, NEW t, NEW k \in Nat, TookCells(budget, t, k), t.used = k,
           tail.off + k + 1 <= Len(cells), k + 1 <= Chunk, IsEnd(cells[tail.off + (k + 1)])
    PROVE  /\ LinesIn(cells, tail.off + (k + 1)) = t.line + 1
           /\ LineKind(cells, t.line + 1) = IF t.overlong THEN "bad" ELSE cells[tail.off + (k + 1)]
<1>1. PICK i : i = tail.off + (k + 1)
  OBVIOUS
<1>2. /\ cells \in Seq(Cells) /\ tail.off \in Nat /\ i \in 1..Len(cells) /\ i - 1 = tail.off + k
      /\ i - 1 \in Nat /\ (i - 1) + 1 = i /\ t.line = LinesIn(cells, i - 1) /\ t.line \in Nat
      /\ Len(cells) \in Nat /\ Chunk \in Nat /\ Chunk > 0
  <2>1. /\ cells \in Seq(Cells) /\ tail.off \in Nat /\ t.line \in Nat
        /\ t.line = LinesIn(cells, tail.off + k)
    BY DEF FileInv, TailInv, TailStates, TookCells, TakeStates
  <2>2. i - 1 = tail.off + k
    BY <1>1, <2>1
  <2>3. Len(cells) \in Nat
    BY <2>1
  <2> QED
    BY <1>1, <2>1, <2>2, <2>3, JournalAssumption
<1>3. LinesIn(cells, i) = t.line + 1
  BY <1>1, <1>2, CountNext
<1>4. LineKind(cells, t.line + 1) = KindAt(cells, i)
  BY <1>1, <1>2, <1>3, EndOfLine
<1>5. CASE t.overlong
  <2>1. tail.overlong /\ \A j \in 1..k : ~IsEnd(cells[tail.off + j])
    BY <1>5 DEF TookCells
  <2>2. tail.off >= Chunk /\ \A j \in (tail.off - Chunk + 1)..tail.off : ~IsEnd(cells[j])
    BY <2>1 DEF TailInv, Inside
  <2>3. ASSUME NEW j \in ((i - 1) - Chunk + 1)..(i - 1) PROVE ~IsEnd(cells[j])
    <3>1. CASE j <= tail.off
      BY <1>2, <2>2, <3>1
    <3>2. CASE j > tail.off
      <4>1. j - tail.off \in 1..k /\ tail.off + (j - tail.off) = j
        BY <1>2, <3>2
      <4> QED
        BY <4>1, <2>1
    <3> QED
      BY <1>2, <3>1, <3>2
  <2>4. Inside(cells, i - 1, Chunk)
    BY <1>2, <2>2, <2>3 DEF Inside
  <2> QED
    BY <1>1, <1>3, <1>4, <1>5, <2>4 DEF KindAt
<1>6. CASE ~t.overlong
  <2>1. PICK b \in 0..k : tail.off + b = 0 \/ IsEnd(cells[tail.off + b])
    BY <1>6 DEF TookCells
  <2>2. ~Inside(cells, i - 1, Chunk)
    <3> SUFFICES ASSUME Inside(cells, i - 1, Chunk) PROVE FALSE
      OBVIOUS
    <3>1. i - 1 >= Chunk /\ \A j \in ((i - 1) - Chunk + 1)..(i - 1) : ~IsEnd(cells[j])
      BY DEF Inside
    <3>2. tail.off + b # 0
      BY <1>2, <2>1, <3>1
    <3>3. tail.off + b \in ((i - 1) - Chunk + 1)..(i - 1)
      BY <1>2, <2>1, <3>2
    <3> QED
      BY <2>1, <3>1, <3>2, <3>3
  <2> QED
    BY <1>1, <1>3, <1>4, <1>6, <2>2 DEF KindAt
<1> QED
  BY <1>5, <1>6

\* One more cell.
LEMMA TakeCellIs ==
    ASSUME FileInv, TailInv, NEW budget \in Nat, NEW t, NEW k \in Nat, TookCells(budget, t, k),
           tail.off + (k + 1) <= Len(cells), k + 1 <= Chunk
    PROVE  TookCells(budget, TakeCell(budget, t, cells[tail.off + (k + 1)]), k + 1)
<1>1. PICK u : u = TakeCell(budget, t, cells[tail.off + (k + 1)])
  OBVIOUS
<1>2. /\ t \in TakeStates /\ t.since = tail.since /\ t.used <= k /\ t.used \in Nat
      /\ t.made \in Seq(Messages) /\ Len(t.made) \in Nat /\ t.line \in Nat /\ tail.since \in Nat
      /\ t.line = LinesIn(cells, tail.off + t.used)
      /\ t.overlong \in BOOLEAN /\ t.finished \in BOOLEAN
      /\ cells \in Seq(Cells) /\ tail.off \in Nat /\ Len(cells) \in Nat
  BY DEF TookCells, TakeStates, FileInv, TailInv, TailStates
<1>3. PICK cell : cell = cells[tail.off + (k + 1)] /\ cell \in Cells
  BY <1>2
<1>4. CASE Len(t.made) >= budget
  <2>1. u = t
    BY <1>1, <1>4 DEF TakeCell
  <2>2. t.used <= k + 1
    BY <1>2
  <2> QED
    BY <1>1, <1>4, <2>1, <2>2 DEF TookCells
<1>5. CASE ~(Len(t.made) >= budget)
  <2>1. t.used = k
    BY <1>5 DEF TookCells
  <2>2. ~t.finished
    BY <1>2, <2>1 DEF TookCells
  <2>3. CASE cell = "mid"
    <3>1. u = [t EXCEPT !.used = @ + 1]
      BY <1>1, <1>3, <1>5, <2>3 DEF TakeCell
    <3>2. /\ u \in TakeStates /\ u.used = k + 1 /\ u.made = t.made /\ u.line = t.line
          /\ u.since = t.since /\ u.overlong = t.overlong /\ u.finished = t.finished
      BY <1>2, <2>1, <3>1 DEF TakeStates
    <3>3. ~IsEnd(cells[tail.off + (k + 1)])
      BY <1>3, <2>3 DEF IsEnd
    <3>4. LinesIn(cells, tail.off + (k + 1)) = t.line
      <4>1. (tail.off + k) + 1 = tail.off + (k + 1) /\ tail.off + k \in Nat
        BY <1>2
      <4> QED
        BY <1>2, <2>1, <3>3, <4>1, CountNext
    <3>5. u.overlong => tail.overlong /\ \A j \in 1..u.used : ~IsEnd(cells[tail.off + j])
      <4> SUFFICES ASSUME u.overlong
                   PROVE  tail.overlong /\ \A j \in 1..(k + 1) : ~IsEnd(cells[tail.off + j])
        BY <3>2
      <4>1. tail.overlong /\ \A j \in 1..k : ~IsEnd(cells[tail.off + j])
        BY <2>1, <3>2 DEF TookCells
      <4> QED
        BY <3>3, <4>1
    <3>6. ~u.overlong => \E b \in 0..u.used : tail.off + b = 0 \/ IsEnd(cells[tail.off + b])
      <4> SUFFICES ASSUME ~u.overlong
                   PROVE  \E b \in 0..(k + 1) : tail.off + b = 0 \/ IsEnd(cells[tail.off + b])
        BY <3>2
      <4>1. PICK b \in 0..k : tail.off + b = 0 \/ IsEnd(cells[tail.off + b])
        BY <2>1, <3>2 DEF TookCells
      <4> QED
        BY <4>1
    <3>7. MadeIs(u.made, u.line)
      BY <3>2 DEF TookCells
    <3>8. u.used <= k + 1 /\ u.since = tail.since /\ ~u.finished
          /\ u.line = LinesIn(cells, tail.off + u.used)
      BY <1>2, <2>2, <3>2, <3>4
    <3> QED
      BY <1>1, <1>5, <3>2, <3>5, <3>6, <3>7, <3>8 DEF TookCells
  <2>4. CASE cell # "mid"
    <3> DEFINE kind == IF t.overlong THEN "bad" ELSE cell
               line == t.line + 1
    <3>1. u = [t EXCEPT !.used = @ + 1, !.line = line, !.overlong = FALSE,
                        !.finished = @ \/ kind = "finished",
                        !.made = IF line > t.since THEN Append(@, Message(line, kind)) ELSE @]
      BY <1>1, <1>3, <1>5, <2>4 DEF TakeCell
    <3>2. kind \in Kinds /\ line \in Nat /\ Message(line, kind) \in Messages
      BY <1>2, <1>3, <2>4 DEF Cells, Kinds, Message, Messages
    <3>3. IsEnd(cells[tail.off + (k + 1)])
      BY <1>3, <2>4 DEF IsEnd
    <3>4. /\ LinesIn(cells, tail.off + (k + 1)) = line
          /\ LineKind(cells, line) = kind
      <4>1. tail.off + k + 1 <= Len(cells)
        BY <1>2
      <4> QED
        BY <1>3, <2>1, <3>3, <4>1, KindOfLine
    <3> HIDE DEF kind
    <3>5. /\ u.used = k + 1 /\ u.line = line /\ u.since = t.since /\ u.overlong = FALSE
          /\ u.finished = (kind = "finished")
          /\ u.made = IF line > t.since THEN Append(t.made, Message(line, kind)) ELSE t.made
      BY <1>2, <2>1, <2>2, <3>1 DEF TakeStates
    <3>6. u.made \in Seq(Messages)
      BY <1>2, <3>2, <3>5
    <3>7. u \in TakeStates
      <4>1. PICK m : m = u.made /\ m \in Seq(Messages)
        BY <3>6
      <4>2. u = [made |-> m, used |-> k + 1, line |-> line, since |-> t.since,
                 overlong |-> FALSE, finished |-> (kind = "finished")]
        BY <1>2, <2>1, <2>2, <3>1, <3>5, <4>1 DEF TakeStates
      <4> QED
        BY <1>2, <3>2, <4>1, <4>2 DEF TakeStates
    <3>8. MadeIs(u.made, u.line)
      <4>1. NextLine \in Nat
        BY NextLineType
      <4>2. /\ Len(t.made) + NextLine = (IF t.line > tail.since THEN t.line ELSE tail.since)
            /\ \A i \in 1..Len(t.made) :
                /\ t.made[i] = Message(NextLine + i, LineKind(cells, NextLine + i))
                /\ t.made[i].kind \in Kinds
        BY DEF TookCells, MadeIs
      <4>3. CASE line > tail.since
        <5>1. u.made = Append(t.made, Message(line, kind))
          BY <1>2, <3>5, <4>3
        <5>2. Len(t.made) + NextLine = t.line
          BY <1>2, <4>2, <4>3
        <5>3. /\ Len(u.made) = Len(t.made) + 1 /\ u.made[Len(t.made) + 1] = Message(line, kind)
              /\ \A i \in 1..Len(t.made) : u.made[i] = t.made[i]
          BY <1>2, <3>2, <5>1
        <5>4. NextLine + (Len(t.made) + 1) = line
          BY <1>2, <4>1, <5>2
        <5>5. ASSUME NEW i \in 1..Len(u.made)
              PROVE  /\ u.made[i] = Message(NextLine + i, LineKind(cells, NextLine + i))
                     /\ u.made[i].kind \in Kinds
          <6>1. CASE i = Len(t.made) + 1
            <7>1. u.made[i] = Message(line, LineKind(cells, line)) /\ NextLine + i = line
              BY <3>4, <5>3, <5>4, <6>1
            <7>2. Message(line, kind).kind = kind
              BY DEF Message
            <7> QED
              BY <3>2, <5>3, <6>1, <7>1, <7>2
          <6>2. CASE i # Len(t.made) + 1
            <7>1. i \in 1..Len(t.made)
              BY <1>2, <5>3, <6>2
            <7> QED
              BY <4>2, <5>3, <7>1
          <6> QED
            BY <6>1, <6>2
        <5>6. Len(u.made) + NextLine = line
          BY <1>2, <4>1, <5>2, <5>3
        <5> QED
          BY <3>5, <4>3, <5>5, <5>6 DEF MadeIs
      <4>4. CASE ~(line > tail.since)
        <5>1. u.made = t.made /\ ~(t.line > tail.since) /\ ~(u.line > tail.since)
          BY <1>2, <3>5, <4>4
        <5> QED
          BY <4>2, <5>1 DEF MadeIs
      <4> QED
        BY <4>3, <4>4
    <3>9. u.finished => /\ run = "ended" /\ tail.off + u.used = Len(cells) /\ Len(cells) > 0
                        /\ cells[Len(cells)] = "finished"
      <4> SUFFICES ASSUME u.finished
                   PROVE  /\ run = "ended" /\ tail.off + (k + 1) = Len(cells) /\ Len(cells) > 0
                        /\ cells[Len(cells)] = "finished"
        BY <3>5
      <4>1. cells[tail.off + (k + 1)] = "finished"
        BY <1>3, <3>5 DEF kind
      <4>2. tail.off + (k + 1) \in 1..Len(cells)
        BY <1>2
      <4> QED
        BY <1>2, <4>1, <4>2 DEF FileInv
    <3>10. \E b \in 0..u.used : tail.off + b = 0 \/ IsEnd(cells[tail.off + b])
      BY <3>3, <3>5
    <3>11. u.used <= k + 1 /\ u.used = k + 1 /\ u.since = tail.since /\ ~u.overlong
           /\ u.used > 0 /\ IsEnd(cells[tail.off + u.used])
           /\ u.line = LinesIn(cells, tail.off + u.used)
      BY <1>2, <3>3, <3>4, <3>5
    <3> QED
      BY <1>1, <3>7, <3>8, <3>9, <3>10, <3>11 DEF TookCells
  <2> QED
    BY <2>3, <2>4
<1> QED
  BY <1>4, <1>5

\* What a read takes: whole lines, or a chunk inside a line, and all there is unless more
\* is left.
TakenOK(budget, t) ==
    /\ t \in TakeStates /\ t.since = tail.since /\ tail.off + t.used <= Len(cells)
    /\ t.line = LinesIn(cells, tail.off + t.used)
    /\ IF t.overlong THEN Inside(cells, tail.off + t.used, Chunk)
       ELSE tail.off + t.used > 0 => IsEnd(cells[tail.off + t.used])
    /\ t.finished => /\ run = "ended" /\ tail.off + t.used = Len(cells) /\ Len(cells) > 0
                     /\ cells[Len(cells)] = "finished"
    /\ MadeIs(t.made, t.line)
    /\ ~More(budget, t) => \A j \in (tail.off + t.used + 1)..Len(cells) : ~IsEnd(cells[j])

\* What a whole read takes, however many cells its budget allows.
LEMMA TakenIs ==
    ASSUME FileInv, TailInv, NEW budget \in Nat \ {0}
    PROVE  TakenOK(budget, Taken(budget))
<1>1. /\ cells \in Seq(Cells) /\ tail.off \in Nat /\ tail.off <= Len(cells) /\ Len(cells) \in Nat
      /\ Chunk \in Nat /\ Chunk > 0
  BY JournalAssumption DEF FileInv, TailInv, TailStates
<1>2. /\ Want \in 0..Chunk /\ tail.off + Want <= Len(cells)
      /\ tail.off + Chunk >= Len(cells) => tail.off + Want = Len(cells)
      /\ Complete \in 0..Want /\ (Complete > 0 => IsEnd(cells[tail.off + Complete]))
      /\ \A j \in (Complete + 1)..Want : ~IsEnd(cells[tail.off + j])
  BY <1>1, ChunkIs
<1>5. /\ Want \in Nat /\ Complete \in Nat /\ Complete <= Want /\ Want <= Chunk
         /\ tail.off + Want <= Len(cells)
      /\ tail.off + Chunk >= Len(cells) => tail.off + Want = Len(cells)
      /\ Complete > 0 => IsEnd(cells[tail.off + Complete])
      /\ \A j \in (Complete + 1)..Want : ~IsEnd(cells[tail.off + j])
  BY <1>1, <1>2
<1>6. PICK f : /\ f = [k \in 0..Complete |-> IF k = 0 THEN TakeStart
                                  ELSE TakeCell(budget, f[k - 1], cells[tail.off + k])]
               /\ Taken(budget) = IF Complete = 0 /\ Want >= Chunk
                                  THEN [TakeStart EXCEPT !.used = Chunk, !.overlong = TRUE]
                                  ELSE f[Complete]
  <2>1. Complete \in Nat
    BY <1>5
  <2> QED
    BY <2>1, TakeUnfolds
<1>7. PICK t : t = Taken(budget)
  OBVIOUS
<1>8. TookCells(budget, TakeStart, 0)
  BY TakeStartIs
<1>9. \A j \in (tail.off + Complete + 1)..(tail.off + Want) : ~IsEnd(cells[j])
  <2> SUFFICES ASSUME NEW j \in (tail.off + Complete + 1)..(tail.off + Want) PROVE ~IsEnd(cells[j])
    OBVIOUS
  <2>1. j - tail.off \in (Complete + 1)..Want /\ tail.off + (j - tail.off) = j
    BY <1>1, <1>5
  <2> QED
    BY <1>5, <2>1
<1>10. CASE Complete = 0 /\ Want >= Chunk
  <2>1. t = [TakeStart EXCEPT !.used = Chunk, !.overlong = TRUE] /\ Want = Chunk
    BY <1>1, <1>5, <1>6, <1>7, <1>10
  <2>2. /\ t.made = <<>> /\ t.used = Chunk /\ t.line = tail.line /\ t.since = tail.since
        /\ t.overlong = TRUE /\ t.finished = tail.finished
    BY <2>1 DEF TakeStart
  <2>3. t \in TakeStates
    <3>1. TakeStart \in TakeStates
      BY <1>8 DEF TookCells
    <3> QED
      BY <1>1, <2>1, <3>1 DEF TakeStates
  <2>4. \A j \in (tail.off + 1)..(tail.off + Chunk) : ~IsEnd(cells[j])
    BY <1>1, <1>9, <1>10, <2>1
  <2>5. LinesIn(cells, tail.off + Chunk) = LinesIn(cells, tail.off)
    BY <1>1, <2>4, CountSame
  <2>6. Inside(cells, tail.off + Chunk, Chunk)
    BY <1>1, <2>4 DEF Inside
  <2>7. ~t.finished
    <3>1. tail.finished => tail.off = Len(cells)
      BY DEF TailInv
    <3> QED
      BY <1>1, <1>5, <2>1, <2>2, <3>1
  <2>8. MadeIs(t.made, t.line)
    BY <1>8, <2>2 DEF TookCells, TakeStart
  <2>9. ~More(budget, t) => \A j \in (tail.off + t.used + 1)..Len(cells) : ~IsEnd(cells[j])
    BY <1>1, <1>5, <2>1, <2>2 DEF More
  <2>10. t.line = LinesIn(cells, tail.off + t.used) /\ tail.off + t.used <= Len(cells)
    BY <1>5, <2>1, <2>2, <2>5 DEF TailInv
  <2> QED
    BY <1>7, <2>2, <2>3, <2>6, <2>7, <2>8, <2>9, <2>10 DEF TakenOK
<1>11. CASE ~(Complete = 0 /\ Want >= Chunk)
  <2> DEFINE S == {k \in Nat : k <= Complete => TookCells(budget, f[k], k)}
  <2>1. 0 \in S
    BY <1>5, <1>6, <1>8
  <2>2. ASSUME NEW k \in Nat, k \in S PROVE k + 1 \in S
    <3> SUFFICES ASSUME k + 1 <= Complete PROVE TookCells(budget, f[k + 1], k + 1)
      OBVIOUS
    <3>1. TookCells(budget, f[k], k)
      BY <1>5, <2>2
    <3>2. f[k + 1] = TakeCell(budget, f[k], cells[tail.off + (k + 1)])
      <4>1. k + 1 \in 0..Complete /\ k + 1 # 0 /\ (k + 1) - 1 = k
        BY <1>5
      <4> QED
        BY <1>6, <4>1
    <3>3. tail.off + (k + 1) <= Len(cells) /\ k + 1 <= Chunk
      BY <1>1, <1>5
    <3> QED
      BY <3>1, <3>2, <3>3, TakeCellIs
  <2>3. Complete \in S
    <3> HIDE DEF S
    <3> QED
      BY <1>5, <2>1, <2>2, SetInduction
  <2>4. t = f[Complete] /\ TookCells(budget, t, Complete)
    BY <1>5, <1>6, <1>7, <1>11, <2>3
  <2>5. /\ t \in TakeStates /\ t.used \in Nat /\ t.used <= Complete /\ Len(t.made) \in Nat
        /\ t.overlong \in BOOLEAN /\ t.since = tail.since
        /\ t.used = Complete \/ Len(t.made) >= budget
        /\ Len(t.made) >= budget => t.used > 0 /\ IsEnd(cells[tail.off + t.used])
        /\ t.overlong => tail.overlong /\ \A j \in 1..t.used : ~IsEnd(cells[tail.off + j])
        /\ ~t.overlong => \E b \in 0..t.used : tail.off + b = 0 \/ IsEnd(cells[tail.off + b])
    BY <2>4 DEF TookCells, TakeStates
  <2>6. tail.off + t.used <= Len(cells)
    BY <1>1, <1>5, <2>5
  <2>7. t.used > 0 => IsEnd(cells[tail.off + t.used])
    BY <1>5, <2>5
  <2>8. IF t.overlong THEN Inside(cells, tail.off + t.used, Chunk)
        ELSE tail.off + t.used > 0 => IsEnd(cells[tail.off + t.used])
    <3>1. CASE t.used > 0
      <4>1. ~t.overlong
        BY <2>5, <2>7, <3>1
      <4> QED
        BY <2>7, <3>1, <4>1
    <3>2. CASE t.used = 0
      <4>1. tail.off + t.used = tail.off
        BY <1>1, <3>2
      <4>2. t.overlong => Inside(cells, tail.off, Chunk)
        BY <2>5 DEF TailInv
      <4>3. ~t.overlong /\ tail.off > 0 => IsEnd(cells[tail.off])
        BY <1>1, <2>5, <3>2
      <4> QED
        BY <4>1, <4>2, <4>3
    <3> QED
      BY <2>5, <3>1, <3>2
  <2>9. ~More(budget, t) => \A j \in (tail.off + t.used + 1)..Len(cells) : ~IsEnd(cells[j])
    <3> SUFFICES ASSUME ~More(budget, t)
                 PROVE  \A j \in (tail.off + t.used + 1)..Len(cells) : ~IsEnd(cells[j])
      OBVIOUS
    <3>1. ~(Len(t.made) >= budget /\ t.used < Complete) /\ ~(tail.off + Chunk < Len(cells))
      BY DEF More
    <3>2. t.used = Complete
      BY <1>5, <2>5, <3>1
    <3>3. tail.off + Want = Len(cells)
      BY <1>1, <1>5, <3>1
    <3> QED
      BY <1>9, <3>2, <3>3
  <2> QED
    BY <1>7, <2>4, <2>5, <2>6, <2>8, <2>9 DEF TakenOK, TookCells
<1> QED
  BY <1>10, <1>11

-----------------------------------------------------------------------------
\* The constants' types, and the state's.
LEMMA JournalTypes ==
    ASSUME JournalInv
    PROVE  /\ cells \in Seq(Cells) /\ Len(cells) \in Nat /\ Lines(cells) \in Nat
           /\ page.got \in Seq(Messages) /\ Len(page.got) \in Nat /\ page.last = Len(page.got)
           /\ out \in Seq(Messages) /\ Len(out) \in Nat
           /\ tail \in TailStates /\ tail.off \in Nat /\ tail.off <= Len(cells)
           /\ page \in PageRecords
<1>1. cells \in Seq(Cells) /\ out \in Seq(Messages) /\ page \in PageRecords
  BY DEF JournalInv, FileInv, OutInv, PageInv, HasLines
<1>2. page.got \in Seq(Messages)
  BY <1>1 DEF PageRecords
<1>3. Len(cells) \in Nat /\ Len(page.got) \in Nat /\ Len(out) \in Nat
  BY <1>1, <1>2
<1>4. Lines(cells) \in Nat
  BY <1>3, CountNat DEF Lines
<1> QED
  BY <1>1, <1>2, <1>3, <1>4 DEF JournalInv, TailInv, TailStates, PageInv, HasLines

\* The initial states satisfy the invariant.
LEMMA JournalInvInit == JournalInit => JournalInv
<1> SUFFICES ASSUME JournalInit PROVE JournalInv
  OBVIOUS
<1>1. cells = <<>> /\ Len(cells) = 0 /\ cells \in Seq(Cells)
  BY DEF JournalInit
<1>2. LinesIn(cells, 0) = 0 /\ Lines(cells) = 0
  BY <1>1, CountZero DEF Lines
<1>3. FileInv
  <2>1. 0 \in 0..MaxLost /\ 0 <= MaxCells
    BY JournalAssumption
  <2>2. FlagTypes
    BY <2>1, Zenon DEF JournalInit, FlagTypes
  <2> QED
    BY <1>1, <2>1, <2>2 DEF JournalInit, FileInv, MidLine
<1>4. TailInv
  BY <1>1, <1>2 DEF JournalInit, TailInv, TailStates, NewTail
<1>5. PageInv
  <2>1. page = [doing |-> "connect", got |-> <<>>, last |-> 0, ended |-> GoesOn, waiting |-> FALSE]
    BY DEF JournalInit
  <2>2. page \in PageRecords
    BY <2>1 DEF PageRecords, PageStates
  <2>3. /\ page.doing = "connect" /\ page.got = <<>> /\ page.last = 0 /\ page.waiting = FALSE
        /\ page.ended # "end finished" /\ Len(page.got) = 0
    BY <2>1 DEF GoesOn
  <2>4. HasLines(page)
    <3>1. \A i \in 1..0 : FALSE
      OBVIOUS
    <3>2. page.last = Len(page.got)
      BY <2>3
    <3> QED
      BY <2>2, <2>3, <3>1, <3>2, Zenon DEF HasLines
  <2> QED
    BY <2>3, <2>4 DEF PageInv
<1>6. OutInv
  BY DEF JournalInit, OutInv, Connected
<1> QED
  BY <1>3, <1>4, <1>5, <1>6 DEF JournalInv

\* A step of the file that writes nothing: what was read of it stays what it is.
LEMMA FileKeeps ==
    ASSUME JournalInv, UNCHANGED <<cells, tail, out, page>>, FileInv',
           run = "ended" => run' = "ended",
           there' => there \/ page.got = <<>>
    PROVE  JournalInv'
<1>1. \A n : Readable(n) => Readable(n)'
  BY DEF Readable
<1>2. TailInv'
  BY DEF JournalInv, TailInv
<1>3. PageInv'
  <2>1. HasLines(page)'
    BY <1>1 DEF JournalInv, PageInv, HasLines
  <2> QED
    BY <2>1 DEF JournalInv, PageInv
<1>4. OutInv'
  <2>1. NextLine' = NextLine
    BY DEF NextLine
  <2> QED
    BY <1>1, <2>1 DEF JournalInv, OutInv
<1> QED
  BY <1>2, <1>3, <1>4 DEF JournalInv

\* A step that writes: the lines read before are the same.
LEMMA WriteKeeps ==
    ASSUME JournalInv, NEW x \in Cells, cells' = Append(cells, x), run = "going",
           UNCHANGED <<tail, out, page, there>>, FileInv'
    PROVE  JournalInv'
<1>1. /\ cells \in Seq(Cells) /\ Len(cells) \in Nat /\ Lines(cells) \in Nat
      /\ Len(page.got) \in Nat /\ Len(out) \in Nat /\ tail.off \in Nat /\ tail.off <= Len(cells)
  BY JournalTypes
<1>2. /\ Len(cells') = Len(cells) + 1
      /\ \A i \in 1..Len(cells) : cells'[i] = cells[i]
      /\ \A i \in 0..Len(cells) : LinesIn(cells', i) = LinesIn(cells, i)
      /\ Lines(cells') >= Lines(cells) /\ Lines(cells') \in Nat
  <2>1. Lines(cells') = IF IsEnd(x) THEN Lines(cells) + 1 ELSE Lines(cells)
    BY <1>1, CountAppend
  <2> QED
    BY <1>1, <2>1, CountAppend
<1>3. ASSUME NEW n \in Nat, n > 0, Readable(n)
      PROVE  Readable(n)' /\ LineKind(cells', n) = LineKind(cells, n)
  <2>1. n <= Lines(cells)
    BY <1>3 DEF Readable
  <2>2. Readable(n)'
    BY <1>1, <1>2, <2>1 DEF Readable
  <2>3. n \in 1..Lines(cells)
    BY <1>1, <1>3, <2>1
  <2> QED
    BY <1>1, <2>2, <2>3, LineStays
<1>4. TailInv'
  <2>1. tail.off <= Len(cells') /\ tail.line = LinesIn(cells', tail.off)
    BY <1>1, <1>2 DEF JournalInv, TailInv
  <2>2. ~tail.finished
    BY DEF JournalInv, TailInv
  <2>3. tail.overlong => Inside(cells', tail.off, Chunk)
    <3> SUFFICES ASSUME tail.overlong PROVE Inside(cells', tail.off, Chunk)
      OBVIOUS
    <3>1. Inside(cells, tail.off, Chunk)
      BY DEF JournalInv, TailInv
    <3> QED
      BY <1>1, <1>2, <3>1, JournalAssumption DEF Inside
  <2>4. ~tail.overlong /\ tail.off > 0 => IsEnd(cells'[tail.off])
    BY <1>1, <1>2 DEF JournalInv, TailInv
  <2> QED
    BY <2>1, <2>2, <2>3, <2>4 DEF JournalInv, TailInv
<1>5. PageInv'
  <2>1. HasLines(page)'
    <3>1. ASSUME NEW i \in 1..Len(page.got)
          PROVE  Readable(i)' /\ page.got[i] = Message(i, LineKind(cells', i))
      <4>1. Readable(i) /\ page.got[i] = Message(i, LineKind(cells, i))
        BY Zenon DEF JournalInv, PageInv, HasLines
      <4>2. i \in Nat /\ i > 0
        BY <1>1
      <4> QED
        BY <1>3, <4>1, <4>2
    <3> QED
      BY <3>1 DEF JournalInv, PageInv, HasLines
  <2> QED
    BY <2>1 DEF JournalInv, PageInv
<1>6. OutInv'
  <2>1. NextLine' = NextLine
    BY DEF NextLine
  <2>2. ASSUME NEW k \in 1..Len(out), out[k].kind \notin Ends
        PROVE  LET n == Len(page.got) + k
               IN Readable(n)' /\ out[k] = Message(n, LineKind(cells', n))
    <3>1. PICK n : n = Len(page.got) + k
      OBVIOUS
    <3>2. n \in Nat /\ n > 0
      BY <1>1, <3>1
    <3>3. Readable(n) /\ out[k] = Message(n, LineKind(cells, n))
      BY <2>2, <3>1 DEF JournalInv, OutInv
    <3> QED
      BY <1>3, <3>1, <3>2, <3>3
  <2>3. ASSUME NEW k \in 1..Len(out), out[k].kind \in Ends
        PROVE  k = Len(out) /\ tail.done /\ out[k].kind # "end finished"
    BY <2>3 DEF JournalInv, OutInv
  <2> QED
    BY <2>1, <2>2, <2>3 DEF JournalInv, OutInv
<1> QED
  BY <1>4, <1>5, <1>6 DEF JournalInv

\* The run and the prune keep the invariant.
LEMMA RunKeeps ==
    ASSUME JournalInv,
           OpenJournal \/ WritePart \/ RunStops \/ Silence \/ PruneLists \/ PruneRemoves
           \/ \E kind \in Kinds : WriteLine(kind)
    PROVE  JournalInv'
<1>1. /\ cells \in Seq(Cells) /\ Len(cells) \in Nat /\ Lines(cells) \in Nat /\ FileInv
      /\ Len(page.got) \in Nat
  BY JournalTypes DEF JournalInv
<1>2. CASE OpenJournal
  <2>1. cells = <<>> /\ Len(cells) = 0 /\ Lines(cells) = 0
    BY <1>1, <1>2, CountZero DEF OpenJournal, FileInv, Lines
  <2>2. FileInv'
    <3>1. FlagTypes'
      BY <1>1, <1>2, Zenon DEF OpenJournal, FileInv, FlagTypes
    <3> QED
      BY <1>1, <1>2, <2>1, <3>1 DEF OpenJournal, FileInv, MidLine
  <2>3. page.got = <<>>
    <3>1. ~Readable(1)
      BY <2>1 DEF Readable, MidLine
    <3>2. 1 \notin 1..Len(page.got)
      BY <3>1 DEF JournalInv, PageInv, HasLines
    <3>3. Len(page.got) = 0
      BY <1>1, <3>2
    <3> QED
      BY <3>3, JournalTypes
  <2> QED
    BY <1>2, <2>2, <2>3, FileKeeps DEF OpenJournal
<1>3. CASE WritePart
  <2>1. "mid" \in Cells /\ cells' = Append(cells, "mid")
    BY <1>3 DEF WritePart, Cells
  <2>2. /\ cells' \in Seq(Cells) /\ Len(cells') = Len(cells) + 1
        /\ \A i \in 1..Len(cells) : cells'[i] = cells[i]
        /\ cells'[Len(cells) + 1] = "mid"
    BY <1>1, <2>1, CountAppend
  <2>3. \A i \in 1..Len(cells') : cells'[i] # "finished"
    BY <1>1, <1>3, <2>2 DEF WritePart, FileInv
  <2>4. FileInv'
    <3>1. FlagTypes'
      BY <1>1, <1>3, Zenon DEF WritePart, FileInv, FlagTypes
    <3>2. Len(cells') <= MaxCells /\ cells' # <<>> /\ ~quiet'
      BY <1>1, <1>3, <2>2, JournalAssumption DEF WritePart
    <3>3. run' # "new"
      BY <1>3 DEF WritePart
    <3> QED
      BY <2>2, <2>3, <3>1, <3>2, <3>3 DEF FileInv
  <2> QED
    BY <1>3, <2>1, <2>4, WriteKeeps DEF WritePart
<1>4. ASSUME NEW kind \in Kinds, WriteLine(kind) PROVE JournalInv'
  <2>1. kind \in Cells /\ cells' = Append(cells, kind) /\ run = "going"
    BY <1>4 DEF WriteLine, Cells
  <2>2. /\ cells' \in Seq(Cells) /\ Len(cells') = Len(cells) + 1
        /\ \A i \in 1..Len(cells) : cells'[i] = cells[i]
        /\ cells'[Len(cells) + 1] = kind
    BY <1>1, <2>1, CountAppend
  <2>3. \A i \in 1..Len(cells') : cells'[i] = "finished" => i = Len(cells') /\ run' = "ended"
    BY <1>1, <1>4, <2>1, <2>2 DEF WriteLine, FileInv
  <2>4. FileInv'
    <3>1. FlagTypes'
      BY <1>1, <1>4, Zenon DEF WriteLine, FileInv, FlagTypes
    <3>2. Len(cells') <= MaxCells /\ cells' # <<>> /\ ~quiet'
      BY <1>1, <1>4, <2>2, JournalAssumption DEF WriteLine
    <3>3. run' # "new"
      BY <1>4 DEF WriteLine
    <3> QED
      BY <2>2, <2>3, <3>1, <3>2, <3>3 DEF FileInv
  <2> QED
    BY <1>4, <2>1, <2>4, WriteKeeps DEF WriteLine
<1>5. CASE RunStops
  <2>1. FileInv'
    <3>1. FlagTypes'
      BY <1>1, <1>5, Zenon DEF RunStops, FileInv, FlagTypes
    <3> QED
      BY <1>1, <1>5, <3>1 DEF RunStops, FileInv, FlagTypes
  <2> QED
    BY <1>5, <2>1, FileKeeps DEF RunStops
<1>6. CASE Silence
  <2>1. FileInv'
    <3>1. FlagTypes'
      BY <1>1, <1>6, Zenon DEF Silence, FileInv, FlagTypes
    <3> QED
      BY <1>1, <1>6, <3>1 DEF Silence, FileInv, FlagTypes
  <2> QED
    BY <1>6, <2>1, FileKeeps DEF Silence
<1>7. CASE PruneLists \/ PruneRemoves
  <2>1. FileInv'
    <3>1. FlagTypes'
      BY <1>1, <1>7, Zenon DEF PruneLists, PruneRemoves, FileInv, FlagTypes
    <3> QED
      BY <1>1, <1>7, <3>1 DEF PruneLists, PruneRemoves, FileInv
  <2> QED
    BY <1>7, <2>1, FileKeeps DEF PruneLists, PruneRemoves
<1> QED
  BY <1>2, <1>3, <1>4, <1>5, <1>6, <1>7

-----------------------------------------------------------------------------
\* A page that goes on to do something else shows what it showed.
LEMMA PageMoves ==
    ASSUME JournalInv, UNCHANGED journal, page.doing # "done",
           NEW doing \in PageStates, NEW waiting \in BOOLEAN,
           page' = [page EXCEPT !.doing = doing, !.waiting = waiting],
           doing = "connect" => page.got = <<>>,
           waiting => doing \in {"poll", "asked"} /\ (page.got # <<>> => doing = "poll" /\ ~there)
    PROVE  PageInv' /\ page'.got = page.got /\ page'.last = page.last /\ page'.doing = doing
<1>1. page \in PageRecords
  BY JournalTypes
<1>2. /\ page'.got = page.got /\ page'.last = page.last /\ page'.ended = page.ended
      /\ page'.doing = doing /\ page'.waiting = waiting /\ page' \in PageRecords
  BY <1>1 DEF PageRecords
<1>3. cells' = cells /\ run' = run /\ there' = there
  BY DEF journal
<1>4. HasLines(page)'
  <2>1. \A i : Readable(i)' <=> Readable(i)
    BY <1>3 DEF Readable
  <2>2. \A i \in 1..Len(page.got) : Readable(i) /\ page.got[i] = Message(i, LineKind(cells, i))
    BY Zenon DEF JournalInv, PageInv, HasLines
  <2>3. page.last = Len(page.got)
    BY JournalTypes
  <2> QED
    BY <1>2, <1>3, <2>1, <2>2, <2>3 DEF HasLines
<1>5. page.ended # "end finished"
  BY DEF JournalInv, PageInv
<1> QED
  BY <1>2, <1>3, <1>4, <1>5 DEF PageInv

\* A new reader, or none: nothing is read yet.
LEMMA NewReader ==
    ASSUME JournalInv, UNCHANGED journal, lost' \in 0..MaxLost, PageInv', NEW since \in Nat,
           tail' = NewTail(since), out' = <<>>, since <= Len(page'.got),
           page'.doing \in Connected => since = Len(page'.got)
    PROVE  JournalInv'
<1>1. cells' = cells /\ run' = run /\ there' = there /\ quiet' = quiet /\ listed' = listed
  BY DEF journal
<1>2. FileInv'
  <2>1. FlagTypes'
    BY <1>1, Zenon DEF JournalInv, FileInv, FlagTypes
  <2> QED
    BY <1>1, <2>1 DEF JournalInv, FileInv
<1>3. /\ tail' \in TailStates /\ tail'.off = 0 /\ tail'.line = 0 /\ tail'.since = since
      /\ tail'.overlong = FALSE /\ tail'.finished = FALSE /\ tail'.done = FALSE
  BY DEF NewTail, TailStates
<1>4. TailInv'
  <2>1. LinesIn(cells', 0) = 0 /\ 0 <= Len(cells')
    BY <1>1, CountZero, JournalTypes
  <2> QED
    BY <1>3, <2>1 DEF TailInv
<1>5. NextLine' = since
  BY <1>3 DEF NextLine
<1>6. OutInv'
  <2>1. out' \in Seq(Messages) /\ Len(out') = 0
    OBVIOUS
  <2>2. page'.doing \in Connected => Len(page'.got) + Len(out') = NextLine'
    BY <1>5, <2>1
  <2>3. \A k \in 1..Len(out') : FALSE
    BY <2>1
  <2> QED
    BY <2>1, <2>2, <2>3, Zenon DEF OutInv
<1> QED
  BY <1>2, <1>4, <1>6 DEF JournalInv

\* The page's steps that give it no message.
LEMMA ReconnectKeeps ==
    ASSUME JournalInv,
           Connect \/ StreamRefused \/ StreamFails \/ Break \/ Ask \/ PollFails \/ AnswerLost
    PROVE  JournalInv'
<1>1. /\ Len(page.got) \in Nat /\ page.last = Len(page.got) /\ lost \in 0..MaxLost
      /\ page.waiting \in BOOLEAN /\ MaxLost \in Nat
      /\ page.doing = "connect" => page.got = <<>>
      /\ page.waiting => page.doing \in {"poll", "asked"}
         /\ (page.got # <<>> => page.doing = "poll" /\ ~there)
  BY JournalTypes, JournalAssumption DEF JournalInv, FileInv, FlagTypes, PageInv, PageRecords
<1>2. CASE Connect
  <2>1. page' = [page EXCEPT !.doing = "stream", !.waiting = FALSE] /\ ~page.waiting
    BY <1>1, <1>2, JournalTypes DEF Connect, PageRecords
  <2>2. PageInv' /\ page'.got = page.got /\ page'.doing = "stream"
    BY <1>2, <2>1, PageMoves DEF Connect, PageStates
  <2>3. ResumesFrom \in Nat /\ ResumesFrom = Len(page.got)
    BY <1>1, <1>2 DEF Connect, ResumesFrom
  <2> QED
    BY <1>1, <1>2, <2>2, <2>3, NewReader DEF Connect
<1>3. CASE Ask
  <2>1. page' = [page EXCEPT !.doing = "asked", !.waiting = page.waiting]
        /\ (page.waiting => page.got = <<>>)
    BY <1>1, <1>3, JournalTypes DEF Ask, PageRecords
  <2>2. PageInv' /\ page'.got = page.got /\ page'.doing = "asked"
    BY <1>1, <1>3, <2>1, PageMoves DEF Ask, PageStates
  <2> QED
    BY <1>1, <1>3, <2>2, NewReader DEF Ask
<1>4. CASE StreamRefused
  <2>1. page' = [page EXCEPT !.doing = "poll", !.waiting = FALSE] /\ ~page.waiting
    BY <1>1, <1>4, JournalTypes DEF StreamRefused, PageRecords
  <2>2. PageInv' /\ page'.got = page.got /\ page'.doing = "poll"
    BY <1>4, <2>1, PageMoves DEF StreamRefused, PageStates
  <2>3. cells' = cells /\ run' = run /\ there' = there /\ quiet' = quiet /\ listed' = listed
        /\ tail' = tail /\ out' = out
    BY <1>4 DEF StreamRefused, journal
  <2>4. lost' \in 0..MaxLost
    BY <1>1, <1>4 DEF StreamRefused
  <2>5. FlagTypes'
    BY <2>3, <2>4, Zenon DEF JournalInv, FileInv, FlagTypes
  <2>6. FileInv'
    BY <2>3, <2>5 DEF JournalInv, FileInv
  <2>7. TailInv'
    BY <2>2, <2>3 DEF JournalInv, TailInv
  <2>8. out = <<>>
    BY <1>4 DEF StreamRefused, JournalInv, OutInv, Connected
  <2>9. OutInv'
    <3>1. out' \in Seq(Messages) /\ Len(out') = 0
      BY <2>3, <2>8
    <3>2. \A k \in 1..Len(out') : FALSE
      BY <3>1
    <3> QED
      BY <2>2, <2>3, <2>8, <3>1, <3>2 DEF OutInv, Connected
  <2> QED
    BY <2>2, <2>6, <2>7, <2>9 DEF JournalInv
<1>5. CASE StreamFails \/ Break
  <2>1. page' = [page EXCEPT !.doing = "reconnect", !.waiting = FALSE] /\ ~page.waiting
    BY <1>1, <1>5, JournalTypes DEF StreamFails, Break, PageRecords
  <2>2. PageInv' /\ page'.got = page.got /\ page'.doing = "reconnect"
    BY <1>5, <2>1, PageMoves DEF StreamFails, Break, PageStates
  <2>3. lost' \in 0..MaxLost
    BY <1>1, <1>5 DEF StreamFails, Break
  <2> QED
    BY <1>1, <1>5, <2>2, <2>3, NewReader DEF StreamFails, Break, Dropped, Connected
<1>6. CASE PollFails
  <2>1. page' = [page EXCEPT !.doing = "poll", !.waiting = FALSE]
    BY <1>6 DEF PollFails
  <2>2. PageInv' /\ page'.got = page.got /\ page'.doing = "poll"
    BY <1>6, <2>1, PageMoves DEF PollFails, PageStates
  <2> QED
    BY <1>1, <1>6, <2>2, NewReader DEF PollFails, Dropped, Connected
<1>7. CASE AnswerLost
  <2>1. page' = [page EXCEPT !.doing = "poll", !.waiting = page.waiting]
        /\ (page.waiting => page.got = <<>>)
    BY <1>1, <1>7, JournalTypes DEF AnswerLost, PageRecords
  <2>2. PageInv' /\ page'.got = page.got /\ page'.doing = "poll"
    BY <1>1, <1>7, <2>1, PageMoves DEF AnswerLost, PageStates
  <2>3. lost' \in 0..MaxLost
    BY <1>1, <1>7 DEF AnswerLost
  <2> QED
    BY <1>1, <1>7, <2>2, <2>3, NewReader DEF AnswerLost, Dropped, Connected
<1> QED
  BY <1>2, <1>3, <1>4, <1>5, <1>6, <1>7

-----------------------------------------------------------------------------
\* The page's steps on a journal that is not there.
LEMMA WaitKeeps == ASSUME JournalInv, Wait \/ GiveUp PROVE JournalInv'
<1>1. /\ cells' = cells /\ run' = run /\ there' = there /\ quiet' = quiet /\ listed' = listed
      /\ tail' = tail /\ out' = out /\ lost' = lost /\ page.doing = "poll" /\ ~there
  BY DEF Wait, GiveUp, journal
<1>2. FileInv'
  <2>1. FlagTypes'
    BY <1>1, Zenon DEF JournalInv, FileInv, FlagTypes
  <2> QED
    BY <1>1, <2>1 DEF JournalInv, FileInv
<1>3. PageInv' /\ page'.got = page.got /\ page'.doing \notin Connected
  <2>1. CASE Wait
    <3>1. page' = [page EXCEPT !.doing = "poll", !.waiting = TRUE]
      BY <1>1, <2>1, JournalTypes DEF Wait, PageRecords
    <3>2. UNCHANGED journal
      BY <2>1 DEF Wait
    <3> QED
      BY <1>1, <3>1, <3>2, PageMoves DEF PageStates, Connected
  <2>2. CASE GiveUp
    <3>1. page' = [page EXCEPT !.doing = "done", !.ended = "missing", !.waiting = FALSE]
          /\ page \in PageRecords
      BY <2>2, JournalTypes DEF GiveUp
    <3>2. /\ page'.got = page.got /\ page'.last = page.last /\ page'.ended = "missing"
          /\ page'.doing = "done" /\ page'.waiting = FALSE /\ page' \in PageRecords
      BY <3>1 DEF PageRecords, PageStates
    <3>3. HasLines(page)'
      <4>1. \A i : Readable(i)' <=> Readable(i)
        BY <1>1 DEF Readable
      <4>2. \A i \in 1..Len(page.got) : Readable(i) /\ page.got[i] = Message(i, LineKind(cells, i))
        BY Zenon DEF JournalInv, PageInv, HasLines
      <4>3. page.last = Len(page.got)
        BY JournalTypes
      <4> QED
        BY <1>1, <3>2, <4>1, <4>2, <4>3 DEF HasLines
    <3> QED
      BY <3>2, <3>3 DEF PageInv, Connected
  <2> QED
    BY <2>1, <2>2
<1>4. TailInv'
  BY <1>1, <1>3 DEF JournalInv, TailInv
<1>5. OutInv'
  <2>1. out = <<>>
    BY <1>1 DEF JournalInv, OutInv, Connected
  <2>2. \A k \in 1..0 : FALSE
    OBVIOUS
  <2>3. out' = <<>> /\ out' \in Seq(Messages) /\ Len(out') = 0
    BY <1>1, <2>1
  <2> QED
    BY <1>3, <2>2, <2>3, Zenon DEF OutInv
<1> QED
  BY <1>2, <1>3, <1>4, <1>5 DEF JournalInv

\* What a page does with the next line.
LEMMA ReceiveLine ==
    ASSUME NEW p, HasLines(p), NEW m, NEW n, n = Len(p.got) + 1, Readable(n), m \in Messages,
           m = Message(n, LineKind(cells, n)), m.kind \notin Ends
    PROVE  LET q == Receive(p, m)
           IN  /\ HasLines(q) /\ Len(q.got) = n /\ q.doing = p.doing /\ q.ended = p.ended
               /\ q.waiting = p.waiting
<1>1. PICK q : q = Receive(p, m)
  OBVIOUS
<1>2. p \in PageRecords /\ p.got \in Seq(Messages) /\ Len(p.got) \in Nat /\ p.last = Len(p.got)
  <2>1. p \in PageRecords /\ p.last = Len(p.got)
    BY DEF HasLines
  <2>2. p.got \in Seq(Messages)
    BY <2>1 DEF PageRecords
  <2> QED
    BY <2>1, <2>2
<1>3. m.id = n /\ n \in Nat /\ ~(n <= p.last)
  BY <1>2 DEF Message
<1>4. q = [p EXCEPT !.last = m.id, !.got = Append(@, m)]
  BY <1>1, <1>3 DEF Receive
<1>5. PICK g : g = Append(p.got, m)
  OBVIOUS
<1>6. /\ g \in Seq(Messages) /\ Len(g) = n /\ g[n] = m
      /\ \A i \in 1..Len(p.got) : g[i] = p.got[i]
  BY <1>2, <1>5
<1>7. q \in PageRecords
  BY <1>2, <1>3, <1>4, <1>5, <1>6 DEF PageRecords
<1>8. /\ q.got = g /\ q.last = n /\ q.doing = p.doing /\ q.ended = p.ended
      /\ q.waiting = p.waiting
  BY <1>2, <1>3, <1>4, <1>5 DEF PageRecords
<1>9. ASSUME NEW i \in 1..n PROVE Readable(i) /\ g[i] = Message(i, LineKind(cells, i))
  <2>1. CASE i = n
    BY <1>6, <2>1
  <2>2. CASE i # n
    <3>1. i \in 1..Len(p.got)
      BY <1>2, <1>3, <2>2
    <3>2. Readable(i) /\ p.got[i] = Message(i, LineKind(cells, i))
      BY <3>1, Zenon DEF HasLines
    <3> QED
      BY <1>6, <3>1, <3>2
  <2> QED
    BY <2>1, <2>2
<1>10. HasLines(q)
  BY <1>6, <1>7, <1>8, <1>9 DEF HasLines
<1> QED
  BY <1>1, <1>6, <1>8, <1>10

\* And with the end.
LEMMA ReceiveEnd ==
    ASSUME NEW p, HasLines(p), NEW m, m.kind \in Ends
    PROVE  LET q == Receive(p, m)
           IN  /\ HasLines(q) /\ q.got = p.got /\ q.doing = "done" /\ q.ended = m.kind
               /\ q.waiting = p.waiting
<1>1. PICK q : q = Receive(p, m)
  OBVIOUS
<1>2. p \in PageRecords
  BY DEF HasLines
<1>3. q = [p EXCEPT !.ended = m.kind, !.doing = "done"]
  BY <1>1 DEF Receive
<1>4. /\ q \in PageRecords /\ q.got = p.got /\ q.last = p.last /\ q.doing = "done"
      /\ q.ended = m.kind /\ q.waiting = p.waiting
  BY <1>2, <1>3 DEF PageRecords, PageStates
<1>5. HasLines(q)
  BY <1>4 DEF HasLines
<1> QED
  BY <1>1, <1>4, <1>5

\* The file's invariant is about the file only.
LEMMA SameFile == ASSUME FileInv, UNCHANGED journal, lost' = lost PROVE FileInv'
<1>1. cells' = cells /\ run' = run /\ there' = there /\ quiet' = quiet /\ listed' = listed
  BY DEF journal
<1>2. FlagTypes'
  BY <1>1, Zenon DEF FileInv, FlagTypes
<1> QED
  BY <1>1, <1>2 DEF FileInv

\* A page that has the first lines has them while the file does not change.
LEMMA SameLines ==
    ASSUME UNCHANGED journal, NEW q, HasLines(q), page' = q PROVE HasLines(page)'
<1>1. cells' = cells /\ run' = run
  BY DEF journal
<1>2. \A i : Readable(i)' <=> Readable(i)
  BY <1>1 DEF Readable
<1> QED
  BY <1>1, <1>2 DEF HasLines

\* What is queued, message by message.
LEMMA Queue ==
    ASSUME JournalInv, NEW k \in 1..Len(out)
    PROVE  /\ out[k] \in Messages
           /\ out[k].kind \in Ends =>
                /\ k = Len(out) /\ tail.done
                /\ out[k].kind = "end finished" =>
                        run = "ended" /\ Len(page.got) + k = Lines(cells) + 1
           /\ out[k].kind \notin Ends =>
                /\ Readable(Len(page.got) + k)
                /\ out[k] = Message(Len(page.got) + k, LineKind(cells, Len(page.got) + k))
<1>1. out[k] \in Messages
  BY JournalTypes
<1> QED
  BY <1>1 DEF JournalInv, OutInv

\* A stream's message reaches the page.
LEMMA DeliverKeeps == ASSUME JournalInv, Deliver PROVE JournalInv'
<1>1. /\ page.doing = "stream" /\ out # <<>> /\ page' = Receive(page, Head(out)) /\ out' = Tail(out)
      /\ UNCHANGED journal /\ tail' = tail /\ lost' = lost
  BY DEF Deliver
<1>2. /\ out \in Seq(Messages) /\ Len(out) \in Nat /\ Len(out) > 0 /\ Head(out) = out[1]
      /\ Tail(out) \in Seq(Messages) /\ Len(Tail(out)) = Len(out) - 1
      /\ \A k \in 1..(Len(out) - 1) : Tail(out)[k] = out[k + 1]
      /\ Len(page.got) \in Nat /\ Lines(cells) \in Nat
  BY <1>1, JournalTypes
<1>3. /\ cells' = cells /\ run' = run /\ there' = there
  BY <1>1 DEF journal
<1>4. HasLines(page) /\ ~page.waiting /\ page.ended # "end finished"
  BY <1>1 DEF JournalInv, PageInv
<1>5. FileInv'
  BY <1>1, SameFile DEF JournalInv
<1>6. PICK m : m = out[1]
  OBVIOUS
<1>7. 1 \in 1..Len(out)
  BY <1>2
<1>8. CASE m.kind \in Ends
  <2>1. Len(out) = 1
        /\ (m.kind = "end finished" => run = "ended" /\ Len(page.got) + 1 = Lines(cells) + 1)
    BY <1>6, <1>7, <1>8, Queue
  <2>2. /\ HasLines(page)' /\ page'.got = page.got /\ page'.doing = "done"
        /\ page'.ended = m.kind /\ ~page'.waiting
    <3>1. PICK q : q = Receive(page, m)
      OBVIOUS
    <3>2. /\ HasLines(q) /\ q.got = page.got /\ q.doing = "done" /\ q.ended = m.kind
          /\ q.waiting = page.waiting
      BY <1>4, <1>8, <3>1, ReceiveEnd
    <3>3. page' = q
      BY <1>1, <1>2, <1>6, <3>1
    <3> QED
      BY <1>1, <1>4, <3>2, <3>3, SameLines
  <2>3. PageInv'
    <3>1. m.kind = "end finished" => run = "ended" /\ Len(page.got) = Lines(cells)
      <4>1. Len(page.got) + 1 = Lines(cells) + 1 => Len(page.got) = Lines(cells)
        BY <1>2
      <4> QED
        BY <2>1, <4>1, Zenon
    <3> QED
      BY <1>3, <2>2, <3>1 DEF PageInv
  <2>4. TailInv'
    BY <1>1, <1>3, <2>2 DEF JournalInv, TailInv
  <2>5. out' \in Seq(Messages) /\ Len(out') = 0
    <3>1. Len(Tail(out)) = Len(out) - 1 /\ Len(out) = 1
      BY <1>2, <2>1, Zenon
    <3> QED
      BY <1>1, <1>2, <3>1
  <2>6. OutInv'
    <3>1. \A k \in 1..0 : FALSE
      OBVIOUS
    <3>2. out' = <<>>
      BY <2>5
    <3>3. page'.doing \notin Connected
      BY <2>2 DEF Connected
    <3> QED
      BY <2>5, <3>1, <3>2, <3>3, Zenon DEF OutInv
  <2> QED
    BY <1>5, <2>3, <2>4, <2>6 DEF JournalInv
<1>9. CASE m.kind \notin Ends
  <2>1. PICK n : n = Len(page.got) + 1
    OBVIOUS
  <2>2. Readable(n) /\ m = Message(n, LineKind(cells, n)) /\ m \in Messages
    BY <1>6, <1>7, <1>9, <2>1, Queue
  <2>3. /\ HasLines(page)' /\ Len(page'.got) = n /\ page'.doing = "stream"
        /\ page'.ended = page.ended /\ ~page'.waiting
    <3>1. PICK q : q = Receive(page, m)
      OBVIOUS
    <3>2. /\ HasLines(q) /\ Len(q.got) = n /\ q.doing = page.doing /\ q.ended = page.ended
          /\ q.waiting = page.waiting
      BY <1>4, <1>9, <2>1, <2>2, <3>1, ReceiveLine
    <3>3. page' = q
      BY <1>1, <1>2, <1>6, <3>1
    <3> QED
      BY <1>1, <1>4, <3>2, <3>3, SameLines
  <2>4. PageInv'
    BY <1>4, <2>3 DEF PageInv
  <2>5. TailInv'
    <3>1. tail.since <= n
      BY <1>2, <2>1 DEF JournalInv, TailInv, TailStates
    <3> QED
      BY <1>1, <1>3, <2>3, <3>1 DEF JournalInv, TailInv
  <2>6. OutInv'
    <3>1. NextLine' = NextLine
      BY <1>1 DEF NextLine
    <3>2. ~tail.done => Len(page'.got) + Len(out') = NextLine'
      <4>1. ~tail.done => Len(page.got) + Len(out) = NextLine
        BY <1>1 DEF JournalInv, OutInv, Connected
      <4> QED
        BY <1>1, <1>2, <2>1, <2>3, <3>1, <4>1
    <3>3. ASSUME NEW k \in 1..Len(out'), out'[k].kind \in Ends
          PROVE  /\ k = Len(out') /\ tail.done
                 /\ out'[k].kind = "end finished" =>
                        run = "ended" /\ Len(page'.got) + k = Lines(cells) + 1
      <4>1. k + 1 \in 1..Len(out) /\ out'[k] = out[k + 1]
        BY <1>1, <1>2
      <4>2. /\ k + 1 = Len(out) /\ tail.done
            /\ out[k + 1].kind = "end finished" =>
                    run = "ended" /\ Len(page.got) + (k + 1) = Lines(cells) + 1
        BY <3>3, <4>1, Queue
      <4>3. k \in Nat /\ Len(out') = Len(out) - 1
        BY <1>1, <1>2
      <4>4. k = Len(out') /\ Len(page'.got) + k = Len(page.got) + (k + 1)
        <5>1. Len(page'.got) = Len(page.got) + 1 /\ Len(page.got) \in Nat /\ Len(out) \in Nat
          BY <1>2, <2>1, <2>3, Zenon
        <5>2. k + 1 = Len(out)
          BY <4>2, Zenon
        <5>3. PICK a, b, c, d : /\ a = Len(page.got) /\ b = Len(page'.got) /\ c = Len(out)
                                /\ d = Len(out')
          OBVIOUS
        <5>4. a \in Nat /\ c \in Nat /\ b = a + 1 /\ k + 1 = c /\ d = c - 1 /\ k \in Nat
          BY <4>3, <5>1, <5>2, <5>3, Zenon
        <5>5. k = d /\ b + k = a + (k + 1)
          BY <5>4
        <5> QED
          BY <5>3, <5>5, Zenon
      <4> QED
        BY <4>1, <4>2, <4>4
    <3>4. ASSUME NEW k \in 1..Len(out'), out'[k].kind \notin Ends
          PROVE  LET i == Len(page'.got) + k
                 IN  Readable(i) /\ out'[k] = Message(i, LineKind(cells, i))
      <4>1. k + 1 \in 1..Len(out) /\ out'[k] = out[k + 1]
        BY <1>1, <1>2
      <4>2. PICK i : i = Len(page.got) + (k + 1)
        OBVIOUS
      <4>3. Readable(i) /\ out[k + 1] = Message(i, LineKind(cells, i))
        BY <3>4, <4>1, <4>2, Queue
      <4>4. i = Len(page'.got) + k
        <5>1. k \in Nat
          BY <1>1, <1>2
        <5> QED
          <6>1. Len(page'.got) = Len(page.got) + 1 /\ Len(page.got) \in Nat
            BY <1>2, <2>1, <2>3, Zenon
          <6>2. PICK a, b : a = Len(page.got) /\ b = Len(page'.got)
            OBVIOUS
          <6>3. a \in Nat /\ b = a + 1 /\ i = a + (k + 1)
            BY <4>2, <6>1, <6>2, Zenon
          <6>4. i = b + k
            BY <5>1, <6>3
          <6> QED
            BY <6>2, <6>4, Zenon
      <4> QED
        BY <4>1, <4>3, <4>4
    <3>5. \A i : Readable(i)' <=> Readable(i)
      BY <1>3 DEF Readable
    <3>6. out' \in Seq(Messages) /\ page'.doing \in Connected
      BY <1>1, <1>2, <2>3 DEF Connected
    <3> QED
      BY <1>1, <1>3, <3>2, <3>3, <3>4, <3>5, <3>6 DEF OutInv
  <2> QED
    BY <1>5, <2>4, <2>5, <2>6 DEF JournalInv
<1> QED
  BY <1>8, <1>9

\* Adding one tells numbers apart.
LEMMA SameNumber == \A a, b \in Nat : a + 1 = b + 1 => a = b
  OBVIOUS

\* The answer of a poll, message by message.
LEMMA AnswerUnfolds ==
    ASSUME JournalInv, Answered, ~page.waiting
    PROVE  \E f : /\ f = [k \in 0..Len(out) |-> IF k = 0 THEN [page EXCEPT !.doing = "poll"]
                                                ELSE Receive(f[k - 1], out[k])]
                  /\ page' = f[Len(out)]
<1> DEFINE Step(f, k) == IF k = 0 THEN [page EXCEPT !.doing = "poll"] ELSE Receive(f[k - 1], out[k])
           S == {m \in Nat : \E f : f = [k \in 0..m |-> Step(f, k)]}
           d == CHOOSE f : f = [k \in 0..Len(out) |-> Step(f, k)]
<1>1. 0 \in S
  <2>1. PICK f : f = [k \in 0..0 |-> [page EXCEPT !.doing = "poll"]]
    OBVIOUS
  <2>2. \A k \in 0..0 : Step(f, k) = [page EXCEPT !.doing = "poll"]
    OBVIOUS
  <2>3. f = [k \in 0..0 |-> Step(f, k)]
    BY <2>1, <2>2, Zenon
  <2> QED
    BY <2>3
<1>2. ASSUME NEW m \in Nat, m \in S PROVE m + 1 \in S
  <2>1. PICK f : f = [k \in 0..m |-> Step(f, k)]
    BY <1>2
  <2>2. PICK g : g = [k \in 0..(m + 1) |-> IF k = m + 1 THEN Step(f, k) ELSE f[k]]
    OBVIOUS
  <2>3. \A k \in 0..m : g[k] = f[k] /\ f[k] = Step(f, k)
    <3>1. \A k \in 0..m : k \in 0..(m + 1) /\ k # m + 1
      OBVIOUS
    <3>2. \A k \in 0..m : g[k] = f[k]
      BY <2>2, <3>1
    <3>3. \A k \in 0..m : f[k] = Step(f, k)
      BY <2>1, Zenon
    <3> QED
      BY <3>2, <3>3
  <2>4. \A k \in 0..(m + 1) : Step(g, k) = Step(f, k)
    <3> SUFFICES ASSUME NEW k \in 0..(m + 1), k # 0 PROVE g[k - 1] = f[k - 1]
      BY Zenon
    <3> QED
      BY <2>3
  <2>5. \A k \in 0..(m + 1) : g[k] = Step(g, k)
    <3> SUFFICES ASSUME NEW k \in 0..(m + 1) PROVE g[k] = Step(g, k)
      OBVIOUS
    <3> HIDE DEF Step
    <3>1. CASE k = m + 1
      BY <2>2, <2>4, <3>1
    <3>2. CASE k # m + 1
      BY <2>2, <2>3, <2>4, <3>2
    <3> QED
      BY <3>1, <3>2
  <2>6. g = [k \in 0..(m + 1) |-> g[k]]
    BY <2>2
  <2>7. g = [k \in 0..(m + 1) |-> Step(g, k)]
    <3> HIDE DEF Step
    <3> QED
      BY <2>5, <2>6, Zenon
  <2> QED
    BY <2>7
<1>3. Len(out) \in S
  <2>1. Len(out) \in Nat
    BY JournalTypes
  <2> HIDE DEF S
  <2> QED
    BY <1>1, <1>2, <2>1, SetInduction
<1>4. d = [k \in 0..Len(out) |-> Step(d, k)]
  <2> HIDE DEF Step
  <2> QED
    BY <1>3
<1>5. page' = d[Len(out)]
  BY DEF Answered
<1> HIDE DEF d
<1> QED
  BY <1>4, <1>5, Zenon

\* Answered: the poll's lines are shown in order, up to the end of the run if it has one.
LEMMA AnsweredKeeps == ASSUME JournalInv, Answered PROVE JournalInv'
<1>1. page.doing = "asked" /\ Dropped /\ UNCHANGED journal /\ lost' = lost /\ lost' \in 0..MaxLost
  BY DEF Answered, JournalInv, FileInv, FlagTypes
<1>2. /\ page \in PageRecords /\ HasLines(page) /\ page.ended # "end finished"
      /\ page.waiting => page.got = <<>>
  BY <1>1, JournalTypes DEF JournalInv, PageInv
<1>6. Len(page.got) \in Nat /\ Len(out) \in Nat /\ Lines(cells) \in Nat
  BY JournalTypes
<1>3. /\ cells' = cells /\ run' = run /\ there' = there /\ tail' = NewTail(0) /\ out' = <<>>
  BY <1>1 DEF journal, Dropped
<1>4. CASE page.waiting
  <2>1. page' = [page EXCEPT !.doing = "connect", !.waiting = FALSE]
    BY <1>4 DEF Answered
  <2>2. PageInv' /\ page'.got = page.got /\ page'.doing = "connect"
    BY <1>1, <1>2, <1>4, <2>1, PageMoves DEF PageStates
  <2> QED
    <3>1. 0 <= Len(page'.got) /\ page'.doing \notin Connected /\ 0 \in Nat
      BY <1>6, <2>2 DEF Connected
    <3> QED
      BY <1>1, <1>3, <2>2, <3>1, NewReader
<1>5. CASE ~page.waiting
  <2>1. PICK f : /\ f = [k \in 0..Len(out) |-> IF k = 0 THEN [page EXCEPT !.doing = "poll"]
                                               ELSE Receive(f[k - 1], out[k])]
                 /\ page' = f[Len(out)]
    BY <1>5, AnswerUnfolds
  \* A page that got k messages.
  <2> DEFINE Going(p, k) == /\ HasLines(p) /\ Len(p.got) = Len(page.got) + k /\ p.doing = "poll"
                            /\ p.ended = page.ended /\ p.waiting = FALSE
             Over(p, k) == /\ HasLines(p) /\ Len(p.got) + 1 = Len(page.got) + k
                           /\ p.doing = "done" /\ p.ended = out[k].kind /\ p.waiting = FALSE
                           /\ k = Len(out) /\ out[k].kind \in Ends /\ k \in 1..Len(out)
             S == {k \in Nat : k <= Len(out) => Going(f[k], k) \/ Over(f[k], k)}
  <2>2. 0 \in S
    <3>1. PICK p : p = f[0]
      OBVIOUS
    <3>2. p = [page EXCEPT !.doing = "poll"]
      <4>1. 0 \in 0..Len(out)
        BY <1>6
      <4> QED
        BY <2>1, <3>1, <4>1
    <3>3. /\ p \in PageRecords /\ p.got = page.got /\ p.last = page.last /\ p.doing = "poll"
          /\ p.ended = page.ended /\ p.waiting = page.waiting
      BY <1>2, <3>2 DEF PageRecords, PageStates
    <3>4. HasLines(p)
      BY <1>2, <3>3 DEF HasLines
    <3>5. Going(p, 0)
      <4>1. page.waiting = FALSE
        BY <1>2, <1>5 DEF PageRecords
      <4>2. Len(p.got) = Len(page.got) + 0
        BY <1>6, <3>3
      <4> QED
        BY <3>3, <3>4, <4>1, <4>2
    <3> QED
      BY <3>1, <3>5
  <2>3. ASSUME NEW k \in Nat, k \in S PROVE k + 1 \in S
    <3> HIDE DEF Going, Over
    <3> SUFFICES ASSUME k + 1 <= Len(out) PROVE Going(f[k + 1], k + 1) \/ Over(f[k + 1], k + 1)
      OBVIOUS
    <3>1. k + 1 \in 0..Len(out) /\ k + 1 # 0 /\ (k + 1) - 1 = k /\ k + 1 \in 1..Len(out)
          /\ k < Len(out)
          /\ k <= Len(out) /\ k # Len(out)
      BY <1>6
    <3>2. f[k + 1] = Receive(f[k], out[k + 1])
      BY <2>1, <3>1
    <3>3. Going(f[k], k)
      <4>1. Going(f[k], k) \/ Over(f[k], k)
        BY <2>3, <3>1
      <4> QED
        BY <3>1, <4>1 DEF Over
    <3>4. PICK p : p = f[k]
      OBVIOUS
    <3>5. PICK q : q = Receive(p, out[k + 1])
      OBVIOUS
    <3>6. /\ HasLines(p) /\ Len(p.got) = Len(page.got) + k /\ p.doing = "poll"
          /\ p.ended = page.ended /\ p.waiting = FALSE
      BY <3>3, <3>4 DEF Going
    <3>7. CASE out[k + 1].kind \in Ends
      <4>1. k + 1 = Len(out)
        BY <3>1, <3>7, Queue
      <4>2. HasLines(q) /\ q.got = p.got /\ q.doing = "done" /\ q.ended = out[k + 1].kind
            /\ q.waiting = FALSE
        BY <3>5, <3>6, <3>7, ReceiveEnd
      <4>3. Len(q.got) + 1 = Len(page.got) + (k + 1)
        <5>1. PICK a, b : a = Len(page.got) /\ b = Len(q.got)
          OBVIOUS
        <5>2. a \in Nat /\ b = a + k
          BY <1>6, <3>6, <4>2, <5>1, Zenon
        <5>3. b + 1 = a + (k + 1)
          BY <5>2
        <5> QED
          BY <5>1, <5>3, Zenon
      <4>4. Over(q, k + 1)
        BY <3>1, <3>7, <4>1, <4>2, <4>3 DEF Over
      <4> QED
        BY <3>2, <3>4, <3>5, <4>4
    <3>8. CASE out[k + 1].kind \notin Ends
      <4>1. PICK n : n = Len(page.got) + (k + 1)
        OBVIOUS
      <4>2. Readable(n) /\ out[k + 1] = Message(n, LineKind(cells, n)) /\ out[k + 1] \in Messages
        BY <3>1, <3>8, <4>1, Queue
      <4>3. n = Len(p.got) + 1
        <5>1. PICK a, b : a = Len(page.got) /\ b = Len(p.got)
          OBVIOUS
        <5>2. a \in Nat /\ b = a + k /\ n = a + (k + 1)
          BY <1>6, <3>6, <4>1, <5>1, Zenon
        <5>3. n = b + 1
          BY <5>2
        <5> QED
          BY <5>1, <5>3, Zenon
      <4>4. HasLines(q) /\ Len(q.got) = n /\ q.doing = p.doing /\ q.ended = p.ended
            /\ q.waiting = p.waiting
        BY <3>5, <3>6, <3>8, <4>2, <4>3, ReceiveLine
      <4>5. Going(q, k + 1)
        BY <3>6, <4>1, <4>4 DEF Going
      <4> QED
        BY <3>2, <3>4, <3>5, <4>5
    <3> QED
      BY <3>7, <3>8
  <2>4. Len(out) \in S
    <3> HIDE DEF S
    <3> QED
      BY <1>6, <2>2, <2>3, SetInduction
  <2>5. PICK q : q = f[Len(out)] /\ page' = q
    BY <2>1
  <2>6. Going(q, Len(out)) \/ Over(q, Len(out))
    <3> HIDE DEF Going, Over
    <3>1. Len(out) <= Len(out)
      BY <1>6
    <3> QED
      BY <2>4, <2>5, <3>1
  <2>7. HasLines(q) /\ q.waiting = FALSE /\ q.doing \in {"poll", "done"} /\ Len(q.got) \in Nat
    <3>1. HasLines(q) /\ q.waiting = FALSE /\ q.doing \in {"poll", "done"}
      BY <2>6
    <3>2. q.got \in Seq(Messages)
      BY <3>1 DEF HasLines, PageRecords
    <3> QED
      BY <3>1, <3>2
  <2>8. HasLines(page)'
    BY <1>1, <2>5, <2>7, SameLines
  <2>9. q.ended = "end finished" => q.doing = "done" /\ run = "ended" /\ Len(q.got) = Lines(cells)
    <3> SUFFICES ASSUME q.ended = "end finished"
                 PROVE  q.doing = "done" /\ run = "ended" /\ Len(q.got) = Lines(cells)
      OBVIOUS
    <3>1. Over(q, Len(out))
      BY <1>2, <2>6
    <3>2. run = "ended" /\ Len(page.got) + Len(out) = Lines(cells) + 1
      BY <3>1, Queue
    <3>3. Len(q.got) + 1 = Lines(cells) + 1
      BY <3>1, <3>2
    <3>4. Len(q.got) = Lines(cells)
      <4>1. PICK a, b : a = Len(q.got) /\ b = Lines(cells)
        OBVIOUS
      <4>2. a \in Nat /\ b \in Nat /\ a + 1 = b + 1
        BY <1>6, <2>7, <3>3, <4>1, Zenon
      <4> QED
        BY <4>1, <4>2, SameNumber, Zenon
    <3> QED
      BY <3>1, <3>2, <3>4
  <2>10. PageInv'
    BY <1>3, <2>5, <2>7, <2>8, <2>9 DEF PageInv
  <2> QED
    BY <1>1, <1>3, <2>5, <2>7, <2>10, NewReader DEF Connected
<1> QED
  BY <1>4, <1>5

-----------------------------------------------------------------------------
\* The messages of a read go on where the ones before it stop.
LEMMA MadeFollows ==
    ASSUME JournalInv, page.doing \in Connected, ~tail.done, NEW budget, NEW t, TakenOK(budget, t)
    PROVE  LET y == out \o t.made
           IN  /\ y \in Seq(Messages) /\ Len(y) \in Nat
               /\ Len(page.got) + Len(y) = (IF t.line > tail.since THEN t.line ELSE tail.since)
               /\ \A k \in 1..Len(y) :
                    /\ y[k].kind \notin Ends /\ Readable(Len(page.got) + k)
                    /\ y[k] = Message(Len(page.got) + k, LineKind(cells, Len(page.got) + k))
<1>1. PICK a, b, g, y, m : /\ a = Len(out) /\ m = t.made /\ b = Len(m) /\ g = Len(page.got)
                           /\ y = out \o m
  OBVIOUS
<1>2. t \in TakeStates /\ MadeIs(m, t.line)
  BY <1>1 DEF TakenOK
<1>3. m \in Seq(Messages) /\ t.line \in Nat /\ t.used \in Nat
  BY <1>1, <1>2 DEF TakeStates
<1>4. out \in Seq(Messages) /\ a \in Nat /\ g \in Nat /\ b \in Nat /\ Lines(cells) \in Nat
  BY <1>1, <1>3, JournalTypes
<1>5. /\ y \in Seq(Messages) /\ Len(y) = a + b
      /\ \A k \in 1..a : y[k] = out[k]
      /\ \A k \in (a + 1)..(a + b) : y[k] = m[k - a]
  BY <1>1, <1>3, <1>4
<1>6. NextLine \in Nat /\ NextLine >= tail.since /\ tail.since \in Nat
  BY NextLineType DEF JournalInv, TailInv, TailStates
<1>7. NextLine = g + a
  BY <1>1 DEF JournalInv, OutInv
<1>8. /\ b + NextLine = (IF t.line > tail.since THEN t.line ELSE tail.since)
      /\ \A i \in 1..b : /\ m[i] = Message(NextLine + i, LineKind(cells, NextLine + i))
                         /\ m[i].kind \in Kinds
  BY <1>1, <1>2 DEF MadeIs
<1>9. t.line <= Lines(cells)
  <2>1. t.line = LinesIn(cells, tail.off + t.used) /\ tail.off + t.used <= Len(cells)
    BY DEF TakenOK
  <2>2. tail.off + t.used \in Nat /\ Len(cells) \in Nat
    BY <1>3, JournalTypes
  <2> QED
    BY <2>1, <2>2, CountGrows DEF Lines
<1>10. ASSUME NEW k \in 1..(a + b)
       PROVE  /\ y[k].kind \notin Ends /\ Readable(g + k)
              /\ y[k] = Message(g + k, LineKind(cells, g + k))
  <2>1. CASE k <= a
    <3>1. k \in 1..a /\ k \in 1..Len(out)
      BY <1>1, <1>4, <2>1
    <3>2. out[k].kind \notin Ends
      BY <3>1, Queue
    <3>3. Readable(g + k) /\ out[k] = Message(g + k, LineKind(cells, g + k))
      BY <1>1, <3>1, <3>2, Queue
    <3> QED
      BY <1>5, <3>1, <3>2, <3>3
  <2>2. CASE ~(k <= a)
    <3>1. PICK i : i = k - a
      OBVIOUS
    <3>2. i \in 1..b /\ k \in (a + 1)..(a + b) /\ NextLine + i = g + k /\ i \in Nat /\ i > 0
      BY <1>4, <1>7, <2>2, <3>1
    <3>3. y[k] = m[i] /\ m[i] = Message(g + k, LineKind(cells, g + k)) /\ m[i].kind \in Kinds
      BY <1>5, <1>8, <3>1, <3>2
    <3>4. g + k <= t.line
      <4>1. b + NextLine > tail.since
        BY <1>4, <1>6, <3>2
      <4>2. b + NextLine = t.line
        <5>1. b + NextLine = (IF t.line > tail.since THEN t.line ELSE tail.since)
          BY <1>8
        <5> QED
          BY <1>3, <1>4, <1>6, <4>1, <5>1
      <4> QED
        BY <1>3, <1>4, <1>6, <3>2, <4>2
    <3>5. Readable(g + k)
      <4>1. g + k \in Nat
        BY <1>4
      <4>2. g + k <= Lines(cells)
        BY <1>3, <1>4, <1>9, <3>4, <4>1
      <4> QED
        BY <4>2 DEF Readable
    <3>6. \A x \in Kinds : x \notin Ends
      BY DEF Kinds, Ends
    <3> QED
      BY <3>3, <3>5, <3>6
  <2> QED
    BY <2>1, <2>2
<1>11. g + Len(y) = (IF t.line > tail.since THEN t.line ELSE tail.since)
  <2>1. g + Len(y) = b + NextLine
    BY <1>4, <1>5, <1>6, <1>7
  <2> QED
    BY <1>8, <2>1
<1>12. Len(y) \in Nat
  BY <1>4, <1>5
<1> QED
  BY <1>1, <1>5, <1>10, <1>11, <1>12

\* A reader that ends has read all the lines; a line that is cut short then stays so.
LEMMA EndOfRead ==
    ASSUME JournalInv, NEW budget, NEW t, TakenOK(budget, t), ~More(budget, t), t.finished \/ quiet
    PROVE  /\ t.line = Lines(cells)
           /\ t.finished => Trailing(t) = <<>> /\ tail.since <= Lines(cells) /\ run = "ended"
           /\ Trailing(t) # <<>> =>
                /\ Trailing(t) = <<Message(t.line + 1, "bad")>> /\ t.line >= tail.since
                /\ MidLine(cells) /\ run = "ended"
<1>1. PICK off, len : off = tail.off + t.used /\ len = Len(cells)
  OBVIOUS
<1>2. /\ t \in TakeStates /\ t.since = tail.since /\ off <= len
      /\ t.line = LinesIn(cells, off)
      /\ IF t.overlong THEN Inside(cells, off, Chunk) ELSE off > 0 => IsEnd(cells[off])
      /\ t.finished => run = "ended" /\ off = len /\ len > 0 /\ cells[len] = "finished"
      /\ \A j \in (off + 1)..len : ~IsEnd(cells[j])
  BY <1>1 DEF TakenOK
<1>3. /\ off \in Nat /\ len \in Nat /\ t.line \in Nat /\ tail.since \in Nat
      /\ t.overlong \in BOOLEAN /\ t.finished \in BOOLEAN /\ Lines(cells) \in Nat
  <2>1. t.used \in Nat /\ t.line \in Nat /\ t.overlong \in BOOLEAN /\ t.finished \in BOOLEAN
    BY <1>2 DEF TakeStates
  <2>2. tail.off \in Nat /\ tail.since \in Nat
    BY DEF JournalInv, TailInv, TailStates
  <2> QED
    BY <1>1, <2>1, <2>2, JournalTypes
<1>4. t.line = Lines(cells)
  BY <1>1, <1>2, <1>3, CountSame DEF Lines
<1>5. t.overlong => off > 0 /\ ~IsEnd(cells[off])
  BY <1>2, <1>3, JournalAssumption DEF Inside
<1>6. Trailing(t) = IF (len > off \/ t.overlong) /\ t.line + 1 > tail.since
                    THEN <<Message(t.line + 1, "bad")>> ELSE <<>>
  BY <1>1, <1>2 DEF Trailing
<1>7. ASSUME t.finished PROVE Trailing(t) = <<>> /\ tail.since <= Lines(cells) /\ run = "ended"
  <2>1. off = len /\ cells[len] = "finished" /\ run = "ended" /\ len > 0
    BY <1>2, <1>7
  <2>2. ~t.overlong
    BY <1>5, <2>1 DEF IsEnd
  <2>3. Trailing(t) = <<>>
    BY <1>3, <1>6, <2>1, <2>2
  <2>4. ~MidLine(cells)
    BY <1>1, <2>1 DEF MidLine, IsEnd
  <2>5. tail.since <= Lines(cells)
    <3>1. CASE tail.since = 0
      BY <1>3, <3>1
    <3>2. CASE tail.since # 0
      <4>1. tail.since <= Len(page.got)
        BY DEF JournalInv, TailInv
      <4>2. tail.since \in 1..Len(page.got)
        BY <1>3, <3>2, <4>1, JournalTypes
      <4>3. Readable(tail.since)
        BY <4>2, Zenon DEF JournalInv, PageInv, HasLines
      <4> QED
        BY <2>4, <4>3 DEF Readable
    <3> QED
      BY <3>1, <3>2
  <2> QED
    BY <2>1, <2>3, <2>5
<1>8. ASSUME Trailing(t) # <<>>
      PROVE  /\ Trailing(t) = <<Message(t.line + 1, "bad")>> /\ t.line >= tail.since
             /\ MidLine(cells) /\ run = "ended"
  <2>1. /\ Trailing(t) = <<Message(t.line + 1, "bad")>> /\ (len > off \/ t.overlong)
        /\ t.line + 1 > tail.since
    BY <1>6, <1>8
  <2>2. t.line >= tail.since
    BY <1>3, <2>1
  <2>3. len > 0 /\ ~IsEnd(cells[len])
    <3>1. CASE len > off
      <4>1. len \in (off + 1)..len
        BY <1>3, <3>1
      <4> QED
        BY <1>2, <1>3, <3>1, <4>1
    <3>2. CASE ~(len > off)
      <4>1. len = off
        BY <1>2, <1>3, <3>2
      <4> QED
        BY <1>5, <2>1, <3>2, <4>1
    <3> QED
      BY <3>1, <3>2
  <2>4. MidLine(cells)
    BY <1>1, <2>3 DEF MidLine
  <2>5. quiet
    BY <1>7, <1>8
  <2>6. run = "ended"
    BY <2>4, <2>5 DEF JournalInv, FileInv
  <2> QED
    BY <2>1, <2>2, <2>4, <2>6
<1> QED
  BY <1>4, <1>7, <1>8

\* A read, of a stream or of a poll.
LEMMA ReadKeeps ==
    ASSUME JournalInv, page.doing \in Connected, ~tail.done, NEW budget \in Nat \ {0}, Read(budget),
           UNCHANGED journal, page' = page, lost' = lost
    PROVE  JournalInv'
<1>1. /\ cells' = cells /\ run' = run /\ there' = there
      /\ \A i : Readable(i)' <=> Readable(i)
  <2>1. cells' = cells /\ run' = run /\ there' = there
    BY DEF journal
  <2> QED
    BY <2>1 DEF Readable
<1>2. FileInv' /\ PageInv'
  <2>1. FileInv'
    BY SameFile DEF JournalInv
  <2>2. HasLines(page)'
    BY SameLines DEF JournalInv, PageInv
  <2> QED
    BY <1>1, <2>1, <2>2 DEF JournalInv, PageInv
<1>3. /\ out \in Seq(Messages) /\ Len(out) \in Nat /\ Len(page.got) \in Nat /\ Lines(cells) \in Nat
      /\ tail \in TailStates
  BY JournalTypes
<1>4. CASE ReadReplaced
  <2>1. tail' = [tail EXCEPT !.done = TRUE, !.more = FALSE]
        /\ out' = Append(out, End("end replaced"))
    BY <1>4 DEF ReadReplaced
  <2>2. /\ tail' \in TailStates /\ tail'.off = tail.off /\ tail'.line = tail.line
        /\ tail'.since = tail.since /\ tail'.overlong = tail.overlong
        /\ tail'.finished = tail.finished /\ tail'.done = TRUE /\ tail'.more = FALSE
    BY <1>3, <2>1 DEF TailStates
  <2>3. TailInv'
    BY <1>1, <2>2 DEF JournalInv, TailInv
  <2>4. PICK e : e = End("end replaced")
    OBVIOUS
  <2>5. e \in Messages /\ e.kind = "end replaced" /\ e.kind \in Ends
    BY <2>4 DEF End, Messages, Ends
  <2>6. /\ out' \in Seq(Messages) /\ Len(out') = Len(out) + 1 /\ out'[Len(out) + 1] = e
        /\ \A k \in 1..Len(out) : out'[k] = out[k]
    <3>1. out' = Append(out, e)
      BY <2>1, <2>4, Zenon
    <3>2. out \in Seq(Messages) /\ e \in Messages
      BY <1>3, <2>5
    <3> QED
      BY <3>1, <3>2, AppendProperties
  <2>7. ASSUME NEW k \in 1..Len(out')
        PROVE  \/ k = Len(out') /\ out'[k].kind = "end replaced"
               \/ /\ out'[k].kind \notin Ends /\ Readable(Len(page.got) + k)
                  /\ out'[k] = Message(Len(page.got) + k, LineKind(cells, Len(page.got) + k))
    <3>1. CASE k = Len(out) + 1
      BY <2>5, <2>6, <3>1
    <3>2. CASE k # Len(out) + 1
      <4>1. k \in 1..Len(out) /\ out'[k] = out[k]
        BY <1>3, <2>6, <3>2
      <4> QED
        BY <4>1, Queue
    <3> QED
      BY <3>1, <3>2
  <2>8. OutInv'
    <3>1. "end replaced" \in Ends /\ "end replaced" # "end finished"
      BY DEF Ends
    <3> QED
      BY <1>1, <2>2, <2>6, <2>7, <3>1 DEF OutInv
  <2> QED
    BY <1>2, <2>3, <2>8 DEF JournalInv
<1>5. CASE ReadGrown(budget)
  <2>1. PICK t, more : t = Taken(budget) /\ more = More(budget, t) /\ more \in BOOLEAN
    BY DEF More
  <2>2. PICK reason : reason = IF more THEN GoesOn ELSE Reason(t)
    OBVIOUS
  <2>3. /\ tail' = [tail EXCEPT !.opened = TRUE, !.off = @ + t.used, !.line = t.line,
                                !.overlong = t.overlong, !.finished = t.finished,
                                !.more = more, !.done = reason # GoesOn]
        /\ out' = Queued(t, reason)
    BY <1>5, <2>1, <2>2 DEF ReadGrown
  <2>4. TakenOK(budget, t)
    BY <2>1, TakenIs DEF JournalInv
  <2>5. /\ t \in TakeStates /\ t.used \in Nat /\ t.line \in Nat /\ t.overlong \in BOOLEAN
        /\ t.finished \in BOOLEAN
    BY <2>4 DEF TakenOK, TakeStates
  <2>6. /\ tail' \in TailStates /\ tail'.off = tail.off + t.used /\ tail'.line = t.line
        /\ tail'.since = tail.since /\ tail'.overlong = t.overlong
        /\ tail'.finished = t.finished /\ tail'.more = more /\ tail'.done = (reason # GoesOn)
    <3>1. (reason # GoesOn) \in BOOLEAN
      OBVIOUS
    <3>2. PICK done : done = (reason # GoesOn)
      OBVIOUS
    <3>3. tail' = [tail EXCEPT !.opened = TRUE, !.off = @ + t.used, !.line = t.line,
                               !.overlong = t.overlong, !.finished = t.finished,
                               !.more = more, !.done = done] /\ done \in BOOLEAN
      BY <2>3, <3>1, <3>2, Zenon
    <3>4. /\ tail' \in TailStates /\ tail'.off = tail.off + t.used /\ tail'.line = t.line
          /\ tail'.since = tail.since /\ tail'.overlong = t.overlong
          /\ tail'.finished = t.finished /\ tail'.more = more /\ tail'.done = done
      <4>1. more \in BOOLEAN /\ done \in BOOLEAN /\ tail \in TailStates
        BY <1>3, <2>1, <3>3, Zenon
      <4>2. PICK w : w = tail'
        OBVIOUS
      <4>3. w = [tail EXCEPT !.opened = TRUE, !.off = @ + t.used, !.line = t.line,
                             !.overlong = t.overlong, !.finished = t.finished,
                             !.more = more, !.done = done]
        BY <3>3, <4>2, Zenon
      <4>4. /\ w \in TailStates /\ w.off = tail.off + t.used /\ w.line = t.line
            /\ w.since = tail.since /\ w.overlong = t.overlong
            /\ w.finished = t.finished /\ w.more = more /\ w.done = done
        <5>1. PICK off, line, overlong, finished : /\ off = tail.off + t.used /\ line = t.line
                                                   /\ overlong = t.overlong /\ finished = t.finished
          OBVIOUS
        <5>2. /\ off \in Nat /\ line \in Nat /\ overlong \in BOOLEAN /\ finished \in BOOLEAN
          <6>1. tail.off \in Nat
            BY <4>1 DEF TailStates
          <6>2. t.used \in Nat /\ t.line \in Nat
            BY <2>5, Zenon
          <6>3. off \in Nat /\ line \in Nat
            BY <5>1, <6>1, <6>2
          <6> QED
            BY <2>5, <5>1, <6>3, Zenon
        <5>3. w = [tail EXCEPT !.opened = TRUE, !.off = off, !.line = line, !.overlong = overlong,
                               !.finished = finished, !.more = more, !.done = done]
          BY <4>3, <5>1
        <5>4. /\ w \in TailStates /\ w.off = off /\ w.line = line
              /\ w.since = tail.since /\ w.overlong = overlong
              /\ w.finished = finished /\ w.more = more /\ w.done = done
          BY <4>1, <5>2, <5>3 DEF TailStates
        <5> QED
          BY <5>1, <5>4, Zenon
      <4> QED
        BY <4>2, <4>4, Zenon
    <3> QED
      BY <3>2, <3>4, Zenon
  <2>7. more => reason = GoesOn
    BY <2>2
  <2>8. TailInv'
    <3>1. /\ tail.off + t.used <= Len(cells) /\ t.line = LinesIn(cells, tail.off + t.used)
          /\ IF t.overlong THEN Inside(cells, tail.off + t.used, Chunk)
             ELSE tail.off + t.used > 0 => IsEnd(cells[tail.off + t.used])
          /\ t.finished => /\ run = "ended" /\ tail.off + t.used = Len(cells) /\ Len(cells) > 0
                           /\ cells[Len(cells)] = "finished"
      BY <2>4 DEF TakenOK
    <3>2. tail.since <= Len(page.got)
      BY DEF JournalInv, TailInv
    <3>3. tail'.more => ~tail'.done
      BY <2>6, <2>7, Zenon
    <3> QED
      BY <1>1, <2>6, <3>1, <3>2, <3>3 DEF TailInv
  <2>9. PICK y : y = out \o t.made
    OBVIOUS
  <2>10. /\ y \in Seq(Messages) /\ Len(y) \in Nat
         /\ Len(page.got) + Len(y) = (IF t.line > tail.since THEN t.line ELSE tail.since)
         /\ \A k \in 1..Len(y) :
                /\ y[k].kind \notin Ends /\ Readable(Len(page.got) + k)
                /\ y[k] = Message(Len(page.got) + k, LineKind(cells, Len(page.got) + k))
    BY <2>4, <2>9, MadeFollows
  <2>11. CASE reason = GoesOn
    <3>1. out' = y
      BY <1>3, <2>3, <2>9, <2>10, <2>11 DEF Queued
    <3>2. NextLine' = (IF t.line > tail.since THEN t.line ELSE tail.since)
      BY <2>6 DEF NextLine
    <3>3. OutInv'
      BY <1>1, <2>10, <3>1, <3>2 DEF OutInv
    <3> QED
      BY <1>2, <2>8, <3>3 DEF JournalInv
  <2>12. CASE reason # GoesOn
    <3>1. /\ ~more /\ reason = Reason(t) /\ (t.finished \/ quiet)
          /\ reason = (IF t.finished THEN "end finished" ELSE "end stopped")
      BY <2>2, <2>12 DEF Reason
    <3>2. /\ t.line = Lines(cells)
          /\ t.finished => Trailing(t) = <<>> /\ tail.since <= Lines(cells) /\ run = "ended"
          /\ Trailing(t) # <<>> =>
                /\ Trailing(t) = <<Message(t.line + 1, "bad")>> /\ t.line >= tail.since
                /\ MidLine(cells) /\ run = "ended"
      BY <2>1, <2>4, <3>1, EndOfRead
    <3>3. PICK e : e = End(reason)
      OBVIOUS
    <3>4. e \in Messages /\ e.kind = reason /\ e.kind \in Ends
      BY <3>1, <3>3 DEF End, Messages, Ends
    <3>5. tail'.done
      BY <2>6, <2>12, Zenon
    <3>6. tail.since \in Nat
      BY <1>3 DEF TailStates
    <3>7. CASE Trailing(t) = <<>>
      <4>1. out' = Append(y, e)
        BY <1>3, <2>3, <2>9, <2>10, <2>12, <3>3, <3>4, <3>7 DEF Queued
      <4>2. /\ out' \in Seq(Messages) /\ Len(out') = Len(y) + 1 /\ out'[Len(y) + 1] = e
            /\ \A k \in 1..Len(y) : out'[k] = y[k]
        BY <2>10, <3>4, <4>1
      <4>3. ASSUME NEW k \in 1..Len(out')
            PROVE  \/ k = Len(out') /\ out'[k] = e /\ k = Len(y) + 1
                   \/ /\ out'[k].kind \notin Ends /\ Readable(Len(page.got) + k)
                      /\ out'[k] = Message(Len(page.got) + k, LineKind(cells, Len(page.got) + k))
        <5>1. CASE k = Len(y) + 1
          BY <4>2, <5>1
        <5>2. CASE k # Len(y) + 1
          <6>1. k \in 1..Len(y) /\ out'[k] = y[k]
            BY <2>10, <4>2, <5>2
          <6> QED
            BY <2>10, <6>1
        <5> QED
          BY <5>1, <5>2
      <4>4. e.kind = "end finished" => run = "ended"
            /\ Len(page.got) + (Len(y) + 1) = Lines(cells) + 1
        <5> SUFFICES ASSUME t.finished
                     PROVE  run = "ended" /\ Len(page.got) + (Len(y) + 1) = Lines(cells) + 1
          BY <3>1, <3>4
        <5>1. PICK g, n, l : g = Len(page.got) /\ n = Len(y) /\ l = Lines(cells)
          OBVIOUS
        <5>2. /\ g \in Nat /\ n \in Nat /\ l \in Nat /\ tail.since <= l
              /\ g + n = (IF l > tail.since THEN l ELSE tail.since)
          BY <1>3, <2>10, <3>2, <5>1, Zenon
        <5>3. g + (n + 1) = l + 1
          BY <3>6, <5>2
        <5> QED
          BY <3>2, <5>1, <5>3, Zenon
      <4>5. OutInv'
        BY <1>1, <3>4, <3>5, <4>2, <4>3, <4>4 DEF OutInv
      <4> QED
        BY <1>2, <2>8, <4>5 DEF JournalInv
    <3>8. CASE Trailing(t) # <<>>
      <4>1. PICK x : x = Message(t.line + 1, "bad")
        OBVIOUS
      <4>2. x \in Messages /\ x.kind = "bad" /\ x.kind \notin Ends
        BY <2>5, <4>1 DEF Message, Messages, Kinds, Ends
      <4>3. ~t.finished /\ t.line >= tail.since /\ MidLine(cells) /\ run = "ended"
            /\ Trailing(t) = <<x>>
        BY <3>2, <3>8, <4>1
      <4>4. PICK z : out' = y \o z /\ z = <<x>> \o <<e>>
        BY <2>3, <2>9, <2>12, <3>3, <4>3, Zenon DEF Queued
      <4>5. /\ out' \in Seq(Messages) /\ Len(out') = Len(y) + 2 /\ out'[Len(y) + 2] = e
            /\ out'[Len(y) + 1] = x
            /\ \A k \in 1..Len(y) : out'[k] = y[k]
        <5>1. z \in Seq(Messages) /\ Len(z) = 2 /\ z[1] = x /\ z[2] = e
          BY <3>4, <4>2, <4>4
        <5>2. y \in Seq(Messages) /\ Len(y) \in Nat
          BY <2>10
        <5>3. /\ y \o z \in Seq(Messages) /\ Len(y \o z) = Len(y) + 2
              /\ \A k \in 1..(Len(y) + 2) : (y \o z)[k] =
                     IF k <= Len(y) THEN y[k] ELSE z[k - Len(y)]
          <6>1. /\ y \o z \in Seq(Messages) /\ Len(y \o z) = Len(y) + Len(z)
                /\ \A k \in 1..(Len(y) + Len(z)) : (y \o z)[k] =
                       IF k <= Len(y) THEN y[k] ELSE z[k - Len(y)]
            BY <5>1, <5>2, ConcatProperties
          <6> QED
            BY <5>1, <6>1, Zenon
        <5>4. PICK n : n = Len(y)
          OBVIOUS
        <5>5. n \in Nat /\ (n + 2) - n = 2 /\ (n + 1) - n = 1 /\ ~(n + 1 <= n) /\ ~(n + 2 <= n)
              /\ n + 1 \in 1..(n + 2) /\ n + 2 \in 1..(n + 2)
                 /\ \A k \in 1..n : k \in 1..(n + 2) /\ k <= n
          BY <5>2, <5>4
        <5> QED
          BY <4>4, <5>1, <5>3, <5>4, <5>5
      <4>6. Len(page.got) + (Len(y) + 1) = t.line + 1
        <5>1. PICK g, n : g = Len(page.got) /\ n = Len(y)
          OBVIOUS
        <5>2. g \in Nat /\ n \in Nat /\ g + n = (IF t.line > tail.since THEN t.line ELSE tail.since)
          BY <1>3, <2>10, <5>1, Zenon
        <5>3. g + (n + 1) = t.line + 1
          BY <2>5, <3>6, <4>3, <5>2
        <5> QED
          BY <5>1, <5>3, Zenon
      <4>7. /\ Readable(t.line + 1) /\ x = Message(t.line + 1, LineKind(cells, t.line + 1))
        <5>1. t.line + 1 > Lines(cells) /\ t.line + 1 = Lines(cells) + 1
          BY <2>5, <3>2
        <5> QED
          BY <4>1, <4>3, <5>1 DEF Readable, LineKind
      <4>8. ASSUME NEW k \in 1..Len(out')
            PROVE  \/ k = Len(out') /\ out'[k] = e
                   \/ /\ out'[k].kind \notin Ends /\ Readable(Len(page.got) + k)
                      /\ out'[k] = Message(Len(page.got) + k, LineKind(cells, Len(page.got) + k))
        <5>1. CASE k = Len(y) + 2
          BY <4>5, <5>1
        <5>2. CASE k = Len(y) + 1
          BY <4>2, <4>5, <4>6, <4>7, <5>2
        <5>3. CASE k # Len(y) + 1 /\ k # Len(y) + 2
          <6>1. k \in 1..Len(y) /\ out'[k] = y[k]
            BY <2>10, <4>5, <5>3
          <6> QED
            BY <2>10, <6>1
        <5> QED
          BY <5>1, <5>2, <5>3
      <4>9. e.kind # "end finished"
        BY <3>1, <3>4, <4>3
      <4>10. OutInv'
        BY <1>1, <3>4, <3>5, <4>5, <4>8, <4>9 DEF OutInv
      <4> QED
        BY <1>2, <2>8, <4>10 DEF JournalInv
    <3> QED
      BY <3>7, <3>8
  <2> QED
    BY <2>11, <2>12
<1> QED
  BY <1>4, <1>5 DEF Read

\* Every step of the run, of the server and of the page preserves the invariant.
LEMMA JournalInvStep == JournalInv /\ [JournalNext]_journalVars => JournalInv'
<1> SUFFICES ASSUME JournalInv, [JournalNext]_journalVars PROVE JournalInv'
  OBVIOUS
<1>1. CASE OpenJournal \/ WritePart \/ RunStops \/ Silence \/ PruneLists \/ PruneRemoves
           \/ \E kind \in Kinds : WriteLine(kind)
  BY <1>1, RunKeeps
<1>2. CASE ReadStream
  <2>1. page.doing \in Connected /\ ~tail.done /\ MaxCells + 1 \in Nat \ {0} /\ Read(MaxCells + 1)
    BY <1>2, JournalAssumption DEF ReadStream, Connected
  <2> QED
    BY <1>2, <2>1, ReadKeeps DEF ReadStream
<1>3. CASE ReadPoll
  <2>1. page.doing \in Connected /\ tail.more /\ Read(PollLines - Len(out)) /\ Len(out) < PollLines
    BY <1>3 DEF ReadPoll, Connected, PollGoesOn
  <2>2. ~tail.done
    BY <2>1 DEF JournalInv, TailInv
  <2>3. PollLines - Len(out) \in Nat \ {0}
    BY <2>1, JournalTypes, JournalAssumption
  <2> QED
    BY <1>3, <2>1, <2>2, <2>3, ReadKeeps DEF ReadPoll
<1>4. CASE Connect \/ StreamRefused \/ StreamFails \/ Break \/ Ask \/ PollFails \/ AnswerLost
  BY <1>4, ReconnectKeeps
<1>5. CASE Wait \/ GiveUp
  BY <1>5, WaitKeeps
<1>6. CASE Deliver
  BY <1>6, DeliverKeeps
<1>7. CASE Answered
  BY <1>7, AnsweredKeeps
<1>8. CASE UNCHANGED journalVars
  <2>1. UNCHANGED <<cells, tail, out, page>> /\ run' = run /\ there' = there /\ lost' = lost
        /\ UNCHANGED journal
    BY <1>8 DEF journalVars, journal
  <2>2. FileInv'
    BY <2>1, SameFile DEF JournalInv
  <2> QED
    BY <2>1, <2>2, FileKeeps
<1> QED
  BY <1>1, <1>2, <1>3, <1>4, <1>5, <1>6, <1>7, <1>8 DEF JournalNext

\* The invariant is stronger than the properties.
LEMMA JournalInvImplies == JournalInv => EveryLineOnce /\ FinishedIsComplete /\ JournalTypeOK
<1> SUFFICES ASSUME JournalInv PROVE EveryLineOnce /\ FinishedIsComplete /\ JournalTypeOK
  OBVIOUS
<1>1. EveryLineOnce
  <2>1. DOMAIN page.got = 1..Len(page.got)
    BY JournalTypes
  <2> QED
    BY <2>1, Zenon DEF EveryLineOnce, JournalInv, PageInv, HasLines
<1>2. FinishedIsComplete
  BY DEF FinishedIsComplete, JournalInv, PageInv
<1>3. JournalTypeOK
  <2>1. Lines(cells) \in Nat /\ Len(page.got) \in Nat /\ page.last = Len(page.got)
        /\ tail \in TailStates /\ tail.off \in Nat /\ tail.off <= Len(cells) /\ Len(cells) \in Nat
        /\ page \in PageRecords
    BY JournalTypes
  <2>2. Len(page.got) <= Lines(cells) + 1
    <3>1. CASE Len(page.got) = 0
      BY <2>1, <3>1
    <3>2. CASE Len(page.got) # 0
      <4>1. Len(page.got) \in 1..Len(page.got)
        BY <2>1, <3>2
      <4>2. Readable(Len(page.got))
        BY <4>1, Zenon DEF JournalInv, PageInv, HasLines
      <4> QED
        BY <2>1, <4>2 DEF Readable
    <3> QED
      BY <3>1, <3>2
  <2>3. tail.line <= Lines(cells) /\ tail.line \in Nat
    <3>1. tail.line = LinesIn(cells, tail.off)
      BY DEF JournalInv, TailInv
    <3> QED
      BY <2>1, <3>1, CountGrows, CountNat DEF Lines
  <2>4. tail.since <= Lines(cells) + 1 /\ tail.since \in Nat
    <3>1. tail.since <= Len(page.got) /\ tail.since \in Nat
      BY DEF JournalInv, TailInv, TailStates
    <3> QED
      BY <2>1, <2>2, <3>1
  <2>5. tail.off \in 0..Len(cells) /\ tail.line \in 0..(Lines(cells) + 1)
        /\ tail.since \in 0..(Lines(cells) + 1) /\ page.last \in 0..(Lines(cells) + 1)
    BY <2>1, <2>2, <2>3, <2>4
  <2>6. tail \in [opened : BOOLEAN, off : 0..Len(cells), line : 0..(Lines(cells) + 1),
                  since : 0..(Lines(cells) + 1), overlong : BOOLEAN, finished : BOOLEAN,
                  done : BOOLEAN, more : BOOLEAN]
    BY <2>1, <2>5 DEF TailStates
  <2>7. page.doing \in {"connect", "stream", "reconnect", "poll", "asked", "done"}
        /\ page.waiting \in BOOLEAN
    BY <2>1 DEF PageRecords, PageStates
  <2> QED
    BY <2>5, <2>6, <2>7, Zenon DEF JournalTypeOK, JournalInv, FileInv, FlagTypes
<1> QED
  BY <1>1, <1>2, <1>3

\* For a journal of any length, chunks and polls of any size and any number of broken
\* connections: the invariant holds.
THEOREM JournalInvariant == JournalSpec => []JournalInv
<1>1. JournalInit => JournalInv
  BY JournalInvInit
<1>2. JournalInv /\ [JournalNext]_journalVars => JournalInv'
  BY JournalInvStep
<1> QED
  BY <1>1, <1>2, PTL DEF JournalSpec

(***************************************************************************)
(* What a page shows is the journal's first lines, each once, in order and *)
(* as the journal has it, through every broken stream, lost answer and     *)
(* reconnection (Tail::read_into, stream, poll; live.js, show).            *)
(***************************************************************************)
THEOREM LinesReachThePage == JournalSpec => []EveryLineOnce
<1>1. JournalInv => EveryLineOnce
  BY JournalInvImplies
<1> QED
  BY <1>1, JournalInvariant, PTL

\* A page that was told that the run finished shows every line of its journal: the end
\* is never sent ahead of a line, nor while the run can still write (Tail::next).
THEOREM FinishedPagesAreComplete == JournalSpec => []FinishedIsComplete
<1>1. JournalInv => FinishedIsComplete
  BY JournalInvImplies
<1> QED
  BY <1>1, JournalInvariant, PTL

\* The journal, its reader and the page have their types: no line number passes the
\* number of lines by more than the one that is cut short.
THEOREM JournalTypesHold == JournalSpec => []JournalTypeOK
<1>1. JournalInv => JournalTypeOK
  BY JournalInvImplies
<1> QED
  BY <1>1, JournalInvariant, PTL

-----------------------------------------------------------------------------
(***************************************************************************)
(* The parts side by side, as MCLocalParts runs them: a step of one part   *)
(* is a step of its specification and stutters for every other one, so     *)
(* that each keeps its own invariant.                                      *)
(***************************************************************************)
PartsInv == ReadingsInv /\ JournalInv /\ ServeInv /\ PluginInv /\ RetryInv /\ StaleInv

\* A step of the composition is a step or a stutter of each part.
LEMMA PartSteps ==
    [Next]_vars => /\ [ReadingsNext]_readingsVars /\ [JournalNext]_journalVars
                   /\ [ServeNext]_serveVars /\ [PluginNext]_pluginVars
                   /\ [RetryNext]_retryVars
<1>1. CASE UNCHANGED vars
  BY <1>1 DEF vars
<1>2. CASE OnlyReadings /\ ReadingsNext
  BY <1>2 DEF OnlyReadings
<1>3. CASE OnlyJournal /\ JournalNext
  BY <1>3 DEF OnlyJournal
<1>4. CASE OnlyWatch /\ ServeNext
  BY <1>4 DEF OnlyWatch
<1>5. CASE OnlyPlugin /\ PluginNext
  BY <1>5 DEF OnlyPlugin
<1>6. CASE OnlyRetry /\ RetryNext
  BY <1>6 DEF OnlyRetry
<1> QED
  BY <1>1, <1>2, <1>3, <1>4, <1>5, <1>6 DEF Next

\* Every part of the composition keeps its invariant.
THEOREM EveryPartKeepsItsInvariant == Spec => []PartsInv
<1>1. Init => PartsInv
  BY ReadingsInvInit, JournalInvInit, ServeInvInit, InitHolds, RetryInvInit, StaleInvInit
  DEF Init, PartsInv
<1>2. PartsInv /\ [Next]_vars => PartsInv'
  <2> SUFFICES ASSUME PartsInv, [Next]_vars PROVE PartsInv'
    OBVIOUS
  <2>1. /\ [ReadingsNext]_readingsVars /\ [JournalNext]_journalVars
        /\ [ServeNext]_serveVars /\ [PluginNext]_pluginVars /\ [RetryNext]_retryVars
    BY PartSteps
  <2>2. ReadingsInv' /\ JournalInv' /\ ServeInv'
    BY <2>1, ReadingsInvStep, JournalInvStep, ServeInvStep DEF PartsInv
  <2>3. PluginInv' /\ RetryInv' /\ StaleInv'
    BY <2>1, NextHolds, RetryInvStep, StaleInvStep DEF PartsInv
  <2> QED
    BY <2>2, <2>3 DEF PartsInv
<1> QED
  BY <1>1, <1>2, PTL DEF Spec

\* The state of every part that runs has its type.
THEOREM PartsTypesHold == Spec => []TypeOK
<1>1. PartsInv => TypeOK
  BY JournalInvImplies DEF PartsInv, TypeOK, ReadingsInv, ServeInv, PluginInv, RetryInv
<1> QED
  BY <1>1, EveryPartKeepsItsInvariant, PTL
=============================================================================
