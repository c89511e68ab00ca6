--------------------------- MODULE StateTestProofs ---------------------------
(***************************************************************************)
(* What `ods state test' guarantees beside the commands that build, for    *)
(* any number of commands, targets, builds and versions.                   *)
(***************************************************************************)
EXTENDS StateTest, TLAPS

(***************************************************************************)
(* The inductive invariant.                                                *)
(***************************************************************************)
\* The file and the builds: what was measured was there when it was.
WorldInv ==
    /\ sources.version <= data /\ sources.at <= clock
    /\ \A t \in Targets : rel[t] <= builds

\* Since checks passed, at a time, on the data they read: what is being measured is
\* no older than that data, or was being measured already, and so is what has been.
SinceInv(at, ran) ==
    /\ \A c \in Measuring : cmd[c].queried >= ran.data \/ c \in ran.during
    /\ sources.at > at => sources.version >= ran.data \/ sources.by \in ran.during

\* A pass of a source's checks: its version was measured before they ran.
SourceInv(s) ==
    /\ s.at <= clock /\ s.ran.data <= data
    /\ s.version # None => s.version <= s.ran.data
    /\ SinceInv(s.at, s.ran)

\* A snapshot: its target holds the build it names, or a later one.
RecordInv(h) ==
    /\ h.node.build <= rel[h.target]
    /\ h.source # None => SourceInv(h.source)

\* What a command knows once checks passed.
PassInv(j) ==
    /\ j.checks \in Digests /\ j.started \in Times /\ j.at \in Times /\ j.ran \in Ran
    /\ j.started <= clock /\ j.at <= clock /\ j.ran.data <= data
    /\ j.ran.target = j.target /\ j.build <= j.ran.build
    /\ j.kind = "test" /\ j.base # 0 => hist[j.base].node.build <= j.ran.build
    /\ j.src # None => j.src.version <= j.ran.data
    /\ SinceInv(j.at, j.ran)
    /\ sources.at < j.started => sources.version <= j.ran.data

\* Checks read the data of a measurement, or it was under way as they passed.
Covers(ran, src) == ran.data = src.version \/ src.by \in ran.during

\* A command, step by step.
JobInv(j) ==
    /\ j.pc \notin Ended => j.kind \in Kinds /\ j.target \in Targets /\ j.build <= rel[j.target]
    /\ j.pc = "measuring" => j.queried \in 0..MaxData /\ j.queried <= data
    /\ j.pc \in {"measuring", "prepared", "planned"} => j.build = 0
    /\ j.pc \in {"planned", "running", "checked"} =>
         /\ j.kind = "test" /\ j.base # 0 => hist[j.base].target = j.target
         /\ j.base # 0 /\ j.build # 0 => hist[j.base].node.build <= j.build
         /\ j.src # None => j.src.version <= data
    /\ j.pc \in {"planned", "running"} => j.checks \in Digests
    /\ j.pc = "planned" /\ ~j.source_due =>
         /\ j.base # 0 /\ j.src # None /\ hist[j.base].source # None
         /\ Covers(hist[j.base].source.ran, j.src)
    /\ j.pc = "running" => j.started \in Times /\ j.started <= clock
    /\ j.pc = "checked" /\ "pass" \in {j.node, j.source} => PassInv(j)

HistInv == \A i \in 1..Newest : RecordInv(hist[i])

CommandInv == \A c \in Command : JobInv(cmd[c])

TestInv ==
    /\ TypeOK /\ WorldInv /\ HistInv /\ CommandInv
    /\ TestedNotBeforeBuild /\ NoBuildLost

(***************************************************************************)
(* Types.                                                                  *)
(***************************************************************************)
LEMMA IdleJob ==
    ASSUME NEW pc \in Ended \cup {"measuring", "prepared"}
    PROVE  Idle(pc) \in Jobs /\ Idle(pc).base = 0
  BY DEF Idle, Jobs, Ended, Kinds, Results

LEMMA InitType == Init => TypeOK
<1> SUFFICES ASSUME Init PROVE TypeOK OBVIOUS
<1>1. clock \in Times /\ data \in 0..MaxData
      /\ manifest \in [by : Command \cup {None}, checks : Digests] /\ sources \in Readings
  BY StateTestAssumption DEF Init, Times, Digests, Readings
<1>2. cmd \in [Command -> Jobs] /\ \A c \in Command : cmd[c].base = 0
  BY IdleJob DEF Init, Ended
<1>3. CASE builds = 0 /\ rel = [t \in Targets |-> 0] /\ hist = <<>>
  BY <1>1, <1>2, <1>3 DEF TypeOK, Newest
<1>4. ASSUME NEW built \in Targets,
             builds = 1 /\ rel = [t \in Targets |-> IF t = built THEN 1 ELSE 0],
             hist = <<[by |-> "build", target |-> built,
                       node |-> [NoRecord EXCEPT !.build = 1], source |-> None]>>
      PROVE  TypeOK
  <2>1. [by |-> "build", target |-> built,
         node |-> [NoRecord EXCEPT !.build = 1], source |-> None] \in Snapshots
    BY DEF Snapshots, Kinds, NodeRecords, NoRecord
  <2>2. hist \in Seq(Snapshots) /\ Len(hist) = 1
    BY <1>4, <2>1
  <2>3. rel \in [Targets -> Nat] /\ builds \in Nat
    BY <1>4
  <2> QED BY <1>1, <1>2, <2>2, <2>3 DEF TypeOK, Newest
<1> QED BY <1>3, <1>4 DEF Init

\* What is where in the history, and what one more snapshot changes.
LEMMA HistFacts ==
    ASSUME TypeOK
    PROVE  /\ Newest \in Nat /\ DOMAIN hist = 1..Newest
           /\ \A i \in 1..Newest : hist[i] \in Snapshots
  BY DEF TypeOK, Newest

LEMMA AppendFacts ==
    ASSUME TypeOK, NEW h \in Snapshots, hist' = Append(hist, h)
    PROVE  /\ hist' \in Seq(Snapshots) /\ Newest' = Newest + 1
           /\ hist'[Newest + 1] = h
           /\ \A i \in 1..Newest : hist'[i] = hist[i]
  BY DEF TypeOK, Newest

\* A step that replaces one command by a well-typed one that read no head but one
\* there is.
LEMMA OnlyCommands ==
    ASSUME TypeOK, NEW c \in Command, NEW j \in Jobs, Becomes(c, j), j.base <= Newest,
           UNCHANGED <<world, rel, builds, hist>>,
           manifest' \in [by : Command \cup {None}, checks : Digests], sources' \in Readings
    PROVE  TypeOK'
<1>1. cmd' \in [Command -> Jobs] /\ \A d \in Command : cmd'[d].base <= Newest
  BY DEF TypeOK, Becomes
<1> QED BY <1>1 DEF TypeOK, world, Newest

LEMMA LoadedType ==
    ASSUME TypeOK, NEW c \in Command
    PROVE  Loaded(c) \in Readings \cup {None}
  BY DEF TypeOK, Loaded

\* Both records a snapshot is made of.
LEMMA NodeAtType ==
    ASSUME TypeOK, NEW i \in 0..Newest
    PROVE  /\ NodeAt(i) \in NodeRecords
           /\ SourceAt(i) \in SourceRecords \cup {None}
<1>1. CASE i = 0
  BY <1>1 DEF NodeAt, SourceAt, NodeRecords, NoRecord
<1>2. CASE i \in 1..Newest
  BY <1>2, HistFacts DEF NodeAt, SourceAt, Snapshots
<1> QED BY <1>1, <1>2, HistFacts

LEMMA InTargetType ==
    ASSUME TypeOK, NEW i \in 0..Newest, NEW t
    PROVE  InTarget(i, t) \in 0..Newest
  BY HistFacts DEF InTarget

(***************************************************************************)
(* What every step leaves true: nothing recorded changes, builds only get  *)
(* newer, a measurement begins with the data of this moment and ends with  *)
(* its time.                                                               *)
(***************************************************************************)
Grows ==
    /\ clock <= clock' /\ data <= data'
    /\ \A t \in Targets : rel[t] <= rel'[t]
    /\ Newest <= Newest' /\ \A i \in 1..Newest : hist'[i] = hist[i]
    /\ \A c \in Measuring' :
         \/ c \in Measuring /\ cmd'[c].queried = cmd[c].queried
         \/ cmd'[c].queried = data
    /\ \/ sources' = sources
       \/ \E c \in Measuring :
            sources' = [version |-> cmd[c].queried, at |-> clock, by |-> c]

LEMMA SinceStays ==
    ASSUME TypeOK, TypeOK', Grows, NEW at \in Times, at <= clock, NEW ran \in Ran,
           ran.data <= data, SinceInv(at, ran)
    PROVE  SinceInv(at, ran)'
<1>1. ran.data \in Nat /\ data \in Nat
  BY StateTestAssumption DEF Ran, TypeOK
<1>2. ASSUME NEW c \in Measuring' PROVE cmd'[c].queried >= ran.data \/ c \in ran.during
  BY <1>1, <1>2 DEF Grows, SinceInv
<1>3. ASSUME sources'.at > at PROVE sources'.version >= ran.data \/ sources'.by \in ran.during
  <2>1. CASE sources' = sources
    BY <1>3, <2>1 DEF SinceInv
  <2>2. ASSUME NEW c \in Measuring,
               sources' = [version |-> cmd[c].queried, at |-> clock, by |-> c]
        PROVE  sources'.version >= ran.data \/ sources'.by \in ran.during
    BY <2>2 DEF SinceInv
  <2> QED BY <2>1, <2>2 DEF Grows
<1> QED BY <1>2, <1>3 DEF SinceInv

LEMMA SourceStays ==
    ASSUME TypeOK, TypeOK', Grows, NEW s \in SourceRecords, SourceInv(s)
    PROVE  SourceInv(s)'
<1>1. s.at \in Times /\ s.ran \in Ran /\ s.at <= clock /\ s.ran.data <= data
      /\ SinceInv(s.at, s.ran) /\ s.ran.data \in 0..MaxData
  BY DEF SourceRecords, SourceInv, Ran
<1>2. SinceInv(s.at, s.ran)'
  BY <1>1, SinceStays
<1> QED BY <1>1, <1>2, StateTestAssumption DEF SourceInv, Grows, TypeOK, Times

LEMMA RecordStays ==
    ASSUME TypeOK, TypeOK', Grows, NEW h \in Snapshots, RecordInv(h)
    PROVE  RecordInv(h)'
<1>1. h.target \in Targets /\ h.node.build \in Nat /\ h.source \in SourceRecords \cup {None}
  BY DEF Snapshots, NodeRecords
<1>2. h.node.build <= rel'[h.target]
  BY <1>1 DEF RecordInv, Grows, TypeOK
<1> QED BY <1>1, <1>2, SourceStays DEF RecordInv

LEMMA JobStays ==
    ASSUME TypeOK, TypeOK', Grows, NEW j \in Jobs, j.base <= Newest, JobInv(j)
    PROVE  JobInv(j)'
<1>1. /\ j.base \in Nat /\ j.build \in Nat
      /\ j.base # 0 => hist'[j.base] = hist[j.base]
      /\ clock \in Nat /\ clock' \in Nat /\ data \in Nat /\ data' \in Nat
      /\ sources.at \in Nat /\ sources.version \in Nat
      /\ j.src # None => j.src.version \in Nat
  <2>1. j.base \in Nat /\ j.build \in Nat /\ (j.src # None => j.src \in Readings)
    BY DEF Jobs
  <2>2. j.base # 0 => hist'[j.base] = hist[j.base]
    BY <2>1, HistFacts DEF Grows
  <2>3. clock \in Nat /\ clock' \in Nat /\ data \in Nat /\ data' \in Nat /\ sources \in Readings
    BY StateTestAssumption DEF TypeOK, Times
  <2>4. \A r \in Readings : r.at \in Nat /\ r.version \in Nat
    BY StateTestAssumption DEF Readings, Times
  <2> QED BY <2>1, <2>2, <2>3, <2>4
<1>2. j.pc \notin Ended => j.build <= rel'[j.target]
  BY <1>1 DEF JobInv, Grows, TypeOK
<1>3. ASSUME PassInv(j) PROVE PassInv(j)'
  <2>1. j.started \in Nat /\ j.at \in Nat /\ j.ran.data \in Nat /\ j.ran.build \in Nat
    BY <1>3, StateTestAssumption DEF PassInv, Times, Ran
  <2>2. SinceInv(j.at, j.ran)'
    BY <1>3, SinceStays DEF PassInv
  <2>3. sources'.at < j.started => sources'.version <= j.ran.data
    BY <1>1, <1>3, <2>1 DEF PassInv, Grows
  <2> QED BY <1>1, <1>3, <2>1, <2>2, <2>3 DEF PassInv, Grows
<1>4. j.pc = "running" => j.started \in Times /\ j.started <= clock'
  BY <1>1, StateTestAssumption DEF JobInv, Grows, Times
<1>5. j.pc \in {"planned", "running", "checked"} =>
        /\ j.kind = "test" /\ j.base # 0 => hist'[j.base].target = j.target
        /\ j.base # 0 /\ j.build # 0 => hist'[j.base].node.build <= j.build
        /\ j.src # None => j.src.version <= data'
  BY <1>1 DEF JobInv, Grows
<1>6. j.pc = "planned" /\ ~j.source_due =>
        /\ j.base # 0 /\ j.src # None /\ hist'[j.base].source # None
        /\ Covers(hist'[j.base].source.ran, j.src)
  BY <1>1 DEF JobInv
<1>7. j.pc = "measuring" => j.queried \in 0..MaxData /\ j.queried <= data'
  BY <1>1, StateTestAssumption DEF JobInv, Grows
<1> QED BY <1>2, <1>3, <1>4, <1>5, <1>6, <1>7 DEF JobInv, Covers

\* One command's step keeps every command's invariant, if it keeps its own.
LEMMA CommandStep ==
    ASSUME TestInv, TypeOK', Grows, NEW c \in Command, NEW j, Becomes(c, j), JobInv(j)'
    PROVE  CommandInv'
<1>1. \A d \in Command : cmd'[d] = IF d = c THEN j ELSE cmd[d]
  BY DEF TestInv, TypeOK, Becomes
<1>2. ASSUME NEW d \in Command, d # c PROVE JobInv(cmd[d])'
  <2>1. cmd[d] \in Jobs /\ cmd[d].base <= Newest /\ JobInv(cmd[d]) /\ TypeOK
    BY DEF TestInv, TypeOK, CommandInv
  <2>2. cmd'[d] = cmd[d]
    BY <1>1, <1>2
  <2>3. \A k \in Jobs : k.base <= Newest /\ JobInv(k) => JobInv(k)'
    BY <2>1, JobStays
  <2> QED BY <2>1, <2>2, <2>3
<1> QED BY <1>1, <1>2 DEF CommandInv

\* What was recorded keeps its invariant.
LEMMA HistStep ==
    ASSUME TestInv, TypeOK', Grows
    PROVE  \A i \in 1..Newest : RecordInv(hist[i])'
<1> SUFFICES ASSUME NEW i \in 1..Newest PROVE RecordInv(hist[i])'
  OBVIOUS
<1>1. hist[i] \in Snapshots /\ RecordInv(hist[i]) /\ hist'[i] = hist[i] /\ TypeOK
  BY HistFacts DEF TestInv, HistInv, Grows
<1>2. \A h \in Snapshots : RecordInv(h) => RecordInv(h)'
  BY <1>1, RecordStays
<1> QED BY <1>1, <1>2

\* A step that records nothing.
LEMMA QuietStep ==
    ASSUME TestInv, TypeOK', Grows, WorldInv', CommandInv', UNCHANGED hist
    PROVE  TestInv'
<1>1. HistInv'
  BY HistStep DEF HistInv, Newest
<1> QED BY <1>1 DEF TestInv, TestedNotBeforeBuild, NoBuildLost, Newest

(***************************************************************************)
(* The initial state, and the steps one by one.                            *)
(***************************************************************************)
LEMMA IdleInv ==
    ASSUME NEW pc \in Ended
    PROVE  JobInv(Idle(pc)) /\ JobInv(Idle(pc))'
  BY DEF JobInv, Idle, Ended

LEMMA InitInv == Init => TestInv
<1> SUFFICES ASSUME Init PROVE TestInv OBVIOUS
<1>1. TypeOK
  BY InitType
<1>2. CommandInv
  BY IdleInv DEF CommandInv, Init, Ended
<1>3. WorldInv
  BY DEF Init, WorldInv
<1>4. \/ Newest = 0
      \/ Newest = 1 /\ hist[1].node = [NoRecord EXCEPT !.build = 1] /\ hist[1].source = None
         /\ rel[hist[1].target] = 1
  BY DEF Init, Newest
<1>5. HistInv
  BY <1>4 DEF HistInv, RecordInv, NoRecord
<1>6. DOMAIN hist = 1..Newest
  BY <1>1, HistFacts
<1>7. TestedNotBeforeBuild /\ NoBuildLost
  BY <1>4, <1>6 DEF TestedNotBeforeBuild, NoBuildLost, NoRecord
<1> QED BY <1>1, <1>2, <1>3, <1>5, <1>7 DEF TestInv

\* A step that changes nothing but the commands and the manifest.
LEMMA OnlyCommandStep ==
    ASSUME TestInv, NEW c \in Command, NEW j \in Jobs, Becomes(c, j), j.base <= Newest,
           JobInv(j), j.pc = "measuring" => j.queried = data,
           UNCHANGED <<world, rel, builds, sources, hist>>,
           manifest' \in [by : Command \cup {None}, checks : Digests]
    PROVE  TestInv'
<1>1. TypeOK
  BY DEF TestInv
<1>2. TypeOK'
  <2>1. sources' \in Readings
    BY <1>1 DEF TypeOK
  <2> QED BY <1>1, <2>1, OnlyCommands
<1>3. Grows
  <2>1. \A d \in Measuring' : \/ d \in Measuring /\ cmd'[d].queried = cmd[d].queried
                             \/ cmd'[d].queried = data
    BY <1>1 DEF TypeOK, Becomes, Measuring
  <2> QED BY <1>1, <2>1, StateTestAssumption DEF TypeOK, Grows, world, Times, Newest
<1>4. WorldInv'
  BY DEF TestInv, WorldInv, world
<1>5. JobInv(j)'
  BY <1>1, <1>2, <1>3, JobStays
<1>6. CommandInv'
  BY <1>2, <1>3, <1>5, CommandStep
<1> QED BY <1>2, <1>3, <1>4, <1>6, QuietStep

LEMMA WorldStep ==
    ASSUME TestInv, Tick \/ NewData
    PROVE  TestInv'
<1>1. TypeOK /\ WorldInv
  BY DEF TestInv
<1>2. TypeOK'
  BY <1>1, StateTestAssumption DEF Tick, NewData, TypeOK, Times, Newest
<1>3. Grows
  <2>1. \A d \in Measuring' : d \in Measuring /\ cmd'[d].queried = cmd[d].queried
    BY DEF Tick, NewData, Measuring
  <2> QED BY <1>1, <2>1, StateTestAssumption DEF Tick, NewData, TypeOK, Grows, Times, Newest
<1>4. WorldInv'
  BY <1>1, StateTestAssumption DEF Tick, NewData, TypeOK, WorldInv, Times, Readings
<1>5. CommandInv'
  <2>1. ASSUME NEW d \in Command PROVE JobInv(cmd[d])'
    <3>1. cmd[d] \in Jobs /\ cmd[d].base <= Newest /\ JobInv(cmd[d]) /\ cmd'[d] = cmd[d]
      BY DEF TestInv, TypeOK, CommandInv, Tick, NewData
    <3>2. \A k \in Jobs : k.base <= Newest /\ JobInv(k) => JobInv(k)'
      BY <1>1, <1>2, <1>3, JobStays
    <3> QED BY <3>1, <3>2
  <2> QED BY <2>1 DEF CommandInv
<1>6. UNCHANGED hist
  BY DEF Tick, NewData
<1> QED BY <1>2, <1>3, <1>4, <1>5, <1>6, QuietStep

\* A command begins, with a measurement or without.
LEMMA BeginStep ==
    ASSUME TestInv, NEW c \in Command, NEW kind \in Kinds, NEW t \in Targets,
           Measure(c, kind, t) \/ PrepareUnmeasured(c, kind, t)
    PROVE  TestInv'
<1>1. /\ TypeOK /\ data \in 0..MaxData /\ data <= data /\ rel[t] \in Nat /\ 0 <= Newest
      /\ Partial \in Digests /\ 1..MaxChecks \subseteq Digests
  BY HistFacts, StateTestAssumption DEF TestInv, TypeOK, Digests
<1>2. CASE Measure(c, kind, t)
  <2>1. PICK j : j = [Idle("measuring") EXCEPT !.kind = kind, !.target = t, !.queried = data]
    OBVIOUS
  <2>2. /\ j \in Jobs /\ j.base = 0 /\ j.pc = "measuring" /\ j.kind = kind /\ j.target = t
        /\ j.build = 0 /\ j.queried = data
    BY <1>1, <2>1, IdleJob DEF Idle, Jobs
  <2>3. JobInv(j)
    BY <1>1, <2>2 DEF JobInv, Ended
  <2> QED BY <1>1, <1>2, <2>1, <2>2, <2>3, OnlyCommandStep DEF Measure
<1>3. CASE PrepareUnmeasured(c, kind, t)
  <2>1. PICK j : j = [Idle("prepared") EXCEPT !.kind = kind, !.target = t]
    OBVIOUS
  <2>2. /\ j \in Jobs /\ j.base = 0 /\ j.pc = "prepared" /\ j.kind = kind /\ j.target = t
        /\ j.build = 0
    BY <2>1, IdleJob DEF Idle, Jobs
  <2>3. JobInv(j)
    BY <1>1, <2>2 DEF JobInv, Ended
  <2>4. /\ manifest' \in [by : Command \cup {None}, checks : Digests]
        /\ Becomes(c, j) /\ UNCHANGED <<world, rel, builds, sources, hist>>
    BY <1>1, <1>3, <2>1 DEF PrepareUnmeasured, Compile
  <2> QED BY <1>1, <2>2, <2>3, <2>4, OnlyCommandStep
<1> QED BY <1>2, <1>3

\* A measurement ends: its file says no more than what it read.
LEMMA MeasuredStep ==
    ASSUME TestInv, NEW c \in Command, PrepareMeasured(c) \/ PrepareMeasureFailed(c)
    PROVE  TestInv'
<1>1. /\ TypeOK /\ WorldInv /\ cmd[c] \in Jobs /\ cmd[c].base <= Newest /\ JobInv(cmd[c])
      /\ cmd[c].pc = "measuring" /\ UNCHANGED <<world, rel, builds, hist>>
      /\ manifest' \in [by : Command \cup {None}, checks : Digests]
  BY DEF TestInv, TypeOK, CommandInv, PrepareMeasured, PrepareMeasureFailed, Compile, Digests
<1>2. /\ cmd[c].kind \in Kinds /\ cmd[c].target \in Targets /\ cmd[c].build = 0
      /\ cmd[c].build <= rel[cmd[c].target]
      /\ cmd[c].queried \in 0..MaxData /\ cmd[c].queried <= data
  BY <1>1 DEF JobInv, Ended
<1>3. PICK failed \in BOOLEAN :
        /\ Becomes(c, [cmd[c] EXCEPT !.pc = "prepared", !.queried = None,
                                     !.ignore = IF failed THEN TRUE ELSE @])
        /\ sources' = IF failed THEN sources
                      ELSE [version |-> cmd[c].queried, at |-> clock, by |-> c]
  <2>1. CASE PrepareMeasured(c)
    BY <1>1, <2>1 DEF PrepareMeasured, Jobs
  <2>2. CASE PrepareMeasureFailed(c)
    BY <2>2 DEF PrepareMeasureFailed
  <2> QED BY <2>1, <2>2
<1>4. PICK j : j = [cmd[c] EXCEPT !.pc = "prepared", !.queried = None,
                                  !.ignore = IF failed THEN TRUE ELSE @]
  OBVIOUS
<1>5. /\ j \in Jobs /\ j.base = cmd[c].base /\ j.pc = "prepared" /\ j.build = 0
      /\ j.kind = cmd[c].kind /\ j.target = cmd[c].target
  <2>1. PICK k : k = [cmd[c] EXCEPT !.pc = "prepared", !.queried = None]
    OBVIOUS
  <2>2. /\ k \in Jobs /\ k.base = cmd[c].base /\ k.pc = "prepared" /\ k.build = 0
        /\ k.kind = cmd[c].kind /\ k.target = cmd[c].target
    BY <1>1, <1>2, <2>1 DEF Jobs
  <2>3. CASE failed
    <3>1. j = [k EXCEPT !.ignore = TRUE]
      BY <1>1, <1>4, <2>1, <2>3 DEF Jobs
    <3> QED BY <2>2, <3>1 DEF Jobs
  <2>4. CASE ~failed
    <3>1. j = k
      BY <1>1, <1>4, <2>1, <2>4 DEF Jobs
    <3> QED BY <2>2, <3>1
  <2> QED BY <2>3, <2>4
<1>6. JobInv(j)
  BY <1>2, <1>5 DEF JobInv, Ended
<1>7. sources' \in Readings
  BY <1>1, <1>2, <1>3 DEF TypeOK, Readings
<1>8. TypeOK'
  BY <1>1, <1>3, <1>4, <1>5, <1>7, OnlyCommands
<1>9. Grows
  <2>1. \A d \in Measuring' : d \in Measuring /\ cmd'[d].queried = cmd[d].queried
    BY <1>1, <1>3, <1>4, <1>5 DEF TypeOK, Becomes, Measuring
  <2>2. c \in Measuring
    BY <1>1 DEF Measuring
  <2> QED BY <1>1, <1>3, <2>1, <2>2, StateTestAssumption DEF TypeOK, Grows, world, Times, Newest
<1>10. WorldInv'
  BY <1>1, <1>2, <1>3, StateTestAssumption DEF TypeOK, WorldInv, world, Times
<1>11. JobInv(j)'
  BY <1>1, <1>5, <1>6, <1>8, <1>9, JobStays
<1>12. CommandInv'
  BY <1>3, <1>4, <1>8, <1>9, <1>11, CommandStep
<1> QED BY <1>1, <1>8, <1>9, <1>10, <1>12, QuietStep

LEMMA EndStep ==
    ASSUME TestInv, NEW c \in Command, Refuse(c) \/ NotRecorded(c)
    PROVE  TestInv'
<1>1. /\ Becomes(c, Idle("done")) /\ UNCHANGED <<world, rel, builds, manifest, sources, hist>>
      /\ manifest' \in [by : Command \cup {None}, checks : Digests]
  BY DEF Refuse, NotRecorded, TestInv, TypeOK
<1>2. /\ Idle("done") \in Jobs /\ Idle("done").base = 0 /\ JobInv(Idle("done"))
      /\ Idle("done").pc # "measuring"
  BY IdleJob, IdleInv DEF Ended, Idle
<1>3. 0 <= Newest
  BY HistFacts DEF TestInv
<1> QED BY <1>1, <1>2, <1>3, OnlyCommandStep

\* Checks that are not due passed on the data that was measured: their version was
\* read before they ran, and this one after, unless it was being read meanwhile.
LEMMA NotDueIsTested ==
    ASSUME TestInv, NEW c \in Command, cmd[c].pc = "prepared",
           ~Due(Loaded(c), manifest.checks, SourceAt(InTarget(Newest, cmd[c].target)))
    PROVE  /\ Newest # 0 /\ Loaded(c) # None /\ hist[Newest].source # None
           /\ Covers(hist[Newest].source.ran, Loaded(c))
<1> DEFINE before == SourceAt(InTarget(Newest, cmd[c].target))
<1>1. /\ before # None /\ Loaded(c) # None
      /\ Loaded(c).at > before.at /\ before.version # None /\ before.version = Loaded(c).version
  BY DEF Due, MeasuredAfter
<1>2. Newest # 0 /\ before = hist[Newest].source
  BY <1>1 DEF SourceAt, InTarget
<1>3. Loaded(c) = sources
  BY <1>1 DEF Loaded
<1>4. TypeOK /\ Newest \in 1..Newest /\ hist[Newest] \in Snapshots
  BY <1>2, HistFacts DEF TestInv
<1> HIDE DEF before
<1>5. before \in SourceRecords /\ SourceInv(before)
  BY <1>1, <1>2, <1>4 DEF TestInv, HistInv, RecordInv, Snapshots
<1>6. before.ran.data \in Nat /\ before.at \in Nat /\ sources.at \in Nat /\ sources.version \in Nat
  BY <1>4, <1>5, StateTestAssumption DEF SourceRecords, Ran, Times, TypeOK, Readings
<1> QED BY <1>1, <1>2, <1>3, <1>5, <1>6 DEF SourceInv, SinceInv, Covers

LEMMA PlanStep ==
    ASSUME TestInv, NEW c \in Command, Plan(c)
    PROVE  TestInv'
<1>1. TypeOK /\ WorldInv /\ JobInv(cmd[c]) /\ cmd[c] \in Jobs
      /\ manifest \in [by : Command \cup {None}, checks : Digests]
      /\ Newest \in Nat
  BY HistFacts DEF TestInv, TypeOK, CommandInv
<1>2. PICK all \in BOOLEAN : Becomes(c, Planned(c, all /\ cmd[c].kind = "test"))
  BY DEF Plan
<1>3. PICK b \in BOOLEAN : b = (all /\ cmd[c].kind = "test")
  OBVIOUS
<1>j. PICK j : j = Planned(c, b)
  OBVIOUS
<1>4. Loaded(c) \in Readings \cup {None} /\ manifest.checks \in Digests
  BY <1>1, LoadedType
<1>5. /\ j \in Jobs
      /\ j.pc \in {"planned", "done"} /\ j.base = Newest /\ j.checks = manifest.checks
      /\ j.src = Loaded(c)
      /\ ~j.source_due =>
           ~Due(Loaded(c), manifest.checks, SourceAt(InTarget(Newest, cmd[c].target)))
      /\ j.kind = cmd[c].kind /\ j.target = cmd[c].target /\ j.build = cmd[c].build
  <2>1. PICK nd \in BOOLEAN, sd \in BOOLEAN, p \in {"planned", "done"} :
          /\ j = [cmd[c] EXCEPT !.pc = p, !.base = Newest, !.checks = manifest.checks,
                                !.src = Loaded(c), !.node_due = nd, !.source_due = sd]
          /\ ~sd => ~Due(Loaded(c), manifest.checks, SourceAt(InTarget(Newest, cmd[c].target)))
    <3> DEFINE nd == /\ cmd[c].kind = "test" /\ NodeAt(Newest).build # 0
                     /\ \/ b
                        \/ NodeAt(Newest).tested = None
                        \/ NodeAt(Newest).tested.checks # manifest.checks
               sd == b \/ Due(Loaded(c), manifest.checks,
                              SourceAt(InTarget(Newest, cmd[c].target)))
               p == IF cmd[c].kind = "test" /\ ~nd /\ ~sd THEN "done" ELSE "planned"
    <3>1. j = [cmd[c] EXCEPT !.pc = p, !.base = Newest, !.checks = manifest.checks,
                             !.src = Loaded(c), !.node_due = nd, !.source_due = sd]
      BY <1>j DEF Planned
    <3>2. nd \in BOOLEAN /\ sd \in BOOLEAN /\ p \in {"planned", "done"}
      BY DEF Due
    <3>3. ~sd => ~Due(Loaded(c), manifest.checks, SourceAt(InTarget(Newest, cmd[c].target)))
      OBVIOUS
    <3> HIDE DEF nd, sd, p
    <3> QED BY <3>1, <3>2, <3>3
  <2>2. p \in Ended \cup {"measuring", "prepared", "planned", "running", "checked"}
    BY DEF Ended
  <2>3. j \in Jobs
    <3>1. PICK k : k = [cmd[c] EXCEPT !.pc = p, !.base = Newest, !.checks = manifest.checks,
                                      !.src = Loaded(c)]
      OBVIOUS
    <3>2. k \in Jobs
      BY <1>1, <1>4, <2>2, <3>1 DEF Jobs
    <3>3. j = [k EXCEPT !.node_due = nd, !.source_due = sd]
      BY <1>1, <2>1, <3>1 DEF Jobs
    <3>4. nd \in {TRUE, FALSE} /\ sd \in {TRUE, FALSE}
      BY <2>1
    <3>5. PICK l : l = [k EXCEPT !.node_due = nd]
      OBVIOUS
    <3>6. l \in Jobs /\ j = [l EXCEPT !.source_due = sd]
      BY <3>2, <3>3, <3>4, <3>5 DEF Jobs
    <3> QED BY <3>4, <3>6 DEF Jobs
  <2>4. j.source_due = sd
    BY <1>1, <2>1 DEF Jobs
  <2> QED BY <1>1, <2>1, <2>3, <2>4 DEF Jobs
<1>6. /\ cmd[c].pc = "prepared"
      /\ UNCHANGED <<world, rel, builds, manifest, sources, hist>>
      /\ cmd[c].kind = "test" => SameTarget(c)
  BY DEF Plan
<1>7. cmd[c].kind \in Kinds /\ cmd[c].target \in Targets /\ cmd[c].build = 0
      /\ cmd[c].build <= rel[cmd[c].target]
  BY <1>1, <1>6 DEF JobInv, Ended
<1>8. cmd[c].kind = "test" /\ Newest # 0 => hist[Newest].target = cmd[c].target
  BY <1>6 DEF SameTarget, InTarget
<1>9. Loaded(c) # None => Loaded(c).version <= data
  BY <1>1 DEF Loaded, WorldInv
<1>10. ~j.source_due =>
         /\ j.base # 0 /\ j.src # None /\ hist[j.base].source # None
         /\ Covers(hist[j.base].source.ran, j.src)
  BY <1>5, <1>6, NotDueIsTested
<1>11. JobInv(j)
  BY <1>4, <1>5, <1>7, <1>8, <1>9, <1>10 DEF JobInv, Ended
<1>12. Becomes(c, j)
  BY <1>2, <1>3, <1>j
<1> QED BY <1>1, <1>5, <1>6, <1>11, <1>12, OnlyCommandStep

LEMMA StartStep ==
    ASSUME TestInv, NEW c \in Command, Start(c)
    PROVE  TestInv'
<1>1. TypeOK /\ WorldInv /\ JobInv(cmd[c]) /\ cmd[c] \in Jobs /\ cmd[c].base <= Newest
      /\ clock \in Times
  BY DEF TestInv, TypeOK, CommandInv
<1>2. /\ cmd[c].pc = "planned" /\ cmd[c].kind \in Kinds /\ cmd[c].target \in Targets
      /\ cmd[c].build = 0 /\ cmd[c].checks \in Digests
      /\ UNCHANGED <<world, sources, hist>>
      /\ manifest' \in [by : Command \cup {None}, checks : Digests]
  BY <1>1 DEF Start, JobInv, Ended
<1>3. clock \in Nat /\ builds \in Nat /\ rel \in [Targets -> Nat]
  BY <1>1, StateTestAssumption DEF TypeOK, Times
<1>k. PICK k : k = Started(c)
  OBVIOUS
<1>4. /\ k \in Jobs /\ k.pc = "running" /\ k.started = clock
      /\ k.src # None => k.src = cmd[c].src
      /\ k.base = cmd[c].base /\ k.kind = cmd[c].kind /\ k.target = cmd[c].target
      /\ k.build = 0 /\ k.checks = cmd[c].checks
  <2> DEFINE r == IF cmd[c].kind = "test" THEN MeasuredBefore(cmd[c].src, clock) ELSE None
  <2>1. k = [cmd[c] EXCEPT !.pc = "running", !.started = clock, !.src = r]
    BY <1>1, <1>k DEF Started, Jobs
  <2>2. r \in Readings \cup {None} /\ (r # None => r = cmd[c].src)
    BY <1>1 DEF MeasuredBefore, Jobs
  <2> HIDE DEF r
  <2> QED BY <1>1, <1>2, <2>1, <2>2 DEF Jobs
<1>5. ASSUME cmd[c].kind # "test",
             rel' = [rel EXCEPT ![cmd[c].target] = builds + 1], builds' = builds + 1,
             Becomes(c, [k EXCEPT !.build = builds + 1])
      PROVE  TestInv'
  <2>0. PICK j : j = [k EXCEPT !.build = builds + 1]
    OBVIOUS
  <2>1. /\ j \in Jobs /\ j.build = builds + 1
        /\ j.pc = "running" /\ j.started = clock /\ (j.src # None => j.src = cmd[c].src)
        /\ j.base = cmd[c].base /\ j.kind = cmd[c].kind /\ j.target = cmd[c].target
        /\ j.checks = cmd[c].checks
    BY <1>3, <1>4, <2>0 DEF Jobs
  <2>2. \A t \in Targets : rel'[t] \in Nat /\ rel[t] <= rel'[t] /\ rel'[t] <= builds'
    BY <1>1, <1>2, <1>3, <1>5 DEF WorldInv
  <2>3. rel' \in [Targets -> Nat] /\ builds' \in Nat
    BY <1>2, <1>3, <1>5
  <2>4. cmd' \in [Command -> Jobs] /\ \A d \in Command : cmd'[d].base <= Newest
    BY <1>1, <1>5, <2>0, <2>1 DEF TypeOK, Becomes
  <2>5. TypeOK'
    BY <1>1, <1>2, <2>3, <2>4 DEF TypeOK, world, Newest
  <2>6. Grows
    <3>1. \A d \in Measuring' : d \in Measuring /\ cmd'[d].queried = cmd[d].queried
      BY <1>1, <1>5, <2>0, <2>1 DEF TypeOK, Becomes, Measuring
    <3> QED BY <1>1, <1>2, <2>2, <3>1, StateTestAssumption
            DEF Grows, TypeOK, world, Times, Newest
  <2>7. WorldInv'
    BY <1>1, <1>2, <2>2 DEF WorldInv, world
  <2>8. cmd[c].base # 0 => hist[cmd[c].base].node.build <= builds
    <3>1. ASSUME cmd[c].base # 0 PROVE cmd[c].base \in 1..Newest
      BY <1>1, <3>1, HistFacts DEF Jobs
    <3>2. ASSUME NEW i \in 1..Newest PROVE hist[i].node.build <= builds
      <4>1. hist[i] \in Snapshots /\ RecordInv(hist[i])
        BY <1>1, HistFacts DEF TestInv, HistInv
      <4>2. hist[i].node.build \in Nat /\ hist[i].target \in Targets
        BY <4>1 DEF Snapshots, NodeRecords
      <4> QED BY <1>1, <1>3, <4>1, <4>2 DEF RecordInv, WorldInv
    <3> QED BY <3>1, <3>2
  <2>9. cmd[c].base # 0 => hist[cmd[c].base].node.build <= builds + 1
    <3>1. ASSUME cmd[c].base # 0 PROVE hist[cmd[c].base].node.build \in Nat
      <4>1. hist[cmd[c].base] \in Snapshots
        BY <1>1, <3>1, HistFacts DEF Jobs
      <4> QED BY <4>1 DEF Snapshots, NodeRecords
    <3> QED BY <1>3, <2>8, <3>1
  <2>10. rel'[cmd[c].target] = builds + 1 /\ builds + 1 <= builds + 1
    BY <1>2, <1>3, <1>5
  <2>11. cmd[c].src # None => cmd[c].src.version <= data
    BY <1>1, <1>2 DEF JobInv
  <2>12. JobInv(j)'
    BY <1>1, <1>2, <1>3, <1>5, <2>1, <2>9, <2>10, <2>11 DEF JobInv, Ended, Kinds, world
  <2>13. CommandInv'
    BY <1>5, <2>0, <2>5, <2>6, <2>12, CommandStep
  <2> QED BY <1>2, <2>5, <2>6, <2>7, <2>13, QuietStep
<1>6. ASSUME NEW node \in {"skip", "fail", "kept"}, Becomes(c, [k EXCEPT !.node = node]),
             UNCHANGED <<rel, builds>>
      PROVE  TestInv'
  <2>0. PICK j : j = [k EXCEPT !.node = node]
    OBVIOUS
  <2>1. /\ j \in Jobs /\ j.build = 0
        /\ j.pc = "running" /\ j.started = clock /\ (j.src # None => j.src = cmd[c].src)
        /\ j.base = cmd[c].base /\ j.kind = cmd[c].kind /\ j.target = cmd[c].target
        /\ j.checks = cmd[c].checks
    BY <1>4, <2>0 DEF Jobs, Results
  <2>2. JobInv(j)
    BY <1>1, <1>2, <1>3, <2>1 DEF JobInv, Ended
  <2>3. Becomes(c, j)
    BY <1>6, <2>0
  <2> QED BY <1>1, <1>2, <1>6, <2>1, <2>2, <2>3, OnlyCommandStep
<1> QED BY <1>5, <1>6, <1>k DEF Start

\* What the checks showed is one of the three results.
LEMMA BelievedType ==
    ASSUME NEW c \in Command, NEW ok \in BOOLEAN,
           NEW node \in Results, NEW source \in Results, NEW result \in Results
    PROVE  Believed(c, ok, node, source, result) \in Results
  BY DEF Believed, Placed, Results

\* The build a target holds is no older than the one the head names.
LEMMA HeldBuild ==
    ASSUME TestInv, NEW i \in 1..Newest
    PROVE  /\ hist[i] \in Snapshots /\ hist[i].target \in Targets /\ hist[i].node.build \in Nat
           /\ hist[i].node.build <= rel[hist[i].target]
<1>1. hist[i] \in Snapshots /\ RecordInv(hist[i])
  BY HistFacts DEF TestInv, HistInv
<1> QED BY <1>1 DEF RecordInv, Snapshots, NodeRecords

LEMMA CheckStep ==
    ASSUME TestInv, NEW c \in Command, Check(c)
    PROVE  TestInv'
<1>1. /\ TypeOK /\ WorldInv /\ JobInv(cmd[c]) /\ cmd[c] \in Jobs /\ cmd[c].base <= Newest
      /\ cmd[c].pc = "running"
      /\ UNCHANGED <<world, rel, builds, manifest, sources, hist>>
      /\ manifest' \in [by : Command \cup {None}, checks : Digests]
  BY DEF TestInv, TypeOK, CommandInv, Check
<1>2. /\ cmd[c].kind \in Kinds /\ cmd[c].target \in Targets /\ cmd[c].build <= rel[cmd[c].target]
      /\ cmd[c].checks \in Digests /\ cmd[c].started \in Times /\ cmd[c].started <= clock
      /\ cmd[c].kind = "test" /\ cmd[c].base # 0 => hist[cmd[c].base].target = cmd[c].target
      /\ cmd[c].base # 0 /\ cmd[c].build # 0 => hist[cmd[c].base].node.build <= cmd[c].build
      /\ cmd[c].src # None => cmd[c].src.version <= data
  BY <1>1 DEF JobInv, Ended
<1>3. PICK node, source, k, j :
        /\ node \in Results \cup {"kept"} /\ source \in Results
        /\ k = [cmd[c] EXCEPT !.pc = "checked", !.node_due = FALSE, !.source_due = FALSE,
                              !.node = node, !.source = source]
        /\ j = IF "pass" \in {k.node, k.source}
               THEN [k EXCEPT !.at = clock,
                        !.ran = [target |-> cmd[c].target, build |-> rel[cmd[c].target],
                                 data |-> data, during |-> Measuring]]
               ELSE [k EXCEPT !.started = None, !.src = None, !.checks = None]
        /\ Becomes(c, j)
  <2>1. PICK ok \in BOOLEAN, n \in Results, s \in Results : Becomes(c, Checked(c, ok, n, s))
    BY DEF Check, Results
  <2>2. Believed(c, ok, n, s, n) \in Results /\ Believed(c, ok, n, s, s) \in Results
    BY BelievedType
  <2>3. cmd[c].source \in Results /\ cmd[c].node \in Results \cup {"kept"}
    BY <1>1 DEF Jobs
  <2>4. PICK source \in Results :
          source = IF cmd[c].source_due THEN Believed(c, ok, n, s, s) ELSE cmd[c].source
    BY <2>2, <2>3
  <2>5. PICK node \in Results \cup {"kept"} :
          node = IF NodeChecked(c) THEN Believed(c, ok, n, s, n) ELSE cmd[c].node
    BY <2>2, <2>3
  <2>6. PICK k : k = [cmd[c] EXCEPT !.pc = "checked", !.node_due = FALSE, !.source_due = FALSE,
                                    !.node = node, !.source = source]
    OBVIOUS
  <2>7. PICK j : j = IF "pass" \in {k.node, k.source}
               THEN [k EXCEPT !.at = clock,
                        !.ran = [target |-> cmd[c].target, build |-> rel[cmd[c].target],
                                 data |-> data, during |-> Measuring]]
               ELSE [k EXCEPT !.started = None, !.src = None, !.checks = None]
    OBVIOUS
  <2>8. j = Checked(c, ok, n, s)
    BY <1>1, <2>4, <2>5, <2>6, <2>7 DEF Checked, Jobs
  <2> QED BY <2>1, <2>6, <2>7, <2>8
<1>4. /\ k \in Jobs /\ k.pc = "checked"
      /\ k.kind = cmd[c].kind /\ k.target = cmd[c].target /\ k.build = cmd[c].build
      /\ k.base = cmd[c].base /\ k.src = cmd[c].src /\ k.checks = cmd[c].checks
      /\ k.started = cmd[c].started
  <2>1. node \in Results \cup {"kept"} /\ source \in Results
        /\ k = [cmd[c] EXCEPT !.pc = "checked", !.node_due = FALSE, !.source_due = FALSE,
                              !.node = node, !.source = source]
    BY <1>3
  <2> QED BY <1>1, <2>1 DEF Jobs
<1>5. clock \in Nat /\ data \in 0..MaxData /\ clock \in Times /\ rel[cmd[c].target] \in Nat
      /\ sources.at \in Nat
  BY <1>1, <1>2, StateTestAssumption DEF TypeOK, Times, Readings
<1>6. CASE "pass" \in {k.node, k.source}
  <2>1. PICK ran : ran = [target |-> cmd[c].target, build |-> rel[cmd[c].target], data |-> data,
                          during |-> Measuring]
    OBVIOUS
  <2>2. ran \in Ran
    BY <1>2, <1>5, <2>1 DEF Ran, Measuring
  <2>3. /\ j \in Jobs /\ j.pc = "checked"
        /\ j.kind = cmd[c].kind /\ j.target = cmd[c].target /\ j.build = cmd[c].build
        /\ j.base = cmd[c].base /\ j.src = cmd[c].src /\ j.checks = cmd[c].checks
        /\ j.started = cmd[c].started /\ j.at = clock /\ j.ran = ran
    <3>1. j = [k EXCEPT !.at = clock, !.ran = ran]
      BY <1>3, <1>6, <2>1
    <3> QED BY <1>4, <1>5, <2>2, <3>1 DEF Jobs
  <2>4. cmd[c].kind = "test" /\ cmd[c].base # 0 =>
          hist[cmd[c].base].node.build <= rel[cmd[c].target]
    <3>1. cmd[c].base # 0 => cmd[c].base \in 1..Newest
      BY <1>1, HistFacts DEF Jobs
    <3> QED BY <1>2, <3>1, HeldBuild
  <2>5. SinceInv(clock, ran)
    BY <1>1, <1>5, <2>1 DEF SinceInv, WorldInv
  <2>6. PassInv(j)
    BY <1>1, <1>2, <1>5, <2>1, <2>2, <2>3, <2>4, <2>5 DEF PassInv, WorldInv
  <2>7. JobInv(j)
    BY <1>2, <2>3, <2>6 DEF JobInv, Ended
  <2> QED BY <1>1, <1>3, <2>3, <2>7, OnlyCommandStep
<1>7. CASE "pass" \notin {k.node, k.source}
  <2>1. /\ j \in Jobs /\ j.pc = "checked" /\ j.node = k.node /\ j.source = k.source
        /\ j.kind = cmd[c].kind /\ j.target = cmd[c].target /\ j.build = cmd[c].build
        /\ j.base = cmd[c].base /\ j.src = None
    <3>1. j = [k EXCEPT !.started = None, !.src = None, !.checks = None]
      BY <1>3, <1>7
    <3> QED BY <1>4, <3>1 DEF Jobs
  <2>2. JobInv(j)
    BY <1>2, <1>7, <2>1 DEF JobInv, Ended
  <2> QED BY <1>1, <1>3, <2>1, <2>2, OnlyCommandStep
<1> QED BY <1>6, <1>7

(***************************************************************************)
(* What is recorded.                                                       *)
(***************************************************************************)

\* What a command that may record knows.
LEMMA RecordsFacts ==
    ASSUME TestInv, NEW c \in Command, Records(c), Newest = cmd[c].base
    PROVE  /\ TypeOK /\ cmd[c] \in Jobs /\ Newest \in Nat
           /\ cmd[c].kind \in Kinds /\ cmd[c].target \in Targets
           /\ cmd[c].build \in Nat /\ cmd[c].build <= rel[cmd[c].target]
           /\ cmd[c].kind = "test" /\ Newest # 0 => hist[Newest].target = cmd[c].target
           /\ Newest # 0 /\ cmd[c].build # 0 => hist[Newest].node.build <= cmd[c].build
           /\ "pass" \in {cmd[c].node, cmd[c].source} => PassInv(cmd[c])
           /\ rel \in [Targets -> Nat]
<1>1. TypeOK /\ cmd[c] \in Jobs /\ JobInv(cmd[c]) /\ cmd[c].pc = "checked" /\ Newest \in Nat
  BY HistFacts DEF TestInv, TypeOK, CommandInv, Records
<1> QED BY <1>1 DEF JobInv, Jobs, Ended, TypeOK

\* What the snapshot says of the model, after a test: the build of the head, and a mark
\* of checks that saw it.
LEMMA RecordedByTest ==
    ASSUME TestInv, NEW c \in Command, Records(c), Newest = cmd[c].base, cmd[c].kind = "test"
    PROVE  /\ RecordTests(c) \in NodeRecords
           /\ RecordTests(c).build = NodeAt(Newest).build
           /\ RecordTests(c).tested # None =>
                /\ RecordTests(c).tested.ran.target = cmd[c].target
                /\ RecordTests(c).tested.ran.build >= RecordTests(c).build
<1>1. /\ TypeOK /\ Newest \in Nat /\ cmd[c].target \in Targets
      /\ Newest # 0 => hist[Newest].target = cmd[c].target
      /\ "pass" \in {cmd[c].node, cmd[c].source} => PassInv(cmd[c])
  BY RecordsFacts
<1>2. NodeAt(Newest) \in NodeRecords
  BY <1>1, NodeAtType
<1>3. NodeAt(Newest).tested # None =>
        /\ NodeAt(Newest).tested.ran.target = cmd[c].target
        /\ NodeAt(Newest).tested.ran.build >= NodeAt(Newest).build
  <2>1. CASE Newest = 0
    BY <2>1 DEF NodeAt, NoRecord
  <2>2. CASE Newest # 0
    <3>1. Newest \in DOMAIN hist /\ NodeAt(Newest) = hist[Newest].node
      BY <1>1, <2>2, HistFacts DEF NodeAt
    <3> QED BY <1>1, <2>2, <3>1 DEF TestInv, TestedNotBeforeBuild
  <2> QED BY <2>1, <2>2
<1>4. CASE cmd[c].node = "pass"
  <2>1. PassInv(cmd[c])
    BY <1>1, <1>4
  <2>2. TestMark(c) \in [checks : Digests, ran : Ran] /\ TestMark(c).ran = cmd[c].ran
    BY <2>1 DEF TestMark, PassInv
  <2>3. RecordTests(c) = [NodeAt(Newest) EXCEPT !.tested = TestMark(c)]
    BY <1>4 DEF RecordTests
  <2>4. /\ RecordTests(c) \in NodeRecords /\ RecordTests(c).tested = TestMark(c)
        /\ RecordTests(c).build = NodeAt(Newest).build
    BY <1>2, <2>2, <2>3 DEF NodeRecords
  <2>5. NodeAt(Newest).build <= cmd[c].ran.build
    <3>1. CASE Newest = 0
      BY <2>1, <3>1 DEF NodeAt, NoRecord, PassInv, Ran
    <3>2. CASE Newest # 0
      BY <2>1, <3>2 DEF NodeAt, PassInv
    <3> QED BY <3>1, <3>2
  <2>6. cmd[c].ran.build \in Nat /\ NodeAt(Newest).build \in Nat
        /\ cmd[c].ran.target = cmd[c].target
    BY <1>2, <2>1 DEF PassInv, Ran, NodeRecords
  <2> QED BY <2>2, <2>4, <2>5, <2>6
<1>5. CASE cmd[c].node = "fail"
  <2>1. RecordTests(c) = [NodeAt(Newest) EXCEPT !.tested = None]
    BY <1>5 DEF RecordTests
  <2> QED BY <1>2, <2>1 DEF NodeRecords
<1>6. CASE cmd[c].node \notin {"pass", "fail"}
  <2>1. RecordTests(c) = NodeAt(Newest)
    BY <1>2, <1>6 DEF RecordTests, NodeRecords
  <2> QED BY <1>2, <1>3, <2>1
<1> QED BY <1>4, <1>5, <1>6

\* The same, after a run: its own build, or what its target's head says.
LEMMA RecordedByRun ==
    ASSUME TestInv, NEW c \in Command, Records(c), Newest = cmd[c].base
    PROVE  /\ RecordRun(c) \in NodeRecords
           /\ RecordRun(c).build <= rel[cmd[c].target]
           /\ RecordRun(c).tested # None =>
                /\ RecordRun(c).tested.ran.target = cmd[c].target
                /\ RecordRun(c).tested.ran.build >= RecordRun(c).build
           /\ Newest # 0 /\ hist[Newest].target = cmd[c].target =>
                hist[Newest].node.build <= RecordRun(c).build
<1>1. /\ TypeOK /\ Newest \in Nat /\ cmd[c].target \in Targets
      /\ cmd[c].build \in Nat /\ cmd[c].build <= rel[cmd[c].target] /\ rel \in [Targets -> Nat]
      /\ Newest # 0 /\ cmd[c].build # 0 => hist[Newest].node.build <= cmd[c].build
      /\ "pass" \in {cmd[c].node, cmd[c].source} => PassInv(cmd[c])
  BY RecordsFacts
<1>2. PICK old : old = NodeAt(Before(c))
  OBVIOUS
<1>3. /\ old \in NodeRecords /\ old.build <= rel[cmd[c].target]
      /\ old.tested # None =>
           old.tested.ran.target = cmd[c].target /\ old.tested.ran.build >= old.build
      /\ Newest # 0 /\ hist[Newest].target = cmd[c].target => hist[Newest].node = old
  <2>1. CASE Newest # 0 /\ hist[Newest].target = cmd[c].target
    <3>1. Newest \in DOMAIN hist /\ Newest \in 1..Newest /\ old = hist[Newest].node
      BY <1>1, <1>2, <2>1, HistFacts DEF Before, InTarget, NodeAt
    <3>2. hist[Newest] \in Snapshots /\ hist[Newest].node.build <= rel[hist[Newest].target]
      BY <3>1, HeldBuild
    <3> QED BY <2>1, <3>1, <3>2 DEF TestInv, TestedNotBeforeBuild, Snapshots
  <2>2. CASE ~(Newest # 0 /\ hist[Newest].target = cmd[c].target)
    <3>1. old = NoRecord
      BY <1>2, <2>2 DEF Before, InTarget, NodeAt
    <3> QED BY <1>1, <2>2, <3>1 DEF NoRecord, NodeRecords
  <2> QED BY <2>1, <2>2
<1>4. old.build \in Nat
  BY <1>3 DEF NodeRecords
<1>5. CASE Advances(c)
  <2>1. PICK mark : mark = IF cmd[c].node = "pass" THEN TestMark(c) ELSE None
    OBVIOUS
  <2>2. RecordRun(c) = [build |-> cmd[c].build, tested |-> mark]
    BY <1>5, <2>1 DEF RecordRun, Advances
  <2>3. /\ mark \in {None} \cup [checks : Digests, ran : Ran]
        /\ mark # None => mark.ran.target = cmd[c].target /\ mark.ran.build >= cmd[c].build
    BY <1>1, <2>1 DEF TestMark, PassInv, Ran
  <2> QED BY <1>1, <1>5, <2>2, <2>3 DEF NodeRecords, Advances
<1>6. CASE ~Advances(c) /\ cmd[c].node = "fail"
  <2>1. RecordRun(c) = [old EXCEPT !.tested = None]
    BY <1>2, <1>6 DEF RecordRun
  <2>2. RecordRun(c) \in NodeRecords /\ RecordRun(c).build = old.build /\ RecordRun(c).tested = None
    BY <1>3, <2>1 DEF NodeRecords
  <2> QED BY <1>3, <1>4, <2>2
<1>7. CASE ~Advances(c) /\ cmd[c].node # "fail"
  <2>1. RecordRun(c) = old
    BY <1>2, <1>7 DEF RecordRun
  <2> QED BY <1>3, <1>4, <2>1
<1> QED BY <1>5, <1>6, <1>7

\* What the snapshot says of the source is true.
LEMMA RecordedSource ==
    ASSUME TestInv, NEW c \in Command, Records(c), Newest = cmd[c].base
    PROVE  \E x \in SourceRecords \cup {None} :
             x = RecordSourceChecks(c) /\ (x # None => SourceInv(x))
<1>1. /\ TypeOK /\ Newest \in Nat /\ cmd[c] \in Jobs
      /\ "pass" \in {cmd[c].node, cmd[c].source} => PassInv(cmd[c])
  BY RecordsFacts
<1>2. CASE cmd[c].source = "pass"
  <2>1. PICK v : v = KnownVersion(c)
    OBVIOUS
  <2>2. PICK x : x = [version |-> v, checks |-> cmd[c].checks, at |-> cmd[c].at, ran |-> cmd[c].ran]
    OBVIOUS
  <2>3. PassInv(cmd[c])
    BY <1>1, <1>2
  <2>4. /\ v \in {None} \cup 0..MaxData
        /\ v # None => v <= cmd[c].ran.data
    <3>1. CASE cmd[c].kind = "test"
      <4>1. cmd[c].src \in Readings \cup {None} /\ v = IF cmd[c].src = None THEN None ELSE cmd[c].src.version
        BY <1>1, <2>1, <3>1 DEF KnownVersion, Jobs
      <4> QED BY <2>3, <4>1 DEF PassInv, Readings
    <3>2. CASE cmd[c].kind # "test"
      <4>1. PICK r : r = MeasuredBefore(Loaded(c), cmd[c].started)
        OBVIOUS
      <4>2. v = IF r = None THEN None ELSE r.version
        BY <2>1, <3>2, <4>1 DEF KnownVersion
      <4>3. r # None => r = sources /\ sources.at < cmd[c].started
        BY <4>1 DEF MeasuredBefore, Loaded
      <4>4. sources.version \in 0..MaxData
        BY <1>1 DEF TypeOK, Readings
      <4> QED BY <2>3, <4>2, <4>3, <4>4 DEF PassInv
    <3> QED BY <3>1, <3>2
  <2>5. x \in SourceRecords
    BY <2>2, <2>3, <2>4 DEF PassInv, SourceRecords
  <2>6. SourceInv(x)
    BY <2>2, <2>3, <2>4 DEF PassInv, SourceInv
  <2>7. x = RecordSourceChecks(c)
    BY <1>2, <2>1, <2>2 DEF RecordSourceChecks
  <2> QED BY <2>5, <2>6, <2>7
<1>3. CASE cmd[c].source = "fail"
  BY <1>3 DEF RecordSourceChecks
<1>4. CASE cmd[c].source \notin {"pass", "fail"}
  <2>1. PICK x : x = SourceAt(Before(c))
    OBVIOUS
  <2>2. x = RecordSourceChecks(c)
    BY <1>4, <2>1 DEF RecordSourceChecks
  <2>3. CASE Before(c) = 0
    BY <2>1, <2>2, <2>3 DEF SourceAt
  <2>4. CASE Before(c) # 0
    <3>1. Before(c) = Newest /\ Newest \in 1..Newest
      BY <1>1, <2>4 DEF Before, InTarget
    <3>2. hist[Newest] \in Snapshots /\ RecordInv(hist[Newest]) /\ x = hist[Newest].source
      BY <1>1, <2>1, <2>4, <3>1, HistFacts DEF TestInv, HistInv, SourceAt
    <3> QED BY <2>2, <3>2 DEF Snapshots, RecordInv
  <2> QED BY <2>3, <2>4
<1> QED BY <1>2, <1>3, <1>4

\* A snapshot that may follow the head.
Follows(h) ==
    /\ RecordInv(h)
    /\ h.node.tested # None =>
         /\ h.node.tested.ran.target = h.target
         /\ h.node.tested.ran.build >= h.node.build
    /\ Newest # 0 =>
         /\ h.by = "test" => /\ h.target = hist[Newest].target
                             /\ h.node.build = hist[Newest].node.build
         /\ h.target = hist[Newest].target => h.node.build >= hist[Newest].node.build

LEMMA RecordedSnapshot ==
    ASSUME TestInv, NEW c \in Command, Records(c), Newest = cmd[c].base
    PROVE  \E h \in Snapshots : h = Snapshot(c) /\ Follows(h)
<1>1. /\ TypeOK /\ Newest \in Nat /\ cmd[c].kind \in Kinds /\ cmd[c].target \in Targets
      /\ cmd[c].kind = "test" /\ Newest # 0 => hist[Newest].target = cmd[c].target
      /\ rel \in [Targets -> Nat]
  BY RecordsFacts
<1>2. PICK x \in SourceRecords \cup {None} :
        x = RecordSourceChecks(c) /\ (x # None => SourceInv(x))
  BY RecordedSource
<1>3. PICK n : n = IF cmd[c].kind = "test" THEN RecordTests(c) ELSE RecordRun(c)
  OBVIOUS
<1>4. PICK h : h = [by |-> cmd[c].kind, target |-> cmd[c].target, node |-> n, source |-> x]
  OBVIOUS
<1>5. h = Snapshot(c)
  BY <1>1, <1>2, <1>3, <1>4 DEF Snapshot
<1>6. Newest # 0 => hist[Newest].node.build \in Nat
                    /\ hist[Newest].node.build <= rel[hist[Newest].target]
  BY <1>1, HeldBuild
<1>7. /\ n \in NodeRecords /\ n.build <= rel[cmd[c].target]
      /\ n.tested # None => n.tested.ran.target = cmd[c].target /\ n.tested.ran.build >= n.build
      /\ Newest # 0 =>
           /\ cmd[c].kind = "test" => n.build = hist[Newest].node.build
           /\ hist[Newest].target = cmd[c].target => hist[Newest].node.build <= n.build
  <2>1. CASE cmd[c].kind = "test"
    <3>1. NodeAt(Newest).build = IF Newest = 0 THEN 0 ELSE hist[Newest].node.build
      BY DEF NodeAt, NoRecord
    <3>2. /\ n \in NodeRecords /\ n.build = NodeAt(Newest).build
          /\ n.tested # None => n.tested.ran.target = cmd[c].target /\ n.tested.ran.build >= n.build
      BY <1>3, <2>1, RecordedByTest
    <3>3. rel[cmd[c].target] \in Nat
      BY <1>1
    <3> QED BY <1>1, <1>6, <2>1, <3>1, <3>2, <3>3
  <2>2. CASE cmd[c].kind # "test"
    BY <1>3, <2>2, RecordedByRun
  <2> QED BY <2>1, <2>2
<1>8. n.build \in Nat
  BY <1>7 DEF NodeRecords
<1>9. h \in Snapshots
  BY <1>1, <1>2, <1>4, <1>7 DEF Snapshots
<1>10. RecordInv(h)
  BY <1>2, <1>4, <1>7 DEF RecordInv
<1> QED BY <1>1, <1>4, <1>5, <1>6, <1>7, <1>8, <1>9, <1>10 DEF Follows

LEMMA RecordStep ==
    ASSUME TestInv, NEW c \in Command, Record(c)
    PROVE  TestInv'
<1>1. /\ Records(c) /\ Newest = cmd[c].base /\ hist' = Append(hist, Snapshot(c))
      /\ Becomes(c, Idle("done")) /\ UNCHANGED <<world, rel, builds, manifest, sources>>
      /\ TypeOK /\ WorldInv
  BY DEF Record, TestInv
<1>2. PICK h \in Snapshots : h = Snapshot(c) /\ Follows(h)
  BY <1>1, RecordedSnapshot
<1>3. /\ hist' \in Seq(Snapshots) /\ Newest' = Newest + 1 /\ hist'[Newest + 1] = h
      /\ \A i \in 1..Newest : hist'[i] = hist[i]
      /\ Newest \in Nat /\ DOMAIN hist = 1..Newest
  BY <1>1, <1>2, AppendFacts, HistFacts
<1>4. Idle("done") \in Jobs /\ Idle("done").base = 0 /\ JobInv(Idle("done"))'
  BY IdleJob, IdleInv DEF Ended
<1>5. TypeOK'
  <2>1. cmd' \in [Command -> Jobs] /\ \A d \in Command : cmd'[d].base <= Newest'
    <3>1. ASSUME NEW d \in Command PROVE cmd'[d].base <= Newest + 1
      <4>1. cmd[d].base \in Nat /\ cmd[d].base <= Newest
        BY <1>1 DEF TypeOK, Jobs
      <4>2. cmd'[d] = cmd[d] \/ cmd'[d] = Idle("done")
        BY <1>1 DEF TypeOK, Becomes
      <4> QED BY <1>3, <1>4, <4>1, <4>2
    <3> QED BY <1>1, <1>3, <1>4, <3>1 DEF TypeOK, Becomes
  <2> QED BY <1>1, <1>3, <2>1 DEF TypeOK, world
<1>6. Grows
  <2>1. \A d \in Measuring' : d \in Measuring /\ cmd'[d].queried = cmd[d].queried
    <3>1. Idle("done").pc # "measuring"
      BY DEF Idle
    <3> QED BY <1>1, <3>1 DEF TypeOK, Becomes, Measuring
  <2> QED BY <1>1, <1>3, <2>1, StateTestAssumption DEF TypeOK, Grows, world, Times
<1>7. WorldInv'
  BY <1>1 DEF WorldInv, world
<1>8. CommandInv'
  BY <1>1, <1>4, <1>5, <1>6, CommandStep
<1>9. HistInv'
  <2>1. RecordInv(h)'
    <3>1. RecordInv(h)
      BY <1>2 DEF Follows
    <3> QED BY <1>1, <1>5, <1>6, <3>1, RecordStays
  <2>2. ASSUME NEW i \in 1..(Newest + 1) PROVE RecordInv(hist[i])'
    <3>1. CASE i = Newest + 1
      BY <1>3, <2>1, <3>1 DEF RecordInv, SourceInv, SinceInv
    <3>2. CASE i # Newest + 1
      <4>1. i \in 1..Newest
        BY <1>3, <3>2
      <4> QED BY <1>5, <1>6, <4>1, HistStep
    <3> QED BY <3>1, <3>2
  <2> QED BY <1>3, <2>2 DEF HistInv
<1>10. TestedNotBeforeBuild'
  <2>1. DOMAIN hist' = 1..(Newest + 1)
    BY <1>3 DEF Newest
  <2>2. ASSUME NEW i \in 1..(Newest + 1), hist'[i].node.tested # None
        PROVE  /\ hist'[i].node.tested.ran.target = hist'[i].target
               /\ hist'[i].node.tested.ran.build >= hist'[i].node.build
    <3>1. CASE i = Newest + 1
      BY <1>2, <1>3, <2>2, <3>1 DEF Follows
    <3>2. CASE i # Newest + 1
      <4>1. i \in DOMAIN hist /\ hist'[i] = hist[i]
        BY <1>3, <3>2
      <4> QED BY <2>2, <4>1 DEF TestInv, TestedNotBeforeBuild
    <3> QED BY <3>1, <3>2
  <2> QED BY <2>1, <2>2 DEF TestedNotBeforeBuild
<1>11. NoBuildLost'
  <2>1. ASSUME NEW i \in 1..Newest
        PROVE  /\ hist'[i + 1].by = "test" =>
                    /\ hist'[i + 1].target = hist'[i].target
                    /\ hist'[i + 1].node.build = hist'[i].node.build
               /\ hist'[i + 1].target = hist'[i].target =>
                    hist'[i + 1].node.build >= hist'[i].node.build
    <3>1. CASE i = Newest
      <4>1. hist'[i] = hist[Newest] /\ hist'[i + 1] = h /\ Newest # 0
        BY <1>3, <3>1
      <4> QED BY <1>2, <4>1 DEF Follows
    <3>2. CASE i # Newest
      <4>1. i \in 1..Newest - 1 /\ hist'[i] = hist[i] /\ hist'[i + 1] = hist[i + 1]
        BY <1>3, <3>2
      <4> QED BY <4>1 DEF TestInv, NoBuildLost
    <3> QED BY <3>1, <3>2
  <2>2. 1..(Newest + 1) - 1 = 1..Newest
    BY <1>3
  <2> QED BY <1>3, <2>1, <2>2 DEF NoBuildLost
<1> QED BY <1>5, <1>7, <1>8, <1>9, <1>10, <1>11 DEF TestInv

LEMMA NextInv == TestInv /\ [Next]_vars => TestInv'
<1> SUFFICES ASSUME TestInv, [Next]_vars PROVE TestInv' OBVIOUS
<1>1. CASE UNCHANGED vars
  BY <1>1 DEF vars, TestInv, TypeOK, WorldInv, HistInv, CommandInv, JobInv, PassInv, RecordInv,
              SourceInv, SinceInv, Measuring, TestedNotBeforeBuild, NoBuildLost, Newest
<1>2. CASE Next
  BY <1>2, WorldStep, BeginStep, MeasuredStep, PlanStep, EndStep, StartStep, CheckStep, RecordStep
     DEF Next
<1> QED BY <1>1, <1>2

(***************************************************************************)
(* The inductive invariant holds in every reachable state.                 *)
(***************************************************************************)
THEOREM TestInvariant == Spec => []TestInv
  BY InitInv, NextInv, PTL DEF Spec

(***************************************************************************)
(* The project's records, and what its commands remember between steps,    *)
(* keep to their types.                                                    *)
(***************************************************************************)
THEOREM TestTypesHold == Spec => []TypeOK
<1>1. TestInv => TypeOK
  BY DEF TestInv
<1> QED BY <1>1, TestInvariant, PTL

(***************************************************************************)
(* No `tested' mark vouches for a build its checks had not seen, however   *)
(* many builds and tests overlap, in however many targets.                 *)
(***************************************************************************)
THEOREM TestedMarksAreTrue == Spec => []TestedNotBeforeBuild
<1>1. TestInv => TestedNotBeforeBuild
  BY DEF TestInv
<1> QED BY <1>1, TestInvariant, PTL

(***************************************************************************)
(* No snapshot of a test, or of a run in the same target, takes back a     *)
(* build the snapshot before it recorded.                                  *)
(***************************************************************************)
THEOREM BuildsAreKept == Spec => []NoBuildLost
<1>1. TestInv => NoBuildLost
  BY DEF TestInv
<1> QED BY <1>1, TestInvariant, PTL

(***************************************************************************)
(* A source's checks are left out only when they passed on the data that   *)
(* was measured, or while it was being measured, whenever data is loaded   *)
(* and whoever measures.                                                   *)
(***************************************************************************)
THEOREM SkippedSourcesAreTested == Spec => []SkippedSourceIsTested
<1>1. TestInv => SkippedSourceIsTested
  BY DEF TestInv, CommandInv, JobInv, SkippedSourceIsTested, Covers
<1> QED BY <1>1, TestInvariant, PTL
=============================================================================
