---------------------------- MODULE SavedReadings ----------------------------
(***************************************************************************)
(* The source versions that commands save beside the state database        *)
(* (crates/ods-cli/src/commands/state_readings.rs): `<state-db>.versions.json' *)
(* holds the latest reading of each scope.  Every command that reads the   *)
(* warehouse merges its reading into it under a lock; `ods state plan',    *)
(* `explain' and `ods serve' load it without one.                          *)
(*                                                                         *)
(* One source stands for each scope's sources: a merge treats every source *)
(* alike and on its own.  The reader's capabilities are left out: the only *)
(* reader that is saved has always the same.                               *)
(***************************************************************************)
EXTENDS Naturals, FiniteSets

CONSTANTS
    Savers,     \* the commands that read the warehouse
    Scopes,     \* the scopes that share the state database
    MaxSecond,  \* bound: the last second
    MaxVersion, \* bound: the last version of the source's data
    None

VARIABLES
    second,     \* the time, in seconds
    version,    \* the source's version in the warehouse
    file,       \* the file: [is, readings]
    lock,       \* who holds the lock file, or None
    saver,      \* the commands: [pc, scope, at, answer, merged]
    saved       \* history: the readings saved since the file was last lost

readingsVars == <<second, version, file, lock, saver, saved>>

Unknown == None     \* an answer without a version; why is of no consequence
Answers == (0..MaxVersion) \cup {Unknown}
Kept == [at : 0..MaxSecond, answer : Answers]
FileStates == [is : {"none", "ok", "damaged", "newer"}, readings : [Scopes -> Kept \cup {None}]]
Empty == [s \in Scopes |-> None]

ASSUME ReadingsAssumption ==
    /\ MaxSecond \in Nat /\ MaxVersion \in Nat
    /\ None \notin Savers /\ None \notin Kept

Resting == [pc |-> "done", scope |-> None, at |-> 0, answer |-> Unknown, merged |-> Empty]

ReadingsTypeOK ==
    /\ second \in 0..MaxSecond /\ version \in 0..MaxVersion
    /\ file \in FileStates
    /\ lock \in Savers \cup {None}
    /\ saver \in [Savers -> [pc : {"new", "asking", "saving", "merging", "writing", "done"},
                             scope : Scopes \cup {None}, at : 0..MaxSecond, answer : Answers,
                             merged : [Scopes -> Kept \cup {None}]]]
    /\ saved \subseteq [scope : Scopes, at : 0..MaxSecond, answer : Answers]

ReadingsInit ==
    /\ second = 0 /\ version = 0
    /\ file = [is |-> "none", readings |-> Empty]
    /\ lock = None
    /\ saver = [c \in Savers |-> [Resting EXCEPT !.pc = "new"]]
    /\ saved = {}

At(c, pc) == saver[c].pc = pc
Goes(c, pc) == saver' = [saver EXCEPT ![c].pc = pc]
\* The save returned: the lock is released as it does.
Returns(c) == saver' = [saver EXCEPT ![c] = Resting] /\ lock' = IF lock = c THEN None ELSE lock

(***************************************************************************)
(* The world: time passes, data arrives, and the file is damaged or        *)
(* written by a newer ODS.                                                 *)
(***************************************************************************)
SecondPasses ==
    /\ second < MaxSecond
    /\ second' = second + 1
    /\ UNCHANGED <<version, file, lock, saver, saved>>

DataArrives ==
    /\ version < MaxVersion
    /\ version' = version + 1
    /\ UNCHANGED <<second, file, lock, saver, saved>>

\* A newer ODS takes the lock too.
FileLost(is) ==
    /\ file.is = "ok"
    /\ is = "newer" => lock = None
    /\ file' = [is |-> is, readings |-> Empty]
    /\ saved' = {}
    /\ UNCHANGED <<second, version, lock, saver>>

(***************************************************************************)
(* The reading: its time is when it started, its answer comes later.       *)
(***************************************************************************)
Start(c, s) ==
    /\ At(c, "new")
    /\ saver' = [saver EXCEPT ![c] = [Resting EXCEPT !.pc = "asking", !.scope = s, !.at = second]]
    /\ UNCHANGED <<second, version, file, lock, saved>>

Probe(c, answer) ==
    /\ At(c, "asking")
    /\ saver' = [saver EXCEPT ![c].pc = "saving", ![c].answer = answer]
    /\ UNCHANGED <<second, version, file, lock, saved>>

(***************************************************************************)
(* save: read, merge and write under the lock.                             *)
(***************************************************************************)
\* Fault: the lock is not awaited.
LockedAnyway(c) ==
    /\ At(c, "saving")
    /\ lock' = c
    /\ Goes(c, "merging")
    /\ UNCHANGED <<second, version, file, saved>>

Locked(c) ==
    /\ At(c, "saving")
    /\ lock = None
    /\ lock' = c
    /\ Goes(c, "merging")
    /\ UNCHANGED <<second, version, file, saved>>

\* Two readings of one second.
\* Fault: an answer that is unknown gives way to one that is not.
TieOfKnown(this, kept) ==
    IF this = Unknown THEN kept ELSE IF kept = Unknown \/ kept = this THEN this ELSE Unknown

Tie(this, kept) == IF this = kept THEN this ELSE Unknown

\* A file that is missing or damaged counts as empty.
Before == IF file.is = "ok" THEN file.readings ELSE Empty

NewerKept(c) ==
    LET kept == Before[saver[c].scope]
    IN  IF kept = None THEN FALSE ELSE kept.at > saver[c].at

Merged(c) ==
    LET kept == Before[saver[c].scope]
        this == saver[c].answer
        tied == IF kept = None THEN FALSE ELSE kept.at = saver[c].at
    IN  [Before EXCEPT ![saver[c].scope] =
           [at |-> saver[c].at, answer |-> IF tied THEN Tie(this, kept.answer) ELSE this]]

Saved(c) == saved \cup {[scope |-> saver[c].scope, at |-> saver[c].at, answer |-> saver[c].answer]}

\* A newer ODS wrote the file: it is left alone.
Refused(c) ==
    /\ At(c, "merging")
    /\ file.is = "newer"
    /\ Returns(c)
    /\ UNCHANGED <<second, version, file, saved>>

\* A later reading is there: it stays, and this one counts as saved.
Outdated(c) ==
    /\ At(c, "merging")
    /\ file.is # "newer"
    /\ NewerKept(c)
    /\ saved' = Saved(c)
    /\ Returns(c)
    /\ UNCHANGED <<second, version, file>>

Merge(c) ==
    /\ At(c, "merging")
    /\ file.is # "newer"
    /\ ~NewerKept(c)
    /\ saver' = [saver EXCEPT ![c].pc = "writing", ![c].merged = Merged(c)]
    /\ UNCHANGED <<second, version, file, lock, saved>>

\* Renamed into place, whole.
Write(c) ==
    /\ At(c, "writing")
    /\ file' = [is |-> "ok", readings |-> saver[c].merged]
    /\ saved' = Saved(c)
    /\ Returns(c)
    /\ UNCHANGED <<second, version>>

\* The lock or the file cannot be had or written, or the process is killed: nothing is
\* saved, and the lock ends with its holder.
Fails(c) ==
    /\ saver[c].pc \in {"asking", "saving", "merging", "writing"}
    /\ Returns(c)
    /\ UNCHANGED <<second, version, file, saved>>

ReadingsNext ==
    \/ SecondPasses
    \/ DataArrives
    \/ \E is \in {"damaged", "newer"} : FileLost(is)
    \/ \E c \in Savers :
         \/ \E s \in Scopes : Start(c, s)
         \/ \E answer \in {version, Unknown} : Probe(c, answer)
         \/ Locked(c) \/ Refused(c) \/ Outdated(c) \/ Merge(c) \/ Write(c) \/ Fails(c)

ReadingsSpec == ReadingsInit /\ [][ReadingsNext]_readingsVars

(***************************************************************************)
(* Properties.                                                             *)
(***************************************************************************)
\* What load gives a command that does not connect: the scope's reading, or None.
Loaded(s) == IF file.is = "ok" THEN file.readings[s] ELSE None

\* Once save has returned, no command that loads the scope sees a reading taken before
\* the one saved, whatever other commands save for this scope or another meanwhile.
\* Damage done between a command's merge and its write is undone by the write.
LatestReadingKept ==
    \A r \in saved : Loaded(r.scope) # None /\ Loaded(r.scope).at >= r.at

\* Two readings of one second that disagree are never believed, in whatever order they
\* and others of that second are saved.
TiesAreUnknown ==
    \A r \in saved :
        LET loaded == Loaded(r.scope)
        IN  loaded # None /\ loaded.at = r.at =>
              loaded.answer \in {r.answer, Unknown}
=============================================================================
