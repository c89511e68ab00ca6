--------------------------- MODULE SourceVersions ---------------------------
(***************************************************************************)
(* How a plan gets the data version of each source                         *)
(* (crates/ods-state/src/versions.rs), from up to two readings: the table  *)
(* versions a warehouse reports, and the `sources.json' that               *)
(* `dbt source freshness' writes.                                          *)
(*                                                                         *)
(* A reading is [at, answers]: when it says its versions were read (None:  *)
(* unknown), and for each source a version or None.                        *)
(***************************************************************************)
EXTENDS Integers

CONSTANTS
    Sources,    \* the project's sources
    None        \* an absent value

DataVersion(value, exactness, origin) ==
    [value |-> value, exactness |-> exactness, origin |-> origin]

\* max_loaded_at, and a table's version in its history.
FreshnessVersion(value) == DataVersion(value, "Semantic", "sources.json max_loaded_at")
TableVersion(value) == DataVersion(value, "Exact", "table_version")

NoReading == [at |-> None, answers |-> [s \in Sources |-> None]]

(***************************************************************************)
(* A relation version over a freshness measurement, source by source, with *)
(* the time of the reading it came from; neither: no version, no time.     *)
(***************************************************************************)
ChooseSourceVersion(table, file, s) ==
    IF table.answers[s] # None THEN [version |-> table.answers[s], observed |-> table.at]
    ELSE IF file.answers[s] # None THEN [version |-> file.answers[s], observed |-> file.at]
    ELSE [version |-> None, observed |-> None]

ChooseSourceVersions(table, file) ==
    [s \in Sources |-> ChooseSourceVersion(table, file, s)]

\* Fault: a version read in the second the run started is kept.
KeepVersionsReadBy(chosen, started) ==
    [s \in Sources |->
       IF chosen[s].observed # None /\ started # None /\ chosen[s].observed <= started
       THEN chosen[s].version ELSE None]

(***************************************************************************)
(* What a run may record of its sources: only versions read strictly       *)
(* before it started (timestamps are to the second).                       *)
(***************************************************************************)
KeepVersionsReadBefore(chosen, started) ==
    [s \in Sources |->
       IF chosen[s].observed # None /\ started # None /\ chosen[s].observed < started
       THEN chosen[s].version ELSE None]
=============================================================================
