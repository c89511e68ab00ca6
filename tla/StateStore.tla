----------------------------- MODULE StateStore -----------------------------
(***************************************************************************)
(* What the `state_store' contract promises                                *)
(* (crates/ods-sdk/src/contracts/state_store.rs): per scope, a chain of    *)
(* immutable snapshots and a head, the latest one.  commit is a            *)
(* compare-and-swap on the head a client read: it appends a snapshot with  *)
(* a fresh, larger id, or it changes nothing.  Clients may stop at any     *)
(* time, before or after their snapshot is in the chain.                   *)
(***************************************************************************)
EXTENDS Naturals

CONSTANTS
    Scopes,     \* <project>/<environment> pairs
    Clients,    \* processes using the store
    Ids         \* the snapshot ids there can be, a set of positive numbers

VARIABLES
    kept,       \* the snapshots the store keeps: records [id, scope, parent]
    head,       \* head[s]: the id of the latest snapshot of scope s, 0 when it has none
    want,       \* want[c]: the commit client c is after, [scope, parent]
    reply       \* reply[c]: "none" (no call), "pending", or the answer it got

vars == <<kept, head, want, reply>>

Init ==
    /\ kept = {}
    /\ head = [s \in Scopes |-> 0]
    /\ want \in [Clients -> [scope : Scopes, parent : {0}]]
    /\ reply = [c \in Clients |-> "none"]

(***************************************************************************)
(* A client reads the head it will build its next snapshot on.             *)
(***************************************************************************)
Latest(c, s) ==
    /\ reply[c] = "none"
    /\ want' = [want EXCEPT ![c] = [scope |-> s, parent |-> head[s]]]
    /\ reply' = [reply EXCEPT ![c] = "pending"]
    /\ UNCHANGED <<kept, head>>

(***************************************************************************)
(* The compare-and-swap: snapshot and head move together.                  *)
(***************************************************************************)
Commit(c) ==
    /\ reply[c] = "pending"
    /\ head[want[c].scope] = want[c].parent
    /\ \E id \in Ids :
         /\ \A snapshot \in kept : id > snapshot.id
         /\ kept' = kept \cup {[id |-> id, scope |-> want[c].scope, parent |-> want[c].parent]}
         /\ head' = [head EXCEPT ![want[c].scope] = id]
    /\ reply' = [reply EXCEPT ![c] = "committed"]
    /\ UNCHANGED want

\* A conflict is only ever answered when the head really is another one.
Conflict(c) ==
    /\ reply[c] = "pending"
    /\ head[want[c].scope] # want[c].parent
    /\ reply' = [reply EXCEPT ![c] = "conflict"]
    /\ UNCHANGED <<kept, head, want>>

\* A failed commit leaves no trace.
Fail(c) ==
    /\ reply[c] = "pending"
    /\ \E answer \in {"unavailable", "failed"} : reply' = [reply EXCEPT ![c] = answer]
    /\ UNCHANGED <<kept, head, want>>

\* The client is done with its answer, or is interrupted: an interrupted commit leaves no trace.
Leave(c) ==
    /\ reply[c] # "none"
    /\ reply' = [reply EXCEPT ![c] = "none"]
    /\ UNCHANGED <<kept, head, want>>

Next ==
    \E c \in Clients :
      \/ \E s \in Scopes : Latest(c, s)
      \/ Commit(c)
      \/ Conflict(c)
      \/ Fail(c)
      \/ Leave(c)

Spec == Init /\ [][Next]_vars
=============================================================================
