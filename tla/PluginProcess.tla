---------------------------- MODULE PluginProcess ----------------------------
(***************************************************************************)
(* One call of a script check or a plugin, run as a process                *)
(* (providers/ods-provider-process/src/lib.rs, Process::run and ask): the  *)
(* request is written to its stdin while its stdout and stderr are read,   *)
(* all through pipes of bounded size, until every process of its group has *)
(* ended, or the timeout.  What the process does, in which order it reads, *)
(* answers and logs, what it starts and whether it hangs, is the script's. *)
(* What it starts stays in its process group.                              *)
(***************************************************************************)
EXTENDS Naturals, Sequences, SequencesExt

CONSTANTS
    PipeSize,       \* what a pipe holds
    RequestSize,    \* the request
    AnswerLimit,    \* ANSWER_LIMIT
    MaxWritten,     \* bound: what the script writes to stdout, or to stderr
    NoAnswer        \* no result yet, and no status

VARIABLES
    pipe,       \* what is in each of the three pipes
    script,     \* the process: [alive, todo, wrote, status, says]
    helper,     \* what the process started: [alive, hangs]
    call        \* the host: [pc, left, open, kept, over, ended, killed, result]

pluginVars == <<pipe, script, helper, call>>

(***************************************************************************)
(* What a script does, in order: reads its request to the end, answers,    *)
(* logs, starts a process that ends by itself or not, or hangs.            *)
(***************************************************************************)
Doings == {"read", "answer", "log", "start", "start stuck", "hang"}

\* The pipes, the limit and the bounds are finite; NoAnswer is no doing, no status and no result.
ASSUME PluginAssumption ==
    /\ PipeSize \in Nat /\ RequestSize \in Nat
    /\ AnswerLimit \in Nat /\ MaxWritten \in Nat
    /\ NoAnswer \notin Doings \cup {"ok", "failed", "answer", "error"}

Programs == {p \in BoundedSeq(Doings, 3) : \A i, j \in DOMAIN p : p[i] = p[j] => i = j}

PluginTypeOK ==
    /\ pipe \in [{"in", "out", "err"} -> 0..PipeSize]
    /\ script \in [alive : BOOLEAN, todo : Programs, wrote : 0..MaxWritten,
                   answer : {0} \cup (AnswerLimit..MaxWritten),
                   status : {"ok", "failed", NoAnswer}, says : {"good", "junk", "other major"}]
    /\ helper \in [alive : BOOLEAN, hangs : BOOLEAN]
    /\ call \in [pc : {"waiting", "ended", "returned"}, left : 0..RequestSize, open : BOOLEAN,
                 kept : 0..AnswerLimit, over : BOOLEAN, ended : SUBSET {"out", "err"},
                 killed : BOOLEAN, result : {NoAnswer, "answer", "error"}]

\* The call once the command was spawned; one that could not be started is an error.
Called(started) ==
    [pc |-> IF started THEN "waiting" ELSE "returned",
     left |-> IF started THEN RequestSize ELSE 0, open |-> started, kept |-> 0,
     over |-> FALSE, ended |-> {}, killed |-> FALSE,
     result |-> IF started THEN NoAnswer ELSE "error"]

\* answer: how much the script has put on stdout once it is done with it.
PluginInit ==
    /\ pipe = [p \in {"in", "out", "err"} |-> 0]
    /\ \E p \in Programs, says \in {"good", "junk", "other major"}, started \in BOOLEAN :
         /\ script = [alive |-> started, todo |-> p, wrote |-> 0, answer |-> 0,
                      status |-> NoAnswer, says |-> says]
         /\ call = Called(started)
    /\ helper = [alive |-> FALSE, hangs |-> FALSE]

AnyAlive == script.alive \/ helper.alive
Doing == IF script.todo = <<>> THEN NoAnswer ELSE Head(script.todo)
Moves(to) == script' = [script EXCEPT !.todo = to]

(***************************************************************************)
(* The script.                                                             *)
(***************************************************************************)
ScriptReads ==
    /\ script.alive /\ Doing = "read"
    /\ \/ /\ pipe["in"] > 0
          /\ pipe' = [pipe EXCEPT !["in"] = @ - 1] /\ UNCHANGED script
       \/ /\ pipe["in"] = 0 /\ ~call.open
          /\ Moves(Tail(script.todo)) /\ UNCHANGED pipe
    /\ UNCHANGED <<helper, call>>

\* It writes to stdout or stderr; once it wrote enough, it is done with it.
ScriptWrites(to) ==
    /\ script.alive /\ Doing = (IF to = "out" THEN "answer" ELSE "log")
    /\ \/ /\ script.wrote < MaxWritten /\ pipe[to] < PipeSize
          /\ pipe' = [pipe EXCEPT ![to] = @ + 1]
          /\ script' = [script EXCEPT !.wrote = @ + 1]
       \/ /\ script.wrote >= AnswerLimit
          /\ script' = [script EXCEPT !.todo = Tail(@), !.wrote = 0,
                                      !.answer = IF to = "out" THEN script.wrote ELSE @]
          /\ UNCHANGED pipe
    /\ UNCHANGED <<helper, call>>

ScriptStarts ==
    /\ script.alive /\ ~helper.alive /\ Doing \in {"start", "start stuck"}
    /\ helper' = [alive |-> TRUE, hangs |-> Doing = "start stuck"]
    /\ Moves(Tail(script.todo))
    /\ UNCHANGED <<pipe, call>>

ScriptExits(status) ==
    /\ script.alive /\ script.todo = <<>>
    /\ script' = [script EXCEPT !.alive = FALSE, !.status = status]
    /\ UNCHANGED <<pipe, helper, call>>

HelperEnds ==
    /\ helper.alive /\ ~helper.hangs
    /\ helper' = [helper EXCEPT !.alive = FALSE]
    /\ UNCHANGED <<pipe, script, call>>

\* The signal reaches the group.
Killed ==
    /\ call.killed /\ AnyAlive
    /\ script' = [script EXCEPT !.alive = FALSE] /\ helper' = [helper EXCEPT !.alive = FALSE]
    /\ UNCHANGED <<pipe, call>>

(***************************************************************************)
(* The host: the task that writes the request, and the two that read.      *)
(***************************************************************************)
WriteRequest ==
    /\ call.left > 0 /\ AnyAlive /\ pipe["in"] < PipeSize
    /\ pipe' = [pipe EXCEPT !["in"] = @ + 1] /\ call' = [call EXCEPT !.left = @ - 1]
    /\ UNCHANGED <<script, helper>>

\* Everything is written, or nobody reads it any more.
CloseRequest ==
    /\ call.open
    /\ call.left = 0 \/ ~AnyAlive
    /\ call' = [call EXCEPT !.open = FALSE, !.left = 0]
    /\ UNCHANGED <<pipe, script, helper>>

\* Fault: the output is read once the request is written.
ReadsAfterWriting(from) ==
    call.pc = "waiting" /\ ~call.open /\ from \notin call.ended

Reads(from) == call.pc = "waiting" /\ from \notin call.ended

\* read_capped: what is over the limit is read and dropped.
\* Fault: reading on past the limit is not noticed.
KeepsQuietly(c) == [c EXCEPT !.kept = IF @ < AnswerLimit THEN @ + 1 ELSE @]

\* Fault: one more is kept than the limit.
KeepsOneMore(c) ==
    IF c.kept <= AnswerLimit THEN [c EXCEPT !.kept = @ + 1] ELSE [c EXCEPT !.over = TRUE]

Keeps(c) ==
    IF c.kept < AnswerLimit THEN [c EXCEPT !.kept = @ + 1] ELSE [c EXCEPT !.over = TRUE]

ReadOutput(from) ==
    /\ Reads(from) /\ pipe[from] > 0
    /\ pipe' = [pipe EXCEPT ![from] = @ - 1]
    /\ call' = IF from = "out" THEN Keeps(call) ELSE call
    /\ UNCHANGED <<script, helper>>

OutputEnds(from) ==
    /\ Reads(from) /\ pipe[from] = 0 /\ ~AnyAlive
    /\ call' = [call EXCEPT !.ended = @ \cup {from}]
    /\ UNCHANGED <<pipe, script, helper>>

\* Both outputs have ended and every process of the group has: nothing is left to stop.
GroupEnds ==
    /\ call.pc = "waiting" /\ call.ended = {"out", "err"} /\ ~AnyAlive
    /\ call' = [call EXCEPT !.pc = "ended"]
    /\ UNCHANGED <<pipe, script, helper>>

\* The task that writes is awaited, then the status, the limit and the protocol looked at.
RunReturns ==
    /\ call.pc = "ended" /\ ~call.open
    /\ call' = [call EXCEPT !.pc = "returned",
                            !.result = IF script.status = "ok" /\ ~call.over /\ script.says = "good"
                                       THEN "answer" ELSE "error"]
    /\ UNCHANGED <<pipe, script, helper>>

\* The timeout, an error, or a host that gives up: what is left is stopped as it is dropped.
\* Fault: only a script that is still there is stopped.
StopsScript ==
    /\ call.pc = "waiting"
    /\ call' = [call EXCEPT !.pc = "returned", !.killed = script.alive, !.result = "error"]
    /\ UNCHANGED <<pipe, script, helper>>

Stops ==
    /\ call.pc = "waiting"
    /\ call' = [call EXCEPT !.pc = "returned", !.killed = TRUE, !.result = "error"]
    /\ UNCHANGED <<pipe, script, helper>>

HostStep ==
    \/ WriteRequest \/ CloseRequest \/ GroupEnds \/ RunReturns
    \/ \E from \in {"out", "err"} : ReadOutput(from) \/ OutputEnds(from)

ScriptStep ==
    \/ ScriptReads \/ ScriptStarts \/ HelperEnds \/ Killed
    \/ \E to \in {"out", "err"} : ScriptWrites(to)
    \/ \E status \in {"ok", "failed"} : ScriptExits(status)

PluginNext == HostStep \/ ScriptStep \/ Stops

\* Something the script did not come to an end with by itself.
Stuck == (script.alive /\ Doing = "hang") \/ (helper.alive /\ helper.hangs)

\* The host's tasks and the processes run; the timeout only comes to a script that hangs:
\* one that reads, answers and logs must not need it.
Timeout == Stuck /\ Stops

PluginFairness ==
    WF_pluginVars(HostStep) /\ WF_pluginVars(ScriptStep) /\ WF_pluginVars(Timeout)

PluginSpec == PluginInit /\ [][PluginNext]_pluginVars /\ PluginFairness

(***************************************************************************)
(* Properties.                                                             *)
(***************************************************************************)
\* An answer is everything the script wrote to stdout, from a script that ended well and
\* left nothing running: an answer cut at the limit is never taken for a whole one.
AnswerIsWhole ==
    call.result = "answer" =>
        /\ script.status = "ok" /\ ~AnyAlive
        /\ call.kept = script.answer

\* What must come to hold for good (CallLeavesNothing, CallReturns).
\* A call that is over leaves no process behind, whether it was answered, failed, or was
\* stopped while the script or something it started still ran.
NothingLeft == call.pc = "returned" => ~AnyAlive

\* A script that reads, answers and logs in whatever order, more than a pipe holds, is
\* never kept waiting for ever by the host, nor the host by it: the call returns, without
\* the timeout unless the script hangs.
Returned == call.pc = "returned"
=============================================================================
