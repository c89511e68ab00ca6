----------------------------- MODULE JournalTail -----------------------------
(***************************************************************************)
(* A run's journal while it is followed.  The run appends its events       *)
(* (crates/ods-cli/src/commands/run_journal.rs), `ods serve' reads them    *)
(* from where it last stopped (crates/ods-web/src/live.rs, Tail) and sends *)
(* them as a stream, or as answers to polls, to a page                     *)
(* (crates/ods-web/assets/live.js) that reconnects from the last line it   *)
(* got.  Connections break, the run is killed in the middle of a line, and *)
(* another run prunes the journal.                                         *)
(*                                                                         *)
(* The file is a sequence of cells.  A cell other than "mid" ends a line   *)
(* and says what the line holds: an event, the event that the run          *)
(* finished, or something the reader cannot take ("bad": a newer version,  *)
(* another run's event).  A chunk is Chunk cells.  Blank lines, which      *)
(* nothing writes, are left out.                                           *)
(***************************************************************************)
EXTENDS Naturals, Sequences, FiniteSets

CONSTANTS
    Chunk,      \* CHUNK_BYTES: what one read takes
    PollLines,  \* MAX_POLLED: the messages of one answer
    PollCells,  \* MAX_POLL_BYTES: what one answer reads
    MaxCells,   \* bound: the length of the journal
    MaxLine,    \* bound: the length of a line
    MaxLost     \* bound: refused, broken and lost connections

\* A chunk and an answer are never empty.
ASSUME JournalAssumption ==
    /\ Chunk \in Nat \ {0} /\ PollLines \in Nat \ {0} /\ PollCells \in Nat
    /\ MaxCells \in Nat /\ MaxLine \in Nat /\ MaxLost \in Nat

VARIABLES
    cells,      \* the journal's content
    there,      \* whether its path names it
    run,        \* "new", "going", or "ended"
    quiet,      \* nothing was written for RECENT
    listed,     \* another run's prune has listed it as old
    tail,       \* the reader: see NewTail
    out,        \* what is read and not yet sent
    page,       \* the page: see Opened
    lost        \* how many connections went wrong

journalVars == <<cells, there, run, quiet, listed, tail, out, page, lost>>
journal == <<cells, there, run, quiet, listed>>

Kinds == {"event", "finished", "bad"}

Cells == Kinds \cup {"mid"}

\* What a journal with the content c holds: its lines, and whether the last is cut short.
IsEnd(cell) == cell # "mid"
LinesIn(c, i) == Cardinality({j \in 1..i : IsEnd(c[j])})
Lines(c) == LinesIn(c, Len(c))
MidLine(c) == Len(c) > 0 /\ ~IsEnd(c[Len(c)])

\* The n cells up to the i-th are inside a line.
Inside(c, i, n) == i >= n /\ \A j \in (i - n + 1)..i : ~IsEnd(c[j])

\* The n-th line: what the reader should make of it.  A line longer than a chunk is bad.
LineEnd(c, n) == CHOOSE i \in DOMAIN c : IsEnd(c[i]) /\ LinesIn(c, i) = n
KindAt(c, i) == IF Inside(c, i - 1, Chunk) THEN "bad" ELSE c[i]
LineKind(c, n) == IF n > Lines(c) THEN "bad" ELSE KindAt(c, LineEnd(c, n))

(***************************************************************************)
(* The reader: whether it has opened the file, cells read, lines read, the *)
(* line after which messages are sent, whether it is inside a line longer  *)
(* than a chunk, whether it read that the run finished, whether it is      *)
(* done, and whether more is there to read at once.  The page: what it     *)
(* shows (each message with its line), the last line, how the run ended    *)
(* for it, and whether a poll found no journal.                            *)
(***************************************************************************)
NewTail(since) ==
    [opened |-> FALSE, off |-> 0, line |-> 0, since |-> since, overlong |-> FALSE,
     finished |-> FALSE, done |-> FALSE, more |-> TRUE]

Message(line, kind) == [id |-> line, kind |-> kind]
End(reason) == [id |-> 0, kind |-> reason]
Ends == {"end finished", "end stopped", "end replaced"}
GoesOn == "goes on"

JournalTypeOK ==
    /\ cells \in Seq(Cells) /\ Len(cells) <= MaxCells
    /\ there \in BOOLEAN /\ quiet \in BOOLEAN /\ listed \in BOOLEAN
    /\ run \in {"new", "going", "ended"}
    /\ lost \in 0..MaxLost
    /\ tail \in [opened : BOOLEAN, off : 0..Len(cells), line : 0..(Lines(cells) + 1),
                 since : 0..(Lines(cells) + 1), overlong : BOOLEAN, finished : BOOLEAN,
                 done : BOOLEAN, more : BOOLEAN]
    /\ page.doing \in {"connect", "stream", "reconnect", "poll", "asked", "done"}
    /\ page.last \in 0..(Lines(cells) + 1) /\ page.waiting \in BOOLEAN

JournalInit ==
    /\ cells = <<>> /\ there = FALSE /\ run = "new" /\ quiet = FALSE /\ listed = FALSE
    /\ tail = NewTail(0) /\ out = <<>>
    /\ page = [doing |-> "connect", got |-> <<>>, last |-> 0, ended |-> GoesOn, waiting |-> FALSE]
    /\ lost = 0

(***************************************************************************)
(* The run and its journal.                                                *)
(***************************************************************************)
OpenJournal ==
    /\ run = "new"
    /\ run' = "going" /\ there' = TRUE
    /\ UNCHANGED <<cells, quiet, listed, tail, out, page, lost>>

\* Part of a line reaches the file.
WritePart ==
    /\ run = "going"
    /\ Len(cells) + 1 < MaxCells
    /\ ~Inside(cells, Len(cells), MaxLine - 1)
    /\ cells' = Append(cells, "mid") /\ quiet' = FALSE
    /\ UNCHANGED <<there, run, listed, tail, out, page, lost>>

WriteLine(kind) ==
    /\ run = "going"
    /\ Len(cells) < MaxCells
    /\ cells' = Append(cells, kind) /\ quiet' = FALSE
    /\ run' = IF kind = "finished" THEN "ended" ELSE run
    /\ UNCHANGED <<there, listed, tail, out, page, lost>>

\* It is killed, or its journal cannot be written any more, perhaps in the middle of a line.
RunStops ==
    /\ run = "going"
    /\ run' = "ended"
    /\ UNCHANGED <<cells, there, quiet, listed, tail, out, page, lost>>

\* RECENT passes: a long node, or nothing more to come.  A line takes less to write.
Silence ==
    /\ run # "new" /\ ~quiet
    /\ ~(run = "going" /\ MidLine(cells))
    /\ quiet' = TRUE
    /\ UNCHANGED <<cells, there, run, listed, tail, out, page, lost>>

\* prune, in another run that starts: it lists the journals with their times, then
\* removes those in excess that were old.
PruneLists ==
    /\ there /\ quiet /\ ~listed
    /\ listed' = TRUE
    /\ UNCHANGED <<cells, there, run, quiet, tail, out, page, lost>>

PruneRemoves ==
    /\ listed /\ there
    /\ there' = FALSE /\ listed' = FALSE
    /\ UNCHANGED <<cells, run, quiet, tail, out, page, lost>>

(***************************************************************************)
(* Tail::read.  The metadata and the chunk are read at the length the file *)
(* has at one moment: it only grows.                                       *)
(***************************************************************************)
\* What the chunk holds, and up to where it holds complete lines.
Want == IF tail.off + Chunk < Len(cells) THEN Chunk ELSE Len(cells) - tail.off
Complete == CHOOSE k \in 0..Want :
                /\ k > 0 => IsEnd(cells[tail.off + k])
                /\ \A j \in (k + 1)..Want : ~IsEnd(cells[tail.off + j])

\* take: the complete lines of a chunk, until `budget' messages were made.
\* Fault: the end of an overlong line is not counted as a line.
TakeCellForgets(budget, t, cell) ==
    IF Len(t.made) >= budget THEN t
    ELSE IF cell = "mid" THEN [t EXCEPT !.used = @ + 1]
    ELSE IF t.overlong THEN [t EXCEPT !.used = @ + 1, !.overlong = FALSE]
    ELSE [t EXCEPT !.used = @ + 1, !.line = @ + 1, !.overlong = FALSE,
                   !.finished = @ \/ (cell = "finished"),
                   !.made = IF t.line + 1 > t.since THEN Append(@, Message(t.line + 1, cell)) ELSE @]

TakeCell(budget, t, cell) ==
    IF Len(t.made) >= budget THEN t
    ELSE IF cell = "mid" THEN [t EXCEPT !.used = @ + 1]
    ELSE LET line == t.line + 1
             kind == IF t.overlong THEN "bad" ELSE cell
         IN  [t EXCEPT !.used = @ + 1, !.line = line, !.overlong = FALSE,
                       !.finished = @ \/ kind = "finished",
                       !.made = IF line > t.since THEN Append(@, Message(line, kind)) ELSE @]

Taken(budget) ==
    LET start == [made |-> <<>>, used |-> 0, line |-> tail.line, since |-> tail.since,
                  overlong |-> tail.overlong, finished |-> tail.finished]
        take[k \in 0..Complete] ==
            IF k = 0 THEN start ELSE TakeCell(budget, take[k - 1], cells[tail.off + k])
    IN  IF Complete = 0 /\ Want >= Chunk
        \* The chunk has no line end: it is part of a line too long to be an event.
        THEN [start EXCEPT !.used = Chunk, !.overlong = TRUE]
        ELSE take[Complete]

\* A line cut short, when the reader ends: unreadable, unless it was sent before.
Trailing(t) ==
    IF (Len(cells) > tail.off + t.used \/ t.overlong) /\ t.line + 1 > t.since
    THEN <<Message(t.line + 1, "bad")>> ELSE <<>>

\* The file is opened on the first read and kept.
Replaced == tail.opened /\ ~there
Missing == ~tail.opened /\ ~there

ReadReplaced ==
    /\ Replaced
    /\ tail' = [tail EXCEPT !.done = TRUE, !.more = FALSE]
    /\ out' = Append(out, End("end replaced"))

\* Whether more is there to read at once: the budget stopped it, or the chunk is not all.
More(budget, t) ==
    \/ Len(t.made) >= budget /\ t.used < Complete
    \/ tail.off + Chunk < Len(cells)

\* How the reader ends, once it has read what there is.
\* Fault: a line that was cut short is waited for.
ReasonWaits(t) ==
    IF t.finished THEN "end finished"
    ELSE IF quiet /\ Trailing(t) = <<>> THEN "end stopped" ELSE GoesOn

Reason(t) ==
    IF t.finished THEN "end finished" ELSE IF quiet THEN "end stopped" ELSE GoesOn

\* Fault: the end is queued before the messages of its read.
QueuedEndFirst(t, reason) ==
    out \o (IF reason = GoesOn THEN t.made ELSE <<End(reason)>> \o t.made)

Queued(t, reason) ==
    out \o t.made \o (IF reason = GoesOn THEN <<>> ELSE Trailing(t) \o <<End(reason)>>)

ReadGrown(budget) ==
    /\ there
    /\ \E t \in {Taken(budget)}, more \in BOOLEAN :
        LET reason == IF more THEN GoesOn ELSE Reason(t)
        IN  /\ more = More(budget, t)
            /\ tail' = [tail EXCEPT !.opened = TRUE, !.off = @ + t.used, !.line = t.line,
                                    !.overlong = t.overlong, !.finished = t.finished,
                                    !.more = more, !.done = reason # GoesOn]
            /\ out' = Queued(t, reason)

Read(budget) == ReadReplaced \/ ReadGrown(budget)

\* A reader goes with its connection.
Dropped == tail' = NewTail(0) /\ out' = <<>>

\* Streaming::next: it reads once everything read before is sent, however much there is.
ReadStream ==
    /\ page.doing = "stream" /\ out = <<>> /\ ~tail.done
    /\ Read(MaxCells + 1)
    /\ UNCHANGED <<journal, page, lost>>

\* The journal was pruned before the reader opened it: the stream ends without a word,
\* and the page connects again.
StreamFails ==
    /\ page.doing = "stream" /\ Missing
    /\ page' = [page EXCEPT !.doing = "reconnect"]
    /\ Dropped
    /\ UNCHANGED <<journal, lost>>

\* polled: it reads until nothing more is there, or a limit is reached.
PollGoesOn == tail.more /\ Len(out) < PollLines /\ tail.off < PollCells

ReadPoll ==
    /\ page.doing = "asked" /\ PollGoesOn
    /\ Read(PollLines - Len(out))
    /\ UNCHANGED <<journal, page, lost>>

\* The answer is an error.
PollFails ==
    /\ page.doing = "asked" /\ Missing
    /\ page' = [page EXCEPT !.doing = "poll", !.waiting = FALSE]
    /\ Dropped
    /\ UNCHANGED <<journal, lost>>

(***************************************************************************)
(* The page.                                                               *)
(***************************************************************************)
\* A message: an event sent again is ignored, an unreadable line is counted as it comes.
Receive(p, m) ==
    IF m.kind \in Ends THEN [p EXCEPT !.ended = m.kind, !.doing = "done"]
    ELSE IF m.kind # "bad" /\ m.id <= p.last THEN p
    ELSE [p EXCEPT !.last = m.id, !.got = Append(@, m)]

\* EventSource resumes from the last id it got; a new one starts over.
ResumesFrom == IF page.doing = "connect" THEN 0 ELSE page.last

Connect ==
    /\ page.doing \in {"connect", "reconnect"} /\ there
    /\ tail' = NewTail(ResumesFrom) /\ out' = <<>>
    /\ page' = [page EXCEPT !.doing = "stream"]
    /\ UNCHANGED <<journal, lost>>

\* No journal (404), or too many streams (503): the page polls.
StreamRefused ==
    /\ page.doing \in {"connect", "reconnect"}
    /\ IF there THEN lost < MaxLost /\ lost' = lost + 1 ELSE UNCHANGED lost
    /\ page' = [page EXCEPT !.doing = "poll"]
    /\ UNCHANGED <<journal, tail, out>>

Deliver ==
    /\ page.doing = "stream" /\ out # <<>>
    /\ page' = Receive(page, Head(out)) /\ out' = Tail(out)
    /\ UNCHANGED <<journal, tail, lost>>

Break ==
    /\ page.doing = "stream" /\ lost < MaxLost
    /\ page' = [page EXCEPT !.doing = "reconnect"] /\ lost' = lost + 1
    /\ Dropped
    /\ UNCHANGED journal

Ask ==
    /\ page.doing = "poll" /\ there
    /\ page' = [page EXCEPT !.doing = "asked"]
    /\ tail' = NewTail(page.last) /\ out' = <<>>
    /\ UNCHANGED <<journal, lost>>

\* There is no journal yet: the page waits for it, a while.
Wait ==
    /\ page.doing = "poll" /\ ~there
    /\ page' = [page EXCEPT !.waiting = TRUE]
    /\ UNCHANGED <<journal, tail, out, lost>>

GiveUp ==
    /\ page.doing = "poll" /\ ~there
    /\ page' = [page EXCEPT !.doing = "done", !.ended = "missing", !.waiting = FALSE]
    /\ UNCHANGED <<journal, tail, out, lost>>

\* The answer of a poll.  One that was waited for only says that the journal is there.
Answered ==
    /\ page.doing = "asked" /\ ~PollGoesOn
    /\ page' = IF page.waiting THEN [page EXCEPT !.doing = "connect", !.waiting = FALSE]
               ELSE LET after[k \in 0..Len(out)] ==
                            IF k = 0 THEN [page EXCEPT !.doing = "poll"]
                            ELSE Receive(after[k - 1], out[k])
                    IN  after[Len(out)]
    /\ Dropped
    /\ UNCHANGED <<journal, lost>>

AnswerLost ==
    /\ page.doing = "asked" /\ lost < MaxLost
    /\ page' = [page EXCEPT !.doing = "poll"] /\ lost' = lost + 1
    /\ Dropped
    /\ UNCHANGED journal

JournalNext ==
    \/ OpenJournal \/ WritePart \/ RunStops \/ Silence \/ PruneLists \/ PruneRemoves
    \/ \E kind \in Kinds : WriteLine(kind)
    \/ ReadStream \/ StreamFails \/ ReadPoll \/ PollFails
    \/ Connect \/ StreamRefused \/ Deliver \/ Break \/ Ask \/ Wait \/ GiveUp \/ Answered \/ AnswerLost

\* The server's tasks and the page's timers go on (one of these steps is possible at a
\* time), a run that is writing a line ends it, and time passes.
Following ==
    \/ Connect \/ StreamRefused \/ ReadStream \/ StreamFails \/ Deliver
    \/ Ask \/ ReadPoll \/ PollFails \/ Answered \/ GiveUp

LineEnds == MidLine(cells) /\ \E kind \in Kinds : WriteLine(kind)

JournalFairness ==
    WF_journalVars(Following) /\ WF_journalVars(Silence) /\ WF_journalVars(LineEnds)

JournalSpec == JournalInit /\ [][JournalNext]_journalVars /\ JournalFairness

(***************************************************************************)
(* Properties.                                                             *)
(***************************************************************************)
\* The page shows every line up to the last it got, once and in order, as the journal has
\* it, over broken streams, lost answers, retries and lines longer than a chunk.
EveryLineOnce ==
    \A i \in DOMAIN page.got : page.got[i] = Message(i, LineKind(cells, i))

\* A page that is told that the run finished has got everything the run wrote.
FinishedIsComplete ==
    page.ended = "end finished" => Len(page.got) = Lines(cells) /\ run = "ended"

\* A page that follows a run is told how it ended, or that it cannot know.
PageDone == page.doing = "done"
=============================================================================
