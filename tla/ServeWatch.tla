----------------------------- MODULE ServeWatch -----------------------------
(***************************************************************************)
(* `ods serve' reloading (crates/ods-web/src/server.rs): it loads the      *)
(* project's artifacts and state once, then looks at their times every     *)
(* tick and loads them again when a change has held for a tick.  Pages     *)
(* (crates/ods-web/assets/dashboard.js) carry the generation they were     *)
(* made from and reload when the server has another.                       *)
(*                                                                         *)
(* A watched file is a stamp: it goes up when a write begins and when it   *)
(* ends, so an odd one is a file half written.  Its time and length tell   *)
(* two stamps apart.                                                       *)
(***************************************************************************)
EXTENDS Naturals

CONSTANTS
    Files,      \* the watched files
    MaxStamp,   \* bound: the last stamp, even
    MaxTrouble, \* bound: loads that fail for another reason, and held pages
    NoStamps    \* no change is pending

ASSUME ServeAssumption == MaxStamp \in Nat /\ MaxTrouble \in Nat

VARIABLES
    stamp,      \* the files
    server,     \* see ServerInit
    browser,    \* one page: see BrowserInit
    trouble     \* how many loads failed for another reason, or pages were held

serveVars == <<stamp, server, browser, trouble>>

Stamps == [Files -> 0..MaxStamp]
Whole(s) == \A f \in Files : s[f] % 2 = 0

\* The handlers of state_pages.rs (plan, runs and run) read the server's state in another
\* order than those of all other pages.
Pages == {"state", "other"}

ServeTypeOK ==
    /\ stamp \in Stamps /\ trouble \in 0..MaxTrouble
    /\ server \in [pc : {"first", "started", "watching", "loading", "replaced", "ended"},
                   left : SUBSET Files, read : Stamps, seen : Stamps,
                   pending : Stamps \cup {NoStamps}, snapshot : Stamps, generation : Nat,
                   error : BOOLEAN]
    /\ browser \in [page : Pages, pc : {"reload", "half", "shown"}, generation : Nat,
                    shown : Stamps, of : Nat, held : BOOLEAN, owed : BOOLEAN]

\* left, read: the load under way.  seen, pending: what the watch compares.
\* snapshot, generation, error: AppState.
ServerInit ==
    LET none == [f \in Files |-> 0]
    IN  [pc |-> "first", left |-> Files, read |-> none, seen |-> none, pending |-> NoStamps,
         snapshot |-> none, generation |-> 1, error |-> FALSE]

\* held: the live view keeps the page; owed: it has a reload to make up for.
\* Kept for the properties: `of', the generation that what is shown belongs to.
BrowserInit(page) ==
    [page |-> page, pc |-> "reload", generation |-> 0, shown |-> [f \in Files |-> 0],
     of |-> 0, held |-> FALSE, owed |-> FALSE]

ServeInit ==
    /\ stamp = [f \in Files |-> 0] /\ trouble = 0
    /\ server = ServerInit /\ \E page \in Pages : browser = BrowserInit(page)

Serving == server.pc \notin {"first", "ended"}

\* A build begins or ends writing a file.
WriteFile(f) ==
    /\ stamp[f] < MaxStamp
    /\ stamp' = [stamp EXCEPT ![f] = @ + 1]
    /\ UNCHANGED <<server, browser, trouble>>

(***************************************************************************)
(* serve: the loader reads one file after the other; the first load must   *)
(* succeed, then the watch takes its first look.                           *)
(***************************************************************************)
LoadFile(f) ==
    /\ server.pc \in {"first", "loading"} /\ f \in server.left
    /\ server' = [server EXCEPT !.left = @ \ {f}, !.read[f] = stamp[f]]
    /\ UNCHANGED <<stamp, browser, trouble>>

FirstLoad ==
    /\ server.pc = "first" /\ server.left = {}
    /\ server' = IF Whole(server.read)
                 THEN [server EXCEPT !.pc = "started", !.snapshot = server.read]
                 ELSE [server EXCEPT !.pc = "ended"]
    /\ UNCHANGED <<stamp, browser, trouble>>

WatchStarts ==
    /\ server.pc = "started"
    /\ server' = [server EXCEPT !.pc = "watching", !.seen = stamp]
    /\ UNCHANGED <<stamp, browser, trouble>>

(***************************************************************************)
(* watch.                                                                  *)
(***************************************************************************)
Look ==
    /\ server.pc = "watching"
    /\ server' =
         IF stamp = server.seen THEN [server EXCEPT !.pending = NoStamps]
         ELSE IF server.pending # stamp THEN [server EXCEPT !.pending = stamp]
         ELSE [server EXCEPT !.pc = "loading", !.left = Files, !.seen = stamp, !.pending = NoStamps]
    /\ UNCHANGED <<stamp, browser, trouble>>

\* The snapshot is replaced first, then the generation counted.
\* Fault: the other way round.
PublishSwapped(first, s) ==
    IF first THEN [s EXCEPT !.generation = @ + 1] ELSE [s EXCEPT !.snapshot = s.read]

Publish(first, s) ==
    IF first THEN [s EXCEPT !.snapshot = s.read] ELSE [s EXCEPT !.generation = @ + 1]

\* Fault: what was seen is what is there when the load is over.
ReloadLooksAgain ==
    /\ server.pc = "loading" /\ server.left = {} /\ Whole(server.read)
    /\ server' = [Publish(TRUE, server) EXCEPT !.pc = "replaced", !.seen = stamp]
    /\ UNCHANGED <<stamp, browser, trouble>>

Reload ==
    /\ server.pc = "loading" /\ server.left = {} /\ Whole(server.read)
    /\ server' = [Publish(TRUE, server) EXCEPT !.pc = "replaced"]
    /\ UNCHANGED <<stamp, browser, trouble>>

Reloaded ==
    /\ server.pc = "replaced"
    /\ server' = [Publish(FALSE, server) EXCEPT !.pc = "watching", !.error = FALSE]
    /\ UNCHANGED <<stamp, browser, trouble>>

\* The last good snapshot stays, and why is kept.
ReloadFails ==
    /\ server.pc = "loading" /\ server.left = {}
    /\ IF Whole(server.read) THEN trouble < MaxTrouble /\ trouble' = trouble + 1
       ELSE UNCHANGED trouble
    /\ server' = [server EXCEPT !.pc = "watching", !.error = TRUE]
    /\ UNCHANGED <<stamp, browser>>

(***************************************************************************)
(* A page: a handler reads the generation, then the snapshot, or on the    *)
(* state pages the other way round; the page asks for the generation again *)
(* and again.                                                              *)
(***************************************************************************)
\* The generation of the snapshot: it is counted when the snapshot is in place.
SnapshotOf == IF server.pc = "replaced" THEN server.generation + 1 ELSE server.generation

PageGeneration ==
    /\ browser.page = "other" /\ browser.pc = "reload" /\ Serving
    /\ browser' = [browser EXCEPT !.pc = "half", !.generation = server.generation]
    /\ UNCHANGED <<stamp, server, trouble>>

PageSnapshot ==
    /\ browser.page = "other" /\ browser.pc = "half"
    /\ browser' = [browser EXCEPT !.pc = "shown", !.shown = server.snapshot, !.of = SnapshotOf]
    /\ UNCHANGED <<stamp, server, trouble>>

StatePageSnapshot ==
    /\ browser.page = "state" /\ browser.pc = "reload" /\ Serving
    /\ browser' = [browser EXCEPT !.pc = "half", !.shown = server.snapshot, !.of = SnapshotOf]
    /\ UNCHANGED <<stamp, server, trouble>>

StatePageGeneration ==
    /\ browser.page = "state" /\ browser.pc = "half"
    /\ browser' = [browser EXCEPT !.pc = "shown", !.generation = server.generation]
    /\ UNCHANGED <<stamp, server, trouble>>

AskVersion ==
    /\ browser.pc = "shown" /\ server.generation # browser.generation
    /\ browser' = IF browser.held THEN [browser EXCEPT !.owed = TRUE]
                  ELSE [browser EXCEPT !.pc = "reload"]
    /\ UNCHANGED <<stamp, server, trouble>>

\* Only the lineage page has a live view.
Hold ==
    /\ browser.page = "other" /\ browser.pc = "shown" /\ ~browser.held
    /\ trouble < MaxTrouble /\ trouble' = trouble + 1
    /\ browser' = [browser EXCEPT !.held = TRUE]
    /\ UNCHANGED <<stamp, server>>

Release ==
    /\ browser.held
    /\ browser' = [browser EXCEPT !.held = FALSE, !.owed = FALSE,
                                  !.pc = IF browser.owed THEN "reload" ELSE @]
    /\ UNCHANGED <<stamp, server, trouble>>

ServeNext ==
    \/ \E f \in Files : WriteFile(f) \/ LoadFile(f)
    \/ FirstLoad \/ WatchStarts \/ Look \/ Reload \/ Reloaded \/ ReloadFails
    \/ PageGeneration \/ PageSnapshot \/ StatePageSnapshot \/ StatePageGeneration
    \/ AskVersion \/ Hold \/ Release

\* The server's task runs on, a handler and the page's timer go on, and a write that
\* began ends.  Nobody need leave the live view.
Watching ==
    \/ \E f \in Files : LoadFile(f)
    \/ FirstLoad \/ WatchStarts \/ Look \/ Reload \/ Reloaded \/ ReloadFails

Browsing ==
    \/ PageGeneration \/ PageSnapshot \/ StatePageSnapshot \/ StatePageGeneration
    \/ AskVersion

WriteEnds == \E f \in Files : stamp[f] % 2 = 1 /\ WriteFile(f)

ServeFairness ==
    /\ WF_serveVars(Watching) /\ WF_serveVars(Browsing) /\ WF_serveVars(WriteEnds)

ServeSpec == ServeInit /\ [][ServeNext]_serveVars /\ ServeFairness

(***************************************************************************)
(* Properties.                                                             *)
(***************************************************************************)
\* A state page whose handler was overtaken by a reload between its two reads: it has an
\* old snapshot under the new generation.
Overtaken == browser.page = "state" /\ browser.of < browser.generation

\* A page that has the server's generation, and so does not reload, shows the server's
\* snapshot: no reload slips in between the two that a handler reads, nor between the two
\* that `watch' writes.  Only the order of state_pages.rs lets a page be overtaken, and
\* nothing else makes one stale.
CurrentPageIsCurrent ==
    browser.pc = "shown" /\ browser.generation = server.generation /\ server.pc # "replaced"
        => browser.shown = server.snapshot \/ Overtaken

\* What changed between the first load and the watch's first look is taken for loaded, as
\* long as nothing else changes.
Unnoticed ==
    /\ server.pc = "watching" /\ server.generation = 1 /\ ~server.error
    /\ stamp = server.seen /\ stamp # server.snapshot

\* Once the files stay as they are, the page comes to show them, however they changed
\* while they were loaded, or the server says that it could not load them.  A page that
\* the live view holds waits until it is left, and the two cases above are lost.
CaughtUp ==
    \/ server.pc = "ended" \/ server.error \/ browser.shown = stamp
    \/ browser.held \/ Overtaken \/ Unnoticed
PageCatchesUp == <>[]CaughtUp
=============================================================================
