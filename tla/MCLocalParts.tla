---------------------------- MODULE MCLocalParts ----------------------------
(***************************************************************************)
(* Five parts that keep a file or a process of their own and share nothing *)
(* with one another, checked side by side: each behaviour is one of one    *)
(* part, and the others rest.                                              *)
(***************************************************************************)
EXTENDS SavedReadings, ServeWatch, PluginProcess, Retry, JournalTail

VARIABLE part

Parts == {"readings", "journal", "watch", "plugin", "retry"}

vars == <<part, readingsVars, journalVars, serveVars, pluginVars, retryVars>>

\* The plugin while another part runs.
AtRest == call.pc = "waiting" /\ script.todo = <<>> /\ script.says = "good"

\* A part that rests is in one of its initial states.
Init ==
    /\ part \in Parts
    /\ ReadingsInit /\ JournalInit
    /\ ServeInit /\ (part = "watch" \/ browser.page = "other")
    /\ PluginInit /\ (part = "plugin" \/ AtRest)
    /\ RetryInit /\ (part = "retry" \/ \A n \in 1..N : reads[n] = {})

\* Only the part that runs takes steps.
OnlyReadings == part = "readings" /\ UNCHANGED <<part, journalVars, serveVars, pluginVars, retryVars>>
OnlyJournal == part = "journal" /\ UNCHANGED <<part, readingsVars, serveVars, pluginVars, retryVars>>
OnlyWatch == part = "watch" /\ UNCHANGED <<part, readingsVars, journalVars, pluginVars, retryVars>>
OnlyPlugin == part = "plugin" /\ UNCHANGED <<part, readingsVars, journalVars, serveVars, retryVars>>
OnlyRetry == part = "retry" /\ UNCHANGED <<part, readingsVars, journalVars, serveVars, pluginVars>>

Next ==
    \/ OnlyReadings /\ ReadingsNext
    \/ OnlyJournal /\ JournalNext
    \/ OnlyWatch /\ ServeNext
    \/ OnlyPlugin /\ PluginNext
    \/ OnlyRetry /\ RetryNext

\* The fairness each part assumes, of the part that runs.
Fairness ==
    /\ WF_vars(OnlyJournal /\ Following)
    /\ WF_vars(OnlyJournal /\ Silence)
    /\ WF_vars(OnlyJournal /\ LineEnds)
    /\ WF_vars(OnlyWatch /\ Watching)
    /\ WF_vars(OnlyWatch /\ Browsing)
    /\ WF_vars(OnlyWatch /\ WriteEnds)
    /\ WF_vars(OnlyPlugin /\ HostStep)
    /\ WF_vars(OnlyPlugin /\ ScriptStep)
    /\ WF_vars(OnlyPlugin /\ Timeout)

Spec == Init /\ [][Next]_vars /\ Fairness

(***************************************************************************)
(* Each part's properties are stated and explained in its module; the ones *)
(* of the modules above hold of a part at rest as well.                    *)
(***************************************************************************)
\* Every part's state has its type.
TypeOK ==
    /\ part = "readings" => ReadingsTypeOK
    /\ part = "journal" => JournalTypeOK
    /\ part = "watch" => ServeTypeOK
    /\ part = "plugin" => PluginTypeOK
    /\ part = "retry" => RetryTypeOK

\* A page that follows a run is told how it ended.
PageEnds == <>[](part = "journal" => PageDone)

\* A call returns, and needs no timeout unless the script hangs.
CallReturns == <>[](part = "plugin" => Returned)

\* A call that returned leaves no process running.
CallLeavesNothing == <>[](part = "plugin" => NothingLeft)
=============================================================================
