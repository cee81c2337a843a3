---------------------------- MODULE MCBackground -----------------------------
(***************************************************************************)
(* What works beside the window, on small instances: the parts of a        *)
(* session in the daemon, the poller of pull requests, the resource        *)
(* monitor, and the app's reading of git.  They share no state, so a       *)
(* behaviour is one of one of them, chosen at the start.  Readiness, the   *)
(* modes, the monitor, the scrollback, the loops of a PTY and the status   *)
(* of git have theorems: they are extended, so that the properties checked *)
(* are the ones proved; the others are instances.                          *)
(***************************************************************************)
EXTENDS Naturals, Sequences, ShellReadiness, ModeTracker, ResourceSnapshots,
        Scrollback, PtyLoops, GitStatus

CONSTANTS Workspaces

VARIABLES
    machine,  \* the component that moves
    cmds, entries, active, due, pollerEvents, cards, enabled, lastPoll,
    steps,
    repo, panelChanges, shownWs, providerWs, current, panelCache,
    panelFresh, refreshes, operation, notified, panelPanel

\* Two paths in a directory whose first words are those of an entry, a plain
\* one, and one that, say, has an accent, for which git quotes it.
AwkwardOrder == <<<<"?", "d", "/", "a">>, <<"?", "d", "/", "b">>, <<"e">>, <<"q">>>>
AwkwardPaths == {AwkwardOrder[i] : i \in DOMAIN AwkwardOrder}
QuotedPaths == {<<"q">>}
OneMessage == {<<"m">>}

\* A mode of its own, two of the five mouse events and one of the four formats.
EmittedModes == <<"25", "1000", "1002", "1006">>
\* What one read may hold: whole sequences, the two halves of a split one,
\* text, an operating system command, and a sequence that is none.
Esc(letters) == <<"esc">> \o letters
ModeReads ==
    {Esc(<<"[", "?", mode, final>>) : mode \in Modes, final \in {"h", "l"}}
    \cup {Esc(<<"[", "?", "25", ";", "1002", final>>) : final \in {"h", "l"}}
    \cup {Esc(<<"[", ">", "1", "u">>), Esc(<<"[", "=", "1", ";", "3", "u">>),
          Esc(<<"[", "<", "u">>), Esc(<<"[", "<", "3", "u">>),
          Esc(<<"[", ">", "4", ";", "2", "m">>), Esc(<<"[", ">", "n">>)}
    \cup {Esc(<<"]", "7", ";", "dir", "bel">>), Esc(<<"[">>), <<"?", "25", "l">>, <<"x", "x">>}

Poller == INSTANCE PrPolling WITH
    events <- pollerEvents, MaxCmds <- 3, MaxEvents <- 1, MaxSteps <- 2
Panel == INSTANCE GitPanel WITH
    changes <- panelChanges, cache <- panelCache, fresh <- panelFresh,
    panel <- panelPanel, None <- Nothing, MaxChanges <- 3, MaxRefreshes <- 2
pollerVars == <<cmds, entries, active, due, pollerEvents, cards, enabled,
                lastPoll, steps>>
panelVars == <<repo, panelChanges, shownWs, providerWs, current, panelCache,
               panelFresh, refreshes, operation, notified, panelPanel>>
all == <<machine, readinessVars, modesVars, ptyVars, scrollbackVars,
         pollerVars, resourceVars, panelVars, gitStatusVars>>

\* A component that does not move has one initial state.
Still ==
    /\ machine = "panel" \/ shownWs = CHOOSE w \in Workspaces : TRUE
    /\ machine = "status" \/ head = [path \in AwkwardPaths |-> 0]
    /\ head[AwkwardOrder[2]] = 0 /\ head[AwkwardOrder[4]] = 0  \* renames lead to these
    /\ head[AwkwardOrder[1]] = head[AwkwardOrder[3]]

Init ==
    /\ machine \in {"readiness", "modes", "pty", "scrollback", "poller", "monitor", "panel", "status"}
    /\ ReadinessInit
    /\ ModesInit
    /\ PtyInit
    /\ ScrollbackInit
    /\ Poller!Init
    /\ MonitorInit
    /\ Panel!Init
    /\ StatusInit
    /\ Still

Next ==
    \/ /\ machine = "readiness" /\ ReadinessNext
       /\ UNCHANGED <<machine, modesVars, ptyVars, scrollbackVars, pollerVars,
                      resourceVars, panelVars, gitStatusVars>>
    \/ /\ machine = "modes" /\ ModesNext
       /\ UNCHANGED <<machine, readinessVars, ptyVars, scrollbackVars,
                      pollerVars, resourceVars, panelVars, gitStatusVars>>
    \/ /\ machine = "pty" /\ PtyNext
       /\ UNCHANGED <<machine, readinessVars, modesVars, scrollbackVars,
                      pollerVars, resourceVars, panelVars, gitStatusVars>>
    \/ /\ machine = "scrollback" /\ ScrollbackNext
       /\ UNCHANGED <<machine, readinessVars, modesVars, ptyVars, pollerVars,
                      resourceVars, panelVars, gitStatusVars>>
    \/ /\ machine = "poller" /\ Poller!Next
       /\ UNCHANGED <<machine, readinessVars, modesVars, ptyVars,
                      scrollbackVars, resourceVars, panelVars, gitStatusVars>>
    \/ /\ machine = "monitor" /\ MonitorNext
       /\ UNCHANGED <<machine, readinessVars, modesVars, ptyVars,
                      scrollbackVars, pollerVars, panelVars, gitStatusVars>>
    \/ /\ machine = "panel" /\ Panel!Next
       /\ UNCHANGED <<machine, readinessVars, modesVars, ptyVars,
                      scrollbackVars, pollerVars, resourceVars, gitStatusVars>>
    \/ /\ machine = "status" /\ StatusNext
       /\ UNCHANGED <<machine, readinessVars, modesVars, ptyVars,
                      scrollbackVars, pollerVars, resourceVars, panelVars>>

\* Only the component that moves is scheduled, as its own specification says.
Fairness ==
    /\ WF_pollerVars(machine = "poller" /\ Poller!HandleCmd)
    /\ WF_pollerVars(machine = "poller" /\ Poller!Tick)
    /\ WF_pollerVars(machine = "poller" /\ Poller!ApplyPrEvent)
    /\ \A w \in Workspaces : WF_pollerVars(machine = "poller" /\ Poller!Age(w))
    /\ \A w \in Workspaces :
          WF_pollerVars(machine = "poller" /\ \E outcome \in Poller!Outcomes : Poller!PollOne(w, outcome))
    /\ WF_panelVars(machine = "panel" /\ Panel!Poll)
    /\ WF_panelVars(machine = "panel" /\ Panel!EntryAges)
    /\ WF_panelVars(machine = "panel" /\ \E task \in refreshes : Panel!Compute(task))
    /\ WF_panelVars(machine = "panel" /\ \E task \in refreshes : Panel!Deliver(task))

Spec == Init /\ [][Next]_all /\ Fairness

------------------------------------------------------------------------------
(* A workspace that stays registered is polled again and again, also behind *)
(* an active one, an error's backoff and an unsupported host                *)
(* (PrPoller::run).                                                         *)
RegisteredIsPolled == Poller!RegisteredIsPolled
(* The panel shows the repository's state again and again, in whatever      *)
(* order refreshes end and however stale the cached result is               *)
(* (GitStateProvider).                                                      *)
PanelCatchesUp == machine = "panel" => Panel!PanelCatchesUp
==============================================================================
