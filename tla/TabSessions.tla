----------------------------- MODULE TabSessions -----------------------------
(* The terminal tabs of the application's window and the daemon sessions       *)
(* behind them (app_view.rs): tabs restored as pending, attached in the        *)
(* background at connect, at activation and after a reconnect, closed,         *)
(* reopened under their old id, deleted with their workspace. An attach takes  *)
(* a trip off the user interface's thread: it is queued, sent, answered, its   *)
(* handle waits for the next frame, and everything may change in between.      *)
EXTENDS Integers, Sequences, SequencesExt, FiniteSets

CONSTANTS
    Tabs, Workspaces,
    Saved,       \* [Workspaces -> Seq(Tabs)], the tabs of state.json
    MaxSession,  \* (bound) session ids drawn
    MaxEpoch,    \* (bound) connections
    MaxAttaches, \* (bound) attaches in flight and handles waiting
    None

ASSUME TabsAssumption ==
    /\ IsFiniteSet(Tabs) /\ Saved \in [Workspaces -> Seq(Tabs)]
    /\ {MaxSession, MaxEpoch, MaxAttaches} \subseteq Nat
    /\ None \notin Tabs \cup Workspaces

VARIABLES
    conn,           \* daemon_client: "none" | "up" | "lost" (not is_alive)
    epoch,          \* which connection daemon_client and daemon_inner are
    reconnecting,   \* the health check waits for connect_or_spawn
    workspaces,     \* state.workspaces
    activeWs,       \* state.active_workspace_id
    panes,          \* the workspace's (first) pane: tabs and active_tab_id
    tabSession,     \* tab_sessions
    view,           \* terminal_tabs: the view's state, session and connection
    attaches,       \* background tasks between their start and their update
    reattached,     \* pending_reattach_handles
    pendingAttach,  \* pending_attach_tabs
    recoveries,     \* pending_recoveries
    closedTabs,     \* closed_tabs: those of each workspace, the latest last
    lastSession,    \* the last session id drawn (Uuid::new_v4)
    alive,          \* the daemon's sessions
    failed          \* an attach was refused or timed out (history)

tabVars == <<conn, epoch, reconnecting, workspaces, activeWs, panes, tabSession, view,
             attaches, reattached, pendingAttach, recoveries, closedTabs, lastSession,
             alive, failed>>
linkVars == <<conn, epoch, reconnecting>>
layoutVars == <<workspaces, activeWs, panes>>
attachVars == <<attaches, reattached, pendingAttach, recoveries>>

NoView == [at |-> "none", session |-> 0, epoch |-> 0]
PendingView(session) == [at |-> "pending", session |-> session, epoch |-> 0]
AttachedView(session) == [at |-> "attached", session |-> session, epoch |-> epoch]
EmptyPane == [tabs |-> <<>>, active |-> None]
SavedTabs == UNION {ToSet(Saved[w]) : w \in Workspaces}
TabsOf(w) == ToSet(panes[w].tabs)

(* AppView::new without a client: every saved tab is restored as pending.      *)
TabsInit ==
    /\ conn = "none" /\ epoch = 0 /\ reconnecting = FALSE
    /\ workspaces = Workspaces /\ activeWs \in Workspaces
    /\ panes \in [Workspaces -> [tabs : {Saved[w] : w \in Workspaces}, active : Tabs \cup {None}]]
    /\ \A w \in Workspaces :
           /\ panes[w].tabs = Saved[w]
           /\ IF Saved[w] = <<>> THEN panes[w].active = None
              ELSE panes[w].active \in ToSet(Saved[w])
    /\ lastSession = Cardinality(SavedTabs)
    /\ tabSession \in [Tabs -> 0..lastSession]
    /\ \A t \in Tabs : tabSession[t] # 0 <=> t \in SavedTabs
    /\ \A t, u \in SavedTabs : t # u => tabSession[t] # tabSession[u]
    /\ view = [t \in Tabs |-> IF t \in SavedTabs THEN PendingView(tabSession[t]) ELSE NoView]
    /\ attaches = {} /\ reattached = <<>> /\ pendingAttach = {} /\ recoveries = 0
    /\ closedTabs = [w \in Workspaces |-> <<>>] /\ alive = {} /\ failed = FALSE

(* A background task for the tab's session on the current connection.          *)
TaskFor(tab, session, on) ==
    [tab |-> tab, session |-> session, epoch |-> on, step |-> "queued",
     \* (tells two tasks for one tab apart)
     nth |-> CHOOSE n \in 0..Cardinality(attaches) :
                 \A task \in attaches : task.tab = tab => task.nth # n]
HasRoom == Cardinality(attaches) + Len(reattached) < MaxAttaches
AttachOf(tab) == TaskFor(tab, tabSession[tab], epoch)

(* attach_terminal_tab_if_pending                                              *)
WantsAttach(tab) == /\ view[tab].at = "pending" /\ tab \notin pendingAttach
                    /\ conn # "none" /\ tabSession[tab] # 0

AttachTabIfPending(tab) ==
    IF tab # None /\ WantsAttach(tab)
    THEN /\ HasRoom
         /\ attaches' = attaches \cup {AttachOf(tab)}
         /\ pendingAttach' = pendingAttach \cup {tab}
         /\ recoveries' = recoveries + 1
         /\ UNCHANGED reattached
    ELSE UNCHANGED attachVars

(* plan_restore_order: the active tab of the active workspace, else some tab.  *)
RestorePlan ==
    IF activeWs # None /\ TabsOf(activeWs) # {} THEN {panes[activeWs].active}
    ELSE UNION {TabsOf(w) : w \in workspaces}

(* setup_daemon_client and start_background_reattach_all, on a new connection. *)
Connected ==
    /\ conn' = "up" /\ epoch' = epoch + 1 /\ reconnecting' = FALSE
    /\ IF recoveries > 0 \/ RestorePlan = {} THEN UNCHANGED attachVars
       ELSE \E tab \in RestorePlan :
                /\ HasRoom
                /\ attaches' = attaches \cup {TaskFor(tab, tabSession[tab], epoch + 1)}
                /\ pendingAttach' = pendingAttach \cup {tab} /\ recoveries' = 1
                /\ UNCHANGED reattached

Connect ==
    /\ conn = "none" /\ Connected
    /\ UNCHANGED <<layoutVars, tabSession, view, closedTabs, lastSession, alive, failed>>

(* The connection breaks, with its daemon or without it.                       *)
Breaks ==
    /\ conn = "up" /\ epoch < MaxEpoch
    /\ conn' = "lost" /\ alive' \in {{}, alive}
    /\ UNCHANGED <<epoch, reconnecting, layoutVars, tabSession, view, attachVars, closedTabs,
                   lastSession, failed>>

(* start_daemon_health_check and mark_daemon_terminals_pending                 *)
MarkDaemonTerminalsPending ==
    /\ conn = "lost" /\ ~reconnecting /\ reconnecting' = TRUE
    /\ reattached' = <<>> /\ pendingAttach' = {} /\ recoveries' = 0
    /\ view' = [t \in Tabs |-> IF tabSession[t] # 0 /\ view[t].at = "attached"
                               THEN PendingView(tabSession[t]) ELSE view[t]]
    /\ UNCHANGED <<conn, epoch, layoutVars, tabSession, attaches, closedTabs, lastSession,
                   alive, failed>>

Reconnect ==
    /\ reconnecting /\ Connected
    /\ UNCHANGED <<layoutVars, tabSession, view, closedTabs, lastSession, alive, failed>>

(* create_or_attach, off the thread: sent to the daemon, which serves it ...   *)
Served(task) ==
    /\ task.step = "queued" /\ conn = "up" /\ task.epoch = epoch
    /\ attaches' = (attaches \ {task}) \cup {[task EXCEPT !.step = "answered"]}
    /\ alive' = alive \cup {task.session}
    /\ UNCHANGED <<linkVars, layoutVars, tabSession, view, reattached, pendingAttach,
                   recoveries, closedTabs, lastSession, failed>>

(* ... and the task's update: the handle waits for the next frame,             *)
Answered(task) ==
    /\ task.step = "answered"
    /\ attaches' = attaches \ {task}
    /\ reattached' = Append(reattached, task)
    /\ UNCHANGED <<linkVars, layoutVars, tabSession, view, pendingAttach, recoveries,
                   closedTabs, lastSession, alive, failed>>

(* The end of an attach, on either path.                                       *)
OnlyCounted(tab) ==  \* (a slip: the entry stays)
    recoveries' = (IF recoveries = 0 THEN 0 ELSE recoveries - 1) /\ UNCHANGED pendingAttach
DoneWith(tab) ==
    /\ pendingAttach' = pendingAttach \ {tab}
    /\ recoveries' = (IF recoveries = 0 THEN 0 ELSE recoveries - 1)

(* or its Err: refused, timed out, or the connection is gone.                  *)
AttachFails(task) ==
    /\ task.step = "queued"
    /\ attaches' = attaches \ {task}
    /\ failed' = (failed \/ (conn = "up" /\ task.epoch = epoch))
    /\ DoneWith(task.tab)
    /\ UNCHANGED <<linkVars, layoutVars, tabSession, view, reattached, closedTabs,
                   lastSession, alive>>

(* process_pending_reattach_handles, in render. A handle without a view is     *)
(* dropped, which detaches nothing and ends nothing.                           *)
ProcessHandle ==
    /\ reattached # <<>>
    /\ reattached' = Tail(reattached)
    /\ LET handle == Head(reattached)
       IN /\ view' = IF view[handle.tab].at = "none" THEN view
                     ELSE [view EXCEPT ![handle.tab] =
                              [AttachedView(handle.session) EXCEPT !.epoch = handle.epoch]]
          /\ DoneWith(handle.tab)
    /\ UNCHANGED <<linkVars, layoutVars, tabSession, attaches, closedTabs, lastSession,
                   alive, failed>>

(* create_terminal with create_terminal_with_session: on the thread, at once.  *)
CreateTerminal(tab) ==
    LET session == lastSession + 1
    IN /\ lastSession < MaxSession /\ lastSession' = session
       /\ tabSession' = [tabSession EXCEPT ![tab] = session]
       /\ \/ /\ conn = "up" /\ alive' = alive \cup {session}
             /\ view' = [view EXCEPT ![tab] = AttachedView(session)] /\ UNCHANGED failed
          \/ /\ view' = [view EXCEPT ![tab] = PendingView(session)] /\ UNCHANGED alive
             /\ failed' = (failed \/ conn = "up")

WithTab(pane, tab) == [tabs |-> Append(pane.tabs, tab), active |-> tab]
FreshTabs == {t \in Tabs : /\ \A w \in Workspaces : t \notin TabsOf(w) \cup ToSet(closedTabs[w])
                           /\ \A task \in attaches \cup ToSet(reattached) : task.tab # t}

NewTerminalTab ==
    /\ activeWs # None
    /\ \E tab \in FreshTabs :
           /\ CreateTerminal(tab)
           /\ panes' = [panes EXCEPT ![activeWs] = WithTab(@, tab)]
    /\ UNCHANGED <<linkVars, workspaces, activeWs, attachVars, closedTabs>>

(* A click on a tab: Pane::activate_item and its ActivateItem event.           *)
Activate(tab) ==
    /\ activeWs # None /\ tab \in TabsOf(activeWs)
    /\ panes' = [panes EXCEPT ![activeWs].active = tab]
    /\ AttachTabIfPending(tab)
    /\ UNCHANGED <<linkVars, workspaces, activeWs, tabSession, view, closedTabs, lastSession,
                   alive, failed>>

(* client.kill: lost with the connection.                                      *)
Killed(sessions) == alive' = IF conn = "up" THEN alive \ sessions ELSE alive

(* Pane::close_item: the neighbour becomes the active tab, without an event.   *)
Position(tab, tabs) == CHOOSE i \in 1..Len(tabs) : tabs[i] = tab
WithoutTab(pane, tab) ==
    LET position == Position(tab, pane.tabs)
        rest == RemoveAt(pane.tabs, position)
    IN [tabs |-> rest,
        active |-> IF rest = <<>> THEN None
                   ELSE rest[IF position > Len(rest) THEN Len(rest) ELSE position]]

(* on_pane_event, CloseItem of a terminal.                                     *)
CloseItem(tab) ==
    /\ activeWs # None /\ tab \in TabsOf(activeWs)
    /\ panes' = [panes EXCEPT ![activeWs] = WithoutTab(@, tab)]
    /\ view' = [view EXCEPT ![tab] = NoView]
    /\ pendingAttach' = pendingAttach \ {tab}
    /\ tabSession' = [tabSession EXCEPT ![tab] = 0]
    /\ Killed({tabSession[tab]})
    /\ closedTabs' = [closedTabs EXCEPT ![activeWs] = Append(@, tab)]
    /\ UNCHANGED <<linkVars, workspaces, activeWs, attaches, reattached, recoveries,
                   lastSession, failed>>

(* reopen_closed_tab: the latest closed tab of the workspace, same id.         *)
ReopenClosedTab ==
    /\ activeWs # None /\ closedTabs[activeWs] # <<>>
    /\ LET closed == closedTabs[activeWs]
           tab == Last(closed)
       IN /\ CreateTerminal(tab)
          /\ panes' = [panes EXCEPT ![activeWs] = WithTab(@, tab)]
          /\ closedTabs' = [closedTabs EXCEPT ![activeWs] = Front(closed)]
    /\ UNCHANGED <<linkVars, workspaces, activeWs, attachVars>>

(* select_workspace, with ensure_workspace_has_tab and the active tab's attach. *)
ShowWorkspace(w) ==
    /\ w \in workspaces \ {activeWs} /\ activeWs' = w
    /\ IF panes[w].tabs = <<>>
       THEN /\ \E tab \in FreshTabs :
                   /\ CreateTerminal(tab)
                   /\ panes' = [panes EXCEPT ![w] = WithTab(@, tab)]
                   \* its attach failed: attach_active_terminal_if_pending at once
                   /\ IF view'[tab].at = "pending" /\ conn # "none"
                      THEN /\ HasRoom
                           /\ attaches' = attaches \cup
                                  {TaskFor(tab, tabSession'[tab], epoch)}
                           /\ pendingAttach' = pendingAttach \cup {tab}
                           /\ recoveries' = recoveries + 1 /\ UNCHANGED reattached
                      ELSE UNCHANGED attachVars
       ELSE /\ AttachTabIfPending(panes[w].active)
            /\ UNCHANGED <<panes, tabSession, view, lastSession, alive, failed>>
    /\ UNCHANGED <<linkVars, workspaces, closedTabs>>

(* confirm_delete_workspace with cleanup_workspace_tabs                        *)
DeleteWorkspace(w) ==
    /\ w \in workspaces
    /\ workspaces' = workspaces \ {w}
    /\ activeWs' = IF activeWs = w THEN None ELSE activeWs
    /\ view' = [t \in Tabs |-> IF t \in TabsOf(w) THEN NoView ELSE view[t]]
    /\ tabSession' = [t \in Tabs |-> IF t \in TabsOf(w) THEN 0 ELSE tabSession[t]]
    /\ Killed({tabSession[t] : t \in TabsOf(w)})
    /\ panes' = [panes EXCEPT ![w] = EmptyPane]
    /\ closedTabs' = [closedTabs EXCEPT ![w] = <<>>]
    /\ UNCHANGED <<linkVars, attachVars, lastSession, failed>>

TabsNext ==
    \/ Connect
    \/ Breaks
    \/ MarkDaemonTerminalsPending
    \/ Reconnect
    \/ \E task \in attaches : Served(task)
    \/ \E task \in attaches : Answered(task)
    \/ \E task \in attaches : AttachFails(task)
    \/ ProcessHandle
    \/ NewTerminalTab
    \/ \E tab \in Tabs : Activate(tab)
    \/ \E tab \in Tabs : CloseItem(tab)
    \/ ReopenClosedTab
    \/ \E w \in Workspaces : ShowWorkspace(w)
    \/ \E w \in Workspaces : DeleteWorkspace(w)

TabsSpec == TabsInit /\ [][TabsNext]_tabVars

AttachesAreOver == attaches = {} /\ reattached = <<>>

(* Whatever was closed, deleted, lost or refused while attaches were on their  *)
(* way: once none is, nothing is left that would keep a tab from being         *)
(* attached (pending_attach_tabs) or every tab from being restored after the   *)
(* next reconnect (pending_recoveries).                                        *)
NoLeftoverAttach == AttachesAreOver => pendingAttach = {} /\ recoveries = 0

(* The tab the user looks at is attached, or on its way to be, while the       *)
(* daemon is connected and has refused nothing ("Hidden restored tabs stay     *)
(* pending until activation").                                                 *)
ShownTabComesUp ==
    AttachesAreOver /\ conn = "up" /\ ~failed /\ activeWs # None /\ TabsOf(activeWs) # {}
        => view[panes[activeWs].active].at = "attached"

(* A view shows the session its tab is saved and killed with ("Tab ID ->       *)
(* daemon session ID mapping").                                                *)
ViewShowsItsSession ==
    \A t \in Tabs : view[t].at = "attached" => view[t].session = tabSession[t]

(* A session runs for some tab: what the user closed does not come back.       *)
NoOrphanSession ==
    AttachesAreOver /\ conn = "up" /\ epoch = 1 => alive \subseteq {tabSession[t] : t \in Tabs}
=============================================================================
