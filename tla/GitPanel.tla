------------------------------ MODULE GitPanel ------------------------------
(* The Git panel of the window: the repository, the status provider with its   *)
(* cache and its refreshes off the thread (git_state_provider.rs, cache.rs),   *)
(* the panel that shows it (git_panel_view.rs), and the workspace they belong  *)
(* to (app_view.rs). A status is the number of the repository's state it was   *)
(* computed from; results may arrive in any order.                             *)
EXTENDS Integers, FiniteSets

CONSTANTS
    Workspaces,
    MaxChanges,   \* (bound) changes of the repositories and of the selection
    MaxRefreshes, \* (bound) refreshes in flight
    None

VARIABLES
    repo,        \* each worktree's state in git
    changes,     \* changes so far (bound)
    shownWs,     \* active_workspace_id
    providerWs,  \* the worktree_path of git_provider
    current,     \* current_status
    cache,       \* the entry of GitStatusCache: a status, or None
    fresh,       \* its age is below CACHE_TTL
    refreshes,   \* tasks of refresh: their worktree and what they computed
    operation,   \* the operation that runs (is_busy): its kind, or None
    notified,    \* the file system watcher has an event to handle
    panel        \* GitPanelView: status and is_busy

gitVars == <<repo, changes, shownWs, providerWs, current, cache, fresh, refreshes, operation,
             notified, panel>>
appVars == <<shownWs, providerWs>>
repoVars == <<repo, changes>>

NoStatus == 0   \* GitChangesStatus::default; repositories start at 1
NewPanel == [status |-> NoStatus, busy |-> FALSE]
IsBusy == operation # None
Room == Cardinality(refreshes) < MaxRefreshes
Task(ws) == [worktree |-> ws, computed |-> None]

Init ==
    /\ repo = [w \in Workspaces |-> 1] /\ changes = 0
    /\ shownWs \in Workspaces /\ providerWs = shownWs
    /\ current = NoStatus /\ cache = None /\ fresh = FALSE
    /\ refreshes = {Task(providerWs)} /\ operation = None /\ notified = FALSE
    /\ panel = NewPanel

(* on_git_state_changed, at StatusChanged                                      *)
Shown(status, busy) == panel' = [status |-> status, busy |-> busy]

(* GitStatusCache::get                                                         *)
EverFresh == cache # None  \* (a slip: no time to live)
Cached == cache # None /\ fresh

(* refresh, without a usable entry: a task; with one: the entry is shown.      *)
StartRefresh ==
    /\ Room /\ refreshes' = refreshes \cup {Task(providerWs)}
    /\ UNCHANGED <<current, panel>>
UseCache ==
    /\ UNCHANGED refreshes
    /\ current' = cache
    /\ IF cache # current THEN Shown(cache, IsBusy) ELSE UNCHANGED panel

(* The poll, every 30 seconds.                                                 *)
Poll ==
    /\ IF Cached THEN UseCache ELSE StartRefresh
    /\ UNCHANGED <<repoVars, appVars, cache, fresh, operation, notified>>

(* invalidate, then refresh.                                                   *)
InvalidateAndRefresh == cache' = None /\ fresh' = FALSE /\ StartRefresh

(* start_fs_watcher: changes of the index, HEAD or refs, after the debounce.   *)
WatcherFires ==
    /\ notified /\ notified' = FALSE
    /\ InvalidateAndRefresh
    /\ UNCHANGED <<repoVars, appVars, operation>>

(* The git commands of compute_status, off the thread.                         *)
Compute(task) ==
    /\ task.computed = None
    /\ refreshes' = (refreshes \ {task}) \cup {[task EXCEPT !.computed = repo[task.worktree]]}
    /\ UNCHANGED <<repoVars, appVars, current, cache, fresh, operation, notified, panel>>

(* Its result: into the cache and, if it differs, onto the screen. A provider  *)
(* that was replaced is gone, its tasks write to a cache nobody reads.         *)
Deliver(task) ==
    /\ task.computed # None
    /\ refreshes' = refreshes \ {task}
    /\ IF task.worktree = providerWs
       THEN /\ cache' = task.computed /\ fresh' = TRUE /\ current' = task.computed
            /\ IF task.computed # current THEN Shown(task.computed, IsBusy) ELSE UNCHANGED panel
       ELSE UNCHANGED <<cache, fresh, current, panel>>
    /\ UNCHANGED <<repoVars, appVars, operation, notified>>

EntryAges ==
    /\ fresh /\ fresh' = FALSE
    /\ UNCHANGED <<repoVars, appVars, current, cache, refreshes, operation, notified, panel>>

Changed(ws) ==
    /\ changes < MaxChanges /\ changes' = changes + 1
    /\ repo' = [repo EXCEPT ![ws] = @ + 1]

(* Someone edits a file, or stages, commits, fetches in a terminal.            *)
OutsideChange ==
    /\ \E ws \in Workspaces : Changed(ws) /\ notified' \in {notified, notified \/ ws = providerWs}
    /\ UNCHANGED <<appVars, current, cache, fresh, refreshes, operation, panel>>

(* stage_file, unstage_file, discard_file: no busy state.                      *)
StageFile ==
    /\ \/ Changed(providerWs) /\ InvalidateAndRefresh /\ notified' = TRUE
       \/ UNCHANGED <<repoVars, cache, fresh, refreshes, current, panel, notified>>
    /\ UNCHANGED <<appVars, operation>>

(* commit, push, pull, fetch, sync, stash, switch_branch (run_and_refresh).    *)
StartOperation ==
    /\ ~IsBusy /\ ~panel.busy /\ operation' = providerWs
    /\ Shown(current, TRUE)
    /\ UNCHANGED <<repoVars, appVars, current, cache, fresh, refreshes, notified>>

OperationSucceeds ==
    /\ IsBusy /\ operation' = None
    /\ \/ Changed(operation) /\ notified' = TRUE
       \/ UNCHANGED <<repoVars, notified>>   \* a fetch that finds nothing new
    /\ InvalidateAndRefresh
    /\ UNCHANGED appVars

OperationFails ==
    /\ IsBusy /\ operation' = None
    /\ UNCHANGED <<repoVars, appVars, current, cache, fresh, refreshes, notified, panel>>

(* init_git_provider: a new provider with its own cache, and a new panel.      *)
InitGitProvider(ws) ==
    /\ providerWs' = ws /\ current' = NoStatus /\ cache' = None /\ fresh' = FALSE
    /\ Room /\ refreshes' = refreshes \cup {Task(ws)}
    /\ operation' = None /\ notified' = FALSE /\ panel' = NewPanel

Selected(ws) == shownWs' = ws /\ changes < MaxChanges /\ changes' = changes + 1

SelectWorkspace(ws) ==
    /\ Selected(ws)
    /\ InitGitProvider(ws) /\ UNCHANGED repo

(* confirm_create_workspace, confirm_delete_workspace: another workspace, or   *)
(* none, is active, and the provider stays as it was.                          *)
CreateWorkspace(ws) ==
    /\ ws # shownWs /\ Selected(ws)
    /\ UNCHANGED <<repo, providerWs, current, cache, fresh, refreshes, operation, notified,
                   panel>>

DeleteActiveWorkspace ==
    /\ shownWs # None /\ Selected(None)
    /\ UNCHANGED <<repo, providerWs, current, cache, fresh, refreshes, operation, notified,
                   panel>>

Next ==
    \/ Poll
    \/ WatcherFires
    \/ \E task \in refreshes : Compute(task)
    \/ \E task \in refreshes : Deliver(task)
    \/ EntryAges
    \/ OutsideChange
    \/ StageFile
    \/ StartOperation
    \/ OperationSucceeds
    \/ OperationFails
    \/ \E ws \in Workspaces : SelectWorkspace(ws)
    \/ \E ws \in Workspaces : CreateWorkspace(ws)
    \/ DeleteActiveWorkspace

(* Timers fire, and what runs off the thread ends.                             *)
GitFairness ==
    /\ WF_gitVars(Poll) /\ WF_gitVars(EntryAges)
    /\ WF_gitVars(\E task \in refreshes : Compute(task))
    /\ WF_gitVars(\E task \in refreshes : Deliver(task))

Spec == Init /\ [][Next]_gitVars /\ GitFairness

(* Whatever order refreshes end in, and however stale the cached result, the   *)
(* panel shows the repository's state again and again: a change is seen at the *)
(* latest by the poll.                                                         *)
PanelCatchesUp == []<>(panel.status = repo[providerWs])

(* While nothing runs the panel accepts a commit ("Update busy state").        *)
BusyEnds == operation = None /\ refreshes = {} => ~panel.busy

(* What the panel shows, stages, discards and commits is of the workspace that *)
(* is selected ("Reinitialize git provider for the new workspace").            *)
PanelIsOfTheWorkspace == shownWs # None => providerWs = shownWs
=============================================================================
