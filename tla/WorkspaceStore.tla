---------------------------- MODULE WorkspaceStore ----------------------------
(* Projects and workspaces: what the window holds, what state.json holds and   *)
(* what git holds (workspace.rs, persistence.rs, worktree.rs and their callers *)
(* in app_view.rs), over crashes, failed saves and failed reads. The file is   *)
(* written whole to a temporary name and renamed; a file that cannot be read   *)
(* or parsed is taken for an empty state.                                      *)
EXTENDS FiniteSets

CONSTANTS Projects, Names, Nothing, Absent, Torn

Ids == [project : Projects, name : Names \cup {"default"}]
MainOf(p) == [project |-> p, name |-> "default"]   \* Workspace::main_branch
States == [projects : SUBSET Projects, workspaces : SUBSET Ids,
           active : Ids \cup {Nothing}, sidebar : BOOLEAN]
DefaultState == [projects |-> {}, workspaces |-> {}, active |-> Nothing, sidebar |-> FALSE]

\* What stands for no file, or for one that cannot be read, is no state.
ASSUME StoreAssumption == {Nothing, Absent, Torn} \cap States = {}

VARIABLES
    running,
    state,       \* AppView.state (AppState)
    prompt,      \* new_ws_prompt: project and generated name
    scheduled,   \* pending_serialize
    temporary,   \* the content of the temporary file being written, or Nothing
    disk,        \* state.json: a state, Absent or Torn
    worktrees,   \* git: the worktrees with their branches
    everSaved,   \* workspaces that were in state.json once (history)
    deleted,     \* workspaces the user deleted (history)
    misread      \* a start could not read a sound state.json (history)

storeVars == <<running, state, prompt, scheduled, temporary, disk, worktrees, everSaved,
               deleted, misread>>
historyVars == <<everSaved, deleted, misread>>

StoreInit ==
    /\ running = FALSE /\ state = DefaultState /\ prompt = Nothing /\ scheduled = FALSE
    /\ temporary = Nothing /\ disk = Absent /\ worktrees = {}
    /\ everSaved = {} /\ deleted = {} /\ misread = FALSE

(* The thread of the interface is free: save_state returns only when done.     *)
Free == running /\ temporary = Nothing

(* save_state_to, first half: the temporary file ...                           *)
SaveState(new) == state' = new /\ temporary' = new

(* ... and the rename, or either half fails, which is only logged.             *)
Rename ==
    /\ running /\ temporary # Nothing
    /\ temporary' = Nothing
    /\ \/ disk' = temporary /\ everSaved' = everSaved \cup temporary.workspaces
       \/ UNCHANGED <<disk, everSaved>>
    /\ UNCHANGED <<running, state, prompt, scheduled, worktrees, deleted, misread>>

(* A crash leaves state.json as it was, and a temporary file nobody reads.     *)
TornInPlace == IF temporary # Nothing THEN Torn ELSE disk  \* (a slip: written in place)
AfterCrash == disk
Crash ==
    /\ running /\ running' = FALSE
    /\ disk' = AfterCrash
    /\ temporary' = Nothing /\ prompt' = Nothing /\ scheduled' = FALSE /\ state' = DefaultState
    /\ UNCHANGED <<worktrees, historyVars>>

(* ensure_main_workspaces                                                      *)
WithMains(loaded) ==
    [loaded EXCEPT !.workspaces = @ \cup {MainOf(p) : p \in loaded.projects}]

(* load_state().unwrap_or_default() at the start of the window.                *)
LoadState(loaded) ==
    /\ state' = WithMains(loaded)
    /\ temporary' = IF WithMains(loaded) # loaded THEN WithMains(loaded) ELSE Nothing

Start ==
    /\ ~running /\ running' = TRUE
    /\ \/ disk \in {Absent, Torn} /\ LoadState(DefaultState) /\ UNCHANGED misread
       \/ disk \notin {Absent, Torn} /\ LoadState(disk) /\ UNCHANGED misread
       \/ disk # Absent /\ LoadState(DefaultState) /\ misread' = TRUE
    /\ UNCHANGED <<prompt, scheduled, disk, worktrees, everSaved, deleted>>

(* do_add_project                                                              *)
AddProject(p) ==
    /\ Free /\ p \notin state.projects
    /\ SaveState([state EXCEPT !.projects = @ \cup {p}, !.workspaces = @ \cup {MainOf(p)}])
    /\ UNCHANGED <<running, prompt, scheduled, disk, worktrees, historyVars>>

(* generate_with_prefix: a name no workspace of the project has.               *)
Collides(p, name) == \E ws \in state.workspaces : ws.project = p /\ ws.name = name

(* start_create_workspace, Cancelled                                           *)
StartCreateWorkspace(p) ==
    /\ Free /\ p \in state.projects
    /\ \E name \in Names : ~Collides(p, name) /\ prompt' = [project |-> p, name |-> name]
    /\ UNCHANGED <<running, state, scheduled, temporary, disk, worktrees, historyVars>>

CancelPrompt ==
    /\ Free /\ prompt # Nothing /\ prompt' = Nothing
    /\ UNCHANGED <<running, state, scheduled, temporary, disk, worktrees, historyVars>>

(* confirm_create_workspace: git refuses a branch or a directory that exists.  *)
ConfirmCreateWorkspace ==
    /\ Free /\ prompt # Nothing /\ prompt' = Nothing
    /\ \/ /\ prompt \notin worktrees
          /\ worktrees' = worktrees \cup {prompt}
          /\ SaveState([state EXCEPT !.workspaces = @ \cup {prompt}, !.active = prompt])
       \/ UNCHANGED <<worktrees, state, temporary>>
    /\ UNCHANGED <<running, scheduled, disk, historyVars>>

(* confirm_delete_workspace: the workspace goes whether or not its worktree    *)
(* went (remove_with_branch); the main one has none.                           *)
ConfirmDeleteWorkspace(ws) ==
    /\ Free /\ ws \in state.workspaces /\ ws.name # "default"
    /\ worktrees' \in {worktrees, worktrees \ {ws}}
    /\ SaveState([state EXCEPT !.workspaces = @ \ {ws},
                               !.active = IF @ = ws THEN Nothing ELSE @])
    /\ deleted' = deleted \cup {ws}
    /\ UNCHANGED <<running, prompt, scheduled, disk, everSaved, misread>>

(* select_workspace saves at once, toggle_sidebar after the throttle.          *)
SelectWorkspace(ws) ==
    /\ Free /\ ws \in state.workspaces /\ state.active # ws
    /\ SaveState([state EXCEPT !.active = ws])
    /\ UNCHANGED <<running, prompt, scheduled, disk, worktrees, historyVars>>

ToggleSidebar ==
    /\ Free /\ state' = [state EXCEPT !.sidebar = ~@] /\ scheduled' = TRUE
    /\ UNCHANGED <<running, prompt, temporary, disk, worktrees, historyVars>>

ThrottleEnds ==
    /\ Free /\ scheduled /\ scheduled' = FALSE /\ SaveState(state)
    /\ UNCHANGED <<running, prompt, disk, worktrees, historyVars>>

(* prepare_to_close: flush_serialization, then the process ends (Crash).       *)
Flush ==
    /\ Free /\ scheduled' = FALSE /\ SaveState(state)
    /\ UNCHANGED <<running, prompt, disk, worktrees, historyVars>>

StoreNext ==
    \/ Start
    \/ Crash
    \/ Rename
    \/ \E p \in Projects : AddProject(p)
    \/ \E p \in Projects : StartCreateWorkspace(p)
    \/ CancelPrompt
    \/ ConfirmCreateWorkspace
    \/ \E ws \in Ids : ConfirmDeleteWorkspace(ws)
    \/ \E ws \in Ids : SelectWorkspace(ws)
    \/ ToggleSidebar
    \/ ThrottleEnds
    \/ Flush

StoreSpec == StoreInit /\ [][StoreNext]_storeVars

(* A workspace that was saved once stays in state.json until the user deletes  *)
(* it, over crashes in the middle of a save, failed saves and restarts; only a *)
(* sound file that could not be read (misread) loses it, at the next save.     *)
SavedIsKept ==
    ~misread => \A ws \in everSaved \ deleted :
                    disk \notin {Absent, Torn} /\ ws \in disk.workspaces
=============================================================================
