--------------------------- MODULE WorkspaceProofs ---------------------------
(* What holds of the stores of the workspace crate: state.json, for any       *)
(* projects, workspaces and crashes; the settings, for every set of projects  *)
(* and values and for any number of changes by the application and outside.   *)
EXTENDS WorkspaceStore, SettingsStore, WellFoundedInduction, TLAPS

------------------------------------------------------------------------------
(* WorkspaceStore                                                             *)

StoreTypes ==
    /\ running \in BOOLEAN /\ scheduled \in BOOLEAN /\ misread \in BOOLEAN
    /\ state \in States
    /\ prompt \in [project : Projects, name : Names] \cup {Nothing}
    /\ temporary \in States \cup {Nothing}
    /\ disk \in States \cup {Absent, Torn}

(* What is being written is what the window holds: the thread of the interface *)
(* does nothing else before the rename.                                        *)
WritesTheState == temporary # Nothing => temporary = state

(* The window holds what was saved, unless its start took a sound file for an  *)
(* unreadable one: so every save keeps it.                                     *)
HoldsTheSaved == running /\ ~misread => everSaved \ deleted \subseteq state.workspaces

StoreInv == StoreTypes /\ WritesTheState /\ HoldsTheSaved /\ SavedIsKept

-------------------------------------------------------------------------------
LEMMA MainIsAWorkspace ==
  ASSUME NEW p \in Projects
  PROVE  MainOf(p) \in Ids
BY DEF MainOf, Ids

LEMMA DefaultIsAState == DefaultState \in States
BY DEF DefaultState, States

(* ensure_main_workspaces only adds.                                           *)
LEMMA WithMainsAdds ==
  ASSUME NEW s \in States
  PROVE  /\ WithMains(s) \in States
         /\ s.workspaces \subseteq WithMains(s).workspaces
<1>1. {MainOf(p) : p \in s.projects} \subseteq Ids
  BY MainIsAWorkspace DEF States
<1>2. WithMains(s).workspaces = s.workspaces \cup {MainOf(p) : p \in s.projects}
  BY DEF WithMains, States
<1>3. WithMains(s) \in States
  BY <1>1 DEF WithMains, States
<1> QED
  BY <1>2, <1>3

LEMMA StoreInvInit == StoreInit => StoreInv
BY DefaultIsAState, StoreAssumption DEF StoreInit, StoreInv, StoreTypes, WritesTheState, HoldsTheSaved, SavedIsKept

-------------------------------------------------------------------------------
(* An action of the window that saves what it changed keeps the invariant when *)
(* it takes no workspace away but those it records as deleted.                 *)
LEMMA SavingKeeps ==
  ASSUME StoreInv, Free,
         NEW new \in States, SaveState(new),
         everSaved' = everSaved, disk' = disk, misread' = misread, running' = running,
         prompt' \in [project : Projects, name : Names] \cup {Nothing},
         scheduled' \in BOOLEAN,
         deleted \subseteq deleted',
         state.workspaces \ deleted' \subseteq new.workspaces
  PROVE  StoreInv'
<1>1. StoreTypes' /\ WritesTheState'
  BY DEF StoreInv, StoreTypes, WritesTheState, SaveState
<1>2. HoldsTheSaved'
  BY DEF StoreInv, HoldsTheSaved, SaveState
<1>3. SavedIsKept'
  BY DEF StoreInv, SavedIsKept
<1> QED
  BY <1>1, <1>2, <1>3 DEF StoreInv

(* An action of the window that saves nothing and touches no workspace.        *)
LEMMA NotSavingKeeps ==
  ASSUME StoreInv, Free,
         temporary' = temporary, everSaved' = everSaved, disk' = disk,
         misread' = misread, running' = running, deleted' = deleted,
         prompt' \in [project : Projects, name : Names] \cup {Nothing},
         scheduled' \in BOOLEAN,
         state' \in States, state'.workspaces = state.workspaces
  PROVE  StoreInv'
BY DEF StoreInv, StoreTypes, WritesTheState, HoldsTheSaved, SavedIsKept, Free

LEMMA RenameKeeps == ASSUME StoreInv, Rename PROVE StoreInv'
<1>1. StoreTypes' /\ WritesTheState'
  BY DEF StoreInv, StoreTypes, WritesTheState, Rename
<1>2. HoldsTheSaved'
  BY DEF StoreInv, StoreTypes, WritesTheState, HoldsTheSaved, Rename
<1>3. SavedIsKept'
  <2>1. CASE UNCHANGED <<disk, everSaved>>
    BY <2>1 DEF StoreInv, SavedIsKept, Rename
  <2>2. CASE disk' = temporary /\ everSaved' = everSaved \cup temporary.workspaces
    <3>1. temporary = state /\ temporary \in States /\ running
      BY DEF StoreInv, StoreTypes, WritesTheState, Rename
    <3>2. ~misread => everSaved' \ deleted' \subseteq disk'.workspaces
      BY <2>2, <3>1 DEF StoreInv, HoldsTheSaved, Rename
    <3>3. disk' \notin {Absent, Torn}
      BY <2>2, <3>1, StoreAssumption
    <3> QED
      BY <3>2, <3>3 DEF SavedIsKept, Rename
  <2> QED
    BY <2>1, <2>2 DEF Rename
<1> QED
  BY <1>1, <1>2, <1>3 DEF StoreInv

LEMMA CrashKeeps == ASSUME StoreInv, Crash PROVE StoreInv'
BY DefaultIsAState
   DEF StoreInv, StoreTypes, WritesTheState, HoldsTheSaved, SavedIsKept, Crash, AfterCrash,
       historyVars

(* A start that is not misread holds at least what is in the file; with no     *)
(* sound file nothing was saved that is not deleted.                           *)
LEMMA StartKeeps == ASSUME StoreInv, Start PROVE StoreInv'
<1>1. PICK loaded \in States :
        /\ LoadState(loaded)
        /\ misread' = TRUE \/ (misread' = misread /\ loaded = disk)
             \/ (misread' = misread /\ disk \in {Absent, Torn})
  <2>1. CASE disk \in {Absent, Torn} /\ LoadState(DefaultState) /\ UNCHANGED misread
    BY <2>1, DefaultIsAState
  <2>2. CASE disk \notin {Absent, Torn} /\ LoadState(disk) /\ UNCHANGED misread
    BY <2>2 DEF StoreInv, StoreTypes
  <2>3. CASE disk # Absent /\ LoadState(DefaultState) /\ misread' = TRUE
    BY <2>3, DefaultIsAState
  <2> QED
    BY <2>1, <2>2, <2>3 DEF Start
<1>2. state' = WithMains(loaded) /\ state' \in States
      /\ loaded.workspaces \subseteq state'.workspaces
  BY <1>1, WithMainsAdds DEF LoadState
<1>3. temporary' \in {state', Nothing}
  BY <1>1 DEF LoadState
<1>4. StoreTypes'
  BY <1>1, <1>2, <1>3 DEF StoreInv, StoreTypes, Start
<1>5. WritesTheState'
  BY <1>3 DEF WritesTheState
<1>6. HoldsTheSaved'
  BY <1>1, <1>2 DEF StoreInv, HoldsTheSaved, SavedIsKept, Start
<1>7. SavedIsKept'
  BY <1>1 DEF StoreInv, SavedIsKept, Start
<1> QED
  BY <1>4, <1>5, <1>6, <1>7 DEF StoreInv

LEMMA AddProjectKeeps ==
  ASSUME StoreInv, NEW p \in Projects, AddProject(p)
  PROVE  StoreInv'
<1> DEFINE new == [state EXCEPT !.projects = @ \cup {p}, !.workspaces = @ \cup {MainOf(p)}]
<1>1. state \in States
  BY DEF StoreInv, StoreTypes
<1>2. new \in States /\ state.workspaces \subseteq new.workspaces
  BY <1>1, MainIsAWorkspace DEF States
<1> QED
  BY <1>2, SavingKeeps DEF AddProject, StoreInv, StoreTypes, historyVars

LEMMA ConfirmCreateKeeps ==
  ASSUME StoreInv, ConfirmCreateWorkspace
  PROVE  StoreInv'
<1> DEFINE new == [state EXCEPT !.workspaces = @ \cup {prompt}, !.active = prompt]
<1>1. state \in States /\ prompt \in Ids
  BY DEF StoreInv, StoreTypes, Ids, ConfirmCreateWorkspace
<1>2. new \in States /\ state.workspaces \subseteq new.workspaces
  BY <1>1 DEF States
<1>3. CASE SaveState(new)
  BY <1>2, <1>3, SavingKeeps DEF ConfirmCreateWorkspace, StoreInv, StoreTypes, historyVars
<1>4. CASE UNCHANGED <<worktrees, state, temporary>>
  BY <1>1, <1>4, NotSavingKeeps DEF ConfirmCreateWorkspace, StoreInv, StoreTypes, historyVars
<1> QED
  BY <1>3, <1>4 DEF ConfirmCreateWorkspace

LEMMA ConfirmDeleteKeeps ==
  ASSUME StoreInv, NEW ws \in Ids, ConfirmDeleteWorkspace(ws)
  PROVE  StoreInv'
<1> DEFINE new == [state EXCEPT !.workspaces = @ \ {ws},
                                !.active = IF @ = ws THEN Nothing ELSE @]
<1>1. state \in States
  BY DEF StoreInv, StoreTypes
<1>2. new \in States /\ state.workspaces \ {ws} \subseteq new.workspaces
  BY <1>1 DEF States
<1> QED
  BY <1>2, SavingKeeps DEF ConfirmDeleteWorkspace, StoreInv, StoreTypes

LEMMA SelectKeeps ==
  ASSUME StoreInv, NEW ws \in Ids, SelectWorkspace(ws)
  PROVE  StoreInv'
<1> DEFINE new == [state EXCEPT !.active = ws]
<1>1. state \in States
  BY DEF StoreInv, StoreTypes
<1>2. new \in States /\ state.workspaces \subseteq new.workspaces
  BY <1>1 DEF States
<1> QED
  BY <1>2, SavingKeeps DEF SelectWorkspace, StoreInv, StoreTypes, historyVars

(* The prompts and the sidebar touch neither the workspaces nor the file; the  *)
(* throttle and the flush write the state as it is.                            *)
LEMMA OthersKeep ==
  ASSUME StoreInv,
         \/ \E p \in Projects : StartCreateWorkspace(p)
         \/ CancelPrompt \/ ToggleSidebar \/ ThrottleEnds \/ Flush
  PROVE  StoreInv'
<1>1. state \in States
  BY DEF StoreInv, StoreTypes
<1>2. CASE \E p \in Projects : StartCreateWorkspace(p)
  BY <1>1, <1>2, NotSavingKeeps DEF StartCreateWorkspace, StoreInv, StoreTypes, historyVars
<1>3. CASE CancelPrompt
  BY <1>1, <1>3, NotSavingKeeps DEF CancelPrompt, StoreInv, StoreTypes, historyVars
<1>4. CASE ToggleSidebar
  <2>1. state' \in States /\ state'.workspaces = state.workspaces
    BY <1>1, <1>4 DEF ToggleSidebar, States
  <2> QED
    BY <1>4, <2>1, NotSavingKeeps DEF ToggleSidebar, StoreInv, StoreTypes, historyVars
<1>5. CASE ThrottleEnds
  BY <1>1, <1>5, SavingKeeps DEF ThrottleEnds, StoreInv, StoreTypes, historyVars
<1>6. CASE Flush
  BY <1>1, <1>6, SavingKeeps DEF Flush, StoreInv, StoreTypes, historyVars
<1> QED
  BY <1>2, <1>3, <1>4, <1>5, <1>6

LEMMA StoreNextKeeps == StoreInv /\ [StoreNext]_storeVars => StoreInv'
<1> SUFFICES ASSUME StoreInv, [StoreNext]_storeVars PROVE StoreInv'
  OBVIOUS
<1>1. CASE UNCHANGED storeVars
  BY <1>1 DEF storeVars, StoreInv, StoreTypes, WritesTheState, HoldsTheSaved, SavedIsKept
<1>2. CASE StoreNext
  BY <1>2, StartKeeps, CrashKeeps, RenameKeeps, AddProjectKeeps, ConfirmCreateKeeps,
     ConfirmDeleteKeeps, SelectKeeps, OthersKeep DEF StoreNext
<1> QED
  BY <1>1, <1>2

-------------------------------------------------------------------------------
(* Whatever projects and names there are, a workspace that was saved once is   *)
(* in state.json until the user deletes it, unless a sound file was not read.  *)
THEOREM SavedWorkspacesAreKept == StoreSpec => []SavedIsKept
<1>1. StoreInit => StoreInv
  BY StoreInvInit
<1>2. StoreInv /\ [StoreNext]_storeVars => StoreInv'
  BY StoreNextKeeps
<1>3. StoreInv => SavedIsKept
  BY DEF StoreInv
<1> QED
  BY <1>1, <1>2, <1>3, PTL DEF StoreSpec

------------------------------------------------------------------------------
(* SettingsStore                                                              *)

Times == 0..MaxTime
FileStates == [content : Content, good : BOOLEAN, mtime : Times]

SettingsTypes ==
    /\ files \in [Targets -> FileStates]
    /\ contents \in [Targets -> Content]
    /\ seen \in [Targets -> Times]
    /\ DOMAIN resolved = Targets
    /\ scope \in Targets
    /\ diverged \in SUBSET Targets

(* Every set of times has a latest one.                                       *)
LEMMA LatestExists ==
  ASSUME NEW T \in SUBSET Times, T # {}
  PROVE  \E x \in T : \A y \in T : y <= x
<1> DEFINE U == {MaxTime - t : t \in T}
<1>1. U \subseteq Nat /\ U # {}
  <2>1. \A t \in T : MaxTime - t \in Nat
    BY SettingsAssumption DEF Times
  <2>2. U # {}
    <3>1. PICK t \in T : TRUE
      OBVIOUS
    <3>2. MaxTime - t \in U
      OBVIOUS
    <3> QED
      BY <3>2
  <2> QED
    BY <2>1, <2>2
<1>2. PICK m \in U : \A y \in U : ~(<<y, m>> \in OpToRel(<, Nat))
  <2> HIDE DEF U
  <2> QED
    BY <1>1, NatLessThanWellFounded, WFMin
<1>3. \A y \in U : ~(y < m)
  BY <1>1, <1>2 DEF OpToRel
<1>4. PICK x \in T : m = MaxTime - x
  OBVIOUS
<1>5. ASSUME NEW y \in T PROVE y <= x
  <2>1. MaxTime - y \in U
    OBVIOUS
  <2>2. ~(MaxTime - y < MaxTime - x)
    BY <1>3, <1>4, <2>1
  <2> QED
    BY <2>2, SettingsAssumption DEF Times
<1> QED
  BY <1>5

(* Now is the latest of the modification times, in this state and in the next. *)
LatestOf(fs) ==
    CHOOSE n \in 0..MaxTime :
        (\E t \in Targets : fs[t].mtime = n) /\ \A t \in Targets : fs[t].mtime <= n

LEMMA LatestOfIsLatest ==
  ASSUME NEW fs \in [Targets -> FileStates]
  PROVE  /\ LatestOf(fs) \in Times
         /\ \E t \in Targets : fs[t].mtime = LatestOf(fs)
         /\ \A t \in Targets : fs[t].mtime \in Times /\ fs[t].mtime <= LatestOf(fs)
<1> DEFINE T == {fs[t].mtime : t \in Targets}
           IsLatest(n) == /\ \E t \in Targets : fs[t].mtime = n
                          /\ \A t \in Targets : fs[t].mtime <= n
<1>1. \A t \in Targets : fs[t].mtime \in Times
  BY DEF FileStates
<1>2. T \in SUBSET Times /\ fs[User].mtime \in T
  BY <1>1 DEF Targets
<1>3. PICK x \in T : \A y \in T : y <= x
  <2> HIDE DEF T
  <2> QED
    BY <1>2, LatestExists
<1>4. IsLatest(x) /\ x \in 0..MaxTime
  BY <1>1, <1>3 DEF Times
<1>5. LatestOf(fs) \in 0..MaxTime /\ IsLatest(LatestOf(fs))
  <2> HIDE DEF T
  <2>1. LatestOf(fs) = CHOOSE n \in 0..MaxTime : IsLatest(n)
    BY DEF LatestOf
  <2> HIDE DEF IsLatest
  <2> QED
    BY <1>4, <2>1
<1> QED
  BY <1>1, <1>5 DEF Times

LEMMA NowIsLatest ==
  ASSUME SettingsTypes
  PROVE  /\ Now \in Times
         /\ \A t \in Targets : MTime(t) \in Times /\ MTime(t) <= Now
<1>1. Now = LatestOf(files)
  BY DEF Now, LatestOf, MTime
<1> QED
  BY <1>1, LatestOfIsLatest DEF SettingsTypes, MTime

(* A file that is written is the latest.                                      *)
LEMMA WritingIsLatest ==
  ASSUME SettingsTypes, NEW t \in Targets, NEW new \in FileStates,
         Now < MaxTime, new.mtime = Now + 1, files' = [files EXCEPT ![t] = new]
  PROVE  /\ files' \in [Targets -> FileStates] /\ Now' = Now + 1
         /\ \A u \in Targets : MTime(u)' = IF u = t THEN Now + 1 ELSE MTime(u)
<1>1. files' \in [Targets -> FileStates]
  BY DEF SettingsTypes
<1>2. \A u \in Targets : MTime(u)' = IF u = t THEN Now + 1 ELSE MTime(u)
  BY DEF SettingsTypes, MTime
<1>3. Now' = LatestOf(files')
  BY DEF Now, LatestOf, MTime
<1>4. /\ \E u \in Targets : MTime(u)' = Now'
      /\ \A u \in Targets : MTime(u)' \in Times /\ MTime(u)' <= Now'
  BY <1>1, <1>3, LatestOfIsLatest DEF MTime
<1>5. /\ Now \in Times /\ Now' \in Times
      /\ \A u \in Targets : MTime(u) \in Times /\ MTime(u) <= Now
  BY <1>1, <1>3, LatestOfIsLatest, NowIsLatest
<1>6. Now' >= Now + 1
  BY <1>2, <1>4
<1>7. Now' <= Now + 1
  <2>1. PICK u \in Targets : MTime(u)' = Now'
    BY <1>4
  <2>2. MTime(u)' = Now + 1 \/ MTime(u)' = MTime(u)
    BY <1>2
  <2> QED
    BY <1>5, <2>1, <2>2 DEF Times
<1> QED
  BY <1>1, <1>2, <1>5, <1>6, <1>7 DEF Times

------------------------------------------------------------------------------
(* What is in memory of a file that has not changed is what the file says,    *)
(* unless a write of it has failed or was overwritten ...                     *)
MemoryIsTheFile ==
    \A t \in Targets \ diverged : ~Changed(t) => contents[t] = Load(t)

(* ... no file was seen at a time that has not come ...                       *)
SeenIsPast == \A t \in Targets : seen[t] <= Now

(* ... and the settings in effect are computed from what is in memory, but    *)
(* for such writes of the target's file or the user's.                        *)
ResolvedFromMemory ==
    \A t \in Targets : {t, User} \cap diverged = {} => resolved[t] = Resolve(contents, t)

SettingsInv == /\ SettingsTypes /\ EditIsOfTheScope
        /\ MemoryIsTheFile /\ SeenIsPast /\ ResolvedFromMemory

LEMMA InEffectFollows == SettingsInv => InEffect
<1> SUFFICES ASSUME SettingsInv, NEW t \in Targets, ~Changed(t), ~Changed(User),
                    {t, User} \cap diverged = {}
             PROVE  resolved[t] = Resolve([u \in Targets |-> Load(u)], t)
  BY DEF InEffect
<1>1. User \in Targets
  BY DEF Targets
<1>2. contents[t] = Load(t) /\ contents[User] = Load(User)
  BY <1>1 DEF SettingsInv, MemoryIsTheFile
<1>3. resolved[t] = Resolve(contents, t)
  BY DEF SettingsInv, ResolvedFromMemory
<1> QED
  BY <1>1, <1>2, <1>3 DEF Resolve

LEMMA DefaultIsContent == Default \in Content
BY DEF Default, Content

LEMMA SettingsInvInit == SettingsInit => SettingsInv
<1> SUFFICES ASSUME SettingsInit PROVE SettingsInv
  OBVIOUS
<1>1. \A t \in Targets : files[t] = [content |-> Default, good |-> TRUE, mtime |-> 1]
  BY DEF SettingsInit
<1>2. SettingsTypes
  <2>1. [content |-> Default, good |-> TRUE, mtime |-> 1] \in FileStates
    BY DefaultIsContent, SettingsAssumption DEF FileStates, Times
  <2>2. files \in [Targets -> FileStates]
    BY <2>1 DEF SettingsInit
  <2>3. contents \in [Targets -> Content] /\ seen \in [Targets -> Times]
    BY DefaultIsContent, SettingsAssumption DEF SettingsInit, Times
  <2>4. DOMAIN resolved = Targets /\ scope \in Targets /\ diverged \in SUBSET Targets
    BY DEF SettingsInit, Targets
  <2> QED
    BY <2>2, <2>3, <2>4 DEF SettingsTypes
<1>3. EditIsOfTheScope
  BY DEF SettingsInit, EditIsOfTheScope
<1>4. MemoryIsTheFile
  BY <1>1 DEF SettingsInit, MemoryIsTheFile, Load
<1>5. SeenIsPast
  <2>1. \A t \in Targets : seen[t] = MTime(t)
    BY <1>1 DEF SettingsInit, MTime
  <2> QED
    BY <1>2, <2>1, NowIsLatest DEF SeenIsPast
<1>6. ResolvedFromMemory
  <2>1. \A t \in Targets : Resolve(contents, t) = Default
    <3> SUFFICES ASSUME NEW t \in Targets PROVE Resolve(contents, t) = Default
      OBVIOUS
    <3>1. contents[User] = Default /\ contents[t] = Default
      BY DEF SettingsInit, Targets
    <3> QED
      BY <3>1 DEF Resolve, FromContent, Default, Fields
  <2> QED
    BY <2>1 DEF SettingsInit, ResolvedFromMemory
<1> QED
  BY <1>2, <1>3, <1>4, <1>5, <1>6 DEF SettingsInv

------------------------------------------------------------------------------
(* Recomputing what depends on the changed contents is as good as recomputing *)
(* everything, for those whose files were read or written as they are.        *)
LEMMA RecomputingIsEnough ==
  ASSUME ResolvedFromMemory, NEW ts \in SUBSET Targets, NEW cs,
         \A t \in Targets \ ts : cs[t] = contents[t]
  PROVE  /\ DOMAIN Recomputed(cs, ts) = Targets
         /\ \A t \in Targets :
                {t, User} \cap (diverged \ ts) = {} => Recomputed(cs, ts)[t] = Resolve(cs, t)
<1>1. ASSUME NEW t \in Targets, {t, User} \cap (diverged \ ts) = {}
      PROVE  Recomputed(cs, ts)[t] = Resolve(cs, t)
  <2>1. CASE t \in Depending(ts)
    BY <2>1 DEF Recomputed
  <2>2. CASE t \notin Depending(ts)
    <3>1. User \notin ts /\ t \notin ts /\ User \in Targets
      BY <2>2 DEF Depending, OnlyItself, Targets
    <3>2. Resolve(cs, t) = Resolve(contents, t)
      BY <3>1 DEF Resolve
    <3> QED
      BY <1>1, <2>2, <3>1, <3>2 DEF Recomputed, ResolvedFromMemory
  <2> QED
    BY <2>1, <2>2
<1> QED
  BY <1>1 DEF Recomputed

(* A file is written: those of the others are as they were.                   *)
LEMMA OthersStay ==
  ASSUME SettingsInv, NEW t \in Targets, NEW new, NEW u \in Targets \ {t},
         files' = [files EXCEPT ![t] = new], seen'[u] = seen[u]
  PROVE  Load(u)' = Load(u) /\ Changed(u)' = Changed(u)
<1>1. files'[u] = files[u]
  BY DEF SettingsInv, SettingsTypes
<1> QED
  BY <1>1 DEF Load, Changed, MTime

LEMMA WrittenIsLatest ==
  ASSUME SettingsInv, NEW t \in Targets, NEW c \in Content, NEW good \in BOOLEAN,
         FileWritten(t, c, good)
  PROVE  /\ files' = [files EXCEPT ![t] = [content |-> c, good |-> good, mtime |-> Now + 1]]
         /\ files' \in [Targets -> FileStates] /\ Now \in Times /\ Now' \in Times
         /\ Now' = Now + 1
         /\ \A u \in Targets : MTime(u)' = IF u = t THEN Now + 1 ELSE MTime(u)
<1> DEFINE new == [content |-> c, good |-> good, mtime |-> Now + 1]
<1>1. /\ new \in FileStates /\ new.mtime = Now + 1 /\ Now \in Times /\ Now + 1 \in Times
      /\ Now < MaxTime
  BY NowIsLatest, SettingsAssumption DEF SettingsInv, FileStates, FileWritten, Times
<1>2. files' = [files EXCEPT ![t] = new]
  BY DEF FileWritten
<1>3. /\ files' \in [Targets -> FileStates] /\ Now' = Now + 1
      /\ \A u \in Targets : MTime(u)' = IF u = t THEN Now + 1 ELSE MTime(u)
  <2> HIDE DEF new
  <2> QED
    BY <1>1, <1>2, WritingIsLatest DEF SettingsInv
<1> QED
  BY <1>1, <1>2, <1>3

(* A file is written over what was seen of it: it is found to have changed.   *)
LEMMA WrittenIsChanged ==
  ASSUME SettingsInv, NEW t \in Targets, NEW c \in Content, NEW good \in BOOLEAN,
         FileWritten(t, c, good), UNCHANGED seen
  PROVE  Changed(t)' /\ SeenIsPast'
<1>1. /\ Now \in Times /\ Now' = Now + 1 /\ MTime(t)' = Now + 1
  BY WrittenIsLatest
<1>2. \A u \in Targets : seen[u] <= Now /\ seen[u] \in Times
  BY DEF SettingsInv, SeenIsPast, SettingsTypes
<1> QED
  BY <1>1, <1>2 DEF Changed, SeenIsPast, Times

(* What is written in the end is known, or the target's memory is apart.      *)
LEMMA WritesKeepMemory ==
  ASSUME SettingsInv, NEW t \in Targets, NEW c \in Content, WritesContent(t, c),
         contents' = [contents EXCEPT ![t] = c],
         seen' = [seen EXCEPT ![t] = files'[t].mtime],
         resolved' = Recomputed(contents', {t}), scope' = scope, EditIsOfTheScope'
  PROVE  SettingsInv'
<1>1. PICK last \in Content :
          /\ FileWritten(t, last, TRUE)
          /\ diverged' = IF last = c THEN diverged \ {t} ELSE diverged \cup {t}
  BY DEF WritesContent
<1>2. /\ files' = [files EXCEPT ![t] = [content |-> last, good |-> TRUE, mtime |-> Now + 1]]
      /\ files' \in [Targets -> FileStates] /\ Now \in Times /\ Now' \in Times
      /\ Now' = Now + 1
  BY <1>1, WrittenIsLatest
<1>3. /\ contents \in [Targets -> Content] /\ seen \in [Targets -> Times]
      /\ files \in [Targets -> FileStates] /\ diverged \in SUBSET Targets
  BY DEF SettingsInv, SettingsTypes
<1>4. files'[t].mtime = Now + 1 /\ files'[t].content = last /\ files'[t].good
  BY <1>2, <1>3
<1>5. /\ DOMAIN resolved' = Targets
      /\ \A u \in Targets :
             {u, User} \cap diverged' = {} => resolved'[u] = Resolve(contents', u)
  <2>1. \A u \in Targets \ {t} : contents'[u] = contents[u]
    BY <1>3
  <2>2. diverged \ {t} \subseteq diverged' /\ {t} \in SUBSET Targets
    BY <1>1
  <2>3. ResolvedFromMemory
    BY DEF SettingsInv
  <2>4. /\ DOMAIN Recomputed(contents', {t}) = Targets
        /\ \A u \in Targets : {u, User} \cap (diverged \ {t}) = {} =>
               Recomputed(contents', {t})[u] = Resolve(contents', u)
    BY <2>1, <2>2, <2>3, RecomputingIsEnough
  <2> QED
    BY <2>2, <2>4
<1>6. SettingsTypes'
  BY <1>1, <1>2, <1>3, <1>4, <1>5 DEF SettingsInv, SettingsTypes
<1>7. MemoryIsTheFile'
  <2> SUFFICES ASSUME NEW u \in Targets, u \notin diverged', ~Changed(u)'
               PROVE  contents'[u] = Load(u)'
    BY DEF MemoryIsTheFile
  <2>1. CASE u = t
    BY <1>1, <1>3, <1>4, <2>1 DEF Load
  <2>2. CASE u # t
    <3>1. seen'[u] = seen[u] /\ contents'[u] = contents[u] /\ u \notin diverged
      BY <1>1, <1>3, <2>2
    <3>2. Load(u)' = Load(u) /\ Changed(u)' = Changed(u)
      BY <1>2, <2>2, <3>1, OthersStay
    <3> QED
      BY <3>1, <3>2 DEF SettingsInv, MemoryIsTheFile
  <2> QED
    BY <2>1, <2>2
<1>8. SeenIsPast'
  BY <1>2, <1>3, <1>4 DEF SettingsInv, SeenIsPast, Times
<1>9. ResolvedFromMemory'
  BY <1>5 DEF ResolvedFromMemory
<1> QED
  BY <1>6, <1>7, <1>8, <1>9 DEF SettingsInv

(* A write that fails leaves the target's memory apart from its file.         *)
LEMMA FailureKeeps ==
  ASSUME SettingsInv, NEW t \in Targets, NEW c \in Content, WriteFails(t, c),
         contents' = [contents EXCEPT ![t] = c], scope' = scope, EditIsOfTheScope'
  PROVE  SettingsInv'
<1>1. diverged' = diverged \cup {t} /\ seen' = seen /\ resolved' = resolved
  BY DEF WriteFails
<1>2. /\ contents \in [Targets -> Content] /\ files \in [Targets -> FileStates]
      /\ diverged \in SUBSET Targets
  BY DEF SettingsInv, SettingsTypes
<1>3. /\ files' \in [Targets -> FileStates] /\ SeenIsPast'
      /\ \E new : files' = [files EXCEPT ![t] = new]
  <2>1. CASE UNCHANGED files
    <3>1. Now' = Now
      BY <2>1 DEF Now, MTime
    <3>2. files' = [files EXCEPT ![t] = files[t]]
      BY <1>2, <2>1
    <3> QED
      BY <1>1, <1>2, <2>1, <3>1, <3>2 DEF SettingsInv, SeenIsPast
  <2>2. CASE FileWritten(t, c, FALSE)
    BY <1>1, <2>2, WrittenIsLatest, WrittenIsChanged
  <2> QED
    BY <2>1, <2>2 DEF WriteFails
<1>4. SettingsTypes'
  BY <1>1, <1>2, <1>3 DEF SettingsInv, SettingsTypes
<1>5. MemoryIsTheFile'
  <2> SUFFICES ASSUME NEW u \in Targets, u \notin diverged', ~Changed(u)'
               PROVE  contents'[u] = Load(u)'
    BY DEF MemoryIsTheFile
  <2>1. u # t /\ contents'[u] = contents[u] /\ u \notin diverged
    BY <1>1, <1>2
  <2>2. Load(u)' = Load(u) /\ Changed(u)' = Changed(u)
    BY <1>1, <1>3, <2>1, OthersStay
  <2> QED
    BY <2>1, <2>2 DEF SettingsInv, MemoryIsTheFile
<1>6. ResolvedFromMemory'
  <2> SUFFICES ASSUME NEW u \in Targets, {u, User} \cap diverged' = {}
               PROVE  resolved'[u] = Resolve(contents', u)
    BY DEF ResolvedFromMemory
  <2>1. u # t /\ User # t /\ {u, User} \cap diverged = {} /\ User \in Targets
    BY <1>1 DEF Targets
  <2>2. contents'[u] = contents[u] /\ contents'[User] = contents[User]
    BY <1>2, <2>1
  <2>3. Resolve(contents', u) = Resolve(contents, u)
    BY <2>2 DEF Resolve
  <2> QED
    BY <1>1, <2>1, <2>3 DEF SettingsInv, ResolvedFromMemory
<1> QED
  BY <1>3, <1>4, <1>5, <1>6 DEF SettingsInv

(* update_content, on whatever action's behalf.                               *)
LEMMA UpdateKeeps ==
  ASSUME SettingsInv, NEW t \in Targets, NEW c \in Content, UpdateContent(t, c),
         EditIsOfTheScope'
  PROVE  SettingsInv'
<1>1. contents' = [contents EXCEPT ![t] = c] /\ scope' = scope
  BY DEF UpdateContent
<1>2. CASE WriteFails(t, c)
  BY <1>1, <1>2, FailureKeeps
<1>3. CASE /\ WritesContent(t, c)
           /\ seen' = [seen EXCEPT ![t] = files'[t].mtime]
           /\ resolved' = Recomputed(contents', {t})
  BY <1>1, <1>3, WritesKeepMemory
<1> QED
  BY <1>2, <1>3 DEF UpdateContent

(* Somebody else writes a file: it is not what was seen.                      *)
LEMMA ChangesOutsideKeep ==
  ASSUME SettingsInv, NEW t \in Targets, NEW c \in Content, NEW good \in BOOLEAN,
         ChangesOutside(t, c, good)
  PROVE  SettingsInv'
<1>1. FileWritten(t, c, good) /\ UNCHANGED <<contents, seen, resolved, scope, edit, diverged>>
  BY DEF ChangesOutside
<1>2. /\ files' = [files EXCEPT ![t] = [content |-> c, good |-> good, mtime |-> Now + 1]]
      /\ files' \in [Targets -> FileStates] /\ Changed(t)' /\ SeenIsPast'
  BY <1>1, WrittenIsLatest, WrittenIsChanged
<1>3. SettingsTypes' /\ EditIsOfTheScope'
  BY <1>1, <1>2 DEF SettingsInv, SettingsTypes, EditIsOfTheScope
<1>4. MemoryIsTheFile'
  <2> SUFFICES ASSUME NEW u \in Targets, u \notin diverged, ~Changed(u)'
               PROVE  contents'[u] = Load(u)'
    BY <1>1 DEF MemoryIsTheFile
  <2>1. u # t
    BY <1>2
  <2>2. Load(u)' = Load(u) /\ Changed(u)' = Changed(u)
    BY <1>1, <1>2, <2>1, OthersStay
  <2> QED
    BY <1>1, <2>2 DEF SettingsInv, MemoryIsTheFile
<1>5. ResolvedFromMemory'
  BY <1>1 DEF SettingsInv, ResolvedFromMemory, Resolve
<1> QED
  BY <1>2, <1>3, <1>4, <1>5 DEF SettingsInv

(* A poll reads what changed of the user's file or of the projects'.          *)
LEMMA ReloadKeeps == ASSUME SettingsInv, CheckAndReload PROVE SettingsInv'
<1> DEFINE ts == IF Changed(User) THEN {User} ELSE {t \in ProjectPaths : Changed(t)}
<1>1. ts \in SUBSET Targets
  BY DEF Targets
<1>2. /\ contents' = [t \in Targets |-> IF t \in ts THEN Load(t) ELSE contents[t]]
      /\ seen' = [t \in Targets |-> IF t \in ts THEN MTime(t) ELSE seen[t]]
      /\ resolved' = Recomputed(contents', ts) /\ diverged' = diverged \ ts
      /\ UNCHANGED <<files, scope, edit>>
  BY DEF CheckAndReload
<1> HIDE DEF ts
<1>3. \A t \in Targets : Load(t) \in Content /\ MTime(t) \in Times /\ MTime(t) <= Now
  BY NowIsLatest, DefaultIsContent DEF SettingsInv, SettingsTypes, FileStates, Load
<1>4. /\ DOMAIN resolved' = Targets
      /\ \A u \in Targets :
             {u, User} \cap diverged' = {} => resolved'[u] = Resolve(contents', u)
  <2>1. \A u \in Targets \ ts : contents'[u] = contents[u]
    BY <1>2
  <2> QED
    BY <1>1, <1>2, <2>1, RecomputingIsEnough DEF SettingsInv
<1>5. SettingsTypes' /\ EditIsOfTheScope'
  <2>1. contents' \in [Targets -> Content]
    BY <1>2, <1>3 DEF SettingsInv, SettingsTypes
  <2>2. seen' \in [Targets -> Times]
    BY <1>2, <1>3 DEF SettingsInv, SettingsTypes
  <2> QED
    BY <1>2, <1>4, <2>1, <2>2 DEF SettingsInv, SettingsTypes, EditIsOfTheScope
<1>6. MemoryIsTheFile'
  <2> SUFFICES ASSUME NEW u \in Targets, u \notin diverged', ~Changed(u)'
               PROVE  contents'[u] = Load(u)'
    BY DEF MemoryIsTheFile
  <2>1. Load(u)' = Load(u)
    BY <1>2 DEF Load
  <2>2. CASE u \in ts
    BY <1>2, <2>1, <2>2
  <2>3. CASE u \notin ts
    <3>1. /\ contents'[u] = contents[u] /\ seen'[u] = seen[u] /\ MTime(u)' = MTime(u)
          /\ u \notin diverged
      BY <1>2, <2>3 DEF MTime
    <3> QED
      BY <2>1, <3>1 DEF SettingsInv, MemoryIsTheFile, Changed
  <2> QED
    BY <2>2, <2>3
<1>7. SeenIsPast'
  <2>1. Now' = Now
    BY <1>2 DEF Now, MTime
  <2> QED
    BY <1>2, <1>3, <2>1 DEF SettingsInv, SeenIsPast
<1>8. ResolvedFromMemory'
  BY <1>4 DEF ResolvedFromMemory
<1> QED
  BY <1>5, <1>6, <1>7, <1>8 DEF SettingsInv

------------------------------------------------------------------------------
(* The view shows another scope, opens a field or closes it.                  *)
LEMMA OnlyTheViewKeeps ==
  ASSUME SettingsInv, UNCHANGED storeOfSettings, scope' \in Targets,
         EditIsOfTheScope'
  PROVE  SettingsInv'
<1> USE DEF storeOfSettings
<1>1. SettingsTypes'
  BY DEF SettingsInv, SettingsTypes
<1>2. MemoryIsTheFile' /\ SeenIsPast' /\ ResolvedFromMemory'
  BY DEF SettingsInv, MemoryIsTheFile, SeenIsPast, ResolvedFromMemory, Changed, MTime, Load, Now,
         Resolve
<1> QED
  BY <1>1, <1>2 DEF SettingsInv

(* One field of a target's contents is set.                                   *)
LEMMA FieldIsContent ==
  ASSUME SettingsInv, NEW t \in Targets, NEW f, NEW v \in Values \cup {0}
  PROVE  [contents[t] EXCEPT ![f] = v] \in Content
BY DEF SettingsInv, SettingsTypes, Content

(* The edit that is open is of a target.                                      *)
LEMMA EditedTarget ==
  ASSUME SettingsInv, edit # NoEdit
  PROVE  edit.target \in Targets
BY DEF SettingsInv, SettingsTypes, EditIsOfTheScope

LEMMA ViewKeeps ==
  ASSUME SettingsInv,
         \/ \E t \in Targets : SelectScope(t)
         \/ \E f \in Fields : BeginEdit(f)
         \/ \E v \in Values \cup {0} : CommitEdit(v)
         \/ CancelEdit
  PROVE  SettingsInv'
<1>1. scope \in Targets
  BY DEF SettingsInv, SettingsTypes
<1>2. ASSUME NEW t \in Targets, SelectScope(t) PROVE SettingsInv'
  BY <1>2, OnlyTheViewKeeps DEF SelectScope, EndsEdit, EditIsOfTheScope
<1>3. ASSUME NEW f \in Fields, BeginEdit(f) PROVE SettingsInv'
  <2>1. edit'.target = scope'
    BY <1>3 DEF BeginEdit
  <2> QED
    BY <1>1, <1>3, <2>1, OnlyTheViewKeeps DEF BeginEdit, EditIsOfTheScope
<1>4. ASSUME NEW v \in Values \cup {0}, CommitEdit(v) PROVE SettingsInv'
  <2> DEFINE c == [contents[edit.target] EXCEPT ![edit.field] = v]
  <2>1. edit.target \in Targets /\ c \in Content
    BY <1>4, EditedTarget, FieldIsContent DEF CommitEdit
  <2>2. EditIsOfTheScope'
    BY <1>4 DEF CommitEdit, EndsEdit, EditIsOfTheScope
  <2>3. CASE UpdateContent(edit.target, c)
    BY <2>1, <2>2, <2>3, UpdateKeeps
  <2>4. CASE UNCHANGED <<storeOfSettings, scope>>
    BY <1>1, <2>2, <2>4, OnlyTheViewKeeps
  <2> QED
    BY <1>4, <2>3, <2>4 DEF CommitEdit
<1>5. CASE CancelEdit
  BY <1>1, <1>5, OnlyTheViewKeeps DEF CancelEdit, EndsEdit, EditIsOfTheScope
<1> QED
  BY <1>2, <1>3, <1>4, <1>5

(* A switch, a reset and "Edit JSON" write the scope's file.                  *)
LEMMA WritesKeep ==
  ASSUME SettingsInv,
         \/ \E f \in Fields, v \in Values \cup {0} : SetField(f, v)
         \/ ResetScope \/ EditJson
  PROVE  SettingsInv'
<1>1. scope \in Targets /\ EditIsOfTheScope
  BY DEF SettingsInv, SettingsTypes
<1>2. ASSUME NEW f \in Fields, NEW v \in Values \cup {0}, SetField(f, v) PROVE SettingsInv'
  <2>1. [contents[scope] EXCEPT ![f] = v] \in Content
    BY <1>1, FieldIsContent
  <2>2. EditIsOfTheScope'
    BY <1>1, <1>2 DEF SetField, UpdateContent, EditIsOfTheScope
  <2> QED
    BY <1>1, <1>2, <2>1, <2>2, UpdateKeeps DEF SetField
<1>3. CASE ResetScope
  <2>1. EditIsOfTheScope'
    BY <1>3 DEF ResetScope, EndsEdit, EditIsOfTheScope
  <2> QED
    BY <1>1, <1>3, <2>1, DefaultIsContent, UpdateKeeps DEF ResetScope
<1>4. CASE EditJson
  <2>1. EditIsOfTheScope'
    BY <1>1, <1>4 DEF EditJson, UpdateContent, EditIsOfTheScope
  <2>2. contents[scope] \in Content
    BY <1>1 DEF SettingsInv, SettingsTypes
  <2> QED
    BY <1>1, <1>4, <2>1, <2>2, UpdateKeeps DEF EditJson
<1> QED
  BY <1>2, <1>3, <1>4

LEMMA SettingsNextKeeps == SettingsInv /\ [SettingsNext]_settingsVars => SettingsInv'
<1> SUFFICES ASSUME SettingsInv, [SettingsNext]_settingsVars PROVE SettingsInv'
  OBVIOUS
<1>1. CASE UNCHANGED settingsVars
  BY <1>1, OnlyTheViewKeeps DEF settingsVars, storeOfSettings, SettingsInv, SettingsTypes, EditIsOfTheScope
<1>2. CASE SettingsNext
  BY <1>2, ChangesOutsideKeep, ReloadKeeps, ViewKeeps, WritesKeep DEF SettingsNext
<1> QED
  BY <1>1, <1>2

------------------------------------------------------------------------------
(* Whoever changes the files, whenever they are polled and whichever writes   *)
(* fail or are overwritten before their time is read: of a target whose file  *)
(* and the user's have not changed since they were seen, the settings in      *)
(* effect are what the two say, unless the last write of one of them was such *)
(* a write and nothing has made up for it.                                    *)
THEOREM SettingsAreInEffect == SettingsSpec => []InEffect
<1>1. SettingsInit => SettingsInv
  BY SettingsInvInit
<1>2. SettingsInv /\ [SettingsNext]_settingsVars => SettingsInv'
  BY SettingsNextKeeps
<1> QED
  BY <1>1, <1>2, InEffectFollows, PTL DEF SettingsSpec

(* A field that is open is of the scope that is shown: its value is saved     *)
(* where the reader sees it.                                                  *)
THEOREM EditsAreOfTheScope == SettingsSpec => []EditIsOfTheScope
<1>1. SettingsInit => SettingsInv
  BY SettingsInvInit
<1>2. SettingsInv /\ [SettingsNext]_settingsVars => SettingsInv'
  BY SettingsNextKeeps
<1>3. SettingsInv => EditIsOfTheScope
  BY DEF SettingsInv
<1> QED
  BY <1>1, <1>2, <1>3, PTL DEF SettingsSpec
==============================================================================
