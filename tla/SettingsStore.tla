---------------------------- MODULE SettingsStore ----------------------------
(* The settings (settings.rs) of the user and of each project: a file of        *)
(* overrides, what was read of it, and the settings in effect that are computed *)
(* from them; the files are polled for changes of their modification time. The  *)
(* settings view (settings_view.rs) edits one field of one file at a time. The  *)
(* application's settings stand for the four groups only the user's file sets,  *)
(* the profile for the group a project's file overrides; 0 is "not set".        *)
EXTENDS Naturals

CONSTANTS
    User, ProjectPaths,  \* whose settings: the user's, and the projects' of the start
    Values,          \* of a field, from 1
    MaxTime,         \* modification times (bound of the model)
    NoEdit

ASSUME SettingsAssumption == MaxTime \in Nat \ {0}

VARIABLES
    files,      \* target -> what its file says and when it was written
    contents,   \* target -> SettingsContent in memory
    seen,       \* target -> last_modified
    resolved,   \* target -> global_resolved, project_resolved
    scope,      \* the target the view shows
    edit,       \* inline_edit: its target and field, or NoEdit
    diverged    \* history: the targets whose contents are not of the file seen

storeOfSettings == <<files, contents, seen, resolved, diverged>>
settingsVars == <<files, contents, seen, resolved, scope, edit, diverged>>

Targets == {User} \cup ProjectPaths
Fields == {"app", "profile"}
Content == [Fields -> Values \cup {0}]
Default == [f \in Fields |-> 0]
MTime(t) == files[t].mtime
Now == CHOOSE n \in 0..MaxTime :
          (\E t \in Targets : MTime(t) = n) /\ \A t \in Targets : MTime(t) <= n

(* A file that does not parse is one that sets nothing.                         *)
Load(t) == IF files[t].good THEN files[t].content ELSE Default

(* merge_project_from: a project's file overrides the profile alone.            *)
FromContent(user, project) ==
    [user EXCEPT !["profile"] = IF project["profile"] # 0 THEN project["profile"] ELSE @]
Resolve(cs, t) == FromContent(cs[User], IF t = User THEN Default ELSE cs[t])

(* The user's settings are under those of every project.                        *)
OnlyItself(ts) == ts  \* (a slip: the projects keep what they had)
Depending(ts) == IF User \in ts THEN Targets ELSE ts
Recomputed(cs, ts) ==
    [t \in Targets |-> IF t \in Depending(ts) THEN Resolve(cs, t) ELSE resolved[t]]

SettingsInit ==
    /\ files \in [Targets -> {[content |-> Default, good |-> TRUE, mtime |-> 1]}]
    /\ contents = [t \in Targets |-> Default] /\ seen = [t \in Targets |-> 1]
    /\ resolved = [t \in Targets |-> Default]
    /\ scope = User /\ edit = NoEdit /\ diverged = {}

FileWritten(t, c, good) ==
    /\ Now < MaxTime
    /\ files' = [files EXCEPT ![t] = [content |-> c, good |-> good, mtime |-> Now + 1]]

(* Somebody writes the file, perhaps in the middle of a word.                   *)
ChangesOutside(t, c, good) ==
    /\ FileWritten(t, c, good)
    /\ UNCHANGED <<contents, seen, resolved, scope, edit, diverged>>

(* A poll takes the user's file or, when that is as it was, the projects' that  *)
(* changed; those that changed with the user's wait for the next poll.          *)
Changed(t) == MTime(t) # seen[t]
CheckAndReload ==
    LET ts == IF Changed(User) THEN {User} ELSE {t \in ProjectPaths : Changed(t)}
    IN  /\ ts # {}
        /\ contents' = [t \in Targets |-> IF t \in ts THEN Load(t) ELSE contents[t]]
        /\ seen' = [t \in Targets |-> IF t \in ts THEN MTime(t) ELSE seen[t]]
        /\ resolved' = Recomputed(contents', ts)
        /\ diverged' = diverged \ ts
        /\ UNCHANGED <<files, scope, edit>>

(* write_content: the whole file is written from what is in memory; its time is *)
(* read afterwards, when it may be of what somebody else has just written.      *)
WritesContent(t, c) ==
    \E last \in Content :
        /\ FileWritten(t, last, TRUE)
        /\ diverged' = IF last = c THEN diverged \ {t} ELSE diverged \cup {t}

(* A write that fails has left the file alone or cut it off.                    *)
WriteFails(t, c) ==
    /\ UNCHANGED files \/ FileWritten(t, c, FALSE)
    /\ diverged' = diverged \cup {t}
    /\ UNCHANGED <<seen, resolved>>

(* update_content: what is in memory changes first, and stays when the write    *)
(* fails and nothing else is done.                                              *)
UpdateContent(t, c) ==
    /\ contents' = [contents EXCEPT ![t] = c] /\ UNCHANGED scope
    /\ \/ /\ WritesContent(t, c)
          /\ seen' = [seen EXCEPT ![t] = files'[t].mtime]
          /\ resolved' = Recomputed(contents', {t})
       \/ WriteFails(t, c)

(******************************* the view ***********************************)
(* The rows of the user's scope set every field, those of a project its profile. *)
FieldsOf(t) == IF t = User THEN Fields ELSE {"profile"}
EndsEdit == edit' = NoEdit
SelectScope(t) == scope' = t /\ EndsEdit /\ UNCHANGED storeOfSettings
BeginEdit(f) ==
    /\ f \in FieldsOf(scope)
    /\ edit' = [target |-> scope, field |-> f]
    /\ UNCHANGED <<storeOfSettings, scope>>
(* A text that is no value of the field changes nothing.                        *)
CommitEdit(v) ==
    /\ edit # NoEdit /\ EndsEdit
    /\ \/ UpdateContent(edit.target, [contents[edit.target] EXCEPT ![edit.field] = v])
       \/ UNCHANGED <<storeOfSettings, scope>>
CancelEdit == edit # NoEdit /\ EndsEdit /\ UNCHANGED <<storeOfSettings, scope>>

(* toggle_bool, set_branch_prefix_mode and reset_field leave an edit open.      *)
SetField(f, v) ==
    /\ f \in FieldsOf(scope)
    /\ UpdateContent(scope, [contents[scope] EXCEPT ![f] = v]) /\ UNCHANGED edit
ResetScope == UpdateContent(scope, Default) /\ EndsEdit
EditJson == UpdateContent(scope, contents[scope]) /\ UNCHANGED edit

SettingsNext ==
    \/ \E t \in Targets :
          \/ \E c \in Content, good \in BOOLEAN : ChangesOutside(t, c, good)
          \/ SelectScope(t)
    \/ CheckAndReload
    \/ \E f \in Fields : BeginEdit(f) \/ \E v \in Values \cup {0} : SetField(f, v)
    \/ \E v \in Values \cup {0} : CommitEdit(v)
    \/ CancelEdit \/ ResetScope \/ EditJson

SettingsSpec == SettingsInit /\ [][SettingsNext]_settingsVars

------------------------------------------------------------------------------
(* When neither a target's file nor the user's has changed since it was seen,   *)
(* the settings in effect are what the two files say, whichever was changed by  *)
(* whom and in which order the polls came: also after writes that failed or     *)
(* were overwritten, once a poll or another write has made up for those of the  *)
(* two files (check_and_reload, update_content).                                *)
InEffect ==
    \A t \in Targets :
        ~Changed(t) /\ ~Changed(User) /\ {t, User} \cap diverged = {} =>
            resolved[t] = Resolve([u \in Targets |-> Load(u)], t)

(* An edit that is open belongs to the scope that is shown.                     *)
EditIsOfTheScope == edit # NoEdit => edit.target = scope

(* settings_view.rs, "Edit JSON": to open a file for editing does not take away *)
(* what somebody wrote in it.                                                   *)
HandEditsSurvive == [][EditJson => files'[scope].content = files[scope].content]_settingsVars

(* Disproved: a time is remembered together with what the file of that time     *)
(* says, so that check_and_reload finds every modification.                     *)
TimeIsOfTheContent ==
    [][\A t \in Targets : seen'[t] # seen[t] => contents'[t] = Load(t)']_settingsVars

(* Disproved: what is kept in memory is what is in effect (update_content).     *)
EditsTakeEffect ==
    [][\A t \in Targets : contents'[t] # contents[t] => resolved'[t] = Resolve(contents', t)]_settingsVars
==============================================================================
