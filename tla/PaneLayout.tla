----------------------------- MODULE PaneLayout -----------------------------
(* The panes of the workspaces: a tree of splits per workspace                *)
(* (pane_group.rs), the one focused pane of the window and the keys that act  *)
(* on it (app_view.rs). Of a pane's tabs only their number counts here        *)
(* (TabSessions has the tabs themselves).                                     *)
EXTENDS Integers, Sequences, SequencesExt, FiniteSets

CONSTANTS
    PaneWorkspaces,
    MaxPanes,    \* (bound) panes created
    MaxTabs,     \* (bound) tabs of a pane
    NoPane       \* no pane, no tree, no workspace

ASSUME PanesAssumption ==
    /\ IsFiniteSet(PaneWorkspaces) /\ PaneWorkspaces # {}
    /\ {MaxPanes, MaxTabs} \subseteq Nat /\ NoPane \notin Nat

VARIABLES
    groups,       \* pane_groups: the workspace's tree, or NoPane
    focusedPane,  \* focused_pane
    shownWs,      \* active_workspace_id
    tabCount,     \* the tabs of each pane created so far
    closedIn      \* the workspace the last key press closed a tab of (history)

paneVars == <<groups, focusedPane, shownWs, tabCount, closedIn>>

(* A split has two children, since only a split of a pane makes one, and it   *)
(* collapses when a child goes. So a tree is known by its leaves: the panes   *)
(* by their paths, the children to follow from the root.                      *)
Single(pane) == [path \in {<<>>} |-> pane]
PanesOf(tree) == {tree[path] : path \in DOMAIN tree}
PathOf(tree, pane) == CHOOSE path \in DOMAIN tree : tree[path] = pane

(* PaneGroup::split: unchanged (false) when the target is not in the tree.    *)
SplitAt(tree, target, pane) ==
    LET path == PathOf(tree, target) IN
    IF target \notin PanesOf(tree) THEN tree
    ELSE [p \in (DOMAIN tree \ {path}) \cup {Append(path, 1), Append(path, 2)} |->
             IF p = Append(path, 1) THEN target
             ELSE IF p = Append(path, 2) THEN pane ELSE tree[p]]

(* PaneGroup::remove: a split left with one child becomes that child, so that *)
(* what is in it moves up.                                                    *)
ChildWith(path) == <<path[1]>>  \* (a slip: the child that contains the pane)
ChildThatIs(path) == path

Sibling(child) == Append(Front(child), 3 - Last(child))
Remaining(tree, child) == {path \in DOMAIN tree : ~IsPrefix(child, path)}
MovedUp(child, path) == IF IsPrefix(Sibling(child), path) THEN RemoveAt(path, Len(child)) ELSE path

Without(tree, target) ==
    LET child == ChildThatIs(PathOf(tree, target))
        Was(path) == CHOOSE p \in Remaining(tree, child) : MovedUp(child, p) = path
    IN  IF target \notin PanesOf(tree) \/ PanesOf(tree) = {target} THEN tree
        ELSE [path \in {MovedUp(child, p) : p \in Remaining(tree, child)} |-> tree[Was(path)]]

(* The first of PaneGroup::panes: no other one is to the left.                *)
LeftOf(p, q) ==
    \E n \in DOMAIN p \cap DOMAIN q : p[n] < q[n] /\ \A m \in 1..(n - 1) : p[m] = q[m]
FirstOf(tree) == tree[CHOOSE path \in DOMAIN tree : \A p \in DOMAIN tree : ~LeftOf(p, path)]

PaneNumbers == 1..MaxPanes
Held(tree) == IF tree = NoPane THEN {} ELSE PanesOf(tree)
Created == {pane \in PaneNumbers : tabCount[pane] # NoPane}
NextPane == Cardinality(Created) + 1

(* AppView::new restores or creates a tab, and with it a pane, in every       *)
(* workspace; create_pane focuses the pane, so that the last one keeps it.    *)
RestoredPane == CHOOSE f \in [PaneWorkspaces -> 1..Cardinality(PaneWorkspaces)] :
                    \A v, w \in PaneWorkspaces : v # w => f[v] # f[w]
PanesInit ==
    /\ groups = [w \in PaneWorkspaces |-> Single(RestoredPane[w])]
    /\ shownWs \in PaneWorkspaces \cup {NoPane}
    /\ focusedPane = Cardinality(PaneWorkspaces)
    /\ tabCount \in [PaneNumbers -> {1, NoPane}]
    /\ Created = 1..Cardinality(PaneWorkspaces)
    /\ closedIn = NoPane

(* active_pane_entity: the focused pane, else the workspace's first.          *)
FirstPane(w) == IF groups[w] = NoPane THEN NoPane ELSE FirstOf(groups[w])
ActivePane == IF focusedPane # NoPane THEN focusedPane ELSE FirstPane(shownWs)

(* get_or_create_pane and add_item: the workspace's first pane gets a tab.    *)
AddTab(w) ==
    IF groups[w] # NoPane
    THEN /\ tabCount[FirstPane(w)] < MaxTabs
         /\ tabCount' = [tabCount EXCEPT ![FirstPane(w)] = @ + 1]
         /\ UNCHANGED <<groups, focusedPane>>
    ELSE /\ NextPane \in PaneNumbers
         /\ groups' = [groups EXCEPT ![w] = Single(NextPane)]
         /\ tabCount' = [tabCount EXCEPT ![NextPane] = 1]
         /\ focusedPane' = NextPane

PaneNewTab == shownWs # NoPane /\ AddTab(shownWs) /\ UNCHANGED <<shownWs, closedIn>>

(* split_active_pane: the new pane is focused whether or not it was placed.   *)
SplitActivePane ==
    /\ shownWs # NoPane /\ focusedPane # NoPane /\ groups[shownWs] # NoPane
    /\ NextPane \in PaneNumbers
    /\ groups' = [groups EXCEPT ![shownWs] = SplitAt(@, focusedPane, NextPane)]
    /\ tabCount' = [tabCount EXCEPT ![NextPane] = 1]
    /\ focusedPane' = NextPane
    /\ UNCHANGED <<shownWs, closedIn>>

(* Pane::close_item, and on_pane_event Empty: the pane leaves the tree of the *)
(* workspace that is shown, unless it is alone in it.                         *)
CloseIn(pane) ==
    /\ tabCount[pane] > 0
    /\ tabCount' = [tabCount EXCEPT ![pane] = @ - 1]
    /\ IF tabCount[pane] > 1 THEN UNCHANGED <<groups, focusedPane>>
       ELSE /\ groups' = (IF shownWs = NoPane \/ groups[shownWs] = NoPane THEN groups
                          ELSE [groups EXCEPT ![shownWs] = Without(@, pane)])
            /\ focusedPane' = IF focusedPane = pane THEN NoPane ELSE focusedPane

HolderOf(pane) == IF \E w \in PaneWorkspaces : pane \in Held(groups[w])
                  THEN CHOOSE w \in PaneWorkspaces : pane \in Held(groups[w]) ELSE NoPane

(* close_active_tab: the key.                                                 *)
CloseActiveTab ==
    /\ shownWs # NoPane /\ ActivePane # NoPane
    /\ CloseIn(ActivePane)
    /\ closedIn' = HolderOf(ActivePane)
    /\ UNCHANGED shownWs

(* A click on the cross of a tab: of a pane one sees.                         *)
ClickClose(pane) ==
    /\ shownWs # NoPane /\ pane \in Held(groups[shownWs])
    /\ CloseIn(pane)
    /\ UNCHANGED <<shownWs, closedIn>>

(* select_workspace: ensure_workspace_has_tab, then focus_active_pane_item.   *)
SelectsWorkspace(w) ==
    /\ shownWs' = w
    /\ IF groups[w] # NoPane /\ tabCount[FirstPane(w)] > 0
       THEN /\ focusedPane' = FirstPane(w) /\ UNCHANGED <<groups, tabCount>>
       ELSE IF groups[w] # NoPane
       THEN /\ tabCount' = [tabCount EXCEPT ![FirstPane(w)] = 1]
            /\ focusedPane' = FirstPane(w) /\ UNCHANGED groups
       ELSE AddTab(w)
    /\ closedIn' = NoPane

(* confirm_delete_workspace with cleanup_workspace_tabs: the focus stays.     *)
DeletesWorkspace(w) ==
    /\ groups' = [groups EXCEPT ![w] = NoPane]
    /\ shownWs' = IF shownWs = w THEN NoPane ELSE shownWs
    /\ UNCHANGED <<focusedPane, tabCount, closedIn>>

PanesNext ==
    \/ PaneNewTab
    \/ SplitActivePane
    \/ CloseActiveTab
    \/ \E pane \in Created : ClickClose(pane)
    \/ \E w \in PaneWorkspaces : SelectsWorkspace(w)
    \/ \E w \in PaneWorkspaces : DeletesWorkspace(w)

PanesSpec == PanesInit /\ [][PanesNext]_paneVars

(* Splitting, closing and collapsing lose no pane that still has tabs: it     *)
(* stays in its workspace, until that one is deleted.                         *)
PanesWithTabsStay ==
    [][\A w \in PaneWorkspaces :
          groups'[w] # NoPane =>
              \A pane \in Held(groups[w]) : tabCount'[pane] > 0 => pane \in Held(groups'[w])
      ]_paneVars

(* The key that closes the active tab closes one of the workspace the user    *)
(* sees (close_active_tab asks for the active workspace first).               *)
ClosesWhatIsShown == closedIn # NoPane => closedIn = shownWs
=============================================================================
