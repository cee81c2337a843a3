---------------------------- MODULE WindowProofs ----------------------------
(***************************************************************************)
(* The tabs, the text field, the editor and the panes: NoLeftoverAttach,   *)
(* for any tabs, workspaces and attaches in flight;                        *)
(* SlicesBetweenCharacters, for texts of any length with letters of any    *)
(* width; SelectionIsInTheText, for files of any length; and               *)
(* PanesWithTabsStay, for any trees of panes.                              *)
(***************************************************************************)
EXTENDS TabSessions, TextInput, EditorView, PaneLayout, FiniteSetTheorems,
        NaturalsInduction, SequenceTheorems, WellFoundedInduction, TLAPS

Panes == [tabs : Seq(Tabs), active : Tabs \cup {None}]
Tasks == [tab : Tabs, session : Nat, epoch : Nat,
          step : {"queued", "answered"}, nth : Nat]

LayoutTypes ==
    /\ epoch \in Nat /\ lastSession \in Nat
    /\ workspaces \subseteq Workspaces /\ activeWs \in Workspaces \cup {None}
    /\ panes \in [Workspaces -> Panes]
    /\ closedTabs \in [Workspaces -> Seq(Tabs)]
    /\ tabSession \in [Tabs -> Nat]

\* A pane with tabs shows one of them.
ShowsATab == \A w \in Workspaces : panes[w].tabs # <<>> => panes[w].active # None

AttachTypes ==
    /\ attaches \subseteq Tasks /\ IsFiniteSet(attaches)
    /\ reattached \in Seq(Tasks) /\ recoveries \in Nat

\* The tasks of a tab are told apart, so that each is counted.
TasksDiffer ==
    \A a, b \in attaches : a.tab = b.tab /\ a.nth = b.nth => a = b

\* What is remembered of attaches is about some that are under way.
PendingIsUnderWay ==
    \A tab \in pendingAttach : \E task \in attaches \cup ToSet(reattached) : task.tab = tab
RecoveriesAreUnderWay == recoveries <= Cardinality(attaches) + Len(reattached)

LayoutInv == LayoutTypes /\ ShowsATab
AttachInv == AttachTypes /\ TasksDiffer /\ PendingIsUnderWay /\ RecoveriesAreUnderWay

------------------------------------------------------------------------------
(* Of one number more than there are tasks, one is free.                      *)
LEMMA NumberIsFree ==
  ASSUME AttachTypes, NEW tab
  PROVE  \E n \in 0..Cardinality(attaches) :
             \A task \in attaches : task.tab = tab => task.nth # n
<1> SUFFICES ASSUME \A n \in 0..Cardinality(attaches) :
                        \E task \in attaches : task.tab = tab /\ task.nth = n
             PROVE  FALSE
  OBVIOUS
<1> DEFINE k == Cardinality(attaches)
           owner == [n \in 0..k |-> CHOOSE task \in attaches : task.tab = tab /\ task.nth = n]
<1>1. IsFiniteSet(attaches) /\ k \in Nat
  BY FS_CardinalityType DEF AttachTypes
<1> HIDE DEF k
<1>2. IsFiniteSet(0..k) /\ Cardinality(0..k) = k + 1
  <2>1. \A j \in Nat : IsFiniteSet(0..j) /\ Cardinality(0..j) = j + 1
    BY FS_Interval
  <2> QED BY <1>1, <2>1
<1> USE DEF k
<1>3. \A n \in 0..k : owner[n] \in attaches /\ owner[n].nth = n
  OBVIOUS
<1>4. owner \in [0..k -> attaches]
  BY <1>3
<1>5. Cardinality(attaches) < Cardinality(0..k)
  BY <1>1, <1>2
<1> HIDE DEF owner
<1>6. \E m, n \in 0..k : m # n /\ owner[m] = owner[n]
  BY <1>1, <1>2, <1>4, <1>5, FS_PigeonHole
<1> QED
  BY <1>3, <1>6

(* A new task is one more, for its tab.                                       *)
LEMMA TaskIsNew ==
  ASSUME AttachTypes, NEW tab \in Tabs, NEW session \in Nat, NEW on \in Nat
  PROVE  /\ TaskFor(tab, session, on) \in Tasks
         /\ TaskFor(tab, session, on).tab = tab
         /\ \A task \in attaches :
                task.tab = tab => task.nth # TaskFor(tab, session, on).nth
<1> DEFINE Free(n) == \A task \in attaches : task.tab = tab => task.nth # n
           n0 == CHOOSE n \in 0..Cardinality(attaches) : Free(n)
           new == TaskFor(tab, session, on)
<1>1. Cardinality(attaches) \in Nat
  BY FS_CardinalityType DEF AttachTypes
<1>2. \E n \in 0..Cardinality(attaches) : Free(n)
  BY NumberIsFree
<1>3. new = [tab |-> tab, session |-> session, epoch |-> on, step |-> "queued", nth |-> n0]
  BY DEF TaskFor
<1> HIDE DEF Free, new
<1>4. n0 \in 0..Cardinality(attaches) /\ Free(n0)
  BY <1>2
<1> HIDE DEF n0
<1>5. n0 \in Nat
  BY <1>1, <1>4
<1>6. new.tab = tab /\ new.nth = n0 /\ new \in Tasks
  BY <1>3, <1>5 DEF Tasks
<1> QED
  BY <1>4, <1>6 DEF Free, new

LEMMA StartKeeps ==
  ASSUME AttachInv, NEW tab \in Tabs, NEW session \in Nat, NEW on \in Nat,
         attaches' = attaches \cup {TaskFor(tab, session, on)},
         pendingAttach' = pendingAttach \cup {tab},
         recoveries' \in Nat, recoveries' <= recoveries + 1, reattached' = reattached
  PROVE  AttachInv'
<1> DEFINE new == TaskFor(tab, session, on)
<1>1. AttachTypes
  BY DEF AttachInv
<1>2. /\ new \in Tasks /\ new.tab = tab
      /\ \A task \in attaches : task.tab = tab => task.nth # new.nth
  BY <1>1, TaskIsNew
<1> HIDE DEF new
<1>3. attaches' = attaches \cup {new} /\ new \notin attaches
  BY <1>2 DEF new
<1>4. /\ IsFiniteSet(attaches') /\ Cardinality(attaches') = Cardinality(attaches) + 1
      /\ Cardinality(attaches) \in Nat
  BY <1>1, <1>3, FS_AddElement, FS_CardinalityType DEF AttachTypes
<1>5. AttachTypes'
  BY <1>1, <1>2, <1>3, <1>4 DEF AttachTypes
<1>6. TasksDiffer'
  BY <1>2, <1>3 DEF AttachInv, TasksDiffer
<1>7. PendingIsUnderWay'
  BY <1>2, <1>3 DEF AttachInv, PendingIsUnderWay
<1>8. RecoveriesAreUnderWay'
  <2>1. recoveries \in Nat /\ Len(reattached) \in Nat
    BY <1>1 DEF AttachTypes
  <2> QED
    BY <1>4, <2>1 DEF AttachInv, RecoveriesAreUnderWay
<1> QED
  BY <1>5, <1>6, <1>7, <1>8 DEF AttachInv

LEMMA AttachTabKeeps ==
  ASSUME LayoutInv, AttachInv, NEW tab \in Tabs \cup {None}, AttachTabIfPending(tab)
  PROVE  AttachInv'
<1>1. CASE tab # None /\ WantsAttach(tab)
  <2>1. /\ attaches' = attaches \cup {AttachOf(tab)} /\ recoveries' = recoveries + 1
        /\ pendingAttach' = pendingAttach \cup {tab} /\ reattached' = reattached
    BY <1>1 DEF AttachTabIfPending
  <2>2. tab \in Tabs /\ tabSession[tab] \in Nat /\ epoch \in Nat /\ recoveries \in Nat
    BY <1>1 DEF LayoutInv, LayoutTypes, AttachInv, AttachTypes
  <2>3. recoveries' \in Nat /\ recoveries' <= recoveries + 1
    BY <2>1, <2>2
  <2> QED
    BY <2>1, <2>2, <2>3, StartKeeps DEF AttachOf
<1>2. CASE ~(tab # None /\ WantsAttach(tab))
  BY <1>2 DEF AttachTabIfPending, attachVars, AttachInv, AttachTypes, TasksDiffer,
              PendingIsUnderWay, RecoveriesAreUnderWay
<1> QED
  BY <1>1, <1>2

LEMMA UntouchedKeeps == ASSUME AttachInv, UNCHANGED attachVars PROVE AttachInv'
  BY DEF attachVars, AttachInv, AttachTypes, TasksDiffer, PendingIsUnderWay,
         RecoveriesAreUnderWay

(* The tab a workspace shows, and those it restores, are tabs.                *)
LEMMA RestoredAreTabs == ASSUME LayoutInv PROVE RestorePlan \subseteq Tabs
<1>1. \A w \in Workspaces : TabsOf(w) \subseteq Tabs /\ panes[w].active \in Tabs \cup {None}
  BY DEF LayoutInv, LayoutTypes, Panes, TabsOf, ToSet
<1>2. ASSUME activeWs # None, TabsOf(activeWs) # {} PROVE panes[activeWs].active \in Tabs
  <2>1. activeWs \in Workspaces /\ panes[activeWs].tabs # <<>>
    BY <1>2 DEF LayoutInv, LayoutTypes, TabsOf, ToSet
  <2> QED
    BY <1>1, <2>1 DEF LayoutInv, ShowsATab
<1> QED
  BY <1>1, <1>2 DEF RestorePlan, LayoutInv, LayoutTypes

LEMMA ConnectedKeeps == ASSUME LayoutInv, AttachInv, Connected PROVE AttachInv' /\ epoch' \in Nat
<1>1. epoch \in Nat /\ epoch' = epoch + 1
  BY DEF Connected, LayoutInv, LayoutTypes
<1>2. CASE recoveries > 0 \/ RestorePlan = {}
  BY <1>1, <1>2, UntouchedKeeps DEF Connected
<1>3. CASE ~(recoveries > 0 \/ RestorePlan = {})
  <2>1. PICK tab \in RestorePlan :
            /\ attaches' = attaches \cup {TaskFor(tab, tabSession[tab], epoch + 1)}
            /\ pendingAttach' = pendingAttach \cup {tab} /\ recoveries' = 1
            /\ reattached' = reattached
    BY <1>3 DEF Connected
  <2>2. tab \in Tabs /\ tabSession[tab] \in Nat /\ epoch + 1 \in Nat
    BY <1>1, RestoredAreTabs DEF LayoutInv, LayoutTypes
  <2>3. recoveries' \in Nat /\ recoveries' <= recoveries + 1
    BY <2>1 DEF AttachInv, AttachTypes
  <2>4. AttachInv'
    BY <2>1, <2>2, <2>3, StartKeeps
  <2> QED
    BY <1>1, <2>4
<1> QED
  BY <1>2, <1>3

(* An attach that ends, on either path, is forgotten by both books.            *)
LEMMA EndKeeps ==
  ASSUME AttachInv, NEW tab, DoneWith(tab), AttachTypes', TasksDiffer',
         Cardinality(attaches') + Len(reattached') + 1 = Cardinality(attaches) + Len(reattached),
         \A task \in attaches \cup ToSet(reattached) :
             task.tab # tab => task \in attaches' \cup ToSet(reattached')
  PROVE  AttachInv'
<1>1. /\ pendingAttach' = pendingAttach \ {tab}
      /\ recoveries' = IF recoveries = 0 THEN 0 ELSE recoveries - 1
  BY DEF DoneWith
<1>2. PendingIsUnderWay'
  BY <1>1 DEF AttachInv, PendingIsUnderWay
<1>3. RecoveriesAreUnderWay'
  <2> DEFINE sum == Cardinality(attaches) + Len(reattached)
             left == Cardinality(attaches') + Len(reattached')
  <2>1. recoveries \in Nat /\ recoveries <= sum
    BY DEF AttachInv, AttachTypes, RecoveriesAreUnderWay
  <2>2. left \in Nat /\ left + 1 = sum
    BY FS_CardinalityType DEF AttachTypes
  <2> HIDE DEF sum, left
  <2>3. recoveries' <= left
    BY <1>1, <2>1, <2>2
  <2> QED
    BY <2>3 DEF RecoveriesAreUnderWay, left
<1> QED
  BY <1>2, <1>3 DEF AttachInv

LEMMA AnswersKeep ==
  ASSUME AttachInv, NEW task \in attaches, Served(task) \/ Answered(task) \/ AttachFails(task)
  PROVE  AttachInv'
<1>1. /\ AttachTypes /\ TasksDiffer /\ task \in Tasks /\ IsFiniteSet(attaches)
      /\ reattached \in Seq(Tasks) /\ Len(reattached) \in Nat /\ recoveries \in Nat
  BY DEF AttachInv, AttachTypes
<1> DEFINE rest == attaches \ {task}
<1>2. /\ IsFiniteSet(rest) /\ Cardinality(rest) = Cardinality(attaches) - 1
      /\ Cardinality(attaches) \in Nat /\ Cardinality(rest) \in Nat
  BY <1>1, FS_RemoveElement, FS_CardinalityType
<1>3. CASE Served(task)
  <2> DEFINE new == [task EXCEPT !.step = "answered"]
  <2>1. /\ attaches' = rest \cup {new}
        /\ UNCHANGED <<reattached, pendingAttach, recoveries>>
    BY <1>3 DEF Served
  <2>2. new \in Tasks /\ new.tab = task.tab /\ new.nth = task.nth
    BY <1>1 DEF Tasks
  <2> HIDE DEF new
  <2>3. new \notin rest
    BY <1>1, <2>2 DEF TasksDiffer
  <2>4. IsFiniteSet(attaches') /\ Cardinality(attaches') = Cardinality(attaches)
    BY <1>2, <2>1, <2>3, FS_AddElement
  <2>5. AttachTypes'
    BY <1>1, <2>1, <2>2, <2>4 DEF AttachTypes
  <2>6. TasksDiffer'
    BY <1>1, <2>1, <2>2 DEF TasksDiffer
  <2>7. PendingIsUnderWay'
    <3> SUFFICES ASSUME NEW tab \in pendingAttach
                 PROVE  \E other \in attaches' \cup ToSet(reattached) : other.tab = tab
      BY <2>1 DEF PendingIsUnderWay
    <3>1. PICK other \in attaches \cup ToSet(reattached) : other.tab = tab
      BY DEF AttachInv, PendingIsUnderWay
    <3> QED
      BY <2>1, <2>2, <3>1
  <2>8. RecoveriesAreUnderWay'
    BY <2>1, <2>4 DEF AttachInv, RecoveriesAreUnderWay
  <2> QED
    BY <2>5, <2>6, <2>7, <2>8 DEF AttachInv
<1>4. CASE Answered(task)
  <2>1. /\ attaches' = rest /\ reattached' = Append(reattached, task)
        /\ UNCHANGED <<pendingAttach, recoveries>>
    BY <1>4 DEF Answered
  <2>2. /\ reattached' \in Seq(Tasks) /\ Len(reattached') = Len(reattached) + 1
        /\ ToSet(reattached') = ToSet(reattached) \cup {task}
    <3>1. /\ reattached' \in Seq(Tasks) /\ Len(reattached') = Len(reattached) + 1
          /\ \A i \in 1..Len(reattached) : reattached'[i] = reattached[i]
          /\ reattached'[Len(reattached) + 1] = task
      BY <1>1, <2>1
    <3>2. DOMAIN reattached = 1..Len(reattached) /\ DOMAIN reattached' = 1..(Len(reattached) + 1)
      BY <1>1, <3>1
    <3>3. 1..(Len(reattached) + 1) = 1..Len(reattached) \cup {Len(reattached) + 1}
      BY <1>1
    <3> QED
      BY <3>1, <3>2, <3>3 DEF ToSet
  <2>3. AttachTypes'
    BY <1>1, <1>2, <2>1, <2>2 DEF AttachTypes
  <2>4. TasksDiffer'
    BY <1>1, <2>1 DEF TasksDiffer
  <2>5. PendingIsUnderWay'
    BY <2>1, <2>2 DEF AttachInv, PendingIsUnderWay
  <2>6. RecoveriesAreUnderWay'
    <3>1. Cardinality(rest) + Len(reattached') = Cardinality(attaches) + Len(reattached)
      BY <1>1, <1>2, <2>2
    <3> QED
      BY <2>1, <3>1 DEF AttachInv, RecoveriesAreUnderWay
  <2> QED
    BY <2>3, <2>4, <2>5, <2>6 DEF AttachInv
<1>5. CASE AttachFails(task)
  <2>1. attaches' = rest /\ reattached' = reattached /\ DoneWith(task.tab)
    BY <1>5 DEF AttachFails
  <2>2. recoveries' \in Nat
    BY <1>1, <2>1 DEF DoneWith
  <2>3. AttachTypes' /\ TasksDiffer'
    BY <1>1, <1>2, <2>1, <2>2 DEF AttachTypes, TasksDiffer
  <2>4. Cardinality(attaches') + Len(reattached') + 1 = Cardinality(attaches) + Len(reattached)
    BY <1>1, <1>2, <2>1
  <2>5. \A other \in attaches \cup ToSet(reattached) :
            other.tab # task.tab => other \in attaches' \cup ToSet(reattached')
    BY <2>1
  <2> QED
    BY <2>1, <2>3, <2>4, <2>5, EndKeeps
<1> QED
  BY <1>3, <1>4, <1>5

LEMMA HandleKeeps == ASSUME AttachInv, ProcessHandle PROVE AttachInv'
<1> DEFINE handle == Head(reattached)
<1>1. /\ AttachTypes /\ TasksDiffer /\ reattached \in Seq(Tasks) /\ recoveries \in Nat
      /\ IsFiniteSet(attaches) /\ Cardinality(attaches) \in Nat
  BY FS_CardinalityType DEF AttachInv, AttachTypes
<1>2. /\ reattached # <<>> /\ reattached' = Tail(reattached) /\ attaches' = attaches
      /\ DoneWith(handle.tab)
  BY DEF ProcessHandle
<1>3. /\ reattached' \in Seq(Tasks) /\ Len(reattached') \in Nat
      /\ Len(reattached) = Len(reattached') + 1
  BY <1>1, <1>2
<1>4. ToSet(reattached) \subseteq ToSet(reattached') \cup {handle}
  <2>1. \A i \in 1..Len(reattached) : i = 1 \/ i - 1 \in 1..Len(reattached')
    BY <1>3
  <2>2. \A i \in 1..Len(reattached') : reattached'[i] = reattached[i + 1]
    BY <1>1, <1>2
  <2>3. \A i \in 1..Len(reattached) : i # 1 => reattached[i] = reattached'[i - 1]
    BY <2>1, <2>2
  <2>4. DOMAIN reattached = 1..Len(reattached) /\ DOMAIN reattached' = 1..Len(reattached')
    BY <1>1, <1>3
  <2> SUFFICES ASSUME NEW i \in 1..Len(reattached)
               PROVE  reattached[i] \in ToSet(reattached') \cup {handle}
    BY <2>4 DEF ToSet
  <2>5. CASE i = 1
    BY <1>1, <1>2, <2>5
  <2>6. CASE i # 1
    <3>1. i - 1 \in DOMAIN reattached' /\ reattached[i] = reattached'[i - 1]
      BY <2>1, <2>3, <2>4, <2>6
    <3> QED
      BY <3>1 DEF ToSet
  <2> QED
    BY <2>5, <2>6
<1>5. recoveries' \in Nat
  BY <1>1, <1>2 DEF DoneWith
<1>6. AttachTypes' /\ TasksDiffer'
  BY <1>1, <1>2, <1>3, <1>5 DEF AttachTypes, TasksDiffer
<1>7. Cardinality(attaches') + Len(reattached') + 1 = Cardinality(attaches) + Len(reattached)
  BY <1>1, <1>2, <1>3
<1>8. \A task \in attaches \cup ToSet(reattached) :
          task.tab # handle.tab => task \in attaches' \cup ToSet(reattached')
  BY <1>2, <1>4
<1> QED
  BY <1>2, <1>6, <1>7, <1>8, EndKeeps

(* The books are cleared while the tasks of the lost connection are still on   *)
(* their way: they end like any other.                                         *)
LEMMA MarkKeeps == ASSUME AttachInv, MarkDaemonTerminalsPending PROVE AttachInv'
<1>1. /\ reattached' = <<>> /\ pendingAttach' = {} /\ recoveries' = 0 /\ attaches' = attaches
      /\ Cardinality(attaches) \in Nat
  BY FS_CardinalityType DEF MarkDaemonTerminalsPending, AttachInv, AttachTypes
<1>2. Len(<<>>) = 0 /\ <<>> \in Seq(Tasks)
  OBVIOUS
<1>3. AttachTypes' /\ TasksDiffer'
  BY <1>1, <1>2 DEF AttachInv, AttachTypes, TasksDiffer
<1> QED
  BY <1>1, <1>2, <1>3 DEF AttachInv, PendingIsUnderWay, RecoveriesAreUnderWay

------------------------------------------------------------------------------
(* What a pane shows after a tab was closed: a neighbour, or nothing.         *)
LEMMA NeighbourIsShown ==
  ASSUME NEW pane \in Panes, NEW tab \in ToSet(pane.tabs)
  PROVE  /\ WithoutTab(pane, tab) \in Panes
         /\ WithoutTab(pane, tab).tabs # <<>> => WithoutTab(pane, tab).active \in Tabs
<1> DEFINE tabs == pane.tabs
           n == Len(tabs)
           p == Position(tab, tabs)
           rest == RemoveAt(tabs, p)
           shown == IF p > Len(rest) THEN Len(rest) ELSE p
<1>1. tabs \in Seq(Tabs) /\ n \in Nat
  BY DEF Panes
<1>2. p \in 1..n
  <2>1. \E i \in 1..n : tabs[i] = tab
    BY <1>1 DEF ToSet
  <2> QED
    BY <2>1 DEF Position
<1>3. WithoutTab(pane, tab) = [tabs |-> rest, active |-> IF rest = <<>> THEN None ELSE rest[shown]]
  BY DEF WithoutTab
<1> HIDE DEF tabs, p, n
<1>4. rest \in Seq(Tabs) /\ Len(rest) \in Nat
  <2>1. SubSeq(tabs, 1, p - 1) \in Seq(Tabs) /\ SubSeq(tabs, p + 1, Len(tabs)) \in Seq(Tabs)
    <3>1. \A i \in 1..(p - 1) : i \in 1..Len(tabs)
      BY <1>1, <1>2 DEF n
    <3>2. \A i \in (p + 1)..Len(tabs) : i \in 1..Len(tabs)
      BY <1>1, <1>2 DEF n
    <3> QED
      BY <1>1, <1>2, <3>1, <3>2, SubSeqProperties DEF n
  <2> QED
    BY <2>1 DEF RemoveAt
<1> HIDE DEF rest
<1>5. ASSUME rest # <<>> PROVE rest[shown] \in Tabs
  <2>1. Len(rest) \in 1..Len(rest)
    BY <1>4, <1>5
  <2>2. shown \in 1..Len(rest)
    BY <1>1, <1>2, <2>1 DEF n
  <2> QED
    BY <1>4, <2>2
<1> QED
  BY <1>3, <1>4, <1>5 DEF Panes

LEMMA ShownWithTab ==
  ASSUME NEW pane \in Panes, NEW tab \in Tabs
  PROVE  WithTab(pane, tab) \in Panes /\ WithTab(pane, tab).active \in Tabs
  BY DEF WithTab, Panes

(* A pane that is replaced, by one that shows a tab if it has some.           *)
LEMMA PaneKeeps ==
  ASSUME LayoutInv, NEW w \in Workspaces, NEW pane \in Panes,
         pane.tabs # <<>> => pane.active \in Tabs,
         panes' = [panes EXCEPT ![w] = pane]
  PROVE  panes' \in [Workspaces -> Panes] /\ ShowsATab'
<1>1. None \notin Tabs
  BY TabsAssumption
<1> QED
  BY <1>1 DEF LayoutInv, LayoutTypes, ShowsATab

LEMMA CreatedSession ==
  ASSUME LayoutInv, NEW tab \in Tabs, CreateTerminal(tab)
  PROVE  tabSession' \in [Tabs -> Nat] /\ lastSession' \in Nat
<1>1. /\ lastSession' = lastSession + 1 /\ lastSession \in Nat
      /\ tabSession' = [tabSession EXCEPT ![tab] = lastSession + 1]
      /\ tabSession \in [Tabs -> Nat]
  BY DEF CreateTerminal, LayoutInv, LayoutTypes
<1>2. lastSession + 1 \in Nat
  BY <1>1
<1> QED
  BY <1>1, <1>2

LEMMA UserMovesKeep ==
  ASSUME LayoutInv, AttachInv,
         \/ NewTerminalTab \/ ReopenClosedTab
         \/ \E tab \in Tabs : Activate(tab) \/ CloseItem(tab)
         \/ \E w \in Workspaces : ShowWorkspace(w) \/ DeleteWorkspace(w)
  PROVE  LayoutInv' /\ AttachInv'
<1>1. /\ epoch \in Nat /\ lastSession \in Nat
      /\ workspaces \subseteq Workspaces /\ activeWs \in Workspaces \cup {None}
      /\ panes \in [Workspaces -> Panes] /\ closedTabs \in [Workspaces -> Seq(Tabs)]
      /\ tabSession \in [Tabs -> Nat] /\ ShowsATab /\ LayoutTypes
  BY DEF LayoutInv, LayoutTypes
<1>2. None \notin Tabs /\ None \notin Workspaces
  BY TabsAssumption
<1>3. CASE NewTerminalTab
  <2>1. PICK tab \in FreshTabs :
            CreateTerminal(tab) /\ panes' = [panes EXCEPT ![activeWs] = WithTab(@, tab)]
    BY <1>3 DEF NewTerminalTab
  <2>2. /\ tab \in Tabs /\ activeWs \in Workspaces /\ panes[activeWs] \in Panes
        /\ UNCHANGED <<epoch, workspaces, activeWs, closedTabs>> /\ UNCHANGED attachVars
    BY <1>1, <1>3 DEF NewTerminalTab, FreshTabs, linkVars
  <2>3. panes' \in [Workspaces -> Panes] /\ ShowsATab'
    BY <1>1, <2>1, <2>2, ShownWithTab, PaneKeeps
  <2>4. tabSession' \in [Tabs -> Nat] /\ lastSession' \in Nat
    BY <2>1, <2>2, CreatedSession
  <2> QED
    BY <1>1, <2>2, <2>3, <2>4, UntouchedKeeps DEF LayoutInv, LayoutTypes
<1>4. CASE ReopenClosedTab
  <2> DEFINE closed == closedTabs[activeWs]
  <2>1. /\ activeWs \in Workspaces /\ closed # <<>> /\ CreateTerminal(Last(closed))
        /\ panes' = [panes EXCEPT ![activeWs] = WithTab(@, Last(closed))]
        /\ closedTabs' = [closedTabs EXCEPT ![activeWs] = Front(closed)]
        /\ UNCHANGED <<epoch, workspaces, activeWs>> /\ UNCHANGED attachVars
    BY <1>1, <1>4 DEF ReopenClosedTab, linkVars
  <2>2. closed \in Seq(Tabs) /\ panes[activeWs] \in Panes
    BY <1>1, <2>1
  <2>3. Last(closed) \in Tabs /\ Front(closed) \in Seq(Tabs)
    <3> HIDE DEF closed
    <3>1. Len(closed) \in 1..Len(closed)
      BY <2>1, <2>2
    <3>2. Last(closed) \in Tabs
      BY <2>2, <3>1 DEF Last
    <3>3. Front(closed) \in Seq(Tabs)
      BY <2>2, <3>1, SubSeqProperties DEF Front
    <3> QED
      BY <3>2, <3>3
  <2>4. panes' \in [Workspaces -> Panes] /\ ShowsATab'
    BY <2>1, <2>2, <2>3, ShownWithTab, PaneKeeps
  <2>5. tabSession' \in [Tabs -> Nat] /\ lastSession' \in Nat
    BY <2>1, <2>3, CreatedSession
  <2>6. closedTabs' \in [Workspaces -> Seq(Tabs)]
    BY <1>1, <2>1, <2>3
  <2> QED
    BY <1>1, <2>1, <2>4, <2>5, <2>6, UntouchedKeeps DEF LayoutInv, LayoutTypes
<1>5. ASSUME NEW tab \in Tabs, Activate(tab) PROVE LayoutInv' /\ AttachInv'
  <2>1. /\ activeWs \in Workspaces /\ panes' = [panes EXCEPT ![activeWs].active = tab]
        /\ AttachTabIfPending(tab) /\ panes[activeWs] \in Panes
        /\ UNCHANGED <<epoch, workspaces, activeWs, tabSession, lastSession, closedTabs>>
    BY <1>1, <1>5 DEF Activate, linkVars
  <2>2. AttachInv'
    BY <2>1, AttachTabKeeps
  <2>3. /\ [panes[activeWs] EXCEPT !.active = tab] \in Panes
        /\ [panes[activeWs] EXCEPT !.active = tab].active = tab
    BY <2>1 DEF Panes
  <2>4. panes' \in [Workspaces -> Panes] /\ ShowsATab'
    BY <2>1, <2>3, PaneKeeps
  <2> QED
    BY <1>1, <2>1, <2>2, <2>4 DEF LayoutInv, LayoutTypes
<1>6. ASSUME NEW tab \in Tabs, CloseItem(tab) PROVE LayoutInv' /\ AttachInv'
  <2>1. /\ activeWs \in Workspaces /\ tab \in ToSet(panes[activeWs].tabs)
        /\ panes' = [panes EXCEPT ![activeWs] = WithoutTab(@, tab)]
        /\ panes[activeWs] \in Panes
        /\ pendingAttach' = pendingAttach \ {tab}
        /\ tabSession' = [tabSession EXCEPT ![tab] = 0]
        /\ closedTabs' = [closedTabs EXCEPT ![activeWs] = Append(@, tab)]
        /\ UNCHANGED <<epoch, workspaces, activeWs, lastSession, attaches, reattached, recoveries>>
    BY <1>1, <1>6 DEF CloseItem, TabsOf, linkVars
  <2>2. AttachInv'
    BY <2>1 DEF AttachInv, AttachTypes, TasksDiffer, PendingIsUnderWay, RecoveriesAreUnderWay
  <2>3. panes' \in [Workspaces -> Panes] /\ ShowsATab'
    BY <2>1, NeighbourIsShown, PaneKeeps
  <2>4. tabSession' \in [Tabs -> Nat] /\ closedTabs' \in [Workspaces -> Seq(Tabs)]
    <3>1. Append(closedTabs[activeWs], tab) \in Seq(Tabs)
      BY <1>1, <2>1
    <3> QED
      BY <1>1, <2>1, <3>1
  <2> QED
    BY <1>1, <2>1, <2>2, <2>3, <2>4 DEF LayoutInv, LayoutTypes
<1>7. ASSUME NEW w \in Workspaces, ShowWorkspace(w) PROVE LayoutInv' /\ AttachInv'
  <2>1. activeWs' = w /\ UNCHANGED <<epoch, workspaces, closedTabs>> /\ panes[w] \in Panes
    BY <1>1, <1>7 DEF ShowWorkspace, linkVars
  <2>2. CASE panes[w].tabs = <<>>
    <3>1. PICK tab \in FreshTabs :
              /\ CreateTerminal(tab)
              /\ panes' = [panes EXCEPT ![w] = WithTab(@, tab)]
              /\ \/ /\ attaches' = attaches \cup {TaskFor(tab, tabSession'[tab], epoch)}
                    /\ pendingAttach' = pendingAttach \cup {tab}
                    /\ recoveries' = recoveries + 1 /\ reattached' = reattached
                 \/ UNCHANGED attachVars
      BY <1>7, <2>2 DEF ShowWorkspace
    <3>2. tab \in Tabs
      BY DEF FreshTabs
    <3>3. panes' \in [Workspaces -> Panes] /\ ShowsATab'
      BY <2>1, <3>1, <3>2, ShownWithTab, PaneKeeps
    <3>4. tabSession' \in [Tabs -> Nat] /\ lastSession' \in Nat
      BY <3>1, <3>2, CreatedSession
    <3>5. AttachInv'
      <4>1. CASE UNCHANGED attachVars
        BY <4>1, UntouchedKeeps
      <4>2. CASE /\ attaches' = attaches \cup {TaskFor(tab, tabSession'[tab], epoch)}
                 /\ pendingAttach' = pendingAttach \cup {tab}
                 /\ recoveries' = recoveries + 1 /\ reattached' = reattached
        <5>1. tabSession'[tab] \in Nat
          BY <3>2, <3>4
        <5>2. recoveries' \in Nat /\ recoveries' <= recoveries + 1
          BY <4>2 DEF AttachInv, AttachTypes
        <5> QED
          BY <1>1, <3>2, <4>2, <5>1, <5>2, StartKeeps
      <4> QED
        BY <3>1, <4>1, <4>2
    <3> QED
      BY <1>1, <2>1, <3>3, <3>4, <3>5 DEF LayoutInv, LayoutTypes
  <2>3. CASE panes[w].tabs # <<>>
    <3>1. /\ AttachTabIfPending(panes[w].active)
          /\ UNCHANGED <<panes, tabSession, lastSession>>
      BY <1>7, <2>3 DEF ShowWorkspace
    <3>2. panes[w].active \in Tabs \cup {None}
      BY <2>1 DEF Panes
    <3>3. AttachInv'
      BY <3>1, <3>2, AttachTabKeeps
    <3> QED
      BY <1>1, <2>1, <3>1, <3>3 DEF LayoutInv, LayoutTypes, ShowsATab
  <2> QED
    BY <2>2, <2>3
<1>8. ASSUME NEW w \in Workspaces, DeleteWorkspace(w) PROVE LayoutInv' /\ AttachInv'
  <2>1. /\ workspaces' = workspaces \ {w} /\ activeWs' = (IF activeWs = w THEN None ELSE activeWs)
        /\ tabSession' = [t \in Tabs |-> IF t \in TabsOf(w) THEN 0 ELSE tabSession[t]]
        /\ panes' = [panes EXCEPT ![w] = EmptyPane]
        /\ closedTabs' = [closedTabs EXCEPT ![w] = <<>>]
        /\ UNCHANGED <<epoch, lastSession>> /\ UNCHANGED attachVars
    BY <1>8 DEF DeleteWorkspace, linkVars
  <2>2. EmptyPane \in Panes /\ EmptyPane.tabs = <<>>
    BY DEF EmptyPane, Panes
  <2>3. panes' \in [Workspaces -> Panes] /\ ShowsATab'
    BY <2>1, <2>2, PaneKeeps
  <2>4. tabSession' \in [Tabs -> Nat] /\ closedTabs' \in [Workspaces -> Seq(Tabs)]
    BY <1>1, <2>1
  <2>5. workspaces' \subseteq Workspaces /\ activeWs' \in Workspaces \cup {None}
    BY <1>1, <2>1
  <2> QED
    BY <1>1, <2>1, <2>3, <2>4, <2>5, UntouchedKeeps DEF LayoutInv, LayoutTypes
<1> QED
  BY <1>3, <1>4, <1>5, <1>6, <1>7, <1>8

LEMMA TabsInvInit == TabsInit => LayoutInv /\ AttachInv
<1> SUFFICES ASSUME TabsInit PROVE LayoutInv /\ AttachInv
  OBVIOUS
<1>1. Saved \in [Workspaces -> Seq(Tabs)] /\ IsFiniteSet(Tabs) /\ None \notin Tabs
  BY TabsAssumption
<1>2. \A w \in Workspaces : ToSet(Saved[w]) \subseteq Tabs
  BY <1>1 DEF ToSet
<1>3. lastSession \in Nat
  <2>1. SavedTabs \subseteq Tabs
    BY <1>2 DEF SavedTabs
  <2> QED
    BY <1>1, <2>1, FS_Subset, FS_CardinalityType DEF TabsInit
<1>4. panes \in [Workspaces -> Panes] /\ ShowsATab
  <2>1. \A w \in Workspaces : panes[w] \in Panes /\ (panes[w].tabs # <<>> => panes[w].active # None)
    BY <1>1, <1>2 DEF TabsInit, Panes
  <2>2. panes \in [Workspaces -> [tabs : {Saved[w] : w \in Workspaces}, active : Tabs \cup {None}]]
    BY DEF TabsInit
  <2> QED
    BY <2>1, <2>2 DEF ShowsATab
<1>5. tabSession \in [Tabs -> Nat]
  BY <1>3 DEF TabsInit
<1>6. LayoutInv
  BY <1>3, <1>4, <1>5 DEF TabsInit, LayoutInv, LayoutTypes
<1>7. /\ attaches = {} /\ reattached = <<>> /\ pendingAttach = {} /\ recoveries = 0
      /\ IsFiniteSet({}) /\ Cardinality({}) = 0 /\ Len(<<>>) = 0 /\ <<>> \in Seq(Tasks)
  BY FS_EmptySet DEF TabsInit
<1>8. AttachInv
  BY <1>7 DEF AttachInv, AttachTypes, TasksDiffer, PendingIsUnderWay, RecoveriesAreUnderWay
<1> QED
  BY <1>6, <1>8

LEMMA TabsNextKeeps ==
  LayoutInv /\ AttachInv /\ [TabsNext]_tabVars => LayoutInv' /\ AttachInv'
<1> SUFFICES ASSUME LayoutInv, AttachInv, [TabsNext]_tabVars PROVE LayoutInv' /\ AttachInv'
  OBVIOUS
<1>1. ASSUME UNCHANGED layoutVars, UNCHANGED <<closedTabs, lastSession, tabSession>>, epoch' \in Nat
      PROVE  LayoutInv'
  BY <1>1 DEF LayoutInv, LayoutTypes, ShowsATab, layoutVars
<1>2. epoch \in Nat
  BY DEF LayoutInv, LayoutTypes
<1>3. CASE Connect \/ Reconnect
  BY <1>1, <1>3, ConnectedKeeps DEF Connect, Reconnect
<1>4. CASE Breaks
  BY <1>1, <1>2, <1>4, UntouchedKeeps DEF Breaks
<1>5. CASE MarkDaemonTerminalsPending
  BY <1>1, <1>2, <1>5, MarkKeeps DEF MarkDaemonTerminalsPending
<1>6. ASSUME NEW task \in attaches, Served(task) \/ Answered(task) \/ AttachFails(task)
      PROVE  LayoutInv' /\ AttachInv'
  <2>1. UNCHANGED layoutVars /\ UNCHANGED <<closedTabs, lastSession, tabSession, epoch>>
    BY <1>6 DEF Served, Answered, AttachFails, linkVars
  <2> QED
    BY <1>1, <1>2, <1>6, <2>1, AnswersKeep
<1>7. CASE ProcessHandle
  <2>1. UNCHANGED layoutVars /\ UNCHANGED <<closedTabs, lastSession, tabSession, epoch>>
    BY <1>7 DEF ProcessHandle, linkVars
  <2> QED
    BY <1>1, <1>2, <1>7, <2>1, HandleKeeps
<1>8. CASE \/ NewTerminalTab \/ ReopenClosedTab
           \/ \E tab \in Tabs : Activate(tab) \/ CloseItem(tab)
           \/ \E w \in Workspaces : ShowWorkspace(w) \/ DeleteWorkspace(w)
  BY <1>8, UserMovesKeep
<1>9. CASE UNCHANGED tabVars
  BY <1>1, <1>2, <1>9, UntouchedKeeps DEF tabVars, layoutVars, attachVars
<1> QED
  BY <1>3, <1>4, <1>5, <1>6, <1>7, <1>8, <1>9 DEF TabsNext

(* Whatever tabs, workspaces and connections do meanwhile, no attach is        *)
(* remembered once it is over (pending_attach_tabs, pending_recoveries).       *)
THEOREM AttachesAreForgotten == TabsSpec => []NoLeftoverAttach
<1>1. LayoutInv /\ AttachInv => NoLeftoverAttach
  <2> SUFFICES ASSUME AttachInv, AttachesAreOver PROVE pendingAttach = {} /\ recoveries = 0
    BY DEF NoLeftoverAttach
  <2>1. attaches = {} /\ ToSet(reattached) = {} /\ Len(reattached) = 0 /\ Cardinality({}) = 0
    BY FS_EmptySet DEF AttachesAreOver, ToSet
  <2> QED
    BY <2>1 DEF AttachInv, AttachTypes, PendingIsUnderWay, RecoveriesAreUnderWay
<1> QED
  BY TabsInvInit, TabsNextKeeps, <1>1, PTL DEF TabsSpec

------------------------------------------------------------------------------
(* The text field: the bytes of a text, its boundaries and its lines.         *)
LEMMA HasLeast ==
    ASSUME NEW T \in SUBSET Nat, T # {}
    PROVE  \E m \in T : \A n \in T : ~(n < m)
<1>1. PICK m \in T : \A n \in T : ~(<<n, m>> \in OpToRel(<, Nat))
  BY NatLessThanWellFounded, WFMin
<1> QED BY <1>1 DEF OpToRel

LEMMA Widths == \A c \in Nat : Width(c) \in Nat /\ Width(c) > 0
  BY DEF Width, LF

(* The bytes before each character of a text.                                *)
Sums(f, t) ==
    /\ f[0] = 0
    /\ \A n \in 0..Len(t) : f[n] \in Nat
    /\ \A n \in 1..Len(t) : f[n] = f[n - 1] + Width(t[n])

LEMMA Measures ==
    ASSUME NEW t \in Seq(Nat)
    PROVE  \E f : Sums(f, t) /\ Bytes(t) = f[Len(t)]
<1> DEFINE Step(g, i) == IF i = 0 THEN 0 ELSE g[i - 1] + Width(t[i])
<1> DEFINE Run(g, m) == g = [i \in 0..m |-> Step(g, i)]
<1>1. Len(t) \in Nat
  OBVIOUS
<1>2. \E g : Run(g, Len(t))
  <2> DEFINE T == {m \in Nat : ~\E g : Run(g, m)}
  <2> SUFFICES ASSUME T # {} PROVE FALSE
    BY <1>1
  <2>1. PICK m \in T : \A i \in T : ~(i < m)
    <3>1. T \subseteq Nat
      OBVIOUS
    <3> HIDE DEF T
    <3> QED BY <3>1, HasLeast
  <2>2. CASE m = 0
    <3> DEFINE g == [i \in 0..0 |-> 0]
    <3>1. \A i \in 0..0 : i = 0
      OBVIOUS
    <3>2. g = [i \in 0..0 |-> Step(g, i)]
      BY <3>1
    <3> QED BY <2>2, <3>2
  <2>3. CASE m # 0
    <3>1. m \in Nat /\ m - 1 \in Nat /\ m - 1 < m /\ (m - 1) + 1 = m
      BY <2>3
    <3>2. PICK g : Run(g, m - 1)
      BY <2>1, <3>1
    <3> DEFINE h == [i \in 0..m |-> IF i = m THEN g[m - 1] + Width(t[m]) ELSE g[i]]
    <3>3. \A i \in 0..m : h[i] = Step(h, i)
      <4> SUFFICES ASSUME NEW i \in 0..m PROVE h[i] = Step(h, i)
        OBVIOUS
      <4>1. CASE i = m
        <5>1. h[m - 1] = g[m - 1] /\ m # 0 /\ h[m] = g[m - 1] + Width(t[m])
          BY <3>1, <2>3
        <5> QED BY <4>1, <5>1
      <4>2. CASE i # m
        <5>1. i \in 0..(m - 1) /\ h[i] = g[i]
          BY <4>2, <3>1
        <5>2. g[i] = Step(g, i)
          BY <3>2, <5>1
        <5>3. i # 0 => h[i - 1] = g[i - 1]
          BY <4>2, <3>1
        <5> QED BY <5>1, <5>2, <5>3
      <4> QED BY <4>1, <4>2
    <3>4. h = [i \in 0..m |-> Step(h, i)]
      <4> DEFINE r == [i \in 0..m |-> Step(h, i)]
      <4>1. \A i \in 0..m : h[i] = r[i]
        BY <3>3
      <4> QED BY <4>1
    <3> QED BY <3>4
  <2> QED BY <2>2, <2>3
<1> DEFINE f == CHOOSE g : Run(g, Len(t))
<1>3. Run(f, Len(t))
  <2> HIDE DEF Run
  <2> QED BY <1>2
<1>4. Bytes(t) = f[Len(t)]
  BY DEF Bytes
<1> HIDE DEF f
<1>5. \A i \in 0..Len(t) : f[i] = Step(f, i)
  BY <1>3
<1>6. f[0] = 0
  BY <1>1, <1>5
<1>7. \A n \in 1..Len(t) : f[n] = f[n - 1] + Width(t[n])
  <2> SUFFICES ASSUME NEW n \in 1..Len(t) PROVE f[n] = f[n - 1] + Width(t[n])
    OBVIOUS
  <2>1. n \in 0..Len(t) /\ n # 0
    BY <1>1
  <2> QED BY <1>5, <2>1
<1>8. \A n \in 0..Len(t) : f[n] \in Nat
  <2> DEFINE T == {n \in 0..Len(t) : f[n] \notin Nat}
  <2> SUFFICES ASSUME T # {} PROVE FALSE
    OBVIOUS
  <2>1. PICK m \in T : \A i \in T : ~(i < m)
    <3>1. T \subseteq Nat
      BY <1>1
    <3> HIDE DEF T
    <3> QED BY <3>1, HasLeast
  <2>2. m \in 0..Len(t) /\ f[m] \notin Nat
    OBVIOUS
  <2>3. m # 0
    BY <1>6, <2>2
  <2>4. m - 1 \in 0..Len(t) /\ m - 1 < m /\ m \in 1..Len(t)
    BY <1>1, <2>2, <2>3
  <2>5. f[m - 1] \in Nat
    BY <2>1, <2>4
  <2>6. t[m] \in Nat
    BY <2>4
  <2>7. Width(t[m]) \in Nat
    BY <2>6, Widths
  <2>8. f[m] = f[m - 1] + Width(t[m])
    BY <1>7, <2>4
  <2> QED BY <2>2, <2>5, <2>7, <2>8
<1>9. Sums(f, t)
  BY <1>6, <1>7, <1>8 DEF Sums
<1> QED BY <1>4, <1>9

(* They are the only such numbers.                                           *)
LEMMA SumsAre ==
    ASSUME NEW t \in Seq(Nat), NEW f, Sums(f, t)
    PROVE  Bytes(t) = f[Len(t)] /\ Bytes(t) \in Nat
<1>1. PICK g : Sums(g, t) /\ Bytes(t) = g[Len(t)]
  BY Measures
<1>2. Len(t) \in Nat
  OBVIOUS
<1>3. \A n \in 0..Len(t) : f[n] = g[n]
  <2> DEFINE T == {n \in 0..Len(t) : f[n] # g[n]}
  <2> SUFFICES ASSUME T # {} PROVE FALSE
    OBVIOUS
  <2>1. PICK m \in T : \A i \in T : ~(i < m)
    <3>1. T \subseteq Nat
      BY <1>2
    <3> HIDE DEF T
    <3> QED BY <3>1, HasLeast
  <2>2. m \in 0..Len(t) /\ f[m] # g[m]
    OBVIOUS
  <2>3. m # 0
    BY <1>1, <2>2 DEF Sums
  <2>4. m - 1 \in 0..Len(t) /\ m - 1 < m /\ m \in 1..Len(t)
    BY <1>2, <2>2, <2>3
  <2>5. f[m - 1] = g[m - 1]
    BY <2>1, <2>4
  <2>6. f[m] = f[m - 1] + Width(t[m]) /\ g[m] = g[m - 1] + Width(t[m])
    BY <1>1, <2>4 DEF Sums
  <2> QED BY <2>2, <2>5, <2>6
<1>4. Len(t) \in 0..Len(t)
  BY <1>2
<1> QED BY <1>1, <1>3, <1>4 DEF Sums

LEMMA NoBytes == Bytes(<<>>) = 0
<1> DEFINE f == [n \in 0..0 |-> 0]
<1>1. <<>> \in Seq(Nat) /\ Len(<<>>) = 0 /\ f[0] = 0
  BY EmptySeq
<1>2. Sums(f, <<>>)
  BY <1>1 DEF Sums
<1> HIDE DEF f
<1> QED BY <1>1, <1>2, SumsAre

LEMMA SomeBytes ==
    ASSUME NEW t \in Seq(Nat)
    PROVE  Bytes(t) \in Nat /\ (t # <<>> => Bytes(t) > 0)
<1>1. PICK f : Sums(f, t)
  BY Measures
<1>2. Bytes(t) = f[Len(t)] /\ Bytes(t) \in Nat
  BY <1>1, SumsAre
<1>3. ASSUME t # <<>> PROVE Bytes(t) > 0
  <2> DEFINE l == Len(t)
  <2>1. l \in 1..Len(t) /\ l - 1 \in 0..Len(t) /\ t[l] \in Nat
    BY <1>3
  <2>2. Width(t[l]) \in Nat /\ Width(t[l]) > 0
    BY <2>1, Widths
  <2>3. f[l - 1] \in Nat /\ f[l] = f[l - 1] + Width(t[l])
    BY <1>1, <2>1 DEF Sums
  <2> QED BY <1>2, <2>2, <2>3
<1> QED BY <1>2, <1>3

(* The bytes of two texts put together.                                      *)
LEMMA JoinedBytes ==
    ASSUME NEW a \in Seq(Nat), NEW b \in Seq(Nat)
    PROVE  a \o b \in Seq(Nat) /\ Bytes(a \o b) = Bytes(a) + Bytes(b)
<1> DEFINE t == a \o b
<1> DEFINE la == Len(a)
<1> DEFINE lb == Len(b)
<1>1. /\ t \in Seq(Nat) /\ Len(t) = Len(a) + Len(b)
      /\ \A i \in 1..(Len(a) + Len(b)) : t[i] = IF i <= Len(a) THEN a[i] ELSE b[i - Len(a)]
  BY ConcatProperties, Zenon
<1>2. la \in Nat /\ lb \in Nat
  OBVIOUS
<1>3. PICK f : Sums(f, a)
  BY Measures
<1>4. PICK g : Sums(g, b)
  BY Measures
<1>5. Bytes(a) = f[la] /\ Bytes(b) = g[lb]
  BY <1>3, <1>4, SumsAre
<1> DEFINE h == [n \in 0..(la + lb) |-> IF n <= la THEN f[n] ELSE f[la] + g[n - la]]
<1>6. h[0] = 0
  BY <1>2, <1>3 DEF Sums
<1>7. f[la] \in Nat /\ g[0] = 0
  BY <1>2, <1>3, <1>4 DEF Sums
<1>8. ASSUME NEW n \in 0..(la + lb) PROVE h[n] \in Nat
  <2>1. CASE n <= la
    <3>1. n \in 0..Len(a)
      BY <1>2, <2>1
    <3> QED BY <1>3, <2>1, <3>1 DEF Sums
  <2>2. CASE ~(n <= la)
    <3>1. n - la \in 0..Len(b)
      BY <1>2, <2>2
    <3>2. g[n - la] \in Nat
      BY <1>4, <3>1 DEF Sums
    <3> QED BY <1>7, <2>2, <3>2
  <2> QED BY <2>1, <2>2
<1>9. ASSUME NEW n \in 1..(la + lb) PROVE h[n] = h[n - 1] + Width(t[n])
  <2>1. n \in 0..(la + lb) /\ n - 1 \in 0..(la + lb) /\ n \in Nat
    BY <1>2
  <2>2. CASE n <= la
    <3>1. n \in 1..Len(a) /\ n - 1 <= la
      BY <1>2, <2>2
    <3>2. f[n] = f[n - 1] + Width(a[n])
      BY <1>3, <3>1 DEF Sums
    <3>3. t[n] = a[n]
      BY <1>1, <2>2
    <3>4. h[n] = f[n] /\ h[n - 1] = f[n - 1]
      BY <2>1, <2>2, <3>1
    <3> HIDE DEF h, t
    <3> QED BY <3>2, <3>3, <3>4
  <2>3. CASE ~(n <= la)
    <3>1. n - la \in 1..Len(b) /\ (n - 1) - la = (n - la) - 1 /\ (n - la) - 1 \in 0..Len(b)
      BY <1>2, <2>3
    <3>2. g[n - la] = g[(n - la) - 1] + Width(b[n - la])
      BY <1>4, <3>1 DEF Sums
    <3>3. t[n] = b[n - la]
      BY <1>1, <2>3
    <3>4. h[n] = f[la] + g[n - la]
      BY <2>1, <2>3
    <3>5. h[n - 1] = f[la] + g[(n - la) - 1]
      <4>1. CASE n - 1 <= la
        <5>1. n - 1 = la /\ (n - la) - 1 = 0
          BY <1>2, <2>3, <4>1
        <5>2. h[n - 1] = f[la]
          BY <2>1, <4>1, <5>1
        <5> QED BY <1>7, <5>1, <5>2
      <4>2. CASE ~(n - 1 <= la)
        BY <2>1, <3>1, <4>2
      <4> QED BY <4>1, <4>2
    <3>6. b[n - la] \in Nat
      BY <3>1
    <3>7. Width(b[n - la]) \in Nat /\ g[(n - la) - 1] \in Nat
      BY <1>4, <3>1, <3>6, Widths DEF Sums
    <3> HIDE DEF h, t
    <3> QED BY <1>7, <3>2, <3>3, <3>4, <3>5, <3>7
  <2> QED BY <2>2, <2>3
<1>10. Len(t) = la + lb
  BY <1>1
<1>11. h[la + lb] = f[la] + g[lb]
  <2>1. la + lb \in 0..(la + lb)
    BY <1>2
  <2>2. CASE la + lb <= la
    BY <1>2, <1>7, <2>1, <2>2
  <2>3. CASE ~(la + lb <= la)
    BY <1>2, <2>1, <2>3
  <2> QED BY <2>2, <2>3
<1> HIDE DEF h, t
<1>12. Sums(h, t)
  BY <1>6, <1>8, <1>9, <1>10 DEF Sums
<1>13. Bytes(t) = h[Len(t)]
  BY <1>1, <1>12, SumsAre
<1>14. Bytes(t) = Bytes(a) + Bytes(b)
  BY <1>5, <1>10, <1>11, <1>13
<1> QED BY <1>1, <1>14 DEF t

(* The place before the character n + 1 of a text, in bytes.                 *)
Off(t, n) == Bytes(Prefix(t, n))

LEMMA PrefixesAre ==
    ASSUME NEW t \in Seq(Nat), NEW n \in 0..Len(t)
    PROVE  /\ Prefix(t, n) \in Seq(Nat) /\ Len(Prefix(t, n)) = n
           /\ SubSeq(t, n + 1, Len(t)) \in Seq(Nat)
           /\ t = Prefix(t, n) \o SubSeq(t, n + 1, Len(t))
           /\ Off(t, n) \in Nat
<1>1. Len(t) \in Nat /\ n \in Nat
  OBVIOUS
<1>2. Prefix(t, n) \in Seq(Nat) /\ Len(Prefix(t, n)) = n
  <2>1. SubSeq(t, 1, n) \in Seq(Nat) /\ Len(SubSeq(t, 1, n)) = n
    BY <1>1
  <2> QED BY <2>1 DEF Prefix
<1>3. SubSeq(t, n + 1, Len(t)) \in Seq(Nat)
  <2> DEFINE m == n + 1
  <2>1. m \in Int /\ Len(t) \in Int /\ \A i \in m..Len(t) : t[i] \in Nat
    BY <1>1
  <2> HIDE DEF m
  <2>2. SubSeq(t, m, Len(t)) \in Seq(Nat)
    BY <2>1, SubSeqProperties
  <2> QED BY <2>2 DEF m
<1>4. t = Prefix(t, n) \o SubSeq(t, n + 1, Len(t))
  <2>1. 1 \in 1..(Len(t) + 1) /\ n \in (1 - 1)..Len(t) /\ Len(t) \in n..Len(t)
    BY <1>1
  <2>2. SubSeq(t, 1, n) \o SubSeq(t, n + 1, Len(t)) = SubSeq(t, 1, Len(t))
    BY <2>1, ConcatAdjacentSubSeq
  <2>3. SubSeq(t, 1, Len(t)) = t
    BY SubSeqFull
  <2> QED BY <2>2, <2>3 DEF Prefix
<1>5. Off(t, n) \in Nat
  BY <1>2, SomeBytes DEF Off
<1> QED BY <1>2, <1>3, <1>4, <1>5

(* A later character is at a later place.                                    *)
LEMMA OffsRise ==
    ASSUME NEW t \in Seq(Nat), NEW n \in 0..Len(t), NEW m \in 0..Len(t), n < m
    PROVE  Off(t, n) < Off(t, m)
<1>1. Len(t) \in Nat /\ n \in Nat /\ m \in Nat
  OBVIOUS
<1> DEFINE p == Prefix(t, n)
<1> DEFINE s == SubSeq(t, n + 1, m)
<1>2. p \in Seq(Nat) /\ Off(t, n) = Bytes(p) /\ Bytes(p) \in Nat
  BY PrefixesAre DEF Off
<1>3. s \in Seq(Nat) /\ s # <<>>
  <2> DEFINE k == n + 1
  <2>1. k \in Int /\ m \in Int /\ k <= m /\ \A i \in k..m : t[i] \in Nat
    BY <1>1
  <2> HIDE DEF k
  <2>2. SubSeq(t, k, m) \in Seq(Nat) /\ Len(SubSeq(t, k, m)) = (m - k) + 1
    BY <2>1, SubSeqProperties
  <2>3. Len(SubSeq(t, k, m)) # 0
    BY <2>1, <2>2
  <2> QED BY <2>2, <2>3, EmptySeq DEF k
<1>4. Prefix(t, m) = p \o s
  <2>1. 1 \in 1..(Len(t) + 1) /\ n \in (1 - 1)..Len(t) /\ m \in n..Len(t)
    BY <1>1
  <2>2. SubSeq(t, 1, n) \o SubSeq(t, n + 1, m) = SubSeq(t, 1, m)
    BY <2>1, ConcatAdjacentSubSeq
  <2> QED BY <2>2 DEF Prefix
<1> HIDE DEF p, s
<1>5. Bytes(p \o s) = Bytes(p) + Bytes(s) /\ Bytes(s) \in Nat /\ Bytes(s) > 0
  BY <1>2, <1>3, JoinedBytes, SomeBytes
<1> QED BY <1>2, <1>4, <1>5 DEF Off

LEMMA Ends ==
    ASSUME NEW t \in Seq(Nat)
    PROVE  Off(t, 0) = 0 /\ Off(t, Len(t)) = Bytes(t) /\ Len(t) \in 0..Len(t) /\ 0 \in 0..Len(t)
<1>1. Len(t) \in Nat
  OBVIOUS
<1>2. SubSeq(t, 1, 0) = <<>>
  OBVIOUS
<1>3. SubSeq(t, 1, Len(t)) = t
  BY SubSeqFull
<1>4. Prefix(t, 0) = <<>> /\ Prefix(t, Len(t)) = t
  BY <1>2, <1>3 DEF Prefix
<1>5. 0 \in 0..Len(t) /\ Len(t) \in 0..Len(t)
  BY <1>1
<1> QED BY <1>4, <1>5, NoBytes DEF Off

(* Every boundary is the place of one character.                             *)
LEMMA BoundariesAre ==
    ASSUME NEW t \in Seq(Nat)
    PROVE  /\ Boundaries(t) = {Off(t, n) : n \in 0..Len(t)}
           /\ Boundaries(t) \subseteq Nat
           /\ 0 \in Boundaries(t) /\ Bytes(t) \in Boundaries(t)
           /\ \A b \in Boundaries(t) : b <= Bytes(t)
<1>1. Boundaries(t) = {Off(t, n) : n \in 0..Len(t)}
  BY DEF Boundaries, Off
<1>2. Boundaries(t) \subseteq Nat
  BY <1>1, PrefixesAre
<1>3. 0 \in Boundaries(t) /\ Bytes(t) \in Boundaries(t)
  BY <1>1, Ends
<1>4. ASSUME NEW n \in 0..Len(t) PROVE Off(t, n) <= Bytes(t)
  <2>1. Off(t, n) \in Nat /\ Bytes(t) \in Nat
    BY PrefixesAre, SomeBytes
  <2>2. CASE n = Len(t)
    BY <2>1, <2>2, Ends
  <2>3. CASE n # Len(t)
    <3>1. n < Len(t)
      BY <2>3
    <3>2. Off(t, n) < Off(t, Len(t))
      BY <3>1, Ends, OffsRise
    <3> QED BY <2>1, <3>2, Ends
  <2> QED BY <2>2, <2>3
<1> QED BY <1>1, <1>2, <1>3, <1>4

LEMMA OneCharOfAPlace ==
    ASSUME NEW t \in Seq(Nat), NEW n \in 0..Len(t), NEW m \in 0..Len(t)
    PROVE  Off(t, n) <= Off(t, m) <=> n <= m
<1>1. Len(t) \in Nat /\ n \in Nat /\ m \in Nat /\ Off(t, n) \in Nat /\ Off(t, m) \in Nat
  BY PrefixesAre
<1>2. n < m => Off(t, n) < Off(t, m)
  BY OffsRise
<1>3. m < n => Off(t, m) < Off(t, n)
  BY OffsRise
<1>4. n = m => Off(t, n) = Off(t, m)
  OBVIOUS
<1> QED BY <1>1, <1>2, <1>3, <1>4

(* The last character that starts at or before a byte.                       *)
IsCharAt(t, b, n) == Off(t, n) <= b /\ \A m \in (n + 1)..Len(t) : Off(t, m) > b

LEMMA CharsAt ==
    ASSUME NEW t \in Seq(Nat), NEW b \in Nat
    PROVE  ByteToChar(t, b) \in 0..Len(t) /\ IsCharAt(t, b, ByteToChar(t, b))
<1> DEFINE T == {n \in 0..Len(t) : \A m \in (n + 1)..Len(t) : Off(t, m) > b}
<1>1. Len(t) \in Nat /\ Len(t) \in T
  <2>1. Len(t) \in Nat
    OBVIOUS
  <2>2. (Len(t) + 1)..Len(t) = {}
    BY <2>1
  <2> QED BY <2>1, <2>2
<1>2. PICK n \in T : \A k \in T : ~(k < n)
  <2>1. T \in SUBSET Nat /\ T # {}
    BY <1>1
  <2> HIDE DEF T
  <2> QED BY <2>1, HasLeast
<1>3. n \in 0..Len(t) /\ n \in Nat
  BY <1>1
<1>4. Off(t, n) <= b
  <2> SUFFICES ASSUME ~(Off(t, n) <= b) PROVE FALSE
    OBVIOUS
  <2>1. Off(t, n) \in Nat
    BY <1>3, PrefixesAre
  <2>2. n # 0
    BY Ends
  <2>3. n - 1 \in 0..Len(t) /\ n - 1 < n /\ (n - 1) + 1 = n
    BY <1>1, <1>3, <2>2
  <2>4. ASSUME NEW m \in n..Len(t) PROVE Off(t, m) > b
    <3>1. m = n \/ m \in (n + 1)..Len(t)
      BY <1>1, <1>3
    <3>2. Off(t, n) > b
      BY <2>1
    <3> QED BY <3>1, <3>2
  <2>5. n - 1 \in T
    BY <2>3, <2>4
  <2> QED BY <1>2, <2>3, <2>5
<1>5. IsCharAt(t, b, n)
  BY <1>4 DEF IsCharAt
<1>6. \E k \in 0..Len(t) : IsCharAt(t, b, k)
  BY <1>3, <1>5
<1>7. ByteToChar(t, b) = CHOOSE k \in 0..Len(t) : IsCharAt(t, b, k)
  BY DEF ByteToChar, IsCharAt, Off
<1> QED BY <1>6, <1>7

LEMMA CharOfABoundary ==
    ASSUME NEW t \in Seq(Nat), NEW n \in 0..Len(t)
    PROVE  ByteToChar(t, Off(t, n)) = n
<1> DEFINE b == Off(t, n)
<1> DEFINE k == ByteToChar(t, b)
<1>1. b \in Nat /\ Len(t) \in Nat /\ n \in Nat
  BY PrefixesAre
<1>2. k \in 0..Len(t) /\ Off(t, k) <= b /\ \A m \in (k + 1)..Len(t) : Off(t, m) > b
  BY <1>1, CharsAt DEF IsCharAt
<1> HIDE DEF k
<1>3. k <= n
  BY <1>2, OneCharOfAPlace
<1>4. ~(k < n)
  <2> SUFFICES ASSUME k < n PROVE FALSE
    OBVIOUS
  <2>1. n \in (k + 1)..Len(t)
    BY <1>1, <1>2
  <2>2. Off(t, n) > b
    BY <1>2, <2>1
  <2> QED BY <1>1, <2>2
<1> QED BY <1>1, <1>2, <1>3, <1>4 DEF k

LEMMA JoinedPrefix ==
    ASSUME NEW a \in Seq(Nat), NEW d \in Seq(Nat)
    PROVE  Len(a) \in 0..Len(a \o d) /\ Prefix(a \o d, Len(a)) = a
<1> DEFINE t == a \o d
<1>1. /\ t \in Seq(Nat) /\ Len(t) = Len(a) + Len(d)
      /\ \A i \in 1..(Len(a) + Len(d)) : t[i] = IF i <= Len(a) THEN a[i] ELSE d[i - Len(a)]
  BY ConcatProperties, Zenon
<1>2. Len(a) \in Nat /\ Len(d) \in Nat
  OBVIOUS
<1> HIDE DEF t
<1>3. Len(a) \in 0..Len(t)
  BY <1>1, <1>2
<1>4. Prefix(t, Len(a)) \in Seq(Nat) /\ Len(Prefix(t, Len(a))) = Len(a)
  BY <1>1, <1>3, PrefixesAre
<1>5. ASSUME NEW i \in 1..Len(a) PROVE Prefix(t, Len(a))[i] = a[i]
  <2>1. i \in 1..(Len(a) + Len(d)) /\ i <= Len(a)
    BY <1>2
  <2>2. t[i] = a[i]
    BY <1>1, <2>1
  <2>3. SubSeq(t, 1, Len(a))[i] = t[i]
    BY <1>1, <1>2, <1>3
  <2> QED BY <2>2, <2>3 DEF Prefix
<1>6. Prefix(t, Len(a)) = a
  BY <1>4, <1>5, SeqEqual
<1> QED BY <1>3, <1>6 DEF t

(* A text that another begins with ends at a boundary of it.                 *)
LEMMA BeginsAtABoundary ==
    ASSUME NEW a \in Seq(Nat), NEW d \in Seq(Nat)
    PROVE  Bytes(a) \in Boundaries(a \o d)
<1> DEFINE t == a \o d
<1>1. t \in Seq(Nat)
  BY JoinedBytes
<1>2. Len(a) \in 0..Len(t) /\ Prefix(t, Len(a)) = a
  BY JoinedPrefix
<1> HIDE DEF t
<1>3. Bytes(a) = Off(t, Len(a)) /\ Off(t, Len(a)) \in Boundaries(t)
  BY <1>1, <1>2, BoundariesAre DEF Off
<1> QED BY <1>3 DEF t

LEMMA Regroups ==
    ASSUME NEW a \in Seq(Nat), NEW b \in Seq(Nat), NEW d \in Seq(Nat)
    PROVE  (a \o b) \o d = a \o (b \o d)
  BY ConcatAssociative, SMTT(30)

(* The ends of what was put in are boundaries of the new text.               *)
LEMMA Replacing ==
    ASSUME NEW t \in Seq(Nat), NEW new \in Seq(Nat),
           NEW from \in Boundaries(t), NEW to \in Boundaries(t)
    PROVE  LET r == Replaced(t, from, to, new) IN
           /\ r \in Seq(Nat)
           /\ from \in Boundaries(r) /\ from + Bytes(new) \in Boundaries(r)
<1>1. PICK i \in 0..Len(t) : from = Off(t, i)
  BY BoundariesAre
<1>2. PICK j \in 0..Len(t) : to = Off(t, j)
  BY BoundariesAre
<1>3. ByteToChar(t, from) = i /\ ByteToChar(t, to) = j
  BY <1>1, <1>2, CharOfABoundary
<1> DEFINE p == Prefix(t, i)
<1> DEFINE s == SubSeq(t, j + 1, Len(t))
<1>4. p \in Seq(Nat) /\ s \in Seq(Nat) /\ Bytes(p) = from
  BY <1>1, PrefixesAre DEF Off
<1>5. Replaced(t, from, to, new) = p \o new \o s
  BY <1>3 DEF Replaced
<1> HIDE DEF p, s
<1> DEFINE q == p \o new
<1>6. q \in Seq(Nat) /\ Bytes(q) = from + Bytes(new)
  BY <1>4, JoinedBytes
<1> HIDE DEF q
<1>7. q \o s \in Seq(Nat) /\ Bytes(q) \in Boundaries(q \o s)
  BY <1>4, <1>6, JoinedBytes, BeginsAtABoundary
<1> DEFINE w == new \o s
<1>8. w \in Seq(Nat)
  BY <1>4, JoinedBytes
<1>9. q \o s = p \o w
  <2>1. (p \o new) \o s = p \o (new \o s)
    <3>1. p \in Seq(Nat) /\ new \in Seq(Nat) /\ s \in Seq(Nat)
      BY <1>4
    <3> QED BY <3>1, Regroups
  <2> QED BY <2>1 DEF q
<1> HIDE DEF w
<1>10. Bytes(p) \in Boundaries(p \o w)
  BY <1>4, <1>8, BeginsAtABoundary
<1>11. Replaced(t, from, to, new) = q \o s
  BY <1>5 DEF q
<1> QED BY <1>4, <1>6, <1>7, <1>9, <1>10, <1>11

(* So is every boundary of it, counted from its start.                       *)
LEMMA WithinWhatIsPut ==
    ASSUME NEW t \in Seq(Nat), NEW new \in Seq(Nat),
           NEW from \in Boundaries(t), NEW to \in Boundaries(t), NEW b \in Boundaries(new)
    PROVE  from + b \in Boundaries(Replaced(t, from, to, new))
<1>1. PICK i \in 0..Len(t) : from = Off(t, i)
  BY BoundariesAre
<1>2. PICK j \in 0..Len(t) : to = Off(t, j)
  BY BoundariesAre
<1>3. PICK k \in 0..Len(new) : b = Off(new, k)
  BY BoundariesAre
<1>4. ByteToChar(t, from) = i /\ ByteToChar(t, to) = j
  BY <1>1, <1>2, CharOfABoundary
<1> DEFINE p == Prefix(t, i)
<1> DEFINE s == SubSeq(t, j + 1, Len(t))
<1> DEFINE a == Prefix(new, k)
<1> DEFINE d == SubSeq(new, k + 1, Len(new))
<1>5. p \in Seq(Nat) /\ s \in Seq(Nat) /\ Bytes(p) = from
  BY <1>1, PrefixesAre DEF Off
<1>6. a \in Seq(Nat) /\ d \in Seq(Nat) /\ Bytes(a) = b /\ new = a \o d
  BY <1>3, PrefixesAre DEF Off
<1>7. Replaced(t, from, to, new) = p \o new \o s
  BY <1>4 DEF Replaced
<1> HIDE DEF p, s, a, d
<1> DEFINE q == p \o a
<1> DEFINE w == d \o s
<1>8. q \in Seq(Nat) /\ w \in Seq(Nat) /\ Bytes(q) = from + b
  BY <1>5, <1>6, JoinedBytes
<1>9. p \o new \o s = q \o w
  <2>1. /\ p \in Seq(Nat) /\ a \in Seq(Nat) /\ d \in Seq(Nat) /\ s \in Seq(Nat)
        /\ q \in Seq(Nat)
    BY <1>5, <1>6, <1>8
  <2>2. (p \o a) \o d = p \o (a \o d)
    <3>1. p \in Seq(Nat) /\ a \in Seq(Nat) /\ d \in Seq(Nat)
      BY <2>1
    <3> HIDE DEF q, w
    <3> QED BY <3>1, Regroups
  <2>3. (q \o d) \o s = q \o (d \o s)
    <3> HIDE DEF q
    <3> QED BY <2>1, Regroups
  <2>4. p \o new = q \o d
    BY <1>6, <2>2, Zenon
  <2> QED BY <2>3, <2>4, Zenon
<1> HIDE DEF q, w
<1>10. Bytes(q) \in Boundaries(q \o w)
  BY <1>8, BeginsAtABoundary
<1> QED BY <1>7, <1>8, <1>9, <1>10

(* A place in UTF-16 is converted to a boundary, of whatever text it was.    *)
LEMMA ConvertsToABoundary ==
    ASSUME NEW t \in Seq(Nat), NEW u
    PROVE  Utf16ToByte(t, u) \in Boundaries(t)
<1> DEFINE reaches(i) == i = Len(t) \/ Units(Prefix(t, i)) >= u
<1> DEFINE T == {i \in 0..Len(t) : reaches(i)}
<1>1. Len(t) \in Nat /\ Len(t) \in T /\ T \in SUBSET Nat
  <2>1. Len(t) \in Nat /\ Len(t) \in 0..Len(t)
    OBVIOUS
  <2>2. reaches(Len(t))
    OBVIOUS
  <2>3. \A i \in 0..Len(t) : i \in Nat
    OBVIOUS
  <2> HIDE DEF reaches
  <2> QED BY <2>1, <2>2, <2>3
<1>2. PICK n \in T : \A k \in T : ~(k < n)
  <2>1. T # {} /\ T \in SUBSET Nat
    BY <1>1
  <2> HIDE DEF T
  <2> QED BY <2>1, HasLeast
<1>3. n \in 0..Len(t) /\ reaches(n)
  BY <1>2
<1>4. ASSUME NEW j \in 0..(n - 1) PROVE ~reaches(j)
  <2>1. j \in 0..Len(t) /\ j < n
    BY <1>1, <1>3
  <2> QED BY <1>2, <2>1
<1> HIDE DEF reaches
<1>5. \E i \in 0..Len(t) : reaches(i) /\ \A j \in 0..(i - 1) : ~reaches(j)
  BY <1>3, <1>4
<1> DEFINE c == CHOOSE i \in 0..Len(t) : reaches(i) /\ \A j \in 0..(i - 1) : ~reaches(j)
<1>6. c \in 0..Len(t)
  BY <1>5
<1>7. Utf16ToByte(t, u) = Bytes(Prefix(t, c))
  BY DEF Utf16ToByte, reaches
<1> HIDE DEF c
<1> QED BY <1>6, <1>7, BoundariesAre DEF Off

(* A line break is a character of one byte.                                  *)
LEMMA BreaksAreOneByte ==
    ASSUME NEW t \in Seq(Nat), NEW i \in LineBreaks(t)
    PROVE  /\ i \in 1..Len(t) /\ i - 1 \in 0..Len(t) /\ i \in 0..Len(t)
           /\ Off(t, i) = Off(t, i - 1) + 1
<1>1. i \in 1..Len(t) /\ t[i] = LF /\ Len(t) \in Nat /\ i \in Nat /\ i - 1 \in 0..Len(t) /\ i \in 0..Len(t)
  BY DEF LineBreaks
<1> DEFINE s == <<t[i]>>
<1>2. s \in Seq(Nat) /\ Len(s) = 1 /\ s[1] = LF
  BY <1>1
<1>3. Bytes(s) = 1
  <2> DEFINE f == [n \in 0..1 |-> n]
  <2>1. f[0] = 0 /\ f[1] = 1 /\ Width(LF) = 1
    BY DEF Width
  <2>2. \A n \in 0..1 : f[n] \in Nat
    OBVIOUS
  <2>3. \A n \in 1..1 : n = 1
    OBVIOUS
  <2> HIDE DEF s, f
  <2>4. Sums(f, s)
    BY <1>2, <2>1, <2>2, <2>3 DEF Sums
  <2> QED BY <1>2, <2>1, <2>4, SumsAre
<1> DEFINE p == Prefix(t, i - 1)
<1>4. p \in Seq(Nat) /\ Bytes(p) \in Nat
  BY <1>1, PrefixesAre DEF Off
<1>5. Prefix(t, i) = p \o s
  <2>1. 1 \in 1..Len(t) /\ i \in 1..Len(t)
    BY <1>1
  <2>2. SubSeq(t, 1, i) = SubSeq(t, 1, i - 1) \o <<t[i]>>
    BY <2>1, SubSeqRecursiveSecond
  <2> QED BY <2>2 DEF Prefix
<1> HIDE DEF p, s
<1>6. Bytes(p \o s) = Bytes(p) + 1
  BY <1>2, <1>3, <1>4, JoinedBytes
<1> QED BY <1>1, <1>5, <1>6 DEF Off, p

(* A line, by its characters: it runs from s to e, and n is in it.           *)
IsLine(l, n, s, e) ==
    /\ s <= n /\ n <= e /\ l = <<Off(text, s), Off(text, e)>>
    /\ \A i \in LineBreaks(text) : (i <= n => i <= s) /\ (n <= i - 1 => e <= i - 1)

(* Every place of a text is in a line, which begins after the last break     *)
(* before it and ends at the next one.                                       *)
LEMMA LinesThrough ==
    ASSUME text \in Seq(Nat), NEW n \in 0..Len(text)
    PROVE  \E l \in LineSpans : \E s, e \in 0..Len(text) : IsLine(l, n, s, e)
<1>1. Len(text) \in Nat /\ n \in Nat
  OBVIOUS
<1>2. PICK s \in 0..n : /\ s = 0 \/ s \in LineBreaks(text)
                        /\ \A i \in LineBreaks(text) : i <= n => i <= s
  <2> DEFINE T == {k \in 0..n : n - k = 0 \/ n - k \in LineBreaks(text)}
  <2>1. T \in SUBSET Nat /\ T # {}
    <3>1. n \in T
      BY <1>1
    <3>2. \A k \in 0..n : k \in Nat
      OBVIOUS
    <3>3. \A k \in T : k \in 0..n
      OBVIOUS
    <3> HIDE DEF T
    <3> QED BY <3>1, <3>2, <3>3
  <2>2. PICK k \in T : \A j \in T : ~(j < k)
    <3> HIDE DEF T
    <3> QED BY <2>1, HasLeast
  <2>3. k \in 0..n /\ n - k \in 0..n
    BY <1>1
  <2>4. ASSUME NEW i \in LineBreaks(text), i <= n PROVE i <= n - k
    <3>1. i \in Nat /\ n - i \in 0..n /\ n - (n - i) = i
      BY <1>1, <2>4, BreaksAreOneByte
    <3>2. n - i \in T
      BY <2>4, <3>1
    <3>3. ~(n - i < k)
      BY <2>2, <3>2
    <3> QED BY <1>1, <2>3, <3>1, <3>3
  <2> QED BY <2>3, <2>4
<1>3. PICK e \in n..Len(text) : /\ e = Len(text) \/ e + 1 \in LineBreaks(text)
                                /\ \A i \in LineBreaks(text) : n <= i - 1 => e <= i - 1
  <2> DEFINE T == {k \in n..Len(text) : k = Len(text) \/ k + 1 \in LineBreaks(text)}
  <2>1. T \in SUBSET Nat /\ T # {}
    <3>1. Len(text) \in T
      BY <1>1
    <3> QED BY <1>1, <3>1
  <2>2. PICK k \in T : \A j \in T : ~(j < k)
    <3> HIDE DEF T
    <3> QED BY <2>1, HasLeast
  <2>3. ASSUME NEW i \in LineBreaks(text), n <= i - 1 PROVE k <= i - 1
    <3>1. i - 1 \in n..Len(text) /\ (i - 1) + 1 = i /\ i - 1 \in Nat
      BY <1>1, <2>3, BreaksAreOneByte
    <3>2. i - 1 \in T
      BY <2>3, <3>1
    <3>3. ~(i - 1 < k)
      BY <2>2, <3>2
    <3> QED BY <1>1, <3>1, <3>3
  <2> QED BY <2>3
<1>4. s \in 0..Len(text) /\ e \in 0..Len(text) /\ s <= n /\ n <= e /\ s <= e
  BY <1>1
<1> DEFINE l == <<Off(text, s), Off(text, e)>>
<1>5. l[1] \in Boundaries(text) /\ l[2] \in Boundaries(text) /\ l[1] <= l[2]
  BY <1>4, BoundariesAre, OneCharOfAPlace
<1>6. StartsLine(l[1])
  BY <1>2, Ends DEF StartsLine, Off
<1>7. EndsLine(l[2])
  <2>1. CASE e = Len(text)
    BY <2>1, Ends DEF EndsLine
  <2>2. CASE e + 1 \in LineBreaks(text)
    <3>1. (e + 1) - 1 = e
      BY <1>4
    <3>2. l[2] = Bytes(Prefix(text, (e + 1) - 1))
      BY <3>1 DEF Off
    <3> QED BY <2>2, <3>2 DEF EndsLine
  <2> QED BY <1>3, <2>1, <2>2
<1>8. ASSUME NEW b \in Boundaries(text), l[1] <= b, b < l[2], EndsLine(b) PROVE FALSE
  <2>1. PICK m \in 0..Len(text) : b = Off(text, m)
    BY BoundariesAre
  <2>2. Off(text, m) \in Nat /\ Off(text, e) \in Nat /\ Off(text, s) \in Nat
    BY <1>4, PrefixesAre
  <2>3. s <= m /\ ~(e <= m)
    <3>1. Off(text, s) <= Off(text, m) /\ ~(Off(text, e) <= Off(text, m))
      BY <1>8, <2>1, <2>2
    <3> QED BY <1>4, <3>1, OneCharOfAPlace
  <2>4. CASE b = Bytes(text)
    <3>1. Off(text, Len(text)) <= Off(text, m)
      BY <2>1, <2>2, <2>4, Ends
    <3>2. Len(text) <= m
      BY <3>1, Ends, OneCharOfAPlace
    <3> QED BY <1>1, <1>4, <2>3, <3>2
  <2>5. ASSUME NEW i \in LineBreaks(text), b = Bytes(Prefix(text, i - 1)) PROVE FALSE
    <3>1. i \in 1..Len(text) /\ i - 1 \in 0..Len(text) /\ Off(text, m) = Off(text, i - 1)
      BY <2>1, <2>5, BreaksAreOneByte DEF Off
    <3>2. m <= i - 1 /\ i - 1 <= m
      <4> DEFINE h == i - 1
      <4>1. h \in 0..Len(text) /\ Off(text, m) <= Off(text, h) /\ Off(text, h) <= Off(text, m)
        BY <2>2, <3>1
      <4> HIDE DEF h
      <4>2. m <= h /\ h <= m
        BY <4>1, OneCharOfAPlace
      <4> QED BY <4>2 DEF h
    <3>3. m = i - 1 /\ i \in Nat
      BY <3>1, <3>2
    <3>4. CASE n <= m
      BY <1>3, <1>4, <2>3, <3>3, <3>4
    <3>5. CASE ~(n <= m)
      <4>1. i <= n
        BY <1>1, <3>3, <3>5
      <4>2. i <= s
        BY <1>2, <4>1
      <4> QED BY <1>4, <2>3, <3>3, <4>2
    <3> QED BY <3>4, <3>5
  <2> QED BY <1>8, <2>4, <2>5 DEF EndsLine
<1>9. l \in LineSpans
  BY <1>5, <1>6, <1>7, <1>8 DEF LineSpans
<1>10. IsLine(l, n, s, e)
  BY <1>2, <1>3, <1>4 DEF IsLine
<1> QED BY <1>4, <1>9, <1>10

LEMMA SpansAre ==
    ASSUME text \in Seq(Nat), NEW l \in LineSpans
    PROVE  l[1] \in Nat /\ l[2] \in Nat /\ l[1] <= l[2] /\ StartsLine(l[1]) /\ EndsLine(l[2])
  BY BoundariesAre DEF LineSpans

LEMMA LineOfAPlace ==
    ASSUME text \in Seq(Nat), NEW b \in Boundaries(text)
    PROVE  LineOf(b) \in LineSpans /\ LineOf(b)[1] <= b /\ b <= LineOf(b)[2]
<1>1. PICK n \in 0..Len(text) : b = Off(text, n)
  BY BoundariesAre
<1>2. PICK l \in LineSpans : \E s, e \in 0..Len(text) : IsLine(l, n, s, e)
  BY LinesThrough
<1>3. PICK s \in 0..Len(text), e \in 0..Len(text) : IsLine(l, n, s, e)
  BY <1>2
<1>4. l[1] = Off(text, s) /\ l[2] = Off(text, e) /\ s <= n /\ n <= e
  BY <1>3 DEF IsLine
<1>5. l[1] <= b /\ b <= l[2]
  BY <1>1, <1>4, OneCharOfAPlace
<1> QED BY <1>5 DEF LineOf

LEMMA LineBeforeIs ==
    ASSUME text \in Seq(Nat), NEW l \in LineSpans, l[1] # 0
    PROVE  LineBefore(l) \in LineSpans
<1>1. PICK i \in LineBreaks(text) : l[1] = Off(text, i)
  BY SpansAre DEF StartsLine, Off
<1>2. i \in 1..Len(text) /\ i - 1 \in 0..Len(text) /\ Off(text, i) = Off(text, i - 1) + 1
  BY <1>1, BreaksAreOneByte
<1>3. PICK k \in LineSpans : \E s, e \in 0..Len(text) : IsLine(k, i - 1, s, e)
  BY <1>2, LinesThrough
<1>4. PICK s \in 0..Len(text), e \in 0..Len(text) : IsLine(k, i - 1, s, e)
  BY <1>3
<1>5. k[2] = Off(text, e) /\ i - 1 <= e /\ e <= i - 1
  BY <1>2, <1>4 DEF IsLine
<1>6. e = i - 1 /\ Off(text, i - 1) \in Nat
  BY <1>2, <1>5, PrefixesAre, SMTT(30)
<1>7. k[2] = l[1] - 1
  BY <1>1, <1>2, <1>5, <1>6
<1> QED BY <1>7 DEF LineBefore

LEMMA LineAfterIs ==
    ASSUME text \in Seq(Nat), NEW l \in LineSpans, l[2] # Bytes(text)
    PROVE  LineAfter(l) \in LineSpans
<1>1. PICK i \in LineBreaks(text) : l[2] = Off(text, i - 1)
  BY SpansAre DEF EndsLine, Off
<1>2. i \in 0..Len(text) /\ i - 1 \in 0..Len(text) /\ Off(text, i) = Off(text, i - 1) + 1
  BY <1>1, BreaksAreOneByte
<1>3. PICK k \in LineSpans : \E s, e \in 0..Len(text) : IsLine(k, i, s, e)
  BY <1>2, LinesThrough
<1>4. PICK s \in 0..Len(text), e \in 0..Len(text) : IsLine(k, i, s, e)
  BY <1>3
<1>5. i <= i
  BY <1>2
<1>6. k[1] = Off(text, s) /\ s <= i /\ i <= s
  BY <1>4, <1>5 DEF IsLine
<1>7. s = i
  BY <1>2, <1>6
<1>8. k[1] = l[2] + 1
  BY <1>1, <1>2, <1>6, <1>7
<1> QED BY <1>8 DEF LineAfter

(* The neighbours of a boundary are boundaries.                              *)
LEMMA Neighbours ==
    ASSUME text \in Seq(Nat), NEW b \in Boundaries(text)
    PROVE  /\ PreviousBoundary(b) \in Boundaries(text) /\ PreviousBoundary(b) <= b
           /\ NextBoundary(b) \in Boundaries(text) /\ b <= NextBoundary(b)
<1>1. PICK n \in 0..Len(text) : b = Off(text, n)
  BY BoundariesAre
<1>2. n \in Nat /\ Len(text) \in Nat /\ b \in Nat /\ b <= Bytes(text) /\ Bytes(text) \in Nat
  BY BoundariesAre, SomeBytes
<1>3. PreviousBoundary(b) \in Boundaries(text) /\ PreviousBoundary(b) <= b
  <2>1. CASE b = 0
    BY <2>1, BoundariesAre DEF PreviousBoundary
  <2>2. CASE b # 0
    <3>1. n # 0
      BY <1>1, <2>2, Ends
    <3>2. n - 1 \in 0..Len(text) /\ n - 1 < n
      BY <1>2, <3>1
    <3> DEFINE p == Off(text, n - 1)
    <3>3. p \in Boundaries(text) /\ p < b
      BY <1>1, <3>2, BoundariesAre, OffsRise
    <3>4. ASSUME NEW q \in Boundaries(text), q < b PROVE q <= p
      <4>1. PICK m \in 0..Len(text) : q = Off(text, m)
        BY BoundariesAre
      <4>2. q \in Nat
        BY BoundariesAre
      <4>3. ~(Off(text, n) <= Off(text, m))
        BY <1>1, <1>2, <3>4, <4>1, <4>2
      <4>4. ~(n <= m)
        BY <4>3, OneCharOfAPlace
      <4>5. m <= n - 1
        BY <1>2, <4>4
      <4> QED BY <3>2, <4>1, <4>5, OneCharOfAPlace
    <3> HIDE DEF p
    <3>5. \E r \in Boundaries(text) : r < b /\ \A q \in Boundaries(text) : q < b => q <= r
      BY <3>3, <3>4
    <3> DEFINE r == PreviousBoundary(b)
    <3>6. r = CHOOSE x \in Boundaries(text) : x < b /\ \A q \in Boundaries(text) : q < b => q <= x
      BY <2>2 DEF PreviousBoundary
    <3>7. r \in Boundaries(text) /\ r < b
      BY <3>5, <3>6
    <3>8. r \in Nat
      BY <3>7, BoundariesAre
    <3> QED BY <1>2, <3>7, <3>8
  <2> QED BY <2>1, <2>2
<1>4. NextBoundary(b) \in Boundaries(text) /\ b <= NextBoundary(b)
  <2>1. CASE b >= Bytes(text)
    <3>1. NextBoundary(b) = Bytes(text)
      BY <2>1 DEF NextBoundary
    <3> QED BY <1>2, <3>1, BoundariesAre
  <2>2. CASE ~(b >= Bytes(text))
    <3>1. n # Len(text)
      BY <1>1, <1>2, <2>2, Ends
    <3>2. n + 1 \in 0..Len(text) /\ n < n + 1
      BY <1>2, <3>1
    <3> DEFINE p == Off(text, n + 1)
    <3>3. p \in Boundaries(text) /\ p > b
      <4>1. Off(text, n) < Off(text, n + 1) /\ p \in Nat
        BY <3>2, OffsRise, PrefixesAre
      <4> QED BY <1>1, <1>2, <3>2, <4>1, BoundariesAre
    <3>4. ASSUME NEW q \in Boundaries(text), q > b PROVE q >= p
      <4>1. PICK m \in 0..Len(text) : q = Off(text, m)
        BY BoundariesAre
      <4>2. q \in Nat /\ p \in Nat
        BY <3>3, BoundariesAre
      <4>3. ~(Off(text, m) <= Off(text, n))
        BY <1>1, <1>2, <3>4, <4>1, <4>2
      <4>4. ~(m <= n)
        BY <4>3, OneCharOfAPlace
      <4>5. n + 1 <= m
        BY <1>2, <4>4
      <4>6. Off(text, n + 1) <= Off(text, m)
        BY <3>2, <4>5, OneCharOfAPlace
      <4> QED BY <4>1, <4>2, <4>6
    <3> HIDE DEF p
    <3>5. \E r \in Boundaries(text) : r > b /\ \A q \in Boundaries(text) : q > b => q >= r
      BY <3>3, <3>4
    <3> DEFINE r == NextBoundary(b)
    <3>6. r = CHOOSE x \in Boundaries(text) : x > b /\ \A q \in Boundaries(text) : q > b => q >= x
      BY <2>2 DEF NextBoundary
    <3>7. r \in Boundaries(text) /\ r > b
      BY <3>5, <3>6
    <3>8. r \in Nat
      BY <3>7, BoundariesAre
    <3> QED BY <1>2, <3>7, <3>8
  <2> QED BY <2>1, <2>2
<1> QED BY <1>3, <1>4

LEMMA Clamps ==
    ASSUME text \in Seq(Nat), NEW b \in Nat
    PROVE  ClampToBoundary(b) \in Boundaries(text)
<1>1. Bytes(text) \in Nat
  BY SomeBytes
<1>2. Least(b, Bytes(text)) \in Nat
  BY <1>1 DEF Least
<1>3. ByteToChar(text, Least(b, Bytes(text))) \in 0..Len(text)
  BY <1>2, CharsAt
<1> QED BY <1>3, BoundariesAre DEF ClampToBoundary, Off

(* Everything that is kept is at a boundary of the text.                     *)
MarkedIsSome ==
    \E a \in Boundaries(text), b \in Boundaries(text) : a < b /\ marked = <<a, b>>
FieldInv ==
    /\ text \in Seq(Nat)
    /\ cursor \in Boundaries(text)
    /\ anchor \in Boundaries(text) \cup {NoAnchor}
    /\ marked = Unmarked \/ MarkedIsSome
    /\ laidOut \in Seq(Nat)

LEMMA Normalized ==
    ASSUME NEW new \in Seq(Nat)
    PROVE  Normalize(new) \in Seq(Nat)
<1> DEFINE l == Len(new)
<1>1. l \in Nat /\ \A i \in 1..l : new[i] \in Nat
  OBVIOUS
<1> DEFINE r == [i \in 1..l |-> IF new[i] = LF THEN 1 ELSE new[i]]
<1>2. \A i \in 1..l : (IF new[i] = LF THEN 1 ELSE new[i]) \in Nat
  BY <1>1
<1>3. r \in [1..l -> Nat]
  BY <1>2
<1> HIDE DEF r
<1>4. r \in Seq(Nat)
  <2> HIDE DEF l
  <2> QED BY <1>1, <1>3, SeqDef
<1> QED BY <1>4 DEF Normalize, r

LEMMA OrderedEnds ==
    ASSUME NEW S \in SUBSET Nat, NEW a \in S, NEW b \in S
    PROVE  Least(a, b) \in S /\ Most(a, b) \in S
  BY DEF Least, Most

LEMMA SelectedIsBetween ==
    ASSUME FieldInv
    PROVE  /\ Selected \in Boundaries(text) \X Boundaries(text)
           /\ MarkedOrSelected \in Boundaries(text) \X Boundaries(text)
<1> DEFINE B == Boundaries(text)
<1>1. cursor \in B /\ B \in SUBSET Nat
  BY BoundariesAre DEF FieldInv
<1>2. Selected \in B \X B
  <2>1. CASE anchor = NoAnchor
    BY <1>1, <2>1 DEF Selected
  <2>2. CASE anchor # NoAnchor
    <3>1. anchor \in B
      BY <2>2 DEF FieldInv
    <3> HIDE DEF B
    <3>2. Least(anchor, cursor) \in B /\ Most(anchor, cursor) \in B
      BY <1>1, <3>1, OrderedEnds
    <3> QED BY <2>2, <3>2 DEF Selected
  <2> QED BY <2>1, <2>2
<1>3. MarkedOrSelected \in B \X B
  <2>1. CASE marked = Unmarked
    BY <1>2, <2>1 DEF MarkedOrSelected
  <2>2. CASE marked # Unmarked
    BY <2>2 DEF FieldInv, MarkedIsSome, MarkedOrSelected
  <2> QED BY <2>1, <2>2
<1> QED BY <1>2, <1>3

(* A replacement leaves the cursor at the end of what was put in.            *)
LEMMA ReplaceRangeKeeps ==
    ASSUME FieldInv, NEW new \in Seq(Nat),
           NEW a \in Boundaries(text), NEW b \in Boundaries(text),
           ReplaceRange(<<a, b>>, new)
    PROVE  FieldInv'
<1> DEFINE put == Normalize(new)
<1>1. put \in Seq(Nat) /\ text \in Seq(Nat)
  BY Normalized DEF FieldInv
<1>2. text' = Replaced(text, a, b, put) /\ cursor' = a + Bytes(put)
      /\ anchor' = NoAnchor /\ marked' = Unmarked /\ laidOut' = laidOut
  BY DEF ReplaceRange
<1> HIDE DEF put
<1>3. text' \in Seq(Nat) /\ a + Bytes(put) \in Boundaries(text')
  BY <1>1, <1>2, Replacing
<1> QED BY <1>2, <1>3 DEF FieldInv

LEMMA InsertKeeps ==
    ASSUME FieldInv, NEW new \in Seq(Nat), InsertText(new)
    PROVE  FieldInv'
<1>1. PICK a \in Boundaries(text), b \in Boundaries(text) : MarkedOrSelected = <<a, b>>
  BY SelectedIsBetween
<1> QED BY <1>1, ReplaceRangeKeeps DEF InsertText

(* Composed text is marked, and the cursor and the anchor are within it.      *)
LEMMA ReplaceAndMarkKeeps ==
    ASSUME FieldInv, NEW new \in Seq(Nat),
           NEW x \in Boundaries(Normalize(new)), NEW y \in Boundaries(Normalize(new)),
           NEW a \in Boundaries(text), NEW b \in Boundaries(text),
           ReplaceAndMark(<<a, b>>, new, <<x, y>>)
    PROVE  FieldInv'
<1> DEFINE put == Normalize(new)
<1> DEFINE end == a + Bytes(put)
<1>1. put \in Seq(Nat) /\ text \in Seq(Nat) /\ a \in Nat
  BY Normalized, BoundariesAre DEF FieldInv
<1>2. /\ text' = Replaced(text, a, b, put) /\ cursor' = a + y
      /\ marked' = IF put = <<>> THEN Unmarked ELSE <<a, end>>
      /\ anchor' = IF x # y THEN a + x ELSE NoAnchor
      /\ laidOut' = laidOut
  BY DEF ReplaceAndMark
<1>3. x \in Boundaries(put) /\ y \in Boundaries(put)
  OBVIOUS
<1> HIDE DEF put
<1>4. text' \in Seq(Nat) /\ a \in Boundaries(text') /\ end \in Boundaries(text')
  BY <1>1, <1>2, Replacing
<1>5. a + x \in Boundaries(text') /\ a + y \in Boundaries(text')
  BY <1>1, <1>2, <1>3, WithinWhatIsPut
<1>6. put # <<>> => a < end
  BY <1>1, SomeBytes
<1> HIDE DEF end
<1>7. cursor' \in Boundaries(text') /\ anchor' \in Boundaries(text') \cup {NoAnchor}
  BY <1>2, <1>5
<1>8. marked' = Unmarked \/ MarkedIsSome'
  BY <1>2, <1>4, <1>6 DEF MarkedIsSome
<1> QED BY <1>2, <1>4, <1>7, <1>8 DEF FieldInv

(* Wherever the cursor is sent, it lands between two characters.             *)
LEMMA MoveToKeeps ==
    ASSUME FieldInv, NEW b \in Nat, NEW extend \in BOOLEAN, MoveTo(b, extend)
    PROVE  FieldInv'
<1>1. text \in Seq(Nat) /\ text' = text
  BY DEF FieldInv, MoveTo
<1>2. cursor' \in Boundaries(text)
  BY <1>1, Clamps DEF MoveTo
<1>3. anchor' \in Boundaries(text) \cup {NoAnchor}
  BY DEF MoveTo, FieldInv
<1>4. marked' = Unmarked /\ laidOut' = laidOut
  BY DEF MoveTo
<1> QED BY <1>1, <1>2, <1>3, <1>4 DEF FieldInv

LEMMA PlacesOnLines ==
    ASSUME text \in Seq(Nat), NEW l \in LineSpans, NEW col \in Nat
    PROVE  OffsetForPoint(l, col) \in Nat
<1>1. l[1] \in Nat /\ l[2] \in Nat /\ l[1] <= l[2]
  BY SpansAre
<1>2. l[2] - l[1] \in Nat
  BY <1>1
<1> QED BY <1>1, <1>2 DEF OffsetForPoint, Least

LEMMA MoveUpKeeps ==
    ASSUME FieldInv, NEW extend \in BOOLEAN, MoveUp(extend)
    PROVE  FieldInv'
<1> DEFINE l == LineOf(cursor)
<1> DEFINE to == IF l[1] = 0 THEN 0 ELSE OffsetForPoint(LineBefore(l), cursor - l[1])
<1>1. text \in Seq(Nat) /\ cursor \in Boundaries(text) /\ cursor \in Nat
  BY BoundariesAre DEF FieldInv
<1>2. l \in LineSpans /\ l[1] <= cursor
  BY <1>1, LineOfAPlace
<1>3. MoveTo(to, extend)
  BY DEF MoveUp, Moves
<1> HIDE DEF l
<1>4. l[1] \in Nat
  BY <1>1, <1>2, SpansAre
<1>5. cursor - l[1] \in Nat
  BY <1>1, <1>2, <1>4
<1>6. l[1] # 0 => OffsetForPoint(LineBefore(l), cursor - l[1]) \in Nat
  BY <1>1, <1>2, <1>5, LineBeforeIs, PlacesOnLines
<1>7. to \in Nat
  BY <1>6
<1> HIDE DEF to
<1> QED BY <1>3, <1>7, MoveToKeeps

LEMMA MoveDownKeeps ==
    ASSUME FieldInv, NEW extend \in BOOLEAN, MoveDown(extend)
    PROVE  FieldInv'
<1> DEFINE l == LineOf(cursor)
<1> DEFINE to == IF l[2] = Bytes(text) THEN l[2] ELSE OffsetForPoint(LineAfter(l), cursor - l[1])
<1>1. text \in Seq(Nat) /\ cursor \in Boundaries(text) /\ cursor \in Nat
  BY BoundariesAre DEF FieldInv
<1>2. l \in LineSpans /\ l[1] <= cursor
  BY <1>1, LineOfAPlace
<1>3. MoveTo(to, extend)
  BY DEF MoveDown, Moves
<1> HIDE DEF l
<1>4. l[1] \in Nat /\ l[2] \in Nat
  BY <1>1, <1>2, SpansAre
<1>5. cursor - l[1] \in Nat
  BY <1>1, <1>2, <1>4
<1>6. l[2] # Bytes(text) => OffsetForPoint(LineAfter(l), cursor - l[1]) \in Nat
  BY <1>1, <1>2, <1>5, LineAfterIs, PlacesOnLines
<1>7. to \in Nat
  BY <1>4, <1>6
<1> HIDE DEF to
<1> QED BY <1>3, <1>7, MoveToKeeps

(* The moves that are within a line, or along the text.                      *)
LEMMA OtherMovesKeep ==
    ASSUME FieldInv,
           \/ \E extend \in BOOLEAN : MoveLeft(extend) \/ MoveRight(extend)
           \/ MoveToStart \/ MoveToEnd
           \/ \E b \in Pointed : OnMouseMove(b) \/ \E shift \in BOOLEAN : OnMouseDown(b, shift)
    PROVE  FieldInv'
<1>1. /\ text \in Seq(Nat) /\ cursor \in Boundaries(text)
      /\ Boundaries(text) \subseteq Nat /\ Bytes(text) \in Nat /\ 0 \in Nat
      /\ Selected[1] \in Nat /\ Selected[2] \in Nat
  BY BoundariesAre, SomeBytes, SelectedIsBetween DEF FieldInv
<1>2. /\ PreviousBoundary(cursor) \in Nat /\ NextBoundary(cursor) \in Nat
  BY <1>1, Neighbours
<1>3. LineOf(cursor)[1] \in Nat /\ LineOf(cursor)[2] \in Nat
  BY <1>1, LineOfAPlace, SpansAre
<1>4. \A b \in Pointed : b \in Nat
  BY BoundariesAre DEF Pointed, FieldInv
<1>5. \A b \in Nat, extend \in BOOLEAN : MoveTo(b, extend) => FieldInv'
  BY MoveToKeeps
<1>6. FALSE \in BOOLEAN /\ TRUE \in BOOLEAN
  OBVIOUS
<1>7. ASSUME NEW extend \in BOOLEAN, MoveLeft(extend) PROVE FieldInv'
  BY <1>1, <1>2, <1>5, <1>7 DEF MoveLeft, Moves
<1>8. ASSUME NEW extend \in BOOLEAN, MoveRight(extend) PROVE FieldInv'
  BY <1>1, <1>2, <1>5, <1>8 DEF MoveRight, Moves
<1>9. CASE MoveToStart
  BY <1>1, <1>3, <1>5, <1>6, <1>9 DEF MoveToStart, Moves
<1>10. CASE MoveToEnd
  BY <1>1, <1>3, <1>5, <1>6, <1>10 DEF MoveToEnd, Moves
<1>11. ASSUME NEW b \in Pointed, OnMouseMove(b) PROVE FieldInv'
  BY <1>4, <1>5, <1>6, <1>11 DEF OnMouseMove, Moves
<1>12. ASSUME NEW b \in Pointed, NEW shift \in BOOLEAN, OnMouseDown(b, shift) PROVE FieldInv'
  BY <1>4, <1>5, <1>12 DEF OnMouseDown
<1> QED BY <1>7, <1>8, <1>9, <1>10, <1>11, <1>12

(* What is typed is a text.                                                  *)
LEMMA TypedAreTexts == \A new \in Typed \cup Composed : new \in Seq(Nat)
<1>1. \A c \in Letters \cup {LF} : c \in Nat
  BY FieldAssumption DEF LF
<1>2. \A c, d \in Nat : <<c>> \in Seq(Nat) /\ <<c, d>> \in Seq(Nat)
  OBVIOUS
<1>3. \A new \in Typed : new \in Seq(Nat)
  BY <1>1, <1>2, Zenon DEF Typed
<1>4. ASSUME NEW new \in Letters \X Letters PROVE new \in Seq(Nat)
  <2>1. PICK c, d \in Letters : new = <<c, d>>
    OBVIOUS
  <2>2. c \in Nat /\ d \in Nat
    BY <1>1
  <2> QED BY <1>2, <2>1, <2>2
<1>5. <<>> \in Seq(Nat)
  BY EmptySeq
<1> QED BY <1>3, <1>4, <1>5 DEF Composed

(* What the input method names, in units, is between two characters.         *)
LEMMA NamedAreBetween ==
    ASSUME NEW t \in Seq(Nat), NEW r \in RangesFromUtf16(t)
    PROVE  \E a, b \in Boundaries(t) : r = <<a, b>>
<1>1. UnitPlaces(t) \subseteq Boundaries(t)
  BY ConvertsToABoundary DEF UnitPlaces
<1>2. PICK a \in UnitPlaces(t), b \in UnitPlaces(t) : r = <<a, b>>
  BY DEF RangesFromUtf16
<1> QED BY <1>1, <1>2

LEMMA RangesAre ==
    ASSUME FieldInv
    PROVE  \A r \in Ranges : \E a, b \in Boundaries(text) : r = <<a, b>>
<1>1. text \in Seq(Nat)
  BY DEF FieldInv
<1>2. ASSUME NEW r \in Ranges PROVE \E a, b \in Boundaries(text) : r = <<a, b>>
  <2>1. CASE r = MarkedOrSelected
    BY <2>1, SelectedIsBetween
  <2>2. CASE r \in RangesFromUtf16(text)
    BY <1>1, <2>2, NamedAreBetween
  <2> QED BY <2>1, <2>2 DEF Ranges
<1> QED BY <1>2

LEMMA SelectionsAre ==
    ASSUME NEW put \in Seq(Nat)
    PROVE  \A r \in SelectionsIn(put) : \E x, y \in Boundaries(put) : r = <<x, y>>
<1>1. 0 \in Boundaries(put) /\ Bytes(put) \in Boundaries(put)
  BY BoundariesAre
<1>2. \A r \in RangesFromUtf16(put) : \E x, y \in Boundaries(put) : r = <<x, y>>
  BY NamedAreBetween
<1> QED BY <1>1, <1>2 DEF SelectionsIn

LEMMA EditsKeep ==
    ASSUME FieldInv,
           \/ \E new \in Typed : InsertText(new)
           \/ Cut \/ Backspace \/ Delete \/ Clear
           \/ \E r \in Ranges, new \in Composed :
                 \/ ReplaceRange(r, new)
                 \/ \E selection \in SelectionsIn(Normalize(new)) :
                       ReplaceAndMark(r, new, selection)
    PROVE  FieldInv'
<1>1. <<>> \in Seq(Nat) /\ text \in Seq(Nat) /\ cursor \in Boundaries(text)
  BY EmptySeq DEF FieldInv
<1>2. ASSUME NEW new \in Typed, InsertText(new) PROVE FieldInv'
  BY <1>2, InsertKeeps, TypedAreTexts
<1>3. CASE InsertText(<<>>)
  BY <1>1, <1>3, InsertKeeps
<1>4. CASE Cut
  BY <1>3, <1>4 DEF Cut
<1>5. CASE Backspace
  <2>1. CASE ReplaceRange(<<PreviousBoundary(cursor), cursor>>, <<>>)
    <3>1. PreviousBoundary(cursor) \in Boundaries(text)
      BY <1>1, Neighbours
    <3> QED BY <1>1, <2>1, <3>1, ReplaceRangeKeeps
  <2> QED BY <1>3, <1>5, <2>1 DEF Backspace
<1>6. CASE Delete
  <2>1. CASE ReplaceRange(<<cursor, NextBoundary(cursor)>>, <<>>)
    <3>1. NextBoundary(cursor) \in Boundaries(text)
      BY <1>1, Neighbours
    <3> QED BY <1>1, <2>1, <3>1, ReplaceRangeKeeps
  <2> QED BY <1>3, <1>6, <2>1 DEF Delete
<1>7. CASE Clear
  <2>1. 0 \in Boundaries(<<>>)
    BY <1>1, BoundariesAre
  <2> QED BY <1>1, <1>7, <2>1 DEF Clear, FieldInv
<1>8. ASSUME NEW r \in Ranges, NEW new \in Composed,
             \/ ReplaceRange(r, new)
             \/ \E selection \in SelectionsIn(Normalize(new)) :
                   ReplaceAndMark(r, new, selection)
      PROVE  FieldInv'
  <2>2. PICK a \in Boundaries(text), b \in Boundaries(text) : r = <<a, b>>
    BY RangesAre
  <2>3. new \in Seq(Nat)
    BY TypedAreTexts
  <2>4. CASE ReplaceRange(r, new)
    BY <2>2, <2>3, <2>4, ReplaceRangeKeeps
  <2>5. ASSUME NEW selection \in SelectionsIn(Normalize(new)), ReplaceAndMark(r, new, selection)
        PROVE  FieldInv'
    <3>1. PICK x, y \in Boundaries(Normalize(new)) : selection = <<x, y>>
      BY <2>3, Normalized, SelectionsAre
    <3> QED BY <2>2, <2>3, <2>5, <3>1, ReplaceAndMarkKeeps
  <2> QED BY <1>8, <2>4, <2>5
<1> QED BY <1>2, <1>4, <1>5, <1>6, <1>7, <1>8

LEMMA FieldStays ==
    ASSUME FieldInv, [FieldNext]_fieldVars
    PROVE  FieldInv'
<1>1. CASE UnmarkInput
  BY <1>1 DEF UnmarkInput, FieldInv
<1>2. CASE SelectAll
  <2>1. 0 \in Boundaries(text) /\ Bytes(text) \in Boundaries(text)
    BY BoundariesAre DEF FieldInv
  <2> QED BY <1>2, <2>1 DEF SelectAll, FieldInv
<1>3. CASE OnMouseUp
  BY <1>3 DEF OnMouseUp, FieldInv, MarkedIsSome
<1>4. CASE UNCHANGED fieldVars
  BY <1>4 DEF fieldVars, FieldInv, MarkedIsSome
<1>5. CASE LaysOut
  BY <1>5 DEF LaysOut, FieldInv, MarkedIsSome
<1> QED
  BY <1>1, <1>2, <1>3, <1>4, <1>5, EditsKeep, OtherMovesKeep, MoveUpKeeps, MoveDownKeeps DEF FieldNext

LEMMA BoundariesHold ==
    ASSUME FieldInv
    PROVE  SlicesBetweenCharacters
<1>1. marked # Unmarked => marked[1] \in Boundaries(text) /\ marked[2] \in Boundaries(text)
                           /\ marked[1] < marked[2]
  BY DEF FieldInv, MarkedIsSome
<1> QED BY <1>1 DEF FieldInv, SlicesBetweenCharacters

(* Whatever is typed, composed, moved over or pointed at, whatever part of   *)
(* what it composes the input method selects in UTF-16, whatever was painted *)
(* last and whatever the widths of the characters, the cursor, the anchor    *)
(* and the composed text stay between characters: the slices of the text     *)
(* that TextInputBuffer takes at them do not panic. The slice at a place     *)
(* that the input method points at is not one of them                        *)
(* (PointsBetweenCharacters).                                                *)
THEOREM SlicesStayBetweenCharacters == FieldSpec => []SlicesBetweenCharacters
<1>1. FieldInit => FieldInv
  <2>1. <<>> \in Seq(Nat) /\ 0 \in Boundaries(<<>>)
    BY EmptySeq, BoundariesAre
  <2> QED BY <2>1 DEF FieldInit, FieldInv
<1>2. FieldInv /\ [FieldNext]_fieldVars => FieldInv'
  BY FieldStays
<1>3. FieldInv => SlicesBetweenCharacters
  BY BoundariesHold
<1> QED BY <1>1, <1>2, <1>3, PTL DEF FieldSpec

------------------------------------------------------------------------------
(* The editor: the rows of a text, and the places of the cursor in them.      *)
(* The line breaks up to a character, which are the row that it is in.       *)
Rank(t, n) == Cardinality({j \in LineBreaks(t) : j <= n})

LEMMA RanksAre ==
    ASSUME NEW t \in Seq(Nat)
    PROVE  /\ \A n \in Int : Rank(t, n) \in Nat
           /\ Rank(t, 0) = 0 /\ LineCount(t) = Rank(t, Len(t)) + 1
           /\ LineCount(t) \in Nat /\ 0 < LineCount(t)
           /\ \A n, m \in Int : n <= m => Rank(t, n) <= Rank(t, m)
           /\ \A n \in 1..Len(t) : Rank(t, n) = Rank(t, n - 1) + (IF t[n] = LF THEN 1 ELSE 0)
<1> DEFINE B == LineBreaks(t)
<1> DEFINE Upto(n) == {j \in B : j <= n}
<1>1. IsFiniteSet(B) /\ B \subseteq 1..Len(t) /\ Len(t) \in Nat
  <2>1. IsFiniteSet(1..Len(t))
    BY FS_Interval
  <2> QED BY <2>1, FS_Subset DEF LineBreaks
<1>2. \A j \in B : j \in Nat /\ j >= 1 /\ j <= Len(t)
  BY <1>1
<1>3. \A n \in B : t[n] = LF
  BY DEF LineBreaks
<1>4. \A n \in 1..Len(t) : t[n] = LF => n \in B
  BY DEF LineBreaks
<1> HIDE DEF B
<1>5. ASSUME NEW n \in Int PROVE IsFiniteSet(Upto(n)) /\ Cardinality(Upto(n)) \in Nat
  <2>1. Upto(n) \subseteq B
    OBVIOUS
  <2> HIDE DEF Upto
  <2> QED BY <1>1, <2>1, FS_Subset, FS_CardinalityType
<1>6. Upto(0) = {}
  BY <1>2
<1>7. Upto(Len(t)) = B
  BY <1>2
<1>8. ASSUME NEW n \in Int, NEW m \in Int, n <= m
      PROVE  Cardinality(Upto(n)) <= Cardinality(Upto(m))
  <2>1. Upto(n) \subseteq Upto(m)
    BY <1>2, <1>8
  <2> HIDE DEF Upto
  <2> QED BY <1>5, <2>1, FS_Subset
<1>9. ASSUME NEW n \in 1..Len(t)
      PROVE  Cardinality(Upto(n)) = Cardinality(Upto(n - 1)) + (IF t[n] = LF THEN 1 ELSE 0)
  <2>1. n \in Int /\ n - 1 \in Int
    OBVIOUS
  <2>2. CASE t[n] = LF
    <3>1. Upto(n) = Upto(n - 1) \cup {n} /\ n \notin Upto(n - 1)
      BY <1>2, <1>4, <2>1, <2>2
    <3>2. IsFiniteSet(Upto(n - 1)) /\ Cardinality(Upto(n - 1)) \in Nat
      BY <1>5, <2>1
    <3> HIDE DEF Upto
    <3>3. Cardinality(Upto(n - 1) \cup {n}) = Cardinality(Upto(n - 1)) + 1
      BY <3>1, <3>2, FS_AddElement
    <3> QED BY <2>2, <3>1, <3>3
  <2>3. CASE t[n] # LF
    <3>1. Upto(n) = Upto(n - 1)
      BY <1>2, <1>3, <2>1, <2>3
    <3>2. Cardinality(Upto(n - 1)) \in Nat
      BY <1>5, <2>1
    <3> HIDE DEF Upto
    <3> QED BY <2>3, <3>1, <3>2
  <2> QED BY <2>2, <2>3
<1>10. \A n : Rank(t, n) = Cardinality(Upto(n))
  BY DEF Rank, B
<1>11. LineCount(t) = Cardinality(B) + 1
  BY DEF LineCount, B
<1>12. Cardinality({}) = 0
  BY FS_EmptySet
<1> HIDE DEF Upto
<1>13. \A n \in Int : Rank(t, n) \in Nat
  BY <1>5, <1>10
<1>14. Rank(t, 0) = 0 /\ LineCount(t) = Rank(t, Len(t)) + 1
  BY <1>6, <1>7, <1>10, <1>11, <1>12
<1>15. \A n, m \in Int : n <= m => Rank(t, n) <= Rank(t, m)
  BY <1>8, <1>10
<1>16. \A n \in 1..Len(t) : Rank(t, n) = Rank(t, n - 1) + (IF t[n] = LF THEN 1 ELSE 0)
  BY <1>9, <1>10
<1>17. LineCount(t) \in Nat /\ 0 < LineCount(t)
  BY <1>1, <1>13, <1>14
<1> QED BY <1>13, <1>14, <1>15, <1>16, <1>17

(* Only the break of a row's start has its rank.                             *)
LEMMA BreaksDiffer ==
    ASSUME NEW t \in Seq(Nat), NEW i \in LineBreaks(t), NEW n \in 0..Len(t), n < i
    PROVE  Rank(t, n) < Rank(t, i)
<1>1. i \in 1..Len(t) /\ t[i] = LF /\ i - 1 \in Int /\ n \in Int /\ n <= i - 1
  BY DEF LineBreaks
<1>2. Rank(t, i) = Rank(t, i - 1) + 1
  BY <1>1, RanksAre
<1>3. Rank(t, n) <= Rank(t, i - 1) /\ Rank(t, n) \in Nat /\ Rank(t, i - 1) \in Nat
  BY <1>1, RanksAre
<1> QED BY <1>2, <1>3

(* Where the row r of a text starts.                                         *)
Starts(t, r, s) == s \in 0..Len(t) /\ Rank(t, s) = r /\ (s = 0 \/ s \in LineBreaks(t))

LEMMA StartIs ==
    ASSUME NEW t \in Seq(Nat), NEW s, NEW r, Starts(t, r, s)
    PROVE  StartOf(t, r) = s
<1>1. Len(t) \in Nat /\ s \in 0..Len(t) /\ s \in Nat /\ Rank(t, s) = r /\ (s = 0 \/ s \in LineBreaks(t))
  BY DEF Starts
<1>2. CASE r = 0
  <2>1. s = 0
    <3> SUFFICES ASSUME s # 0 PROVE FALSE
      OBVIOUS
    <3>1. s \in LineBreaks(t) /\ 0 < s /\ 0 \in 0..Len(t)
      BY <1>1
    <3>2. Rank(t, 0) < Rank(t, s)
      BY <3>1, BreaksDiffer
    <3>3. Rank(t, 0) = 0
      BY RanksAre
    <3> QED BY <1>1, <1>2, <3>2, <3>3
  <2> QED BY <1>2, <2>1 DEF StartOf
<1>3. CASE r # 0
  <2>1. s \in LineBreaks(t)
    BY <1>1, <1>3, RanksAre
  <2>2. ASSUME NEW i \in LineBreaks(t), Rank(t, i) = r PROVE i = s
    <3>1. i \in 1..Len(t) /\ i \in 0..Len(t)
      BY DEF LineBreaks
    <3>2. ~(i < s)
      <4> SUFFICES ASSUME i < s PROVE FALSE
        OBVIOUS
      <4>1. Rank(t, i) < Rank(t, s)
        BY <2>1, <3>1, BreaksDiffer
      <4>2. Rank(t, s) \in Nat
        BY <1>1, RanksAre
      <4> QED BY <1>1, <2>2, <4>1, <4>2
    <3>3. ~(s < i)
      <4> SUFFICES ASSUME s < i PROVE FALSE
        OBVIOUS
      <4>1. Rank(t, s) < Rank(t, i)
        BY <1>1, BreaksDiffer
      <4>2. Rank(t, s) \in Nat
        BY <1>1, RanksAre
      <4> QED BY <1>1, <2>2, <4>1, <4>2
    <3> QED BY <1>1, <3>1, <3>2, <3>3
  <2>3. StartOf(t, r) = CHOOSE i \in LineBreaks(t) : Rank(t, i) = r
    BY <1>3 DEF StartOf, Rank
  <2> DEFINE c == CHOOSE i \in LineBreaks(t) : Rank(t, i) = r
  <2>4. c \in LineBreaks(t) /\ Rank(t, c) = r
    BY <1>1, <2>1
  <2> HIDE DEF c
  <2> QED BY <2>2, <2>3, <2>4 DEF c
<1> QED BY <1>2, <1>3

(* The last break at or before a character starts the row that it is in.     *)
LEMMA RowOf ==
    ASSUME NEW t \in Seq(Nat), NEW n \in 0..Len(t)
    PROVE  \E s \in 0..n : Starts(t, Rank(t, n), s)
<1>1. Len(t) \in Nat /\ n \in Nat
  OBVIOUS
<1> DEFINE T == {m \in 0..n : Rank(t, m) = Rank(t, n)}
<1>2. T \in SUBSET Nat /\ T # {}
  <2>1. n \in T
    BY <1>1
  <2> QED BY <1>1, <2>1
<1>3. PICK s \in T : \A m \in T : ~(m < s)
  <2> HIDE DEF T
  <2> QED BY <1>2, HasLeast
<1>4. s \in 0..n /\ Rank(t, s) = Rank(t, n) /\ s \in 0..Len(t)
  BY <1>1
<1>5. s = 0 \/ s \in LineBreaks(t)
  <2> SUFFICES ASSUME s # 0, s \notin LineBreaks(t) PROVE FALSE
    OBVIOUS
  <2>1. s \in 1..Len(t) /\ t[s] # LF /\ s - 1 \in 0..n /\ s - 1 \in Int /\ s - 1 < s
    BY <1>1, <1>4 DEF LineBreaks
  <2>2. Rank(t, s) = Rank(t, s - 1) + 0 /\ Rank(t, s - 1) \in Nat
    BY <2>1, RanksAre
  <2>3. s - 1 \in T
    BY <1>4, <2>1, <2>2
  <2> QED BY <1>3, <2>1, <2>3
<1> QED BY <1>4, <1>5 DEF Starts

(* There is a character in every row.                                        *)
LEMMA RowsAre ==
    ASSUME NEW t \in Seq(Nat), NEW r \in Nat, r < LineCount(t)
    PROVE  \E n \in 0..Len(t) : Rank(t, n) = r
<1>1. Len(t) \in Nat /\ LineCount(t) = Rank(t, Len(t)) + 1 /\ Rank(t, Len(t)) \in Nat
  BY RanksAre
<1> DEFINE T == {n \in 0..Len(t) : Rank(t, n) >= r}
<1>2. T \in SUBSET Nat /\ T # {}
  <2>1. Len(t) \in T
    BY <1>1
  <2> QED BY <1>1, <2>1
<1>3. PICK n \in T : \A m \in T : ~(m < n)
  <2> HIDE DEF T
  <2> QED BY <1>2, HasLeast
<1>4. n \in 0..Len(t) /\ Rank(t, n) >= r /\ Rank(t, n) \in Nat
  BY <1>1, RanksAre
<1>5. CASE n = 0
  BY <1>4, <1>5, RanksAre
<1>6. CASE n # 0
  <2>1. n \in 1..Len(t) /\ n - 1 \in 0..Len(t) /\ n - 1 \in Int /\ n - 1 < n
    BY <1>1, <1>4, <1>6
  <2>2. Rank(t, n) = Rank(t, n - 1) + (IF t[n] = LF THEN 1 ELSE 0) /\ Rank(t, n - 1) \in Nat
    BY <2>1, RanksAre
  <2>3. ~(Rank(t, n - 1) >= r)
    BY <1>3, <2>1
  <2>4. Rank(t, n) = r
    BY <1>4, <2>2, <2>3
  <2> QED BY <1>4, <2>4
<1> QED BY <1>5, <1>6

(* The row r runs from the character s to the character e.                   *)
IsRow(t, r, s, e) ==
    /\ Starts(t, r, s) /\ e \in 0..Len(t) /\ s <= e
    /\ Line(t, r) = SubSeq(t, s + 1, e)
    /\ \A n \in 0..Len(t) : Rank(t, n) = r <=> s <= n /\ n <= e

LEMMA HasRow ==
    ASSUME NEW t \in Seq(Nat), NEW r \in Nat, r < LineCount(t)
    PROVE  \E s, e \in 0..Len(t) : IsRow(t, r, s, e)
<1>1. Len(t) \in Nat /\ LineCount(t) = Rank(t, Len(t)) + 1 /\ Rank(t, Len(t)) \in Nat
  BY RanksAre
<1>2. PICK n \in 0..Len(t) : Rank(t, n) = r
  BY RowsAre
<1>3. PICK s \in 0..n : Starts(t, r, s)
  BY <1>2, RowOf
<1>4. s \in 0..Len(t) /\ Rank(t, s) = r /\ StartOf(t, r) = s /\ (s = 0 \/ s \in LineBreaks(t))
  BY <1>3, StartIs DEF Starts
<1>5. ASSUME NEW m \in 0..Len(t), Rank(t, m) = r PROVE s <= m
  <2> SUFFICES ASSUME m < s PROVE FALSE
    BY <1>1, <1>4
  <2>1. s \in LineBreaks(t)
    BY <1>1, <1>4
  <2>2. Rank(t, m) < Rank(t, s)
    BY <2>1, BreaksDiffer
  <2> QED BY <1>4, <1>5, <2>2
<1>6. PICK e \in 0..Len(t) : /\ s <= e /\ Line(t, r) = SubSeq(t, s + 1, e)
                             /\ Rank(t, e) = r
                             /\ \A m \in 0..Len(t) : Rank(t, m) = r => m <= e
  <2>1. CASE r + 1 < LineCount(t)
    <3>1. PICK m \in 0..Len(t) : Rank(t, m) = r + 1
      BY <2>1, RowsAre
    <3>2. PICK u \in 0..m : Starts(t, r + 1, u)
      BY <3>1, RowOf
    <3>3. u \in 0..Len(t) /\ Rank(t, u) = r + 1 /\ StartOf(t, r + 1) = u /\ (u = 0 \/ u \in LineBreaks(t))
      BY <3>2, StartIs DEF Starts
    <3>4. u # 0
      BY <3>3, RanksAre
    <3>5. u \in LineBreaks(t) /\ u \in 1..Len(t) /\ u - 1 \in 0..Len(t) /\ u - 1 \in Int /\ t[u] = LF
      BY <1>1, <3>3, <3>4 DEF LineBreaks
    <3>6. Rank(t, u - 1) = r
      <4>1. Rank(t, u) = Rank(t, u - 1) + 1 /\ Rank(t, u - 1) \in Nat
        BY <3>5, RanksAre
      <4> QED BY <3>3, <4>1
    <3>7. Line(t, r) = SubSeq(t, s + 1, u - 1)
      BY <1>4, <2>1, <3>3 DEF Line
    <3>8. ASSUME NEW k \in 0..Len(t), Rank(t, k) = r PROVE k <= u - 1
      <4> SUFFICES ASSUME u <= k PROVE FALSE
        BY <3>5
      <4>1. Rank(t, u) <= Rank(t, k)
        BY <3>5, RanksAre
      <4> QED BY <3>3, <3>8, <4>1
    <3>9. s <= u - 1
      BY <1>5, <3>5, <3>6
    <3> QED BY <3>5, <3>6, <3>7, <3>8, <3>9
  <2>2. CASE ~(r + 1 < LineCount(t))
    <3>1. r = Rank(t, Len(t)) /\ Len(t) \in 0..Len(t)
      BY <1>1, <2>2
    <3>2. Line(t, r) = SubSeq(t, s + 1, Len(t))
      BY <1>4, <2>2 DEF Line
    <3>3. s <= Len(t) /\ \A m \in 0..Len(t) : m <= Len(t)
      BY <1>1, <1>4
    <3> QED BY <3>1, <3>2, <3>3
  <2> QED BY <2>1, <2>2
<1>7. ASSUME NEW m \in 0..Len(t), s <= m, m <= e PROVE Rank(t, m) = r
  <2>1. Rank(t, s) <= Rank(t, m) /\ Rank(t, m) <= Rank(t, e) /\ Rank(t, m) \in Nat
    BY <1>1, <1>4, <1>6, <1>7, RanksAre
  <2> QED BY <1>4, <1>6, <2>1
<1>8. IsRow(t, r, s, e)
  BY <1>3, <1>5, <1>6, <1>7 DEF IsRow
<1> QED BY <1>4, <1>6, <1>8

(* The places of a row are those of its line, after those before the row.    *)
LEMMA RowsPlaces ==
    ASSUME NEW t \in Seq(Nat), NEW r, NEW s \in 0..Len(t), NEW e \in 0..Len(t), IsRow(t, r, s, e)
    PROVE  /\ Line(t, r) \in Seq(Nat) /\ Len(Line(t, r)) = e - s
           /\ \A k \in 1..Len(Line(t, r)) : Line(t, r)[k] = t[s + k] /\ Line(t, r)[k] # LF
           /\ \A k \in 0..(e - s) : /\ s + k \in 0..Len(t)
                                    /\ Off(t, s + k) = Off(t, s) + Off(Line(t, r), k)
<1> DEFINE l == SubSeq(t, s + 1, e)
<1> DEFINE n == e - s
<1>1. Len(t) \in Nat /\ s \in Nat /\ e \in Nat /\ s <= e /\ n \in Nat /\ s + n = e
      /\ Line(t, r) = l
  BY DEF IsRow
<1>2. l \in Seq(Nat) /\ Len(l) = n /\ \A k \in 1..n : l[k] = t[s + k] /\ s + k \in 1..Len(t)
  <2> DEFINE a == s + 1
  <2>1. a \in Int /\ e \in Int /\ a <= e + 1 /\ \A i \in a..e : t[i] \in Nat
    BY <1>1
  <2> HIDE DEF a
  <2>2. SubSeq(t, a, e) \in Seq(Nat)
        /\ Len(SubSeq(t, a, e)) = (IF a <= e THEN (e - a) + 1 ELSE 0)
        /\ \A i \in 1..((e - a) + 1) : SubSeq(t, a, e)[i] = t[(a + i) - 1]
    BY <2>1, SubSeqProperties
  <2>3. (e - a) + 1 = n /\ (IF a <= e THEN (e - a) + 1 ELSE 0) = n
    BY <1>1 DEF a
  <2>4. l = SubSeq(t, a, e)
    BY DEF a
  <2> HIDE DEF l, n
  <2>5. \A k \in 1..n : (a + k) - 1 = s + k /\ s + k \in 1..Len(t)
    BY <1>1 DEF a
  <2> QED BY <2>2, <2>3, <2>4, <2>5
<1> HIDE DEF l, n
<1>3. ASSUME NEW k \in 1..n PROVE t[s + k] # LF
  <2> DEFINE i == s + k
  <2>1. i \in 1..Len(t) /\ i \in 0..Len(t) /\ i - 1 \in 0..Len(t)
        /\ s <= i /\ i <= e /\ s <= i - 1 /\ i - 1 <= e
    BY <1>1
  <2> HIDE DEF i
  <2>2. Rank(t, i) = r /\ Rank(t, i - 1) = r
    BY <2>1 DEF IsRow
  <2>3. Rank(t, i) = Rank(t, i - 1) + (IF t[i] = LF THEN 1 ELSE 0) /\ Rank(t, i - 1) \in Nat
    BY <2>1, RanksAre
  <2>4. t[i] # LF
    BY <2>2, <2>3
  <2> QED BY <2>4 DEF i
<1>4. ASSUME NEW k \in 0..n
      PROVE  s + k \in 0..Len(t) /\ Off(t, s + k) = Off(t, s) + Off(l, k)
  <2> DEFINE m == s + k
  <2>1. m \in 0..Len(t) /\ m \in Nat /\ k \in Nat /\ k <= n /\ m - s = k
    BY <1>1
  <2>2. Prefix(t, m) = Prefix(t, s) \o Prefix(l, k)
    <3>1. Prefix(t, m) \in Seq(Nat) /\ Len(Prefix(t, m)) = m
      BY <2>1, PrefixesAre
    <3>2. Prefix(t, s) \in Seq(Nat) /\ Len(Prefix(t, s)) = s
      BY PrefixesAre
    <3>3. Prefix(l, k) \in Seq(Nat) /\ Len(Prefix(l, k)) = k
      BY <1>2, PrefixesAre
    <3> DEFINE p == Prefix(t, s)
    <3> DEFINE q == Prefix(l, k)
    <3> DEFINE j == p \o q
    <3>4. j \in Seq(Nat) /\ Len(j) = s + k
          /\ \A i \in 1..(s + k) : j[i] = IF i <= s THEN p[i] ELSE q[i - s]
      <4>1. p \in Seq(Nat) /\ q \in Seq(Nat) /\ Len(p) = s /\ Len(q) = k
        BY <3>2, <3>3
      <4> HIDE DEF p, q
      <4> QED BY <4>1, ConcatProperties
    <3>5. ASSUME NEW i \in 1..m PROVE Prefix(t, m)[i] = j[i]
      <4>1. Prefix(t, m)[i] = t[i]
        <5>1. SubSeq(t, 1, m)[i] = t[i]
          BY <1>1, <2>1
        <5> QED BY <5>1 DEF Prefix
      <4>2. CASE i <= s
        <5>1. SubSeq(t, 1, s)[i] = t[i]
          BY <1>1, <4>2
        <5>2. p[i] = t[i]
          BY <5>1 DEF Prefix
        <5>3. j[i] = p[i]
          BY <3>4, <4>2
        <5> QED BY <4>1, <5>2, <5>3
      <4>3. CASE ~(i <= s)
        <5> DEFINE h == i - s
        <5>1. h \in 1..k /\ h \in 1..n /\ s + h = i
          BY <1>1, <2>1, <4>3
        <5>2. SubSeq(l, 1, k)[h] = l[h]
          BY <1>1, <1>2, <2>1, <5>1
        <5>3. q[h] = l[h]
          BY <5>2 DEF Prefix
        <5>4. l[h] = t[s + h]
          BY <1>2, <5>1
        <5>5. j[i] = q[h]
          BY <3>4, <4>3
        <5> QED BY <4>1, <5>1, <5>3, <5>4, <5>5
      <4> QED BY <4>2, <4>3
    <3> HIDE DEF p, q, j
    <3>6. Prefix(t, m) = j
      <4> HIDE DEF m
      <4>1. Len(j) = m
        BY <3>4 DEF m
      <4> QED BY <3>1, <3>4, <3>5, <4>1, SeqEqual
    <3> QED BY <3>6 DEF j, p, q
  <2>3. Prefix(t, s) \in Seq(Nat) /\ Prefix(l, k) \in Seq(Nat)
    BY <1>2, PrefixesAre
  <2>4. Bytes(Prefix(t, m)) = Bytes(Prefix(t, s)) + Bytes(Prefix(l, k))
    BY <2>2, <2>3, JoinedBytes
  <2> QED BY <2>1, <2>4 DEF Off
<1> QED BY <1>1, <1>2, <1>3, <1>4 DEF n

(* A place between two characters, by its row and the bytes of its line.     *)
PlaceAt(t, p, r, k) ==
    /\ r \in Nat /\ r < LineCount(t) /\ k \in 0..Len(Line(t, r))
    /\ p = <<r, Off(Line(t, r), k)>>
IsPlace(t, p) == \E r, k \in Nat : PlaceAt(t, p, r, k)

LEMMA LinesAre ==
    ASSUME NEW t \in Seq(Nat), NEW r \in Nat, r < LineCount(t)
    PROVE  /\ Line(t, r) \in Seq(Nat) /\ LineLen(t, r) = Bytes(Line(t, r))
           /\ \A k \in 1..Len(Line(t, r)) : Line(t, r)[k] # LF
<1>1. PICK s \in 0..Len(t), e \in 0..Len(t) : IsRow(t, r, s, e)
  BY HasRow
<1>2. LineCount(t) \in Nat
  BY RanksAre
<1>3. ~(r >= LineCount(t))
  BY <1>2
<1> QED BY <1>1, <1>3, RowsPlaces DEF LineLen

LEMMA CursorByRank ==
    ASSUME NEW t \in Seq(Nat), NEW n \in 0..Len(t)
    PROVE  ByteToCursor(t, Off(t, n)) = <<Rank(t, n), Off(t, n) - Off(t, StartOf(t, Rank(t, n)))>>
<1> DEFINE b == Off(t, n)
<1>1. b \in Nat /\ b <= Bytes(t) /\ Bytes(t) \in Nat
  BY PrefixesAre, BoundariesAre, SomeBytes
<1>2. Least(b, Bytes(t)) = b
  BY <1>1 DEF Least
<1>3. {i \in LineBreaks(t) : Bytes(Prefix(t, i)) <= b} = {i \in LineBreaks(t) : i <= n}
  <2>1. \A i \in LineBreaks(t) : i \in 0..Len(t)
    BY DEF LineBreaks
  <2>2. \A i \in LineBreaks(t) : Off(t, i) <= Off(t, n) <=> i <= n
    BY <2>1, OneCharOfAPlace
  <2> QED BY <2>2 DEF Off
<1>4. Cardinality({i \in LineBreaks(t) : Bytes(Prefix(t, i)) <= b}) = Rank(t, n)
  BY <1>3 DEF Rank
<1> HIDE DEF b
<1>5. ByteToCursor(t, b) = <<Rank(t, n), b - Bytes(Prefix(t, StartOf(t, Rank(t, n))))>>
  BY <1>2, <1>4 DEF ByteToCursor
<1> QED BY <1>5 DEF b, Off

LEMMA CursorOf ==
    ASSUME NEW t \in Seq(Nat), NEW r \in Nat, NEW s \in 0..Len(t), NEW e \in 0..Len(t),
           IsRow(t, r, s, e), NEW k \in 0..(e - s)
    PROVE  ByteToCursor(t, Off(t, s + k)) = <<r, Off(Line(t, r), k)>>
<1> DEFINE n == s + k
<1>1. n \in 0..Len(t) /\ s <= n /\ n <= e /\ Off(t, n) = Off(t, s) + Off(Line(t, r), k)
  BY RowsPlaces
<1>2. Line(t, r) \in Seq(Nat) /\ Len(Line(t, r)) = e - s
  BY RowsPlaces
<1>3. Off(t, s) \in Nat /\ Off(t, n) \in Nat /\ Off(Line(t, r), k) \in Nat
  BY <1>1, <1>2, PrefixesAre
<1>4. Rank(t, n) = r /\ StartOf(t, r) = s
  BY <1>1, StartIs DEF IsRow
<1>5. Off(t, n) - Off(t, s) = Off(Line(t, r), k)
  BY <1>1, <1>3
<1> HIDE DEF n
<1>6. ByteToCursor(t, Off(t, n)) = <<Rank(t, n), Off(t, n) - Off(t, StartOf(t, Rank(t, n)))>>
  BY <1>1, CursorByRank
<1> QED BY <1>4, <1>5, <1>6 DEF n

LEMMA CursorIsAPlace ==
    ASSUME NEW t \in Seq(Nat), NEW b \in Boundaries(t)
    PROVE  IsPlace(t, ByteToCursor(t, b))
<1>1. PICK n \in 0..Len(t) : b = Off(t, n)
  BY BoundariesAre
<1>2. Rank(t, n) \in Nat /\ Rank(t, n) < LineCount(t) /\ Len(t) \in Nat /\ n \in Int
  <2>1. Len(t) \in Int /\ n \in Int /\ n <= Len(t)
    OBVIOUS
  <2>2. Rank(t, n) \in Nat
    BY <2>1, RanksAre
  <2>3. Rank(t, n) < LineCount(t)
    BY <2>1, RanksAre
  <2>4. Len(t) \in Nat
    OBVIOUS
  <2> QED BY <2>1, <2>2, <2>3, <2>4
<1> DEFINE r == Rank(t, n)
<1>3. PICK s \in 0..Len(t), e \in 0..Len(t) : IsRow(t, r, s, e)
  BY <1>2, HasRow
<1>4. s <= n /\ n <= e
  BY <1>3 DEF IsRow
<1> DEFINE k == n - s
<1>5. k \in 0..(e - s) /\ s + k = n /\ k \in Nat /\ e - s \in Nat
  BY <1>2, <1>4
<1> HIDE DEF r, k
<1>6. r \in Nat /\ r < LineCount(t)
  BY <1>2 DEF r
<1>7. ByteToCursor(t, b) = <<r, Off(Line(t, r), k)>>
  <2>1. ByteToCursor(t, Off(t, s + k)) = <<r, Off(Line(t, r), k)>>
    BY <1>3, <1>5, <1>6, CursorOf
  <2> QED BY <1>1, <1>5, <2>1
<1>8. Len(Line(t, r)) = e - s
  BY <1>3, RowsPlaces
<1>9. PlaceAt(t, ByteToCursor(t, b), r, k)
  BY <1>5, <1>6, <1>7, <1>8 DEF PlaceAt
<1> QED BY <1>5, <1>6, <1>9 DEF IsPlace

LEMMA PlaceIsACursor ==
    ASSUME NEW t \in Seq(Nat), NEW p, IsPlace(t, p)
    PROVE  CursorToByte(t, p) \in Boundaries(t) /\ ByteToCursor(t, CursorToByte(t, p)) = p
<1>1. PICK r \in Nat, k \in Nat : PlaceAt(t, p, r, k)
  BY DEF IsPlace
<1>2. r < LineCount(t) /\ k \in 0..Len(Line(t, r)) /\ p = <<r, Off(Line(t, r), k)>> /\ p[1] = r
      /\ p[2] = Off(Line(t, r), k)
  BY <1>1 DEF PlaceAt
<1>3. PICK s \in 0..Len(t), e \in 0..Len(t) : IsRow(t, r, s, e)
  BY <1>2, HasRow
<1>4. Line(t, r) \in Seq(Nat) /\ LineLen(t, r) = Bytes(Line(t, r)) /\ Len(Line(t, r)) = e - s
  BY <1>2, <1>3, LinesAre, RowsPlaces
<1>5. p[2] \in Nat /\ p[2] <= LineLen(t, r) /\ LineLen(t, r) \in Nat
  <2>1. Off(Line(t, r), k) \in Boundaries(Line(t, r))
    BY <1>2, <1>4, BoundariesAre
  <2>2. Off(Line(t, r), k) \in Nat /\ Off(Line(t, r), k) <= Bytes(Line(t, r))
    BY <1>4, <2>1, BoundariesAre
  <2>3. Bytes(Line(t, r)) \in Nat
    BY <1>4, SomeBytes
  <2> QED BY <1>2, <1>4, <2>2, <2>3
<1>6. Least(p[2], LineLen(t, r)) = p[2]
  BY <1>5 DEF Least
<1>7. LineCount(t) \in Nat /\ ~(r >= LineCount(t))
  <2>1. LineCount(t) \in Nat
    BY RanksAre
  <2> QED BY <1>2, <2>1
<1>8. StartOf(t, r) = s
  BY <1>3, StartIs DEF IsRow
<1>9. CursorToByte(t, p) = Off(t, s) + Off(Line(t, r), k)
  BY <1>2, <1>6, <1>7, <1>8 DEF CursorToByte, Off
<1>10. k \in 0..(e - s) /\ s + k \in 0..Len(t) /\ Off(t, s + k) = Off(t, s) + Off(Line(t, r), k)
  BY <1>2, <1>3, <1>4, RowsPlaces
<1>11. CursorToByte(t, p) = Off(t, s + k)
  BY <1>9, <1>10
<1>12. Off(t, s + k) \in Boundaries(t)
  BY <1>10, BoundariesAre
<1>13. ByteToCursor(t, Off(t, s + k)) = p
  BY <1>2, <1>3, <1>10, CursorOf
<1> QED BY <1>11, <1>12, <1>13

(* An edit that leaves what is before a character leaves its place.          *)
LEMMA SamePrefixes ==
    ASSUME NEW t \in Seq(Nat), NEW u \in Seq(Nat), NEW n \in 0..Len(t), n \in 0..Len(u),
           Prefix(t, n) = Prefix(u, n)
    PROVE  /\ \A m \in 0..n : Off(t, m) = Off(u, m)
           /\ {i \in LineBreaks(t) : i <= n} = {i \in LineBreaks(u) : i <= n}
<1>1. Len(t) \in Nat /\ Len(u) \in Nat /\ n \in Nat
  OBVIOUS
<1>2. ASSUME NEW i \in 1..n PROVE t[i] = u[i]
  <2>1. SubSeq(t, 1, n)[i] = t[i] /\ SubSeq(u, 1, n)[i] = u[i]
    BY <1>1
  <2> QED BY <2>1 DEF Prefix
<1>3. ASSUME NEW m \in 0..n PROVE Off(t, m) = Off(u, m)
  <2>1. m \in 0..Len(t) /\ m \in 0..Len(u)
    BY <1>1
  <2>2. Prefix(t, m) \in Seq(Nat) /\ Len(Prefix(t, m)) = m
        /\ Prefix(u, m) \in Seq(Nat) /\ Len(Prefix(u, m)) = m
    BY <2>1, PrefixesAre
  <2>3. ASSUME NEW i \in 1..m PROVE Prefix(t, m)[i] = Prefix(u, m)[i]
    <3>1. SubSeq(t, 1, m)[i] = t[i] /\ SubSeq(u, 1, m)[i] = u[i]
      BY <1>1
    <3>2. t[i] = u[i]
      BY <1>1, <1>2
    <3> QED BY <3>1, <3>2 DEF Prefix
  <2>4. Prefix(t, m) = Prefix(u, m)
    BY <2>2, <2>3, SeqEqual
  <2> QED BY <2>4 DEF Off
<1>4. {i \in LineBreaks(t) : i <= n} = {i \in LineBreaks(u) : i <= n}
  <2>1. ASSUME NEW i, i <= n PROVE i \in LineBreaks(t) <=> i \in LineBreaks(u)
    <3>1. i \in 1..Len(t) /\ i <= n <=> i \in 1..n
      BY <1>1, <2>1
    <3>2. i \in 1..Len(u) /\ i <= n <=> i \in 1..n
      BY <1>1, <2>1
    <3> QED BY <1>2, <2>1, <3>1, <3>2 DEF LineBreaks
  <2> QED BY <2>1
<1> QED BY <1>3, <1>4

LEMMA EditBefore ==
    ASSUME NEW t \in Seq(Nat), NEW u \in Seq(Nat), NEW n \in 0..Len(t), n \in 0..Len(u),
           Prefix(t, n) = Prefix(u, n)
    PROVE  ByteToCursor(t, Off(t, n)) = ByteToCursor(u, Off(u, n))
<1>1. Off(t, n) = Off(u, n) /\ Rank(t, n) = Rank(u, n) /\ Len(t) \in Nat /\ Len(u) \in Nat
  <2>1. /\ Off(t, n) = Off(u, n)
        /\ {i \in LineBreaks(t) : i <= n} = {i \in LineBreaks(u) : i <= n}
    BY SamePrefixes
  <2>2. Rank(t, n) = Rank(u, n)
    BY <2>1 DEF Rank
  <2>3. Len(t) \in Nat /\ Len(u) \in Nat
    OBVIOUS
  <2> QED BY <2>1, <2>2, <2>3
<1>2. PICK s \in 0..n : Starts(t, Rank(t, n), s)
  BY RowOf
<1>3. s \in 0..Len(t) /\ s \in 0..Len(u) /\ (s = 0 \/ s \in LineBreaks(t)) /\ Rank(t, s) = Rank(t, n)
      /\ s \in 0..Len(t) /\ s <= n
  BY <1>1, <1>2 DEF Starts
<1>4. s = 0 \/ s \in LineBreaks(u)
  BY <1>3, SamePrefixes
<1>5. Rank(u, s) = Rank(u, n)
  <2>1. {i \in LineBreaks(t) : i <= n} = {i \in LineBreaks(u) : i <= n}
    BY SamePrefixes
  <2>2. \A i \in LineBreaks(t) : i \in Int
    BY DEF LineBreaks
  <2>3. \A i \in LineBreaks(u) : i \in Int
    BY DEF LineBreaks
  <2>4. \A i \in Int : i <= s => i <= n
    BY <1>3
  <2>5. {i \in LineBreaks(t) : i <= s} = {i \in LineBreaks(u) : i <= s}
    BY <2>1, <2>2, <2>3, <2>4
  <2> QED BY <1>1, <1>3, <2>5 DEF Rank
<1>6. Starts(u, Rank(u, n), s)
  BY <1>3, <1>4, <1>5 DEF Starts
<1>7. StartOf(t, Rank(t, n)) = s /\ StartOf(u, Rank(u, n)) = s /\ Off(t, s) = Off(u, s)
  BY <1>2, <1>3, <1>6, StartIs, SamePrefixes
<1>8. ByteToCursor(t, Off(t, n)) = <<Rank(t, n), Off(t, n) - Off(t, StartOf(t, Rank(t, n)))>>
  BY CursorByRank
<1>9. ByteToCursor(u, Off(u, n)) = <<Rank(u, n), Off(u, n) - Off(u, StartOf(u, Rank(u, n)))>>
  BY CursorByRank
<1> QED BY <1>1, <1>7, <1>8, <1>9

(* The width of a character is what it adds to the place.                    *)
LEMMA NextOff ==
    ASSUME NEW t \in Seq(Nat), NEW n \in 1..Len(t)
    PROVE  Off(t, n) = Off(t, n - 1) + Width(t[n])
<1>1. Len(t) \in Nat /\ t[n] \in Nat /\ n - 1 \in 0..Len(t) /\ n \in Int
  OBVIOUS
<1> DEFINE s == <<t[n]>>
<1>2. s \in Seq(Nat) /\ Len(s) = 1 /\ s[1] = t[n]
  BY <1>1
<1>3. Bytes(s) = Width(t[n])
  <2> DEFINE w == Width(t[n])
  <2> DEFINE f == [i \in 0..1 |-> IF i = 0 THEN 0 ELSE w]
  <2>1. w \in Nat
    BY <1>1, Widths
  <2> HIDE DEF w
  <2>2. f[0] = 0 /\ f[1] = w /\ \A i \in 0..1 : f[i] \in Nat
    BY <2>1
  <2>3. Width(s[1]) = w
    BY <1>2 DEF w
  <2> HIDE DEF s, f
  <2>4. \A i \in 1..1 : i = 1
    OBVIOUS
  <2>5. 0 + w = w
    BY <2>1
  <2>6. Sums(f, s)
    BY <1>2, <2>2, <2>3, <2>4, <2>5 DEF Sums
  <2>7. Bytes(s) = f[Len(s)]
    BY <1>2, <2>6, SumsAre
  <2> QED BY <1>2, <2>2, <2>7 DEF w
<1> DEFINE p == Prefix(t, n - 1)
<1>4. p \in Seq(Nat) /\ Bytes(p) \in Nat
  BY <1>1, PrefixesAre DEF Off
<1>5. Prefix(t, n) = p \o s
  <2>1. SubSeq(t, 1, n) = SubSeq(t, 1, n - 1) \o <<t[n]>>
    <3>1. 1 \in 1..Len(t)
      BY <1>1
    <3> QED BY <3>1, SubSeqRecursiveSecond
  <2> QED BY <2>1 DEF Prefix
<1> HIDE DEF p, s
<1>6. Bytes(p \o s) = Bytes(p) + Bytes(s)
  BY <1>2, <1>4, JoinedBytes
<1> QED BY <1>3, <1>5, <1>6 DEF Off, p

LEMMA ReplacedAfter ==
    ASSUME NEW t \in Seq(Nat), NEW new \in Seq(Nat), NEW n \in 0..Len(t), NEW j \in 0..Len(t)
    PROVE  LET u == Replaced(t, Off(t, n), Off(t, j), new) IN
           u \in Seq(Nat) /\ n \in 0..Len(u) /\ Prefix(u, n) = Prefix(t, n)
<1> DEFINE p == Prefix(t, n)
<1> DEFINE s == SubSeq(t, j + 1, Len(t))
<1>1. p \in Seq(Nat) /\ s \in Seq(Nat) /\ Len(p) = n
  BY PrefixesAre
<1>2. Replaced(t, Off(t, n), Off(t, j), new) = p \o new \o s
  BY CharOfABoundary DEF Replaced
<1> HIDE DEF p, s
<1> DEFINE q == new \o s
<1>3. q \in Seq(Nat)
  BY <1>1, JoinedBytes
<1>4. (p \o new) \o s = p \o q
  BY <1>1, Regroups
<1> HIDE DEF q
<1>5. p \o q \in Seq(Nat) /\ n \in 0..Len(p \o q) /\ Prefix(p \o q, n) = p
  <2>1. p \o q \in Seq(Nat)
    BY <1>1, <1>3, JoinedBytes
  <2>2. Len(p) \in 0..Len(p \o q) /\ Prefix(p \o q, Len(p)) = p
    BY <1>1, <1>3, JoinedPrefix
  <2> QED BY <1>1, <2>1, <2>2
<1>6. Replaced(t, Off(t, n), Off(t, j), new) = p \o q
  BY <1>2, <1>4
<1> QED BY <1>5, <1>6 DEF p

(* What is removed after a place leaves it.                                  *)
LEMMA RemovalKeepsPlaces ==
    ASSUME NEW t \in Seq(Nat), NEW from, NEW to, IsPlace(t, from), IsPlace(t, to)
    PROVE  LET u == Replaced(t, CursorToByte(t, from), CursorToByte(t, to), <<>>) IN
           u \in Seq(Nat) /\ IsPlace(u, from)
<1>1. PICK n \in 0..Len(t) : CursorToByte(t, from) = Off(t, n)
  BY PlaceIsACursor, BoundariesAre
<1>2. PICK j \in 0..Len(t) : CursorToByte(t, to) = Off(t, j)
  BY PlaceIsACursor, BoundariesAre
<1> DEFINE u == Replaced(t, Off(t, n), Off(t, j), <<>>)
<1>3. u \in Seq(Nat) /\ n \in 0..Len(u) /\ Prefix(u, n) = Prefix(t, n)
  <2>1. <<>> \in Seq(Nat)
    BY EmptySeq
  <2> QED BY <2>1, ReplacedAfter
<1> HIDE DEF u
<1>4. ByteToCursor(u, Off(u, n)) = from
  <2>1. ByteToCursor(u, Off(u, n)) = ByteToCursor(t, Off(t, n))
    BY <1>3, EditBefore
  <2>2. ByteToCursor(t, CursorToByte(t, from)) = from
    BY PlaceIsACursor
  <2> QED BY <1>1, <2>1, <2>2
<1>5. IsPlace(u, from)
  <2>1. Off(u, n) \in Boundaries(u)
    BY <1>3, BoundariesAre
  <2> QED BY <1>3, <1>4, <2>1, CursorIsAPlace
<1> QED BY <1>1, <1>2, <1>3, <1>5 DEF u

(* The places that the moves of the cursor aim at.                           *)
LEMMA PlacesAre ==
    ASSUME NEW t \in Seq(Nat), NEW p, NEW r, NEW k, PlaceAt(t, p, r, k)
    PROVE  /\ IsPlace(t, p) /\ p[1] = r /\ p[2] = Off(Line(t, r), k) /\ p = <<p[1], p[2]>>
           /\ p[1] \in Nat /\ p[1] < LineCount(t)
           /\ p[2] \in Nat /\ LineLen(t, r) \in Nat /\ p[2] <= LineLen(t, r)
           /\ (p[2] >= LineLen(t, r) <=> k = Len(Line(t, r))) /\ (p[2] = 0 <=> k = 0)
           /\ ClampCursor(t, p) = p
<1> DEFINE l == Line(t, r)
<1>1. r \in Nat /\ r < LineCount(t) /\ k \in 0..Len(l) /\ p = <<r, Off(l, k)>>
  BY DEF PlaceAt
<1>2. l \in Seq(Nat) /\ LineLen(t, r) = Bytes(l)
  BY <1>1, LinesAre
<1>3. p[1] = r /\ p[2] = Off(l, k) /\ p = <<p[1], p[2]>>
  BY <1>1
<1> HIDE DEF l
<1>4. Off(l, k) \in Nat /\ Bytes(l) \in Nat /\ Off(l, Len(l)) = Bytes(l) /\ Len(l) \in 0..Len(l)
      /\ Off(l, 0) = 0 /\ 0 \in 0..Len(l)
  BY <1>1, <1>2, PrefixesAre, SomeBytes, Ends
<1>5. (Off(l, k) <= Off(l, Len(l)) <=> k <= Len(l)) /\ (Off(l, Len(l)) <= Off(l, k) <=> Len(l) <= k)
      /\ (Off(l, k) <= Off(l, 0) <=> k <= 0)
  BY <1>1, <1>2, <1>4, OneCharOfAPlace
<1>6. p[2] \in Nat /\ LineLen(t, r) \in Nat /\ p[2] <= LineLen(t, r)
      /\ (p[2] >= LineLen(t, r) <=> k = Len(l)) /\ (p[2] = 0 <=> k = 0)
  BY <1>1, <1>2, <1>3, <1>4, <1>5
<1>7. k \in Nat
  BY <1>1
<1>8. LineCount(t) \in Nat
  BY RanksAre
<1>9. Least(r, LineCount(t) - 1) = r /\ Least(p[2], LineLen(t, r)) = p[2]
  BY <1>1, <1>6, <1>8 DEF Least
<1>10. ClampCursor(t, p) = p
  <2>1. ClampCursor(t, p) = <<r, p[2]>>
    BY <1>3, <1>9 DEF ClampCursor
  <2> QED BY <1>3, <2>1
<1>11. IsPlace(t, p)
  BY <1>1, <1>7 DEF IsPlace
<1> QED BY <1>1, <1>3, <1>6, <1>10, <1>11 DEF l

LEMMA LineEnds ==
    ASSUME NEW t \in Seq(Nat), NEW r \in Nat, r < LineCount(t)
    PROVE  IsPlace(t, <<r, 0>>) /\ IsPlace(t, <<r, LineLen(t, r)>>)
<1> DEFINE l == Line(t, r)
<1>1. l \in Seq(Nat) /\ LineLen(t, r) = Bytes(l) /\ Len(l) \in Nat
  BY LinesAre
<1>2. Off(l, 0) = 0 /\ Off(l, Len(l)) = Bytes(l) /\ Len(l) \in 0..Len(l) /\ 0 \in 0..Len(l)
  BY <1>1, Ends
<1>3. PlaceAt(t, <<r, 0>>, r, 0) /\ PlaceAt(t, <<r, LineLen(t, r)>>, r, Len(l))
  BY <1>1, <1>2 DEF PlaceAt
<1> QED BY <1>1, <1>3 DEF IsPlace

LEMMA TopIsAPlace == ASSUME NEW t \in Seq(Nat) PROVE IsPlace(t, Zero)
  BY LineEnds, RanksAre DEF Zero

LEMMA Graphemes ==
    ASSUME buffer \in Seq(Nat), NEW p, IsPlace(buffer, p)
    PROVE  /\ IsPlace(buffer, NextGrapheme(p)) /\ IsPlace(buffer, PrevGrapheme(p))
           /\ IsPlace(buffer, NextWord(p)) /\ IsPlace(buffer, PrevWord(p))
           /\ IsPlace(buffer, <<p[1], 0>>) /\ IsPlace(buffer, <<p[1], LineLen(buffer, p[1])>>)
<1>1. PICK r \in Nat, k \in Nat : PlaceAt(buffer, p, r, k)
  BY DEF IsPlace
<1> DEFINE l == Line(buffer, r)
<1>2. /\ p[1] = r /\ p[2] = Off(l, k) /\ r < LineCount(buffer)
      /\ (p[2] >= LineLen(buffer, r) <=> k = Len(l)) /\ (p[2] = 0 <=> k = 0)
  BY <1>1, PlacesAre
<1>3. k \in 0..Len(l) /\ l \in Seq(Nat) /\ Len(l) \in Nat
      /\ (\A i \in 1..Len(l) : l[i] # LF /\ Width(l[i]) = l[i])
  BY <1>1, <1>2, LinesAre DEF PlaceAt, Width
<1>4. IsPlace(buffer, <<r, 0>>) /\ IsPlace(buffer, <<r, LineLen(buffer, r)>>)
  BY <1>2, LineEnds
<1>5. r + 1 < LineCount(buffer) => IsPlace(buffer, <<r + 1, 0>>)
  <2> DEFINE q == r + 1
  <2>1. q \in Nat
    OBVIOUS
  <2> HIDE DEF q
  <2>2. q < LineCount(buffer) => IsPlace(buffer, <<q, 0>>)
    BY <2>1, LineEnds
  <2> QED BY <2>2 DEF q
<1>6. r > 0 => IsPlace(buffer, <<r - 1, LineLen(buffer, r - 1)>>)
  <2> HAVE r > 0
  <2> DEFINE q == r - 1
  <2>1. q \in Nat /\ q < LineCount(buffer)
    BY <1>2, RanksAre
  <2> HIDE DEF q
  <2>2. IsPlace(buffer, <<q, LineLen(buffer, q)>>)
    BY <2>1, LineEnds
  <2> QED BY <2>2 DEF q
<1>7. ByteToChar(l, p[2]) = k
  BY <1>2, <1>3, CharOfABoundary
<1>8. IsPlace(buffer, NextGrapheme(p))
  <2>1. CASE k = Len(l)
    BY <1>1, <1>2, <1>5, <2>1 DEF NextGrapheme
  <2>2. CASE k # Len(l)
    <3> DEFINE h == k + 1
    <3>1. h \in 1..Len(l) /\ h \in 0..Len(l) /\ h \in Nat /\ h - 1 = k
      BY <1>3, <2>2
    <3> HIDE DEF h
    <3>2. Off(l, h) = Off(l, k) + l[h]
      BY <1>3, <3>1, NextOff
    <3>3. NextGrapheme(p) = <<r, Off(l, h)>>
      BY <1>2, <1>7, <2>2, <3>2 DEF NextGrapheme, h
    <3> HIDE DEF l
    <3>4. PlaceAt(buffer, NextGrapheme(p), r, h)
      BY <1>2, <3>1, <3>3 DEF PlaceAt, l
    <3> QED BY <3>1, <3>4 DEF IsPlace
  <2> QED BY <2>1, <2>2
<1>9. IsPlace(buffer, PrevGrapheme(p))
  <2>1. CASE k = 0
    BY <1>1, <1>2, <1>6, <2>1 DEF PrevGrapheme
  <2>2. CASE k # 0
    <3> DEFINE h == k - 1
    <3>1. h \in 0..Len(l) /\ h \in Nat /\ k \in 1..Len(l)
      BY <1>3, <2>2
    <3> HIDE DEF h
    <3>2. Off(l, k) = Off(l, h) + l[k] /\ Off(l, h) \in Nat /\ l[k] \in Nat
      <4>1. Off(l, k) = Off(l, k - 1) + Width(l[k])
        BY <1>3, <3>1, NextOff
      <4>2. Width(l[k]) = l[k] /\ l[k] \in Nat
        BY <1>3, <3>1
      <4>3. Off(l, h) \in Nat
        BY <1>3, <3>1, PrefixesAre
      <4> QED BY <4>1, <4>2, <4>3 DEF h
    <3>3. p[2] - l[k] = Off(l, h)
      BY <1>2, <3>2
    <3>4. PrevGrapheme(p) = <<r, Off(l, h)>>
      BY <1>2, <1>7, <2>2, <3>3 DEF PrevGrapheme
    <3> HIDE DEF l
    <3>5. PlaceAt(buffer, PrevGrapheme(p), r, h)
      BY <1>2, <3>1, <3>4 DEF PlaceAt, l
    <3> QED BY <3>1, <3>5 DEF IsPlace
  <2> QED BY <2>1, <2>2
<1>10. IsPlace(buffer, NextWord(p)) /\ IsPlace(buffer, PrevWord(p))
  BY <1>2, <1>4, <1>8, <1>9 DEF NextWord, PrevWord
<1> QED BY <1>2, <1>4, <1>8, <1>9, <1>10

(***************************************************************************)
(* The cursor and the anchor are places of the buffer.                     *)
(***************************************************************************)
EditorInv ==
    /\ buffer \in Seq(Nat) /\ file \in Seq(Nat)
    /\ IsPlace(buffer, caret)
    /\ selAnchor = NoSelection \/ IsPlace(buffer, selAnchor)
    /\ loading => caret = Zero /\ selAnchor = NoSelection

(* They are two numbers, so a place is never the mark of no selection.       *)
LEMMA PlacesArePositions ==
    ASSUME buffer \in Seq(Nat), NEW p, IsPlace(buffer, p)
    PROVE  IsPosition(p) /\ ClampCursor(buffer, p) = p /\ p[1] \in Nat /\ p[2] \in Nat
           /\ p = <<p[1], p[2]>> /\ p[1] < LineCount(buffer)
<1>1. PICK r \in Nat, k \in Nat : PlaceAt(buffer, p, r, k)
  BY DEF IsPlace
<1> QED BY <1>1, PlacesAre DEF IsPosition

LEMMA MoveCursorKeeps ==
    ASSUME EditorInv, NEW p, IsPlace(buffer, p), NEW extend, MoveCursor(p, extend)
    PROVE  EditorInv'
<1>1. caret' = p /\ buffer' = buffer /\ file' = file /\ ~loading'
  BY PlacesArePositions DEF MoveCursor, EditorInv, Ready
<1>2. selAnchor' = NoSelection \/ IsPlace(buffer, selAnchor')
  BY DEF MoveCursor, EditorInv
<1> QED BY <1>1, <1>2 DEF EditorInv

LEMMA MovesToKeeps ==
    ASSUME EditorInv, NEW p, IsPlace(buffer, p), NEW extend, MovesTo(p, extend)
    PROVE  EditorInv'
  BY MoveCursorKeeps DEF MovesTo

LEMMA SelectionEndsArePlaces ==
    ASSUME EditorInv
    PROVE  /\ HasSelectedText => IsPlace(buffer, SelectionStart) /\ IsPlace(buffer, SelectionEnd)
           /\ SelectionBytes[1] \in Boundaries(buffer) /\ SelectionBytes[2] \in Boundaries(buffer)
<1>1. HasSelectedText => IsPlace(buffer, SelectionStart) /\ IsPlace(buffer, SelectionEnd)
  BY DEF EditorInv, HasSelectedText, SelectionStart, SelectionEnd
<1>2. CASE HasSelectedText
  <2>1. CursorToByte(buffer, SelectionStart) \in Boundaries(buffer)
        /\ CursorToByte(buffer, SelectionEnd) \in Boundaries(buffer)
    BY <1>1, <1>2, PlaceIsACursor DEF EditorInv
  <2> QED BY <1>1, <1>2, <2>1 DEF SelectionBytes
<1>3. CASE ~HasSelectedText
  <2>1. CursorToByte(buffer, caret) \in Boundaries(buffer)
    BY PlaceIsACursor DEF EditorInv
  <2> QED BY <1>3, <2>1 DEF SelectionBytes
<1> QED BY <1>2, <1>3, <1>1

(* Typing replaces the selection and leaves the cursor after what is typed.  *)
LEMMA TypingKeeps ==
    ASSUME EditorInv, NEW new \in Seq(Nat), EditorInsertText(new)
    PROVE  EditorInv'
<1> DEFINE at == SelectionBytes[1]
<1> DEFINE rest == Replaced(buffer, at, SelectionBytes[2], <<>>)
<1>1. /\ ~loading' /\ file' = file
      /\ buffer' = Replaced(rest, at, at, new)
      /\ caret' = ByteToCursor(buffer', at + Bytes(new))
      /\ selAnchor' = NoSelection
  BY DEF EditorInsertText, Ready
<1>2. at \in Boundaries(buffer) /\ SelectionBytes[2] \in Boundaries(buffer) /\ buffer \in Seq(Nat)
      /\ <<>> \in Seq(Nat)
  BY SelectionEndsArePlaces, EmptySeq DEF EditorInv
<1>3. rest \in Seq(Nat) /\ at \in Boundaries(rest)
  BY <1>2, Replacing
<1> HIDE DEF rest, at
<1>4. buffer' \in Seq(Nat) /\ at + Bytes(new) \in Boundaries(buffer')
  BY <1>1, <1>3, Replacing
<1>5. IsPlace(buffer', caret')
  BY <1>1, <1>4, CursorIsAPlace
<1> QED BY <1>1, <1>4, <1>5 DEF EditorInv

LEMMA DeleteSelectionKeeps ==
    ASSUME EditorInv, HasSelectedText, DeleteSelection, file' = file, loading' = loading, Ready
    PROVE  EditorInv'
<1>1. IsPlace(buffer, SelectionStart) /\ IsPlace(buffer, SelectionEnd) /\ buffer \in Seq(Nat)
  BY SelectionEndsArePlaces DEF EditorInv
<1>2. buffer' = Replaced(buffer, CursorToByte(buffer, SelectionStart),
                         CursorToByte(buffer, SelectionEnd), <<>>)
      /\ caret' = SelectionStart /\ selAnchor' = NoSelection
  BY DEF DeleteSelection, SelectionBytes
<1>3. buffer' \in Seq(Nat) /\ IsPlace(buffer', caret')
  BY <1>1, <1>2, RemovalKeepsPlaces
<1> QED BY <1>2, <1>3 DEF EditorInv, Ready

LEMMA RemovesKeeps ==
    ASSUME EditorInv, NEW from, NEW to, IsPlace(buffer, from), IsPlace(buffer, to), Removes(from, to)
    PROVE  EditorInv'
<1>1. Ready /\ file' = file /\ loading' = loading /\ buffer \in Seq(Nat)
  BY DEF Removes, EditorInv
<1>2. CASE HasSelectedText
  <2>1. DeleteSelection
    BY <1>2 DEF Removes
  <2> QED BY <1>1, <1>2, <2>1, DeleteSelectionKeeps
<1>3. CASE ~HasSelectedText /\ from = to
  BY <1>1, <1>3 DEF Removes, EditorInv, ClearsAnchor
<1>4. CASE ~HasSelectedText /\ from # to
  <2>1. /\ buffer' = Replaced(buffer, CursorToByte(buffer, from), CursorToByte(buffer, to), <<>>)
        /\ caret' = from /\ selAnchor' = NoSelection
    BY <1>4 DEF Removes, ClearsAnchor
  <2>2. buffer' \in Seq(Nat) /\ IsPlace(buffer', caret')
    BY <1>1, <2>1, RemovalKeepsPlaces
  <2> QED BY <1>1, <2>1, <2>2 DEF EditorInv, Ready
<1> QED BY <1>2, <1>3, <1>4

(* Up and down keep a column in bytes, which may be within a character of    *)
(* the row that is reached: that is the next state's to say.                 *)
LEMMA VerticalMoveKeeps ==
    ASSUME EditorInv, NEW dir \in {-1, 1}, NEW extend \in BOOLEAN, VerticalMove(dir, extend),
           CursorIsBetweenCharacters'
    PROVE  EditorInv'
<1> DEFINE row == caret[1] + dir
<1> DEFINE col == IF desired = -1 THEN caret[2] ELSE desired
<1>1. buffer \in Seq(Nat) /\ caret[1] \in Nat /\ LineCount(buffer) \in Nat /\ caret[1] < LineCount(buffer)
  BY PlacesArePositions, RanksAre DEF EditorInv
<1>2. CASE row \in 0..(LineCount(buffer) - 1)
  <2>1. MoveCursor(<<row, Least(col, LineLen(buffer, row))>>, extend)
    BY <1>2 DEF VerticalMove
  <2>2. buffer' = buffer /\ ~loading' /\ file' = file
    BY <2>1 DEF MoveCursor, Ready
  <2> DEFINE q == Least(Least(col, LineLen(buffer, row)), LineLen(buffer, row))
  <2>3. caret' = <<row, q>>
    <3>1. Least(row, LineCount(buffer) - 1) = row
      BY <1>1, <1>2 DEF Least
    <3> QED BY <2>1, <3>1 DEF MoveCursor, ClampCursor
  <2> HIDE DEF row, q
  <2>4. row \in Nat /\ row < LineCount(buffer)
    BY <1>1, <1>2
  <2>5. PICK k \in 0..Len(Line(buffer, row)) : Off(Line(buffer, row), k) = q
    <3>1. caret'[1] = row /\ caret'[2] = q
      BY <2>3
    <3>2. ~IsSplit(caret)'
      BY DEF CursorIsBetweenCharacters
    <3> QED BY <2>2, <2>4, <3>1, <3>2 DEF IsSplit, Off
  <2>6. PlaceAt(buffer, caret', row, k)
    BY <2>3, <2>4, <2>5 DEF PlaceAt
  <2>7. IsPlace(buffer, caret')
    BY <1>1, <2>6, PlacesAre
  <2>8. selAnchor' = NoSelection \/ IsPlace(buffer, selAnchor')
    BY <2>1 DEF MoveCursor, EditorInv
  <2> QED BY <2>2, <2>7, <2>8 DEF EditorInv
<1>3. CASE row \notin 0..(LineCount(buffer) - 1)
  <2>1. MovesTo(IF dir < 0 THEN Zero ELSE <<caret[1], LineLen(buffer, caret[1])>>, FALSE)
    BY <1>3 DEF VerticalMove
  <2>2. IsPlace(buffer, IF dir < 0 THEN Zero ELSE <<caret[1], LineLen(buffer, caret[1])>>)
    BY <1>1, TopIsAPlace, LineEnds
  <2> QED BY <2>1, <2>2, MovesToKeeps
<1> QED BY <1>2, <1>3

LEMMA OtherCursorMovesKeep ==
    ASSUME EditorInv,
           \/ EditorMoveLeft \/ EditorMoveRight \/ EditorSelectLeft \/ EditorSelectRight
           \/ EditorMoveWordLeft \/ EditorMoveWordRight \/ EditorMoveToLineStart \/ EditorMoveToLineEnd
    PROVE  EditorInv'
<1>1. buffer \in Seq(Nat) /\ IsPlace(buffer, caret)
  BY DEF EditorInv
<1>2. /\ IsPlace(buffer, NextGrapheme(caret)) /\ IsPlace(buffer, PrevGrapheme(caret))
      /\ IsPlace(buffer, NextWord(caret)) /\ IsPlace(buffer, PrevWord(caret))
      /\ IsPlace(buffer, <<caret[1], 0>>) /\ IsPlace(buffer, <<caret[1], LineLen(buffer, caret[1])>>)
  BY <1>1, Graphemes
<1>3. HasSelectedText => IsPlace(buffer, SelectionStart) /\ IsPlace(buffer, SelectionEnd)
  BY SelectionEndsArePlaces
<1>4. CASE EditorMoveLeft
  BY <1>2, <1>3, <1>4, MovesToKeeps DEF EditorMoveLeft
<1>5. CASE EditorMoveRight
  BY <1>2, <1>3, <1>5, MovesToKeeps DEF EditorMoveRight
<1>6. CASE EditorSelectLeft \/ EditorSelectRight \/ EditorMoveWordLeft \/ EditorMoveWordRight
  BY <1>2, <1>6, MovesToKeeps
     DEF EditorSelectLeft, EditorSelectRight, EditorMoveWordLeft, EditorMoveWordRight
<1>7. CASE EditorMoveToLineStart \/ EditorMoveToLineEnd
  BY <1>2, <1>7, MovesToKeeps DEF EditorMoveToLineStart, EditorMoveToLineEnd
<1> QED BY <1>4, <1>5, <1>6, <1>7

LEMMA PointedAreCarets ==
    ASSUME buffer \in Seq(Nat), NEW p \in PlacesToPoint
    PROVE  IsPlace(buffer, p)
<1>1. PICK n \in 0..Len(buffer) : p = ByteToCursor(buffer, Bytes(Prefix(buffer, n)))
  BY DEF PlacesToPoint
<1>2. Off(buffer, n) \in Boundaries(buffer)
  BY BoundariesAre
<1> QED BY <1>1, <1>2, CursorIsAPlace DEF Off

LEMMA MouseKeeps ==
    ASSUME EditorInv,
           \/ EditorSelectAll \/ EditorMouseUp
           \/ \E p \in PlacesToPoint : EditorMouseMove(p) \/ \E shift \in BOOLEAN : EditorMouseDown(p, shift)
    PROVE  EditorInv'
<1>1. buffer \in Seq(Nat) /\ \A p \in PlacesToPoint : IsPlace(buffer, p)
  BY PointedAreCarets DEF EditorInv
<1>2. CASE EditorSelectAll
  <2> DEFINE last == LineCount(buffer) - 1
  <2>1. last \in Nat /\ last < LineCount(buffer)
    BY <1>1, RanksAre
  <2>2. IsPlace(buffer, Zero) /\ IsPlace(buffer, <<last, LineLen(buffer, last)>>)
    <3> HIDE DEF last
    <3> QED BY <1>1, <2>1, TopIsAPlace, LineEnds
  <2> QED BY <1>2, <2>2 DEF EditorSelectAll, EditorInv, Ready
<1>3. CASE EditorMouseUp
  BY <1>3 DEF EditorMouseUp, EditorInv
<1>4. ASSUME NEW p \in PlacesToPoint, EditorMouseMove(p) PROVE EditorInv'
  BY <1>1, <1>4, MoveCursorKeeps DEF EditorMouseMove
<1>5. ASSUME NEW p \in PlacesToPoint, NEW shift \in BOOLEAN, EditorMouseDown(p, shift)
      PROVE  EditorInv'
  BY <1>1, <1>5 DEF EditorMouseDown, EditorInv, Ready
<1> QED BY <1>2, <1>3, <1>4, <1>5

LEMMA FilesAreTexts == Files \subseteq Seq(Nat) /\ TypedText \subseteq Seq(Nat)
<1>1. \A t \in Seq(0..4) : t \in Seq(Nat)
  OBVIOUS
<1>2. \A c \in EditorLetters \cup {LF} : c \in Nat
  BY EditorAssumption DEF LF
<1>3. \A c \in Nat : <<c>> \in Seq(Nat)
  OBVIOUS
<1> QED BY <1>1, <1>2, <1>3, EditorAssumption DEF TypedText

LEMMA FileKeeps ==
    ASSUME EditorInv, ReadsFile \/ SaveFile
    PROVE  EditorInv'
<1>1. CASE ReadsFile
  <2>1. buffer' = file /\ caret' = Zero /\ selAnchor' = NoSelection /\ file' = file /\ file \in Seq(Nat)
    BY <1>1 DEF ReadsFile, Loads, EditorInv
  <2>2. IsPlace(file, Zero)
    BY <2>1, TopIsAPlace
  <2> QED BY <2>1, <2>2 DEF EditorInv
<1>2. CASE SaveFile
  <2>1. file' \in Seq(Nat)
    BY <1>2, EmptySeq DEF SaveFile, EditorInv
  <2> QED BY <1>2, <2>1 DEF SaveFile, EditorInv
<1> QED BY <1>1, <1>2

MovesVertically == \E dir \in {-1, 1}, extend \in BOOLEAN : VerticalMove(dir, extend)

LEMMA EditorStays ==
    ASSUME EditorInv, [EditorNext]_editorVars, MovesVertically => CursorIsBetweenCharacters'
    PROVE  EditorInv'
<1>1. ASSUME NEW new \in TypedText, EditorInsertText(new) PROVE EditorInv'
  BY <1>1, FilesAreTexts, TypingKeeps
<1>2. CASE EditorCut
  BY <1>2, DeleteSelectionKeeps DEF EditorCut
<1>3. CASE EditorBackspace \/ EditorDelete
  <2>1. IsPlace(buffer, caret) /\ IsPlace(buffer, PrevGrapheme(caret)) /\ IsPlace(buffer, NextGrapheme(caret))
    BY Graphemes DEF EditorInv
  <2> QED BY <1>3, <2>1, RemovesKeeps DEF EditorBackspace, EditorDelete
<1>4. CASE UNCHANGED editorVars
  BY <1>4 DEF editorVars, EditorInv
<1>5. CASE MovesVertically
  BY <1>5, VerticalMoveKeeps DEF MovesVertically
<1> QED
  BY <1>1, <1>2, <1>3, <1>4, <1>5, FileKeeps, OtherCursorMovesKeep, MouseKeeps DEF EditorNext, MovesVertically

(* Until the cursor first stands within a character, where the next move of  *)
(* it panics, it and the anchor of the selection stay places of the buffer.  *)
THEOREM SelectionStays == EditorSpec /\ []CursorIsBetweenCharacters => []SelectionIsInTheText
<1>1. EditorInit => EditorInv
  <2> SUFFICES ASSUME EditorInit PROVE EditorInv
    OBVIOUS
  <2>1. <<>> \in Seq(Nat) /\ file \in Seq(Nat)
    BY EmptySeq, FilesAreTexts DEF EditorInit
  <2> QED BY <2>1, TopIsAPlace DEF EditorInit, EditorInv
<1>2. EditorInv /\ [EditorNext]_editorVars /\ CursorIsBetweenCharacters' => EditorInv'
  BY EditorStays
<1>3. EditorInv => SelectionIsInTheText
  BY PlacesArePositions DEF EditorInv, SelectionIsInTheText
<1> QED BY <1>1, <1>2, <1>3, PTL DEF EditorSpec

(***************************************************************************)
(* When all letters have one width, so have all columns.                   *)
(***************************************************************************)
OneWidth(w) == w \in 1..4 /\ EditorLetters \subseteq {w} /\ Files \subseteq Seq({LF, w})

ColumnInv(w) ==
    /\ EditorInv
    /\ buffer \in Seq({LF, w}) /\ file \in Seq({LF, w})
    /\ desired = -1 \/ \E m \in Nat : desired = m * w

LEMMA ReplacedIn ==
    ASSUME NEW S \in SUBSET Nat, NEW t \in Seq(S), NEW new \in Seq(S), t \in Seq(Nat),
           NEW from \in Boundaries(t), NEW to \in Boundaries(t)
    PROVE  Replaced(t, from, to, new) \in Seq(S)
<1>1. from \in Nat /\ to \in Nat
  BY BoundariesAre
<1> DEFINE i == ByteToChar(t, from)
<1> DEFINE j == ByteToChar(t, to)
<1>2. i \in 0..Len(t) /\ j \in 0..Len(t) /\ Len(t) \in Nat
  BY <1>1, CharsAt
<1> HIDE DEF i, j
<1> DEFINE p == SubSeq(t, 1, i)
<1> DEFINE s == SubSeq(t, j + 1, Len(t))
<1>3. p \in Seq(S)
  BY <1>2
<1>4. s \in Seq(S)
  <2> DEFINE m == j + 1
  <2>1. m \in Int /\ Len(t) \in Int /\ \A k \in m..Len(t) : t[k] \in S
    BY <1>2
  <2> HIDE DEF m
  <2>2. SubSeq(t, m, Len(t)) \in Seq(S)
    BY <2>1, SubSeqProperties
  <2> QED BY <2>2 DEF m
<1> HIDE DEF p, s
<1>5. p \o new \in Seq(S)
  BY <1>3, ConcatProperties
<1> DEFINE q == p \o new
<1> HIDE DEF q
<1>6. q \o s \in Seq(S)
  BY <1>4, <1>5, ConcatProperties DEF q
<1> QED BY <1>6 DEF Replaced, Prefix, p, q, s, i, j

LEMMA EvenOffs ==
    ASSUME NEW l \in Seq(Nat), NEW w \in Nat, \A k \in 1..Len(l) : Width(l[k]) = w,
           NEW n \in 0..Len(l)
    PROVE  Off(l, n) = n * w
<1> DEFINE p == Prefix(l, n)
<1> DEFINE f == [k \in 0..n |-> k * w]
<1>1. p \in Seq(Nat) /\ Len(p) = n /\ n \in Nat /\ Len(l) \in Nat
  BY PrefixesAre
<1>2. ASSUME NEW k \in 1..n PROVE Width(p[k]) = w
  <2>1. SubSeq(l, 1, n)[k] = l[k] /\ k \in 1..Len(l)
    BY <1>1
  <2> QED BY <2>1 DEF Prefix
<1>3. f[0] = 0 /\ \A k \in 0..n : f[k] \in Nat
  OBVIOUS
<1>4. ASSUME NEW k \in 1..n PROVE f[k] = f[k - 1] + w
  <2> DEFINE h == k - 1
  <2>1. h \in 0..n /\ h \in Nat /\ k = h + 1 /\ k \in 0..n
    BY <1>1
  <2> HIDE DEF h
  <2>2. (h + 1) * w = h * w + w
    BY <2>1
  <2>3. f[k] = k * w /\ f[h] = h * w
    BY <2>1
  <2> QED BY <2>1, <2>2, <2>3 DEF h
<1>5. n \in 0..n /\ f[n] = n * w
  BY <1>1
<1> HIDE DEF p, f
<1>6. Sums(f, p)
  BY <1>1, <1>2, <1>3, <1>4 DEF Sums
<1>7. Bytes(p) = f[n]
  BY <1>1, <1>6, SumsAre
<1> QED BY <1>5, <1>7 DEF Off, p

LEMMA EvenLines ==
    ASSUME NEW w \in 1..4, NEW t \in Seq({LF, w}), NEW r \in Nat, t \in Seq(Nat), r < LineCount(t)
    PROVE  \A k \in 0..Len(Line(t, r)) : Off(Line(t, r), k) = k * w
<1> DEFINE l == Line(t, r)
<1>1. PICK s \in 0..Len(t), e \in 0..Len(t) : IsRow(t, r, s, e)
  BY HasRow
<1>2. l \in Seq(Nat) /\ Len(l) = e - s /\ (\A k \in 1..Len(l) : l[k] = t[s + k] /\ l[k] # LF)
  BY <1>1, RowsPlaces
<1>3. s \in Nat /\ e \in Nat /\ Len(t) \in Nat /\ e <= Len(t)
  OBVIOUS
<1> HIDE DEF l
<1>4. ASSUME NEW k \in 1..Len(l) PROVE Width(l[k]) = w
  <2> DEFINE i == s + k
  <2>1. i \in 1..Len(t)
    BY <1>2, <1>3
  <2> HIDE DEF i
  <2>2. t[i] \in {LF, w}
    BY <2>1
  <2>3. l[k] = w
    BY <1>2, <2>2 DEF i
  <2> QED BY <1>2, <2>3 DEF Width
<1>5. w \in Nat
  OBVIOUS
<1> QED BY <1>2, <1>4, <1>5, EvenOffs DEF l

LEMMA LeastOfMultiples ==
    ASSUME NEW w \in 1..4, NEW m \in Nat, NEW k \in Nat
    PROVE  Least(m * w, k * w) = Least(m, k) * w
<1>1. CASE w = 1
  BY <1>1 DEF Least
<1>2. CASE w = 2
  BY <1>2 DEF Least
<1>3. CASE w = 3
  BY <1>3 DEF Least
<1>4. CASE w = 4
  BY <1>4 DEF Least
<1> QED BY <1>1, <1>2, <1>3, <1>4

(* No slice of a line at a place splits a character.                         *)
LEMMA PlacesAreNotSplit == ASSUME EditorInv PROVE CursorIsBetweenCharacters
<1>1. PICK r \in Nat, k \in Nat : PlaceAt(buffer, caret, r, k)
  BY DEF EditorInv, IsPlace
<1>2. caret[1] = r /\ caret[2] = Off(Line(buffer, r), k) /\ k \in 0..Len(Line(buffer, r))
  BY <1>1, PlacesAre DEF EditorInv, PlaceAt
<1> QED BY <1>2 DEF CursorIsBetweenCharacters, IsSplit, Off

LEMMA PlacesStayWhole == EditorInv' => CursorIsBetweenCharacters'
  BY PlacesAreNotSplit, PTL

(* So a column that is kept is between two characters of every row.          *)
LEMMA ColumnsMeet ==
    ASSUME NEW w \in 1..4, ColumnInv(w), MovesVertically
    PROVE  CursorIsBetweenCharacters' /\ (desired' = -1 \/ \E m \in Nat : desired' = m * w)
<1>1. PICK dir \in {-1, 1}, extend \in BOOLEAN : VerticalMove(dir, extend)
  BY DEF MovesVertically
<1> DEFINE row == caret[1] + dir
<1> DEFINE col == IF desired = -1 THEN caret[2] ELSE desired
<1>2. buffer \in Seq(Nat) /\ buffer \in Seq({LF, w}) /\ IsPlace(buffer, caret) /\ EditorInv
  BY DEF ColumnInv, EditorInv
<1>3. \E m \in Nat : col = m * w
  <2>1. PICK r \in Nat, k \in Nat : PlaceAt(buffer, caret, r, k)
    BY <1>2 DEF IsPlace
  <2>2. caret[2] = Off(Line(buffer, r), k) /\ k \in 0..Len(Line(buffer, r)) /\ r < LineCount(buffer)
    BY <1>2, <2>1, PlacesAre DEF PlaceAt
  <2>3. caret[2] = k * w
    BY <1>2, <2>2, EvenLines
  <2> QED BY <2>3 DEF ColumnInv
<1>4. CASE row \in 0..(LineCount(buffer) - 1)
  <2>1. desired' = col /\ MoveCursor(<<row, Least(col, LineLen(buffer, row))>>, extend)
    BY <1>1, <1>4 DEF VerticalMove
  <2> DEFINE L == LineLen(buffer, row)
  <2>2. LineCount(buffer) \in Nat
    BY <1>2, RanksAre
  <2>3. buffer' = buffer /\ caret' = <<row, Least(Least(col, L), L)>>
    <3>1. Least(row, LineCount(buffer) - 1) = row
      BY <1>4, <2>2 DEF Least
    <3> QED BY <2>1, <3>1 DEF MoveCursor, ClampCursor
  <2>4. PICK m \in Nat : col = m * w
    BY <1>3
  <2> HIDE DEF row, col
  <2>5. row \in Nat /\ row < LineCount(buffer)
    BY <1>4, <2>2
  <2> DEFINE n == Len(Line(buffer, row))
  <2>6. n \in Nat /\ n \in 0..n /\ L = n * w
    <3>1. Line(buffer, row) \in Seq(Nat) /\ L = Bytes(Line(buffer, row))
      BY <1>2, <2>5, LinesAre
    <3>2. Off(Line(buffer, row), n) = Bytes(Line(buffer, row)) /\ n \in 0..n
      BY <3>1, Ends
    <3>3. Off(Line(buffer, row), n) = n * w
      BY <1>2, <2>5, <3>2, EvenLines
    <3> QED BY <3>1, <3>2, <3>3
  <2> DEFINE k == Least(m, n)
  <2> HIDE DEF L
  <2>7. k \in 0..n /\ k \in Nat
    <3> HIDE DEF n
    <3> QED BY <2>4, <2>6 DEF Least
  <2>8. Least(Least(col, L), L) = k * w
    <3> HIDE DEF n
    <3>1. Least(col, L) = k * w
      BY <2>4, <2>6, LeastOfMultiples
    <3> HIDE DEF k
    <3>2. Least(k * w, n * w) = Least(k, n) * w
      BY <2>6, <2>7, LeastOfMultiples
    <3>3. Least(k, n) = k
      BY <2>6, <2>7 DEF Least
    <3> QED BY <2>6, <3>1, <3>2, <3>3
  <2>9. Off(Line(buffer, row), k) = k * w
    BY <1>2, <2>5, <2>7, EvenLines
  <2>10. caret'[1] = row /\ caret'[2] = Off(Line(buffer, row), k)
    BY <2>3, <2>8, <2>9
  <2> HIDE DEF k
  <2>11. CursorIsBetweenCharacters'
    BY <2>3, <2>7, <2>10 DEF CursorIsBetweenCharacters, IsSplit, Off
  <2> QED BY <2>1, <2>4, <2>11
<1>5. CASE row \notin 0..(LineCount(buffer) - 1)
  <2>1. desired' = -1 /\ MovesTo(IF dir < 0 THEN Zero ELSE <<caret[1], LineLen(buffer, caret[1])>>, FALSE)
    BY <1>1, <1>5 DEF VerticalMove, MovesTo
  <2>2. IsPlace(buffer, IF dir < 0 THEN Zero ELSE <<caret[1], LineLen(buffer, caret[1])>>)
    BY <1>2, TopIsAPlace, LineEnds, PlacesArePositions
  <2>3. EditorInv'
    BY <1>2, <2>1, <2>2, MovesToKeeps
  <2>4. CursorIsBetweenCharacters'
    BY <2>3, PlacesStayWhole
  <2> QED BY <2>1, <2>4
<1> QED BY <1>4, <1>5

LEMMA ColumnsStay ==
    ASSUME NEW w \in 1..4, OneWidth(w), ColumnInv(w), [EditorNext]_editorVars
    PROVE  ColumnInv(w)'
<1> DEFINE S == {LF, w}
<1>1. /\ EditorInv /\ buffer \in Seq(Nat) /\ buffer \in Seq(S) /\ file \in Seq(S)
      /\ S \subseteq Nat /\ <<>> \in Seq(S)
  BY EmptySeq DEF ColumnInv, EditorInv, LF
<1>2. \A new \in TypedText : new \in Seq(S) /\ new \in Seq(Nat)
  <2>1. \A c \in EditorLetters \cup {LF} : c \in S
    BY DEF OneWidth
  <2>2. \A c \in S : <<c>> \in Seq(S)
    OBVIOUS
  <2> QED BY <2>1, <2>2, FilesAreTexts DEF TypedText
<1>3. SelectionBytes[1] \in Boundaries(buffer) /\ SelectionBytes[2] \in Boundaries(buffer)
  BY <1>1, SelectionEndsArePlaces
<1> DEFINE Kept == buffer' \in Seq(S) /\ file' \in Seq(S)
                   /\ (desired' = -1 \/ \E m \in Nat : desired' = m * w)
<1>4. desired = -1 \/ \E m \in Nat : desired = m * w
  BY DEF ColumnInv
<1> HIDE DEF S
<1>5. ASSUME NEW new \in TypedText, EditorInsertText(new) PROVE Kept
  <2> DEFINE at == SelectionBytes[1]
  <2> DEFINE rest == Replaced(buffer, at, SelectionBytes[2], <<>>)
  <2>1. buffer' = Replaced(rest, at, at, new) /\ file' = file /\ desired' = -1
    BY <1>5 DEF EditorInsertText
  <2>2. rest \in Seq(S) /\ rest \in Seq(Nat) /\ at \in Boundaries(rest)
    <3>1. <<>> \in Seq(Nat)
      BY EmptySeq
    <3>2. rest \in Seq(S)
      BY <1>1, <1>3, ReplacedIn
    <3> QED BY <1>1, <1>3, <3>1, <3>2, Replacing
  <2> HIDE DEF rest, at
  <2>3. Replaced(rest, at, at, new) \in Seq(S)
    BY <1>1, <1>2, <2>2, ReplacedIn
  <2> QED BY <1>1, <2>1, <2>3
<1>6. ASSUME NEW from \in Boundaries(buffer), NEW to \in Boundaries(buffer),
             buffer' = Replaced(buffer, from, to, <<>>), file' = file,
             desired' = desired \/ desired' = -1
      PROVE  Kept
  <2>1. buffer' \in Seq(S)
    BY <1>1, <1>6, ReplacedIn
  <2> QED BY <1>1, <1>4, <1>6, <2>1
<1>7. ASSUME EditorCut PROVE Kept
  BY <1>3, <1>6, <1>7 DEF EditorCut, DeleteSelection
<1>8. ASSUME NEW from, NEW to, IsPlace(buffer, from), IsPlace(buffer, to), Removes(from, to) PROVE Kept
  <2>1. CursorToByte(buffer, from) \in Boundaries(buffer) /\ CursorToByte(buffer, to) \in Boundaries(buffer)
    BY <1>1, <1>8, PlaceIsACursor
  <2>2. CASE HasSelectedText
    BY <1>3, <1>6, <1>8, <2>2 DEF Removes, DeleteSelection
  <2>3. CASE ~HasSelectedText /\ from = to
    BY <1>1, <1>4, <1>8, <2>3 DEF Removes
  <2>4. CASE ~HasSelectedText /\ from # to
    BY <1>6, <1>8, <2>1, <2>4 DEF Removes
  <2> QED BY <2>2, <2>3, <2>4
<1>9. ASSUME EditorBackspace \/ EditorDelete PROVE Kept
  <2>1. IsPlace(buffer, caret) /\ IsPlace(buffer, PrevGrapheme(caret)) /\ IsPlace(buffer, NextGrapheme(caret))
    BY <1>1, Graphemes DEF EditorInv
  <2> HIDE DEF Kept
  <2> QED BY <1>8, <1>9, <2>1 DEF EditorBackspace, EditorDelete
<1>10. ASSUME ReadsFile \/ SaveFile PROVE Kept
  BY <1>1, <1>4, <1>10 DEF ReadsFile, Loads, SaveFile
<1>11. ASSUME NEW p, NEW extend, MovesTo(p, extend) PROVE Kept
  BY <1>1, <1>11 DEF MovesTo, MoveCursor
<1>12. ASSUME \/ EditorMoveLeft \/ EditorMoveRight \/ EditorSelectLeft \/ EditorSelectRight
              \/ EditorMoveWordLeft \/ EditorMoveWordRight \/ EditorMoveToLineStart \/ EditorMoveToLineEnd
       PROVE  Kept
  <2> HIDE DEF Kept
  <2> QED
    BY <1>11, <1>12
       DEF EditorMoveLeft, EditorMoveRight, EditorSelectLeft, EditorSelectRight, EditorMoveWordLeft,
           EditorMoveWordRight, EditorMoveToLineStart, EditorMoveToLineEnd
<1>13. ASSUME MovesVertically PROVE Kept
  <2>1. buffer' = buffer /\ file' = file
    <3>1. \A p, extend : MoveCursor(p, extend) => buffer' = buffer /\ file' = file
      BY DEF MoveCursor
    <3> QED BY <1>13, <3>1 DEF MovesVertically, VerticalMove, MovesTo
  <2> QED BY <1>1, <1>13, <2>1, ColumnsMeet
<1>14. ASSUME EditorSelectAll \/ EditorMouseUp PROVE Kept
  BY <1>1, <1>4, <1>14 DEF EditorSelectAll, EditorMouseUp
<1>15. ASSUME NEW p, EditorMouseMove(p) \/ \E shift \in BOOLEAN : EditorMouseDown(p, shift) PROVE Kept
  BY <1>1, <1>4, <1>15 DEF EditorMouseMove, MoveCursor, EditorMouseDown
<1>16. ASSUME UNCHANGED editorVars PROVE Kept
  BY <1>1, <1>4, <1>16 DEF editorVars
<1> HIDE DEF Kept
<1>17. Kept
  BY <1>5, <1>7, <1>9, <1>10, <1>12, <1>13, <1>14, <1>15, <1>16 DEF EditorNext, MovesVertically
<1>18. EditorInv'
  BY <1>1, EditorStays, ColumnsMeet
<1> QED BY <1>17, <1>18 DEF ColumnInv, Kept, S

(* With letters of one width, whatever is typed, selected, moved over,       *)
(* removed or loaded, the cursor and the anchor are places of the buffer and *)
(* the cursor never stands within a character.                               *)
THEOREM OneWidthIsSafe ==
    ASSUME NEW w \in 1..4, OneWidth(w)
    PROVE  EditorSpec => [](SelectionIsInTheText /\ CursorIsBetweenCharacters)
<1>1. EditorInit => ColumnInv(w)
  <2> SUFFICES ASSUME EditorInit PROVE ColumnInv(w)
    OBVIOUS
  <2>1. <<>> \in Seq(Nat) /\ <<>> \in Seq({LF, w}) /\ file \in Seq(Nat) /\ file \in Seq({LF, w})
    BY EmptySeq, FilesAreTexts DEF EditorInit, OneWidth
  <2> QED BY <2>1, TopIsAPlace DEF EditorInit, EditorInv, ColumnInv
<1>2. ColumnInv(w) /\ [EditorNext]_editorVars => ColumnInv(w)'
  BY ColumnsStay
<1>3. ColumnInv(w) => SelectionIsInTheText /\ CursorIsBetweenCharacters
  BY PlacesArePositions, PlacesAreNotSplit DEF ColumnInv, EditorInv, SelectionIsInTheText
<1> QED BY <1>1, <1>2, <1>3, PTL DEF EditorSpec

------------------------------------------------------------------------------
(* The panes: paths of leaves, and trees of them.                             *)
Paths == Seq({1, 2})
Leads(p, q) == Len(p) <= Len(q) /\ \A k \in 1..Len(p) : p[k] = q[k]

LEMMA PrefixesLead ==
    ASSUME NEW p \in Paths, NEW q \in Paths
    PROVE  IsPrefix(p, q) <=> Leads(p, q)
<1>1. Len(p) \in Nat /\ Len(q) \in Nat
  BY DEF Paths
<1>2. ASSUME Len(p) <= Len(q)
      PROVE  SubSeq(p, 1, Len(p)) = SubSeq(q, 1, Len(p)) <=> \A k \in 1..Len(p) : p[k] = q[k]
  <2> DEFINE s == SubSeq(q, 1, Len(p))
  <2>1. SubSeq(p, 1, Len(p)) = p
    BY SubSeqFull DEF Paths
  <2>2. s \in Paths /\ Len(s) = Len(p) /\ \A k \in 1..Len(p) : s[k] = q[k]
    BY <1>1, <1>2 DEF Paths
  <2> HIDE DEF s
  <2>3. (\A k \in 1..Len(p) : p[k] = s[k]) => p = s
    BY <2>2, SeqEqual DEF Paths
  <2> QED BY <2>1, <2>2, <2>3 DEF s
<1> QED BY <1>2 DEF IsPrefix, Leads

LEMMA Removed ==
    ASSUME NEW p \in Paths, NEW n \in 1..Len(p)
    PROVE  /\ RemoveAt(p, n) \in Paths /\ Len(RemoveAt(p, n)) = Len(p) - 1
           /\ \A k \in 1..(n - 1) : RemoveAt(p, n)[k] = p[k]
           /\ \A k \in n..(Len(p) - 1) : RemoveAt(p, n)[k] = p[k + 1]
<1> DEFINE a == SubSeq(p, 1, n - 1)
<1> DEFINE b == SubSeq(p, n + 1, Len(p))
<1>1. Len(p) \in Nat /\ n \in Nat /\ n >= 1 /\ n <= Len(p)
  BY DEF Paths
<1>2. a \in Paths /\ Len(a) = n - 1 /\ \A k \in 1..(n - 1) : a[k] = p[k]
  BY <1>1 DEF Paths
<1>3. b \in Paths /\ Len(b) = Len(p) - n /\ \A k \in 1..(Len(p) - n) : b[k] = p[n + k]
  <2> DEFINE m == n + 1
  <2>1. m \in Int /\ Len(p) \in Int /\ \A i \in m..Len(p) : p[i] \in {1, 2}
    BY <1>1 DEF Paths
  <2> DEFINE l == Len(p)
  <2>2. l \in Int /\ m <= l + 1
    BY <1>1
  <2> HIDE DEF m, l
  <2>3. /\ SubSeq(p, m, l) \in Seq({1, 2})
        /\ Len(SubSeq(p, m, l)) = (IF m <= l THEN (l - m) + 1 ELSE 0)
        /\ \A i \in 1..((l - m) + 1) : SubSeq(p, m, l)[i] = p[(m + i) - 1]
    BY <2>1, <2>2, SubSeqProperties DEF l
  <2>4. (l - m) + 1 = Len(p) - n /\ (IF m <= l THEN (l - m) + 1 ELSE 0) = Len(p) - n
    BY <1>1 DEF m, l
  <2>5. \A k \in Int : (m + k) - 1 = n + k
    BY <1>1 DEF m
  <2>6. b = SubSeq(p, m, l)
    BY DEF m, l
  <2> HIDE DEF b
  <2>7. \A k \in 1..(Len(p) - n) : b[k] = p[n + k]
    <3> TAKE k \in 1..(Len(p) - n)
    <3>1. k \in 1..((l - m) + 1)
      BY <2>4
    <3>3. (m + k) - 1 = n + k
      BY <2>5
    <3>2. b[k] = p[(m + k) - 1]
      BY <2>3, <2>6, <3>1
    <3> QED BY <3>2, <3>3
  <2> QED BY <2>3, <2>4, <2>6, <2>7 DEF Paths
<1> HIDE DEF a, b
<1> DEFINE r == a \o b
<1>4. /\ r \in Paths /\ Len(r) = Len(a) + Len(b)
      /\ \A i \in 1..(Len(a) + Len(b)) : r[i] = IF i <= Len(a) THEN a[i] ELSE b[i - Len(a)]
  <2>1. a \in Seq({1, 2}) /\ b \in Seq({1, 2})
    BY <1>2, <1>3 DEF Paths
  <2> QED BY <2>1, ConcatProperties, Zenon DEF Paths
<1>5. RemoveAt(p, n) = r
  BY DEF RemoveAt, a, b
<1> HIDE DEF r
<1>6. Len(r) = Len(p) - 1
  BY <1>1, <1>2, <1>3, <1>4
<1>7. \A k \in 1..(n - 1) : r[k] = p[k]
  BY <1>1, <1>2, <1>3, <1>4
<1>8. ASSUME NEW k \in n..(Len(p) - 1) PROVE r[k] = p[k + 1]
  <2> DEFINE j == k - (n - 1)
  <2>1. j \in 1..(Len(p) - n) /\ n + j = k + 1 /\ k \in 1..(Len(a) + Len(b)) /\ ~(k <= Len(a))
        /\ k - Len(a) = j
    BY <1>1, <1>2, <1>3
  <2>2. r[k] = b[j]
    BY <1>4, <2>1
  <2>3. b[j] = p[n + j]
    BY <1>3, <2>1
  <2> QED BY <2>1, <2>2, <2>3
<1> QED BY <1>4, <1>5, <1>6, <1>7, <1>8

LEMMA Siblings ==
    ASSUME NEW a \in Paths, a # <<>>
    PROVE  /\ Sibling(a) \in Paths /\ Len(Sibling(a)) = Len(a) /\ Len(a) \in Nat /\ Len(a) >= 1
           /\ \A k \in 1..(Len(a) - 1) : Sibling(a)[k] = a[k]
           /\ Sibling(a)[Len(a)] = 3 - a[Len(a)] /\ a[Len(a)] \in {1, 2}
<1>1. Len(a) \in Nat /\ Len(a) >= 1 /\ a[Len(a)] \in {1, 2}
  <2>1. Len(a) \in Nat /\ Len(a) # 0
    BY EmptySeq DEF Paths
  <2> QED BY <2>1 DEF Paths
<1> DEFINE f == SubSeq(a, 1, Len(a) - 1)
<1> DEFINE o == 3 - a[Len(a)]
<1>2. f \in Paths /\ Len(f) = Len(a) - 1 /\ \A k \in 1..(Len(a) - 1) : f[k] = a[k]
  <2> DEFINE l == Len(a) - 1
  <2>1. 1 \in Int /\ l \in Int /\ 1 <= l + 1 /\ \A i \in 1..l : a[i] \in {1, 2}
    BY <1>1 DEF Paths
  <2>8. l \in Nat
    BY <1>1
  <2>3. \A i \in 1..l : (1 + i) - 1 = i
    OBVIOUS
  <2> HIDE DEF l
  <2>2. (IF 1 <= l THEN (l - 1) + 1 ELSE 0) = l /\ (l - 1) + 1 = l
    BY <2>8
  <2>7. a \in Seq({1, 2})
    BY DEF Paths
  <2>4. /\ SubSeq(a, 1, l) \in Seq({1, 2})
        /\ Len(SubSeq(a, 1, l)) = (IF 1 <= l THEN (l - 1) + 1 ELSE 0)
        /\ \A i \in 1..((l - 1) + 1) : SubSeq(a, 1, l)[i] = a[(1 + i) - 1]
    BY <2>1, <2>7, SubSeqProperties
  <2>5. f = SubSeq(a, 1, l)
    BY DEF l
  <2> HIDE DEF f
  <2>6. Len(f) = l /\ \A i \in 1..l : f[i] = a[i]
    BY <2>2, <2>3, <2>4, <2>5
  <2> QED BY <2>4, <2>5, <2>6 DEF l, Paths
<1>3. o \in {1, 2}
  BY <1>1
<1>4. Sibling(a) = Append(f, o)
  BY DEF Sibling, Front, Last
<1> HIDE DEF f, o
<1>5. /\ Append(f, o) \in Paths /\ Len(Append(f, o)) = Len(f) + 1
      /\ \A k \in 1..Len(f) : Append(f, o)[k] = f[k]
      /\ Append(f, o)[Len(f) + 1] = o
  BY <1>2, <1>3, AppendProperties DEF Paths
<1>6. Len(f) + 1 = Len(a)
  BY <1>1, <1>2
<1>7. \A k \in 1..(Len(a) - 1) : Append(f, o)[k] = a[k]
  BY <1>1, <1>2, <1>5
<1>8. Append(f, o)[Len(a)] = o
  BY <1>5, <1>6
<1> QED BY <1>1, <1>4, <1>5, <1>6, <1>7, <1>8 DEF o

(* No leaf is on the way to another one.                                     *)
IsTree(t) ==
    /\ DOMAIN t \subseteq Paths /\ IsFiniteSet(DOMAIN t) /\ DOMAIN t # {}
    /\ \A p, q \in DOMAIN t : Leads(p, q) => p = q

(* A leaf that goes: what is beside it moves up, and no two leaves meet.     *)
LEMMA Ascends ==
    ASSUME NEW t, IsTree(t), NEW a \in DOMAIN t, a # <<>>,
           NEW y \in Remaining(t, a), NEW z \in Remaining(t, a),
           Leads(MovedUp(a, y), MovedUp(a, z))
    PROVE  y = z
<1> DEFINE l == Len(a)
<1> DEFINE s == Sibling(a)
<1>1. /\ a \in Paths /\ y \in Paths /\ z \in Paths /\ y \in DOMAIN t /\ z \in DOMAIN t
      /\ Len(y) \in Nat /\ Len(z) \in Nat
  BY DEF IsTree, Remaining, Paths
<1>2. /\ s \in Paths /\ Len(s) = l /\ l \in Nat /\ l >= 1
      /\ \A k \in 1..(l - 1) : s[k] = a[k]
      /\ s[l] = 3 - a[l] /\ a[l] \in {1, 2}
  BY <1>1, Siblings
<1>3. ~Leads(a, y) /\ ~Leads(a, z)
  BY <1>1, PrefixesLead DEF Remaining
<1>4. \A p \in Paths : IsPrefix(s, p) <=> Leads(s, p)
  BY <1>2, PrefixesLead
<1> HIDE DEF s
<1>5. ASSUME NEW p \in DOMAIN t, p \in Paths, ~Leads(a, p), ~Leads(s, p),
             Len(p) >= l - 1, \A k \in 1..(l - 1) : p[k] = a[k]
      PROVE  FALSE
  <2>1. Len(p) \in Nat /\ \A k \in 1..Len(p) : p[k] \in {1, 2}
    BY <1>5 DEF Paths
  <2>2. CASE Len(p) = l - 1
    <3>1. Leads(p, a)
      BY <1>2, <1>5, <2>2 DEF Leads
    <3>2. p = a
      BY <1>5, <3>1 DEF IsTree
    <3> QED BY <1>2, <2>2, <3>2
  <2>3. CASE Len(p) # l - 1
    <3>1. Len(p) >= l /\ p[l] \in {1, 2}
      BY <1>2, <1>5, <2>1, <2>3
    <3>2. CASE p[l] = a[l]
      <4>1. \A k \in 1..l : a[k] = p[k]
        BY <1>2, <1>5, <3>2
      <4> QED BY <1>5, <3>1, <4>1 DEF Leads
    <3>3. CASE p[l] # a[l]
      <4>1. p[l] = s[l]
        BY <1>2, <3>1, <3>3
      <4>2. \A k \in 1..l : s[k] = p[k]
        BY <1>2, <1>5, <4>1
      <4> QED BY <1>2, <1>5, <3>1, <4>2 DEF Leads
    <3> QED BY <3>2, <3>3
  <2> QED BY <2>2, <2>3
<1>6. ASSUME NEW p \in Paths, Leads(s, p)
      PROVE  /\ MovedUp(a, p) \in Paths /\ Len(MovedUp(a, p)) = Len(p) - 1
             /\ Len(p) \in Nat /\ l <= Len(p)
             /\ \A k \in 1..(l - 1) : MovedUp(a, p)[k] = p[k] /\ p[k] = a[k]
             /\ \A k \in l..(Len(p) - 1) : MovedUp(a, p)[k] = p[k + 1]
             /\ p[l] = s[l]
  <2>1. Len(p) \in Nat /\ l <= Len(p) /\ l \in 1..Len(p) /\ \A k \in 1..l : s[k] = p[k]
    BY <1>2, <1>6 DEF Leads, Paths
  <2>2. MovedUp(a, p) = RemoveAt(p, l)
    BY <1>4, <1>6 DEF MovedUp, s
  <2>3. \A k \in 1..(l - 1) : p[k] = a[k]
    BY <1>2, <2>1
  <2>4. /\ RemoveAt(p, l) \in Paths /\ Len(RemoveAt(p, l)) = Len(p) - 1
        /\ \A k \in 1..(l - 1) : RemoveAt(p, l)[k] = p[k]
        /\ \A k \in l..(Len(p) - 1) : RemoveAt(p, l)[k] = p[k + 1]
    <3> HIDE DEF l
    <3> QED BY <1>6, <2>1, Removed
  <2>5. p[l] = s[l]
    BY <1>2, <2>1
  <2> QED BY <2>1, <2>2, <2>3, <2>4, <2>5
<1>7. ASSUME NEW p \in Paths, ~Leads(s, p) PROVE MovedUp(a, p) = p
  BY <1>4, <1>7 DEF MovedUp, s
<1> DEFINE m == MovedUp(a, y)
<1> DEFINE n == MovedUp(a, z)
<1>8. Len(m) <= Len(n) /\ \A k \in 1..Len(m) : m[k] = n[k]
  BY DEF Leads
<1>9. CASE Leads(s, y) /\ Leads(s, z)
  <2>1. /\ Len(m) = Len(y) - 1 /\ (\A k \in 1..(l - 1) : y[k] = a[k])
        /\ (\A k \in l..(Len(y) - 1) : m[k] = y[k + 1]) /\ y[l] = s[l] /\ l <= Len(y)
    BY <1>1, <1>6, <1>9
  <2>2. /\ Len(n) = Len(z) - 1 /\ (\A k \in 1..(l - 1) : z[k] = a[k])
        /\ (\A k \in l..(Len(z) - 1) : n[k] = z[k + 1]) /\ z[l] = s[l] /\ l <= Len(z)
    BY <1>1, <1>6, <1>9
  <2> HIDE DEF m, n, l
  <2>3. Len(y) <= Len(z)
    BY <1>1, <1>8, <2>1, <2>2
  <2>4. ASSUME NEW k \in 1..Len(y) PROVE y[k] = z[k]
    <3>1. CASE k < l
      BY <1>2, <2>1, <2>2, <3>1
    <3>2. CASE k = l
      BY <2>1, <2>2, <3>2
    <3>3. CASE k > l
      <4> DEFINE j == k - 1
      <4>1. j \in l..(Len(y) - 1) /\ j \in l..(Len(z) - 1) /\ j \in 1..Len(m) /\ j + 1 = k
        BY <1>1, <1>2, <2>1, <2>3, <3>3
      <4> HIDE DEF j
      <4>2. m[j] = y[j + 1] /\ n[j] = z[j + 1] /\ m[j] = n[j]
        BY <1>8, <2>1, <2>2, <4>1
      <4> QED BY <4>1, <4>2
    <3>4. k \in Nat
      OBVIOUS
    <3> QED BY <1>2, <3>1, <3>2, <3>3, <3>4
  <2>5. Leads(y, z)
    BY <2>3, <2>4 DEF Leads
  <2> QED BY <1>1, <2>5 DEF IsTree
<1>10. CASE Leads(s, y) /\ ~Leads(s, z)
  <2>1. /\ Len(m) = Len(y) - 1 /\ l <= Len(y)
        /\ \A k \in 1..(l - 1) : m[k] = y[k] /\ y[k] = a[k]
    BY <1>1, <1>6, <1>10
  <2>2. n = z
    BY <1>1, <1>7, <1>10
  <2> HIDE DEF m, n, l
  <2>3. Len(z) >= l - 1
    BY <1>1, <1>2, <1>8, <2>1, <2>2
  <2>4. ASSUME NEW k \in 1..(l - 1) PROVE z[k] = a[k]
    <3>1. k \in 1..Len(m)
      BY <1>1, <1>2, <2>1
    <3> QED BY <1>8, <2>1, <2>2, <3>1
  <2> QED BY <1>1, <1>3, <1>5, <1>10, <2>3, <2>4
<1>11. CASE ~Leads(s, y) /\ Leads(s, z)
  <2>1. /\ Len(n) = Len(z) - 1 /\ l <= Len(z)
        /\ \A k \in 1..(l - 1) : n[k] = z[k] /\ z[k] = a[k]
    BY <1>1, <1>6, <1>11
  <2>2. m = y
    BY <1>1, <1>7, <1>11
  <2> HIDE DEF m, n, l
  <2>3. ASSUME NEW k \in 1..Len(y), k <= l - 1 PROVE y[k] = a[k]
    <3>1. k \in 1..(l - 1)
      BY <1>2, <2>3
    <3> QED BY <1>8, <2>1, <2>2, <3>1
  <2>4. CASE Len(y) <= l - 1
    <3>1. Leads(y, a)
      BY <1>1, <1>2, <2>3, <2>4 DEF Leads, l
    <3>2. y = a
      BY <1>1, <3>1 DEF IsTree
    <3> QED BY <1>1, <1>2, <2>4, <3>2 DEF l
  <2>5. CASE ~(Len(y) <= l - 1)
    <3>1. Len(y) >= l - 1 /\ \A k \in 1..(l - 1) : k \in 1..Len(y) /\ k <= l - 1
      BY <1>1, <1>2, <2>5
    <3> QED BY <1>1, <1>3, <1>5, <1>11, <2>3, <3>1
  <2> QED BY <2>4, <2>5
<1>12. CASE ~Leads(s, y) /\ ~Leads(s, z)
  <2>1. m = y /\ n = z
    BY <1>1, <1>7, <1>12
  <2>2. Leads(y, z)
    BY <2>1
  <2> QED BY <1>1, <2>2 DEF IsTree
<1> QED BY <1>9, <1>10, <1>11, <1>12

LEMMA MovesToAPath ==
    ASSUME NEW t, IsTree(t), NEW a \in DOMAIN t, a # <<>>, NEW p \in Remaining(t, a)
    PROVE  MovedUp(a, p) \in Paths
<1>1. a \in Paths /\ p \in Paths
  BY DEF IsTree, Remaining
<1> DEFINE s == Sibling(a)
<1>2. s \in Paths /\ Len(s) = Len(a) /\ Len(a) \in Nat /\ Len(a) >= 1
  BY <1>1, Siblings
<1> HIDE DEF s
<1>3. CASE IsPrefix(s, p)
  <2>1. Len(a) \in 1..Len(p)
    BY <1>1, <1>2, <1>3, PrefixesLead DEF Leads, Paths
  <2>2. RemoveAt(p, Len(a)) \in Paths
    <3> DEFINE l == Len(a)
    <3>1. l \in 1..Len(p)
      BY <2>1
    <3> HIDE DEF l
    <3>2. RemoveAt(p, l) \in Paths
      BY <1>1, <3>1, Removed
    <3> QED BY <3>2 DEF l
  <2> QED BY <1>3, <2>2 DEF MovedUp, s
<1>4. CASE ~IsPrefix(s, p)
  BY <1>1, <1>4 DEF MovedUp, s
<1> QED BY <1>3, <1>4

LEMMA PathIsThere ==
    ASSUME NEW t, NEW target \in PanesOf(t)
    PROVE  PathOf(t, target) \in DOMAIN t /\ t[PathOf(t, target)] = target
BY DEF PanesOf, PathOf

(* A pane goes: every other one stays.                                        *)
LEMMA WithoutKeeps ==
    ASSUME NEW t, IsTree(t), NEW target
    PROVE  /\ IsTree(Without(t, target))
           /\ PanesOf(Without(t, target)) \subseteq PanesOf(t)
           /\ \A pane \in PanesOf(t) : pane # target => pane \in PanesOf(Without(t, target))
<1>1. CASE target \notin PanesOf(t) \/ PanesOf(t) = {target}
  BY <1>1 DEF Without
<1>2. CASE ~(target \notin PanesOf(t) \/ PanesOf(t) = {target})
  <2> DEFINE a == PathOf(t, target)
  <2> DEFINE R == Remaining(t, a)
  <2> DEFINE D == {MovedUp(a, p) : p \in R}
  <2> DEFINE Was(path) == CHOOSE p \in R : MovedUp(a, p) = path
  <2>1. a \in DOMAIN t /\ t[a] = target /\ a \in Paths
    BY <1>2, PathIsThere DEF IsTree
  <2>2. a # <<>>
    <3> SUFFICES ASSUME a = <<>> PROVE FALSE
      OBVIOUS
    <3>1. ASSUME NEW p \in DOMAIN t PROVE p = a
      <4>1. p \in Paths /\ Len(p) \in Nat /\ Len(a) = 0
        BY DEF IsTree, Paths
      <4>2. Leads(a, p)
        BY <4>1 DEF Leads
      <4> QED BY <2>1, <4>2 DEF IsTree
    <3> QED BY <1>2, <2>1, <3>1 DEF PanesOf
  <2>3. Without(t, target) = [path \in D |-> t[Was(path)]]
    BY <1>2 DEF Without, ChildThatIs
  <2>4. R \subseteq DOMAIN t
    BY DEF Remaining
  <2>5. ASSUME NEW p \in R PROVE MovedUp(a, p) \in Paths /\ Len(MovedUp(a, p)) \in Nat
    BY <2>1, <2>2, <2>5, MovesToAPath DEF Paths
  <2>6. ASSUME NEW p \in R, NEW q \in R, Leads(MovedUp(a, p), MovedUp(a, q)) PROVE p = q
    BY <2>1, <2>2, <2>6, Ascends
  <2>7. ASSUME NEW p \in R PROVE Was(MovedUp(a, p)) = p
    <3> DEFINE b == MovedUp(a, p)
    <3> DEFINE c == Was(b)
    <3>1. c \in R /\ MovedUp(a, c) = b
      OBVIOUS
    <3> HIDE DEF c
    <3>2. Leads(b, b)
      BY <2>5 DEF Leads
    <3> QED BY <2>6, <3>1, <3>2 DEF c
  <2>8. ASSUME NEW p \in DOMAIN t, p # a PROVE p \in R
    <3>1. ~Leads(a, p)
      BY <2>1, <2>8 DEF IsTree
    <3> QED BY <2>1, <3>1, PrefixesLead DEF Remaining, IsTree
  <2>9. R # {}
    <3>1. \E pane \in PanesOf(t) : pane # target
      BY <1>2
    <3> QED BY <2>1, <2>8, <3>1 DEF PanesOf
  <2> HIDE DEF a, R, Was
  <2>10. IsFiniteSet(D)
    <3>1. IsFiniteSet(R)
      BY <2>4, FS_Subset DEF IsTree
    <3> DEFINE f == [p \in R |-> MovedUp(a, p)]
    <3>2. f \in Surjection(R, D)
      BY DEF Surjection
    <3> HIDE DEF f, D
    <3> QED BY <3>1, <3>2, FS_Surjection
  <2> DEFINE u == Without(t, target)
  <2>11. DOMAIN u = D /\ \A path \in D : u[path] = t[Was(path)]
    BY <2>3
  <2> HIDE DEF u
  <2>12. IsTree(u)
    <3>1. D \subseteq Paths /\ D # {}
      BY <2>5, <2>9
    <3>2. ASSUME NEW p \in D, NEW q \in D, Leads(p, q) PROVE p = q
      BY <2>6, <3>2
    <3> QED BY <2>10, <2>11, <3>1, <3>2 DEF IsTree
  <2>13. ASSUME NEW pane \in PanesOf(u) PROVE pane \in PanesOf(t)
    <3>1. PICK p \in R : pane = u[MovedUp(a, p)]
      BY <2>11 DEF PanesOf
    <3>2. pane = t[p]
      BY <2>7, <2>11, <3>1
    <3> QED BY <2>4, <3>2 DEF PanesOf
  <2>14. ASSUME NEW pane \in PanesOf(t), pane # target PROVE pane \in PanesOf(u)
    <3>1. PICK p \in DOMAIN t : pane = t[p]
      BY DEF PanesOf
    <3>2. p \in R
      BY <2>1, <2>8, <2>14, <3>1
    <3>3. u[MovedUp(a, p)] = pane
      BY <2>7, <2>11, <3>1, <3>2
    <3> QED BY <2>11, <3>2, <3>3 DEF PanesOf
  <2> QED BY <2>12, <2>13, <2>14 DEF u
<1> QED BY <1>1, <1>2

LEMMA Children ==
    ASSUME NEW a \in Paths, NEW c \in {1, 2}
    PROVE  /\ Append(a, c) \in Paths /\ Len(Append(a, c)) = Len(a) + 1 /\ Len(a) \in Nat
           /\ \A k \in 1..Len(a) : Append(a, c)[k] = a[k]
           /\ Append(a, c)[Len(a) + 1] = c
BY AppendProperties DEF Paths

(* A pane is split: it stays, and the new one is beside it.                   *)
LEMMA SplitKeeps ==
    ASSUME NEW t, IsTree(t), NEW target, NEW new
    PROVE  /\ IsTree(SplitAt(t, target, new))
           /\ PanesOf(SplitAt(t, target, new)) \subseteq PanesOf(t) \cup {new}
           /\ PanesOf(t) \subseteq PanesOf(SplitAt(t, target, new))
<1>1. CASE target \notin PanesOf(t)
  BY <1>1 DEF SplitAt
<1>2. CASE target \in PanesOf(t)
  <2> DEFINE a == PathOf(t, target)
  <2> DEFINE l == Append(a, 1)
  <2> DEFINE r == Append(a, 2)
  <2> DEFINE D == (DOMAIN t \ {a}) \cup {l, r}
  <2> DEFINE u == SplitAt(t, target, new)
  <2>1. a \in DOMAIN t /\ t[a] = target /\ a \in Paths
    BY <1>2, PathIsThere DEF IsTree
  <2>2. /\ DOMAIN u = D
        /\ \A p \in D : u[p] = IF p = l THEN target ELSE IF p = r THEN new ELSE t[p]
    BY <1>2 DEF SplitAt
  <2> HIDE DEF a, u
  <2>3. /\ l \in Paths /\ Len(l) = Len(a) + 1 /\ Len(a) \in Nat
        /\ \A k \in 1..Len(a) : l[k] = a[k]
        /\ l[Len(a) + 1] = 1
    BY <2>1, Children
  <2>4. /\ r \in Paths /\ Len(r) = Len(a) + 1
        /\ \A k \in 1..Len(a) : r[k] = a[k]
        /\ r[Len(a) + 1] = 2
    BY <2>1, Children
  <2>5. \A p \in DOMAIN t : p \in Paths /\ Len(p) \in Nat
    BY DEF IsTree, Paths
  <2> HIDE DEF l, r
  <2>6. ASSUME NEW p \in DOMAIN t, NEW c \in {l, r}, Leads(p, c) \/ Leads(c, p) PROVE p = a
    <3>1. Len(c) = Len(a) + 1 /\ \A k \in 1..Len(a) : c[k] = a[k]
      BY <2>3, <2>4
    <3>2. CASE Len(p) <= Len(a)
      <4>1. Leads(p, c)
        BY <2>3, <2>5, <2>6, <3>1, <3>2 DEF Leads
      <4>2. Leads(p, a)
        BY <2>3, <2>5, <3>1, <3>2, <4>1 DEF Leads
      <4> QED BY <2>1, <4>2 DEF IsTree
    <3>3. CASE ~(Len(p) <= Len(a))
      <4>1. \A k \in 1..Len(a) : p[k] = a[k]
        BY <2>3, <2>5, <2>6, <3>1, <3>3 DEF Leads
      <4>2. Leads(a, p)
        BY <2>3, <2>5, <3>3, <4>1 DEF Leads
      <4> QED BY <2>1, <4>2 DEF IsTree
    <3> QED BY <3>2, <3>3
  <2>7. ~Leads(l, r) /\ ~Leads(r, l)
    BY <2>3, <2>4 DEF Leads
  <2>8. l \notin DOMAIN t \ {a} /\ r \notin DOMAIN t \ {a} /\ l # r
    <3>1. Leads(l, l) /\ Leads(r, r)
      BY <2>3, <2>4 DEF Leads
    <3> QED BY <2>6, <2>7, <3>1
  <2>9. IsTree(u)
    <3>1. D \subseteq Paths /\ D # {}
      BY <2>3, <2>4, <2>5
    <3>2. IsFiniteSet(D)
      <4> DEFINE E == DOMAIN t \ {a}
      <4>1. IsFiniteSet(E)
        BY FS_RemoveElement DEF IsTree
      <4> HIDE DEF E
      <4>2. IsFiniteSet((E \cup {l}) \cup {r})
        BY <4>1, FS_AddElement
      <4>3. (E \cup {l}) \cup {r} = D
        BY DEF E
      <4> QED BY <4>2, <4>3
    <3>3. ASSUME NEW p \in D, NEW q \in D, Leads(p, q) PROVE p = q
      BY <2>6, <2>7, <3>3 DEF IsTree
    <3> QED BY <2>2, <3>1, <3>2, <3>3 DEF IsTree
  <2>10. PanesOf(u) \subseteq PanesOf(t) \cup {new}
    <3> SUFFICES ASSUME NEW p \in D PROVE u[p] \in PanesOf(t) \cup {new}
      BY <2>2 DEF PanesOf
    <3> QED BY <1>2, <2>2 DEF PanesOf
  <2>11. PanesOf(t) \subseteq PanesOf(u)
    <3> SUFFICES ASSUME NEW p \in DOMAIN t PROVE t[p] \in PanesOf(u)
      BY DEF PanesOf
    <3>1. CASE p = a
      BY <2>1, <2>2, <3>1 DEF PanesOf
    <3>2. CASE p # a
      <4>1. p \in D /\ u[p] = t[p]
        BY <2>2, <2>8, <3>2
      <4> QED BY <2>2, <4>1 DEF PanesOf
    <3> QED BY <3>1, <3>2
  <2> QED BY <2>9, <2>10, <2>11 DEF u
<1> QED BY <1>1, <1>2

LEMMA LeftIsAnOrder ==
    ASSUME NEW p \in Paths, NEW q \in Paths, NEW r \in Paths
    PROVE  ~LeftOf(p, p) /\ (LeftOf(p, q) /\ LeftOf(q, r) => LeftOf(p, r))
<1>1. \A s \in Paths : /\ Len(s) \in Nat /\ DOMAIN s = 1..Len(s)
                       /\ \A k \in 1..Len(s) : s[k] \in Int
  BY DEF Paths
<1>2. ~LeftOf(p, p)
  BY <1>1 DEF LeftOf
<1>3. ASSUME LeftOf(p, q), LeftOf(q, r) PROVE LeftOf(p, r)
  <2>1. PICK n \in 1..Len(p) : /\ n \in 1..Len(q) /\ p[n] < q[n]
                               /\ \A m \in 1..(n - 1) : p[m] = q[m]
    BY <1>1, <1>3 DEF LeftOf
  <2>2. PICK k \in 1..Len(q) : /\ k \in 1..Len(r) /\ q[k] < r[k]
                               /\ \A m \in 1..(k - 1) : q[m] = r[m]
    BY <1>1, <1>3 DEF LeftOf
  <2>3. CASE n <= k
    <3>1. n \in 1..Len(p) /\ n \in 1..Len(r)
      BY <1>1, <2>1, <2>2, <2>3
    <3>2. p[n] < r[n]
      <4>1. CASE n = k
        BY <1>1, <2>1, <2>2, <3>1, <4>1
      <4>2. CASE n # k
        <5>1. q[n] = r[n]
          BY <2>1, <2>2, <2>3, <4>2
        <5> QED BY <2>1, <5>1
      <4> QED BY <4>1, <4>2
    <3>3. \A m \in 1..(n - 1) : p[m] = r[m]
      BY <2>1, <2>2, <2>3
    <3> QED BY <1>1, <3>1, <3>2, <3>3 DEF LeftOf
  <2>4. CASE ~(n <= k)
    <3>1. k \in 1..Len(p) /\ k \in 1..Len(r)
      BY <1>1, <2>1, <2>2, <2>4
    <3>2. p[k] < r[k]
      <4>1. p[k] = q[k]
        BY <2>1, <2>2, <2>4
      <4> QED BY <2>2, <4>1
    <3>3. \A m \in 1..(k - 1) : p[m] = r[m]
      BY <2>1, <2>2, <2>4
    <3> QED BY <1>1, <3>1, <3>2, <3>3 DEF LeftOf
  <2> QED BY <2>3, <2>4
<1> QED BY <1>2, <1>3

(* One leaf has no other to its left: the one with the fewest there.          *)
LEMMA FirstIsThere == ASSUME NEW t, IsTree(t) PROVE FirstOf(t) \in PanesOf(t)
<1> DEFINE Left(q) == {p \in DOMAIN t : LeftOf(p, q)}
<1> DEFINE Counts == {Cardinality(Left(q)) : q \in DOMAIN t}
<1>1. ASSUME NEW q \in DOMAIN t PROVE IsFiniteSet(Left(q)) /\ Cardinality(Left(q)) \in Nat
  <2>1. IsFiniteSet(Left(q))
    <3> HIDE DEF Left
    <3>1. Left(q) \in SUBSET DOMAIN t
      BY DEF Left
    <3> QED BY <3>1, FS_Subset DEF IsTree
  <2> QED BY <2>1, FS_CardinalityType
<1>2. Counts \in SUBSET Nat /\ Counts # {}
  BY <1>1 DEF IsTree
<1>3. PICK least \in Counts : \A n \in Counts : ~(n < least)
  <2> HIDE DEF Counts
  <2> QED BY <1>2, HasLeast
<1>4. PICK q \in DOMAIN t : Cardinality(Left(q)) = least
  BY <1>3
<1>5. ASSUME NEW p \in DOMAIN t, LeftOf(p, q) PROVE FALSE
  <2>1. Left(p) \subseteq Left(q)
    BY <1>5, LeftIsAnOrder DEF IsTree
  <2>2. p \in Left(q) /\ p \notin Left(p)
    BY <1>5, LeftIsAnOrder DEF IsTree
  <2>3. Cardinality(Left(p)) \in Counts
    OBVIOUS
  <2>4. ~(Cardinality(Left(p)) < Cardinality(Left(q)))
    BY <1>3, <1>4, <2>3
  <2> HIDE DEF Left, Counts
  <2>5. /\ Cardinality(Left(p)) <= Cardinality(Left(q))
        /\ Cardinality(Left(q)) = Cardinality(Left(p)) => Left(q) = Left(p)
    BY <1>1, <2>1, FS_Subset
  <2> QED BY <1>1, <2>2, <2>4, <2>5
<1> QED BY <1>5 DEF FirstOf, PanesOf

(* The invariant of the panes: the workspaces show panes that were created.   *)
PanesInv ==
    /\ groups = [w \in PaneWorkspaces |-> groups[w]]
    /\ \A w \in PaneWorkspaces :
           groups[w] # NoPane => IsTree(groups[w]) /\ PanesOf(groups[w]) \subseteq Created
    /\ focusedPane \in Created \cup {NoPane}
    /\ shownWs \in PaneWorkspaces \cup {NoPane}
    /\ tabCount \in [PaneNumbers -> Nat \cup {NoPane}]

LEMMA SingleIsATree ==
    ASSUME NEW pane PROVE IsTree(Single(pane)) /\ PanesOf(Single(pane)) = {pane}
<1>1. <<>> \in Paths
  BY DEF Paths
<1>2. IsFiniteSet({<<>>})
  BY FS_Singleton
<1> QED BY <1>1, <1>2 DEF IsTree, Single, PanesOf

LEMMA FirstPaneIsCreated ==
    ASSUME PanesInv, NEW w \in PaneWorkspaces, groups[w] # NoPane
    PROVE  FirstPane(w) \in Created /\ tabCount[FirstPane(w)] \in Nat /\ FirstPane(w) \in PaneNumbers
BY FirstIsThere DEF PanesInv, FirstPane, Created

LEMMA EachIsRestored ==
    RestoredPane \in [PaneWorkspaces -> 1..Cardinality(PaneWorkspaces)]
<1> DEFINE W == PaneWorkspaces
<1> DEFINE n == Cardinality(W)
<1>1. ExistsBijection(1..n, W)
  BY PanesAssumption, FS_CardinalityType
<1>2. PICK f : f \in Bijection(1..n, W)
  BY <1>1 DEF ExistsBijection
<1>3. \A w \in W : \E i \in 1..n : f[i] = w
  BY <1>2 DEF Bijection, Surjection
<1> DEFINE g == [w \in W |-> CHOOSE i \in 1..n : f[i] = w]
<1>4. g \in [W -> 1..n] /\ \A v, w \in W : v # w => g[v] # g[w]
  <2>1. \A w \in W : g[w] \in 1..n /\ f[g[w]] = w
    BY <1>3
  <2> QED BY <2>1
<1> QED BY <1>4 DEF RestoredPane

(* What a step may not do: lose a pane that has tabs.                         *)
NoPaneIsLost ==
    \A w \in PaneWorkspaces :
        groups'[w] # NoPane =>
            \A pane \in Held(groups[w]) : tabCount'[pane] > 0 => pane \in Held(groups'[w])

LEMMA PanesCount ==
    ASSUME PanesInv, NEW pane \in PaneNumbers, NEW n \in Nat,
           tabCount' = [tabCount EXCEPT ![pane] = n]
    PROVE  /\ tabCount' \in [PaneNumbers -> Nat \cup {NoPane}]
           /\ Created \subseteq Created' /\ pane \in Created' /\ tabCount'[pane] = n
BY PanesAssumption DEF PanesInv, Created

LEMMA PanesInvInit == PanesInit => PanesInv
<1> SUFFICES ASSUME PanesInit PROVE PanesInv
  OBVIOUS
<1> DEFINE n == Cardinality(PaneWorkspaces)
<1>1. n \in Nat /\ n # 0
  BY PanesAssumption, FS_CardinalityType, FS_EmptySet
<1>2. focusedPane \in Created
  BY <1>1 DEF PanesInit
<1>3. ASSUME NEW w \in PaneWorkspaces
      PROVE  IsTree(groups[w]) /\ PanesOf(groups[w]) \subseteq Created
  <2>1. groups[w] = Single(RestoredPane[w])
    BY DEF PanesInit
  <2>2. RestoredPane[w] \in Created
    BY EachIsRestored DEF PanesInit
  <2> QED BY <2>1, <2>2, SingleIsATree
<1> QED BY <1>2, <1>3 DEF PanesInit, PanesInv

LEMMA AddTabKeeps ==
    ASSUME PanesInv, NEW w \in PaneWorkspaces, AddTab(w),
           shownWs' \in PaneWorkspaces \cup {NoPane}
    PROVE  PanesInv' /\ NoPaneIsLost
<1>1. CASE groups[w] # NoPane
  <2> DEFINE pane == FirstPane(w)
  <2>1. pane \in Created /\ tabCount[pane] \in Nat /\ pane \in PaneNumbers
    BY <1>1, FirstPaneIsCreated
  <2> DEFINE n == tabCount[pane] + 1
  <2>2. n \in Nat
    BY <2>1
  <2>3. UNCHANGED <<groups, focusedPane>> /\ tabCount' = [tabCount EXCEPT ![pane] = n]
    BY <1>1 DEF AddTab
  <2> HIDE DEF pane, n
  <2>4. tabCount' \in [PaneNumbers -> Nat \cup {NoPane}] /\ Created \subseteq Created'
    BY <2>1, <2>2, <2>3, PanesCount
  <2> QED BY <2>3, <2>4 DEF PanesInv, NoPaneIsLost
<1>2. CASE groups[w] = NoPane
  <2>1. /\ NextPane \in PaneNumbers /\ focusedPane' = NextPane
        /\ groups' = [groups EXCEPT ![w] = Single(NextPane)]
        /\ tabCount' = [tabCount EXCEPT ![NextPane] = 1]
    BY <1>2 DEF AddTab
  <2>2. /\ tabCount' \in [PaneNumbers -> Nat \cup {NoPane}]
        /\ Created \subseteq Created' /\ NextPane \in Created'
    BY <2>1, PanesCount
  <2>3. groups' = [v \in PaneWorkspaces |-> IF v = w THEN Single(NextPane) ELSE groups[v]]
    BY <2>1 DEF PanesInv
  <2>4. ASSUME NEW v \in PaneWorkspaces, groups'[v] # NoPane
        PROVE  IsTree(groups'[v]) /\ PanesOf(groups'[v]) \subseteq Created'
    <3>1. CASE v = w
      BY <2>2, <2>3, <3>1, SingleIsATree
    <3>2. CASE v # w
      BY <2>2, <2>3, <2>4, <3>2 DEF PanesInv
    <3> QED BY <3>1, <3>2
  <2>5. groups' = [v \in PaneWorkspaces |-> groups'[v]]
    BY <2>3
  <2>6. PanesInv'
    BY <2>1, <2>2, <2>4, <2>5 DEF PanesInv
  <2>7. NoPaneIsLost
    BY <1>2, <2>3 DEF NoPaneIsLost, Held
  <2> QED BY <2>6, <2>7
<1> QED BY <1>1, <1>2

LEMMA SplitActiveKeeps == ASSUME PanesInv, SplitActivePane PROVE PanesInv' /\ NoPaneIsLost
<1> DEFINE w == shownWs
<1> DEFINE t == SplitAt(groups[w], focusedPane, NextPane)
<1>1. /\ w \in PaneWorkspaces /\ NextPane \in PaneNumbers /\ groups[w] # NoPane
      /\ groups' = [groups EXCEPT ![w] = t] /\ focusedPane' = NextPane /\ shownWs' = shownWs
      /\ tabCount' = [tabCount EXCEPT ![NextPane] = 1]
  BY DEF SplitActivePane, PanesInv
<1>2. /\ IsTree(t) /\ PanesOf(t) \subseteq PanesOf(groups[w]) \cup {NextPane}
      /\ PanesOf(groups[w]) \subseteq PanesOf(t) /\ PanesOf(groups[w]) \subseteq Created
  BY <1>1, SplitKeeps DEF PanesInv
<1> HIDE DEF t
<1>3. /\ tabCount' \in [PaneNumbers -> Nat \cup {NoPane}]
      /\ Created \subseteq Created' /\ NextPane \in Created'
  BY <1>1, PanesCount
<1>4. groups' = [v \in PaneWorkspaces |-> IF v = w THEN t ELSE groups[v]]
  BY <1>1 DEF PanesInv
<1>5. ASSUME NEW v \in PaneWorkspaces, groups'[v] # NoPane
      PROVE  IsTree(groups'[v]) /\ PanesOf(groups'[v]) \subseteq Created'
  <2>1. CASE v = w
    BY <1>2, <1>3, <1>4, <2>1
  <2>2. CASE v # w
    BY <1>3, <1>4, <1>5, <2>2 DEF PanesInv
  <2> QED BY <2>1, <2>2
<1>6. groups' = [v \in PaneWorkspaces |-> groups'[v]]
  BY <1>4
<1>7. PanesInv'
  BY <1>1, <1>3, <1>5, <1>6 DEF PanesInv
<1>8. NoPaneIsLost
  BY <1>1, <1>2, <1>4 DEF NoPaneIsLost, Held
<1> QED BY <1>7, <1>8

LEMMA CloseInKeeps ==
    ASSUME PanesInv, NEW pane \in Created, CloseIn(pane), UNCHANGED shownWs
    PROVE  PanesInv' /\ NoPaneIsLost
<1> DEFINE n == tabCount[pane] - 1
<1>1. /\ pane \in PaneNumbers /\ tabCount[pane] \in Nat /\ tabCount[pane] > 0 /\ n \in Nat
      /\ tabCount' = [tabCount EXCEPT ![pane] = n]
  BY DEF CloseIn, Created, PanesInv
<1> HIDE DEF n
<1>2. /\ tabCount' \in [PaneNumbers -> Nat \cup {NoPane}]
      /\ Created \subseteq Created' /\ tabCount'[pane] = n
  BY <1>1, PanesCount
<1>3. CASE tabCount[pane] > 1
  <2>1. UNCHANGED <<groups, focusedPane>>
    BY <1>3 DEF CloseIn
  <2> QED BY <1>2, <2>1 DEF PanesInv, NoPaneIsLost
<1>4. CASE ~(tabCount[pane] > 1)
  <2>1. ~(tabCount'[pane] > 0)
    BY <1>1, <1>2, <1>4 DEF n
  <2>2. focusedPane' \in Created' \cup {NoPane}
    BY <1>2, <1>4 DEF CloseIn, PanesInv
  <2>3. CASE shownWs = NoPane \/ groups[shownWs] = NoPane
    <3>1. groups' = groups
      BY <1>4, <2>3 DEF CloseIn
    <3> QED BY <1>2, <2>2, <3>1 DEF PanesInv, NoPaneIsLost
  <2>4. CASE ~(shownWs = NoPane \/ groups[shownWs] = NoPane)
    <3> DEFINE w == shownWs
    <3> DEFINE t == Without(groups[w], pane)
    <3>1. w \in PaneWorkspaces /\ groups' = [groups EXCEPT ![w] = t]
      BY <1>4, <2>4 DEF CloseIn, PanesInv
    <3>2. /\ IsTree(t) /\ PanesOf(t) \subseteq PanesOf(groups[w])
          /\ \A p \in PanesOf(groups[w]) : p # pane => p \in PanesOf(t)
          /\ PanesOf(groups[w]) \subseteq Created
      BY <2>4, <3>1, WithoutKeeps DEF PanesInv
    <3> HIDE DEF t
    <3>3. groups' = [v \in PaneWorkspaces |-> IF v = w THEN t ELSE groups[v]]
      BY <3>1 DEF PanesInv
    <3>4. ASSUME NEW v \in PaneWorkspaces, groups'[v] # NoPane
          PROVE  IsTree(groups'[v]) /\ PanesOf(groups'[v]) \subseteq Created'
      <4>1. CASE v = w
        BY <1>2, <3>2, <3>3, <4>1
      <4>2. CASE v # w
        BY <1>2, <3>3, <3>4, <4>2 DEF PanesInv
      <4> QED BY <4>1, <4>2
    <3>5. groups' = [v \in PaneWorkspaces |-> groups'[v]]
      BY <3>3
    <3>6. PanesInv'
      BY <1>2, <2>2, <3>1, <3>4, <3>5 DEF PanesInv
    <3>7. NoPaneIsLost
      <4> SUFFICES ASSUME NEW v \in PaneWorkspaces, groups'[v] # NoPane,
                          NEW p \in Held(groups[v]), tabCount'[p] > 0
                   PROVE  p \in Held(groups'[v])
        BY DEF NoPaneIsLost
      <4>1. CASE v = w
        BY <2>1, <2>4, <3>2, <3>3, <4>1 DEF Held
      <4>2. CASE v # w
        BY <3>3, <4>2
      <4> QED BY <4>1, <4>2
    <3> QED BY <3>6, <3>7
  <2> QED BY <2>3, <2>4
<1> QED BY <1>3, <1>4

LEMMA SelectKeeps ==
    ASSUME PanesInv, NEW w \in PaneWorkspaces, SelectsWorkspace(w)
    PROVE  PanesInv' /\ NoPaneIsLost
<1>1. shownWs' \in PaneWorkspaces \cup {NoPane}
  BY DEF SelectsWorkspace
<1>2. CASE groups[w] # NoPane /\ tabCount[FirstPane(w)] > 0
  <2>1. focusedPane' = FirstPane(w) /\ UNCHANGED <<groups, tabCount>>
    BY <1>2 DEF SelectsWorkspace
  <2>2. Created' = Created
    BY <2>1 DEF Created
  <2>3. FirstPane(w) \in Created
    BY <1>2, FirstPaneIsCreated
  <2> QED BY <1>1, <2>1, <2>2, <2>3 DEF PanesInv, NoPaneIsLost
<1>3. CASE groups[w] # NoPane /\ ~(tabCount[FirstPane(w)] > 0)
  <2> DEFINE pane == FirstPane(w)
  <2>1. pane \in PaneNumbers /\ pane \in Created
    BY <1>3, FirstPaneIsCreated
  <2>2. focusedPane' = pane /\ UNCHANGED groups /\ tabCount' = [tabCount EXCEPT ![pane] = 1]
    BY <1>3 DEF SelectsWorkspace
  <2> HIDE DEF pane
  <2>3. /\ tabCount' \in [PaneNumbers -> Nat \cup {NoPane}]
        /\ Created \subseteq Created' /\ pane \in Created'
    BY <2>1, <2>2, PanesCount
  <2> QED BY <1>1, <2>2, <2>3 DEF PanesInv, NoPaneIsLost
<1>4. CASE groups[w] = NoPane
  <2>1. AddTab(w)
    BY <1>4 DEF SelectsWorkspace
  <2> QED BY <1>1, <2>1, AddTabKeeps
<1> QED BY <1>2, <1>3, <1>4

LEMMA DeleteKeeps ==
    ASSUME PanesInv, NEW w \in PaneWorkspaces, DeletesWorkspace(w)
    PROVE  PanesInv' /\ NoPaneIsLost
<1>1. /\ groups' = [v \in PaneWorkspaces |-> IF v = w THEN NoPane ELSE groups[v]]
      /\ shownWs' \in PaneWorkspaces \cup {NoPane} /\ UNCHANGED <<focusedPane, tabCount>>
  BY DEF DeletesWorkspace, PanesInv
<1>2. Created' = Created
  BY <1>1 DEF Created
<1>3. groups' = [v \in PaneWorkspaces |-> groups'[v]]
  BY <1>1
<1> QED BY <1>1, <1>2, <1>3 DEF PanesInv, NoPaneIsLost

LEMMA PanesKeep ==
    ASSUME PanesInv, [PanesNext]_paneVars
    PROVE  PanesInv' /\ [NoPaneIsLost]_paneVars
<1>1. CASE PaneNewTab
  BY <1>1, AddTabKeeps DEF PaneNewTab, PanesInv
<1>2. CASE SplitActivePane
  BY <1>2, SplitActiveKeeps
<1>3. CASE CloseActiveTab
  <2>1. ActivePane \in Created /\ CloseIn(ActivePane) /\ UNCHANGED shownWs
    <3>1. ActivePane # NoPane /\ shownWs \in PaneWorkspaces
      BY <1>3 DEF CloseActiveTab, PanesInv
    <3>2. focusedPane = NoPane => groups[shownWs] # NoPane
      BY <3>1 DEF ActivePane, FirstPane
    <3> QED BY <1>3, <3>1, <3>2, FirstPaneIsCreated DEF CloseActiveTab, PanesInv, ActivePane
  <2> HIDE DEF ActivePane
  <2> QED BY <2>1, CloseInKeeps
<1>4. ASSUME NEW pane \in Created, ClickClose(pane) PROVE PanesInv' /\ NoPaneIsLost
  BY <1>4, CloseInKeeps DEF ClickClose
<1>5. CASE UNCHANGED paneVars
  BY <1>5 DEF paneVars, PanesInv, Created
<1> QED BY <1>1, <1>2, <1>3, <1>4, <1>5, SelectKeeps, DeleteKeeps DEF PanesNext

(* For any workspaces, panes and tabs: no split, close or collapse loses a    *)
(* pane that still has tabs (pane_group.rs, split and remove).                *)
THEOREM PanesStay == PanesSpec => PanesWithTabsStay
<1> DEFINE Kept == \A w \in PaneWorkspaces :
                       groups'[w] # NoPane =>
                           \A pane \in Held(groups[w]) :
                               tabCount'[pane] > 0 => pane \in Held(groups'[w])
<1>1. PanesInit => PanesInv
  BY PanesInvInit
<1>2. PanesInv /\ [PanesNext]_paneVars => PanesInv'
  BY PanesKeep
<1>3. PanesInv /\ [PanesNext]_paneVars => [Kept]_paneVars
  BY PanesKeep DEF NoPaneIsLost
<1> HIDE DEF Kept
<1>4. PanesSpec => [][Kept]_paneVars
  BY <1>1, <1>2, <1>3, PTL DEF PanesSpec
<1> QED BY <1>4 DEF PanesWithTabsStay, Kept
==============================================================================
