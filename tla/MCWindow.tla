------------------------------ MODULE MCWindow -------------------------------
(***************************************************************************)
(* The window, on small instances: the client's two threads, the terminal  *)
(* view and its screen, tabs, panes, the store of workspaces, the editor,  *)
(* the text field and the settings.  What two of them share is an input of *)
(* each, so a behaviour is one of one of them, chosen at the start.        *)
(***************************************************************************)
EXTENDS Integers, Sequences, OutgoingWriter, SessionRouting, TerminalResize,
        TerminalInput, ViewTimers, TerminalFeed, TabSessions,
        PaneLayout, WorkspaceStore, SettingsStore, TextInput, EditorView,
        TerminalScreen

VARIABLE machine  \* the component that moves

\* Two links with one text each, a line that wraps among the blanks at its end,
\* a wide letter, a link that is broken off by a charset sequence, and a URL.
Printouts ==
    {<<"u1", "a", "end", "nl">>, <<"u2", "a", "end">>, <<"a", " ", " ", "nl">>, <<"w", "nl">>,
     <<"u2", "w", "(B">>, <<"U", ".">>}

\* A file of two lines of one letter each, and an empty one.
OneLetterLines == {<<3, 0, 3>>, <<>>}

\* One tab was saved, in one of the workspaces.
OneSavedTab ==
    LET first == CHOOSE w \in Workspaces : TRUE
    IN  [w \in Workspaces |-> IF w = first THEN <<CHOOSE t \in Tabs : TRUE>> ELSE <<>>]

\* Bounds of the model: a session whose shell has exited writes one chunk less,
\* and the first paint of the screen, of its first content, ends a behaviour.
FewAfterAnExit == exits' = 0 \/ output' < MaxOutput
EndsWithAPaint == painted.generation = 0 /\ painted'.generation <= 1

CallsAreAlike == Permutations(Calls)

all == <<machine, writerVars, routeVars, resizeVars, inputVars, timerVars,
         feedVars, screenVars, tabVars, paneVars, storeVars, editorVars,
         fieldVars, settingsVars>>

\* A component that does not move has one initial state.
Still ==
    /\ machine = "screen" \/ (rows = 1 /\ cols = MaxCols)
    /\ machine = "routing" \/ shellLives = FALSE
    /\ machine = "tabs" \/ activeWs = CHOOSE w \in Workspaces : TRUE
    /\ machine = "panes" \/ shownWs = NoPane
    /\ machine = "editor" \/ file = <<>>
    /\ machine = "field" \/ multiLine = FALSE

Init ==
    /\ machine \in {"writer", "routing", "resize", "mouse", "timers", "feed",
                    "screen", "tabs", "panes", "store", "editor", "field",
                    "settings"}
    /\ WriterInit
    /\ RoutingInit
    /\ ResizeInit
    /\ InputInit
    /\ TimersInit
    /\ FeedInit
    /\ ScreenInit
    /\ TabsInit
    /\ PanesInit
    /\ StoreInit
    /\ EditorInit
    /\ FieldInit
    /\ SettingsInit
    /\ Still

Next ==
    \/ /\ machine = "writer" /\ WriterNext
       /\ UNCHANGED <<machine, routeVars, resizeVars, inputVars, timerVars,
                      feedVars, screenVars, tabVars, paneVars, storeVars,
                      editorVars, fieldVars, settingsVars>>
    \/ /\ machine = "routing" /\ RoutingNext /\ FewAfterAnExit
       /\ UNCHANGED <<machine, writerVars, resizeVars, inputVars, timerVars,
                      feedVars, screenVars, tabVars, paneVars, storeVars,
                      editorVars, fieldVars, settingsVars>>
    \/ /\ machine = "resize" /\ ResizeNext
       /\ UNCHANGED <<machine, writerVars, routeVars, inputVars, timerVars,
                      feedVars, screenVars, tabVars, paneVars, storeVars,
                      editorVars, fieldVars, settingsVars>>
    \/ /\ machine = "mouse" /\ InputNext
       /\ UNCHANGED <<machine, writerVars, routeVars, resizeVars,
                      timerVars, feedVars, screenVars, tabVars, paneVars,
                      storeVars, editorVars, fieldVars, settingsVars>>
    \/ /\ machine = "timers" /\ TimersNext
       /\ UNCHANGED <<machine, writerVars, routeVars, resizeVars, inputVars,
                      feedVars, screenVars, tabVars, paneVars, storeVars,
                      editorVars, fieldVars, settingsVars>>
    \/ /\ machine = "feed" /\ FeedNext
       /\ UNCHANGED <<machine, writerVars, routeVars, resizeVars, inputVars,
                      timerVars, screenVars, tabVars, paneVars, storeVars,
                      editorVars, fieldVars, settingsVars>>
    \/ /\ machine = "screen" /\ ScreenNext /\ EndsWithAPaint
       /\ UNCHANGED <<machine, writerVars, routeVars, resizeVars, inputVars,
                      timerVars, feedVars, tabVars, paneVars, storeVars,
                      editorVars, fieldVars, settingsVars>>
    \/ /\ machine = "tabs" /\ TabsNext
       /\ UNCHANGED <<machine, writerVars, routeVars, resizeVars, inputVars,
                      timerVars, feedVars, screenVars, paneVars, storeVars,
                      editorVars, fieldVars, settingsVars>>
    \/ /\ machine = "panes" /\ PanesNext
       /\ UNCHANGED <<machine, writerVars, routeVars, resizeVars, inputVars,
                      timerVars, feedVars, screenVars, tabVars, storeVars,
                      editorVars, fieldVars, settingsVars>>
    \/ /\ machine = "store" /\ StoreNext
       /\ UNCHANGED <<machine, writerVars, routeVars, resizeVars, inputVars,
                      timerVars, feedVars, screenVars, tabVars, paneVars,
                      editorVars, fieldVars, settingsVars>>
    \/ /\ machine = "editor" /\ EditorNext
       /\ UNCHANGED <<machine, writerVars, routeVars, resizeVars, inputVars,
                      timerVars, feedVars, screenVars, tabVars, paneVars,
                      storeVars, fieldVars, settingsVars>>
    \/ /\ machine = "field" /\ FieldNext
       /\ UNCHANGED <<machine, writerVars, routeVars, resizeVars, inputVars,
                      timerVars, feedVars, screenVars, tabVars, paneVars,
                      storeVars, editorVars, settingsVars>>
    \/ /\ machine = "settings" /\ SettingsNext
       /\ UNCHANGED <<machine, writerVars, routeVars, resizeVars, inputVars,
                      timerVars, feedVars, screenVars, tabVars, paneVars,
                      storeVars, editorVars, fieldVars>>

Spec == Init /\ [][Next]_all
==============================================================================
