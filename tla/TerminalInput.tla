---------------------------- MODULE TerminalInput ----------------------------
(* What a terminal view (terminal_view.rs) makes of the mouse, the keys and   *)
(* the input method: a selection, a click on a link, or input of the program  *)
(* in the terminal, which turns mouse tracking on and off as it likes.        *)
EXTENDS Naturals, FiniteSets

Buttons == {"Left", "Right"}
(* What is under the pointer: the padding, a cell, a cell of a link.          *)
Spots == {"padding", "cell", "link"}

VARIABLES
    live,       \* is_interactive
    tracking,   \* the program's mouse tracking
    down,       \* buttons that are physically down, pressed over the view
    pressed,    \* mouse_buttons_pressed
    linkClick,  \* pending_link_click is some
    selection,  \* terminal_selection: "none", "empty", "text"
    selecting,  \* terminal_selecting
    preedit,    \* ime_preedit is not empty
    reported,   \* buttons the program saw pressed and not yet released (history)
    cut         \* the session went away in the middle of a gesture (history)

inputVars == <<live, tracking, down, pressed, linkClick, selection, selecting,
               preedit, reported, cut>>

InputInit ==
    /\ live = FALSE /\ tracking = FALSE
    /\ down = {} /\ pressed = {} /\ reported = {}
    /\ linkClick = FALSE /\ selection = "none" /\ selecting = FALSE
    /\ preedit = FALSE /\ cut = FALSE

------------------------------------------------------------------------------
(* The program (external) turns tracking on or off, and starts with no button *)
(* down when it turns it on.                                                  *)
ProgramTracks(on) ==
    /\ live /\ tracking # on
    /\ tracking' = on /\ reported' = {}
    /\ UNCHANGED <<live, down, pressed, linkClick, selection, selecting, preedit, cut>>

(* mark_pending_restore                                                       *)
MarkPendingRestore ==
    /\ live
    /\ live' = FALSE
    /\ cut' = (cut \/ down # {} \/ selecting \/ linkClick)
    /\ UNCHANGED <<tracking, down, pressed, linkClick, selection, selecting, preedit, reported>>

(* initialize_attached_terminal: the terminal is a new one, the gesture and   *)
(* the buttons are those of the view.                                         *)
Attach(on) ==
    /\ ~live
    /\ live' = TRUE
    /\ tracking' = on /\ reported' = {}
    /\ UNCHANGED <<down, pressed, linkClick, selection, selecting, preedit, cut>>

------------------------------------------------------------------------------
SelectionCleared == linkClick' = FALSE /\ selection' = "none" /\ selecting' = FALSE
GestureUnchanged == UNCHANGED <<linkClick, selection, selecting>>

BeginTerminalSelection(click) ==
    /\ linkClick' = FALSE
    /\ selection' = IF click = 1 THEN "empty" ELSE "text"
    /\ selecting' = TRUE

(* The rest of a press: the program gets it if it tracks the mouse.           *)
PressReported(button) ==
    /\ pressed' = pressed \cup {button}
    /\ reported' = IF tracking THEN reported \cup {button} ELSE reported

(* on_terminal_mouse_down. Over the program's head a left button selects with *)
(* shift, and clicks a link with the link modifier.                           *)
Overrides(shift) == ~tracking \/ shift
ClicksLink(spot, shift, modifier, click) ==
    /\ spot = "link" /\ click = 1
    /\ IF Overrides(shift) THEN ~shift ELSE modifier
Selects(button, spot, shift, modifier, click) ==
    /\ button = "Left" /\ Overrides(shift) /\ spot # "padding"
    /\ ~ClicksLink(spot, shift, modifier, click)

SelectionFallsThrough(button, click) ==  \* (a slip: the press goes on to the program)
    BeginTerminalSelection(click) /\ PressReported(button)
SelectionTakesPress(button, click) ==
    BeginTerminalSelection(click) /\ UNCHANGED <<pressed, reported>>

MouseDown(button, spot, shift, modifier, click) ==
    /\ button \notin down
    /\ down' = down \cup {button}
    /\ IF ~live THEN GestureUnchanged /\ UNCHANGED <<pressed, reported>>
       ELSE IF button = "Left" /\ ClicksLink(spot, shift, modifier, click)
       THEN linkClick' = TRUE /\ UNCHANGED <<selection, selecting, pressed, reported>>
       ELSE IF Selects(button, spot, shift, modifier, click)
       THEN SelectionTakesPress(button, click)
       ELSE GestureUnchanged /\ PressReported(button)
    /\ UNCHANGED <<live, tracking, preedit, cut>>

(* on_terminal_mouse_up, over the view or out of it; out of it also for a     *)
(* button that was pressed somewhere else.                                    *)
MouseUp(button) ==
    /\ down' = down \ {button}
    /\ IF ~live THEN GestureUnchanged /\ UNCHANGED <<pressed, reported>>
       ELSE IF button = "Left" /\ linkClick
       THEN linkClick' = FALSE /\ UNCHANGED <<selection, selecting, pressed, reported>>
       ELSE IF button = "Left" /\ selecting
       THEN /\ selecting' = FALSE
            /\ selection' = IF selection = "empty" THEN "none" ELSE selection
            /\ UNCHANGED <<linkClick, pressed, reported>>
       ELSE /\ GestureUnchanged
            /\ pressed' = pressed \ {button}
            /\ reported' = reported \ {button}
    /\ UNCHANGED <<live, tracking, preedit, cut>>

(* on_terminal_mouse_move with a button down: a link that is dragged becomes  *)
(* a selection; a selection grows or shrinks to nothing.                      *)
MouseDrag(far, text) ==
    /\ live /\ down # {}
    /\ IF linkClick /\ far
       THEN /\ linkClick' = FALSE /\ selecting' = TRUE
            /\ selection' = IF text THEN "text" ELSE "empty"
       ELSE IF ~linkClick /\ selecting /\ selection # "none"
       THEN selection' = (IF text THEN "text" ELSE "empty") /\ UNCHANGED <<linkClick, selecting>>
       ELSE GestureUnchanged
    /\ UNCHANGED <<live, tracking, down, pressed, preedit, reported, cut>>

(* map_keystroke: a named key always, a character or the space bar only with  *)
(* control or alt; the rest is left to the input method.                      *)
MapKeystroke(key, modifier) == key = "named" \/ (key = "character" /\ modifier)

(* A key that is mapped, the paste action and the input method end the        *)
(* selection, whatever the mouse is doing; text that was being composed is    *)
(* sent before the key.                                                       *)
KeyDown(key, modifier) ==
    /\ live /\ MapKeystroke(key, modifier)
    /\ SelectionCleared
    /\ preedit' = FALSE
    /\ UNCHANGED <<live, tracking, down, pressed, reported, cut>>

Paste ==
    /\ live
    /\ SelectionCleared
    /\ UNCHANGED <<live, tracking, down, pressed, preedit, reported, cut>>

ReplaceAndMarkText ==
    /\ preedit' = live
    /\ GestureUnchanged
    /\ UNCHANGED <<live, tracking, down, pressed, reported, cut>>

ReplaceText ==
    /\ preedit' = FALSE
    /\ IF live THEN SelectionCleared ELSE GestureUnchanged
    /\ UNCHANGED <<live, tracking, down, pressed, reported, cut>>

UnmarkText ==
    /\ preedit' = FALSE
    /\ IF live /\ preedit THEN SelectionCleared ELSE GestureUnchanged
    /\ UNCHANGED <<live, tracking, down, pressed, reported, cut>>

InputNext ==
    \/ \E on \in BOOLEAN : ProgramTracks(on) \/ Attach(on)
    \/ MarkPendingRestore
    \/ \E button \in Buttons, spot \in Spots, shift, modifier \in BOOLEAN, click \in 1..3 :
           MouseDown(button, spot, shift, modifier, click)
    \/ \E button \in Buttons : MouseUp(button)
    \/ \E far, text \in BOOLEAN : MouseDrag(far, text)
    \/ \E key \in {"named", "character"}, modifier \in BOOLEAN : KeyDown(key, modifier)
    \/ Paste \/ ReplaceAndMarkText \/ ReplaceText \/ UnmarkText

InputSpec == InputInit /\ [][InputNext]_inputVars

------------------------------------------------------------------------------
(* No gesture leaves a button stuck: a press that the program saw is released *)
(* for it when the user lets go, whatever selection, link or key came in      *)
(* between, unless the session went away in the middle of a gesture.          *)
NoStuckButton == live /\ ~cut => reported \subseteq down
==============================================================================
