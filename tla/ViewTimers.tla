----------------------------- MODULE ViewTimers -----------------------------
(* The detached timers of a terminal view (terminal_view.rs): the cursor's    *)
(* blinking and the scrollbar's fading. A timer cannot be cancelled; it takes *)
(* along the epoch it was armed in and finds out when it fires. Time goes in  *)
(* ticks, of which a half period of the cursor has Pause.                     *)
EXTENDS Integers

CONSTANTS
    Pause,     \* BLINK_INTERVAL and BLINK_PAUSE, 500 ms
    Fade,      \* SCROLLBAR_FADE, 1500 ms
    MaxNow    \* (bound of the model)

ASSUME TimersAssumption == {Pause, Fade, MaxNow} \subseteq Nat

VARIABLES
    now,
    cursorVisible,  \* cursor_visible
    blinking,       \* the program's cursor blinks (last_content.cursor.blinking)
    pausedUntil,    \* blink_paused_until
    blinkEpoch,     \* blink_epoch
    blinkTimers,    \* armed timers: epoch and the time they fire
    scrollbar,      \* scrollbar_visible
    fadeEpoch,      \* scrollbar_fade_epoch
    fadeTimers,
    lastChange,     \* when the cursor was last shown or toggled (history)
    lastScroll      \* when the user last scrolled (history)

timerVars == <<now, cursorVisible, blinking, pausedUntil, blinkEpoch, blinkTimers,
               scrollbar, fadeEpoch, fadeTimers, lastChange, lastScroll>>
cursorVars == <<cursorVisible, blinking, pausedUntil, blinkEpoch, blinkTimers, lastChange>>
barVars == <<scrollbar, fadeEpoch, fadeTimers, lastScroll>>

TimersInit ==
    /\ now = 0
    /\ cursorVisible = TRUE /\ blinking = TRUE /\ pausedUntil = 0
    /\ blinkEpoch = 0 /\ blinkTimers = {} /\ lastChange = 0
    /\ scrollbar = FALSE /\ fadeEpoch = 0 /\ fadeTimers = {} /\ lastScroll = 0

Arms(timers, epoch, delay) == timers \cup {[epoch |-> epoch, at |-> now + delay]}

(* show_cursor_now, at output that may change the cursor, input or scrolling. *)
ShowCursorNow(blinks) ==
    /\ cursorVisible' = TRUE /\ blinking' = blinks
    /\ pausedUntil' = now + Pause
    /\ blinkEpoch' = blinkEpoch + 1
    /\ blinkTimers' = Arms(blinkTimers, blinkEpoch + 1, Pause)
    /\ lastChange' = now

Output == \E blinks \in BOOLEAN : ShowCursorNow(blinks) /\ UNCHANGED <<now, barVars>>

(* A timer that fires now, or later: the executor may be busy.                *)
Due(timers) == {timer \in timers : timer.at <= now}

(* tick_blink                                                                 *)
AnyTimerIsCurrent(timer) == TRUE  \* (a slip: no epoch, only the pause)
IsCurrent(timer) == timer.epoch = blinkEpoch

TickBlink(timer) ==
    /\ timer \in Due(blinkTimers)
    /\ IF IsCurrent(timer) /\ now >= pausedUntil /\ blinking
       THEN /\ cursorVisible' = ~cursorVisible /\ lastChange' = now
            /\ blinkEpoch' = blinkEpoch + 1
            /\ blinkTimers' = Arms(blinkTimers \ {timer}, blinkEpoch + 1, Pause)
       ELSE /\ blinkTimers' = blinkTimers \ {timer}
            /\ UNCHANGED <<cursorVisible, blinkEpoch, lastChange>>
    /\ UNCHANGED <<now, blinking, pausedUntil, barVars>>

(* The wheel in a plain terminal: poke_scrollbar, then show_cursor_now.       *)
Scroll ==
    /\ scrollbar' = TRUE /\ lastScroll' = now
    /\ fadeEpoch' = fadeEpoch + 1
    /\ fadeTimers' = Arms(fadeTimers, fadeEpoch + 1, Fade)
    /\ ShowCursorNow(blinking)
    /\ UNCHANGED now

FireFade(timer) ==
    /\ timer \in Due(fadeTimers)
    /\ fadeTimers' = fadeTimers \ {timer}
    /\ scrollbar' = (scrollbar /\ timer.epoch # fadeEpoch)
    /\ UNCHANGED <<now, fadeEpoch, lastScroll, cursorVars>>

TimePasses ==
    /\ now < MaxNow
    /\ now' = now + 1
    /\ UNCHANGED <<cursorVars, barVars>>

(* Bounded by time alone: at most one activity per tick.                      *)
TimersNext ==
    \/ lastChange < now /\ Output
    \/ lastChange < now /\ Scroll
    \/ \E timer \in blinkTimers : TickBlink(timer)
    \/ \E timer \in fadeTimers : FireFade(timer)
    \/ TimePasses

TimersSpec == TimersInit /\ [][TimersNext]_timerVars

------------------------------------------------------------------------------
(* However bursts of output, late timers and steady phases of the program     *)
(* overlap, there is one blinking: the cursor stays shown for a whole half    *)
(* period after activity and two toggles are one half period apart; and the   *)
(* scrollbar stays for its whole time after the last scroll.                  *)
TimersDoNotPileUp ==
    [][/\ cursorVisible' # cursorVisible /\ ~cursorVisible' => now - lastChange >= Pause
       /\ cursorVisible' # cursorVisible /\ lastChange' = now /\ pausedUntil' = pausedUntil
              => now - lastChange >= Pause
       /\ scrollbar /\ ~scrollbar' => now - lastScroll >= Fade]_timerVars
==============================================================================
