--------------------------- MODULE TerminalResize ---------------------------
(* How a terminal view (terminal_view.rs) keeps three sizes together: that    *)
(* of its element, that of its grid, and that of the PTY in the daemon. A     *)
(* change of the element waits for a quiet time (debounce), goes to the       *)
(* daemon, and reaches the grid with the acknowledgement, or with a timeout.  *)
(* A size is a number; 0 is an element with no room for a grid.               *)
EXTENDS Naturals, Sequences

CONSTANTS
    Sizes,       \* sizes of a grid, a set of positive numbers
    MaxMoves,    \* changes of the element (bound of the model)
    MaxLosses    \* lost connections (bound of the model)

ASSUME ResizeAssumption == Sizes \subseteq Nat \ {0} /\ {MaxMoves, MaxLosses} \subseteq Nat

VARIABLES
    viewport,   \* element_bounds, as the size of the grid that fits
    notified,   \* an on_bounds_changed that the paint has spawned is to run
    stage,      \* "bootstrap", "pending" or "live"
    attachSize, \* attached_msg's size, while the bootstrap holds it
    last,       \* last_cols, last_rows
    grid,       \* the terminal's size
    debounce,   \* pending_resize, resize_debounce_epoch, and the timers armed
    ack,        \* pending_bounds, resize_ack_timeout_epoch, the timers armed
    requests,   \* Resize commands on their way
    acks,       \* ResizeAcks on their way
    pty,        \* the size of the PTY, and of the session's meta
    moves, losses

resizeVars == <<viewport, notified, stage, attachSize, last, grid, debounce, ack,
                requests, acks, pty, moves, losses>>

Idle == [size |-> 0, epoch |-> 0, timers |-> {}]
DefaultSize == 1  \* the configuration's size, of a placeholder terminal

(* new_attached: the view starts with an answer of the daemon at hand.        *)
ResizeInit ==
    /\ viewport = 0 /\ notified = FALSE
    /\ stage = "bootstrap" /\ attachSize = DefaultSize
    /\ last = DefaultSize /\ grid = DefaultSize
    /\ debounce = Idle /\ ack = Idle
    /\ requests = <<>> /\ acks = <<>> /\ pty = DefaultSize
    /\ moves = 0 /\ losses = 0

------------------------------------------------------------------------------
(* The paint puts the element's new bounds down and spawns the handler.       *)
Painted(size) ==
    /\ moves < MaxMoves /\ size # viewport
    /\ moves' = moves + 1
    /\ viewport' = size
    /\ notified' = TRUE
    /\ UNCHANGED <<stage, attachSize, last, grid, debounce, ack, requests, acks, pty, losses>>

(* A new epoch: timers that are armed find out that they are stale.           *)
Bumped(timer) == [timer EXCEPT !.epoch = @ + 1]
Cleared(timer) == [Bumped(timer) EXCEPT !.size = 0]
Armed(timer, size) ==
    [size |-> size, epoch |-> timer.epoch + 1, timers |-> timer.timers \cup {timer.epoch + 1}]

(* initialize_attached_terminal, when the element's bounds are known.         *)
InitializeAttachedSize(size) ==
    /\ requests' = IF size # attachSize' THEN Append(requests, size) ELSE requests
    /\ stage' = "live"
    /\ last' = size /\ grid' = size
    /\ debounce' = Cleared(debounce) /\ ack' = Cleared(ack)

(* check_resize and schedule_resize_debounce_flush                            *)
CheckResize ==
    IF viewport \in {0, last} THEN UNCHANGED <<last, debounce>>
    ELSE last' = viewport /\ debounce' = Armed(debounce, viewport)

OnBoundsChanged ==
    /\ notified
    /\ notified' = FALSE
    /\ \/ /\ stage = "bootstrap" /\ viewport # 0
          /\ UNCHANGED <<attachSize, acks>>
          /\ InitializeAttachedSize(viewport)
       \/ /\ stage = "live"
          /\ CheckResize
          /\ UNCHANGED <<stage, attachSize, grid, ack, requests>>
       \/ /\ stage = "pending" \/ (stage = "bootstrap" /\ viewport = 0)
          /\ UNCHANGED <<stage, attachSize, last, grid, debounce, ack, requests>>
    /\ UNCHANGED <<viewport, acks, pty, moves, losses>>

(* flush_resize_debounce with apply_resize; a writer whose connection is gone *)
(* takes the command all the same.                                            *)
FlushResizeDebounce(epoch) ==
    /\ epoch \in debounce.timers
    /\ IF epoch = debounce.epoch /\ debounce.size # 0
       THEN /\ debounce' = [debounce EXCEPT !.timers = @ \ {epoch}, !.size = 0]
            /\ ack' = Armed(ack, debounce.size)
            /\ requests' = IF stage = "live" THEN Append(requests, debounce.size) ELSE requests
       ELSE /\ debounce' = [debounce EXCEPT !.timers = @ \ {epoch}]
            /\ UNCHANGED <<ack, requests>>
    /\ UNCHANGED <<viewport, notified, stage, attachSize, last, grid, acks, pty, moves, losses>>

(* fire_resize_ack_timeout                                                    *)
FireResizeAckTimeout(epoch) ==
    /\ epoch \in ack.timers
    /\ IF epoch = ack.epoch /\ ack.size # 0
       THEN grid' = ack.size /\ ack' = [ack EXCEPT !.timers = @ \ {epoch}, !.size = 0]
       ELSE ack' = [ack EXCEPT !.timers = @ \ {epoch}] /\ UNCHANGED grid
    /\ UNCHANGED <<viewport, notified, stage, attachSize, last, debounce, requests, acks,
                   pty, moves, losses>>

(* apply_resize_ack: only the acknowledgement of the newest resize counts.    *)
IsForAny(size) == ack.size # 0  \* (a slip: an older one is as good)
IsForPending(size) == ack.size # 0 /\ size = ack.size

ApplyResizeAck ==
    /\ acks # <<>> /\ stage # "bootstrap"
    /\ acks' = Tail(acks)
    /\ IF IsForPending(Head(acks))
       THEN grid' = Head(acks) /\ ack' = Cleared(ack)
       ELSE UNCHANGED <<grid, ack>>
    /\ UNCHANGED <<viewport, notified, stage, attachSize, last, debounce, requests, pty,
                   moves, losses>>

------------------------------------------------------------------------------
(* The daemon's Resize arm, of a session that is there and a PTY that takes   *)
(* the size. (A resize that fails is warned about and not acknowledged: the   *)
(* grid follows by the timeout and the PTY keeps its size. It is left out.)   *)
DaemonResizes ==
    /\ requests # <<>>
    /\ requests' = Tail(requests)
    /\ pty' = Head(requests)
    /\ acks' = Append(acks, Head(requests))
    /\ UNCHANGED <<viewport, notified, stage, attachSize, last, grid, debounce, ack,
                   moves, losses>>

(* The health check finds the connection gone (mark_pending_restore).         *)
MarkPendingResizes ==
    /\ stage = "live" /\ losses < MaxLosses
    /\ losses' = losses + 1
    /\ stage' = "pending"
    /\ requests' = <<>> /\ acks' = <<>>
    /\ UNCHANGED <<viewport, notified, attachSize, last, grid, debounce, ack, pty, moves>>

(* attach_session, on a new connection; without bounds it keeps the answer.   *)
AttachSessionSize ==
    /\ stage = "pending"
    /\ attachSize' = pty
    /\ acks' = <<>>
    /\ IF viewport # 0 THEN InitializeAttachedSize(viewport)
       ELSE /\ stage' = "bootstrap"
            /\ debounce' = [debounce EXCEPT !.size = 0]
            /\ ack' = [ack EXCEPT !.size = 0]
            /\ UNCHANGED <<last, grid, requests>>
    /\ UNCHANGED <<viewport, notified, pty, moves, losses>>

ResizeNext ==
    \/ \E size \in Sizes \cup {0} : Painted(size)
    \/ OnBoundsChanged \/ ApplyResizeAck \/ DaemonResizes
    \/ MarkPendingResizes \/ AttachSessionSize
    \/ \E epoch \in debounce.timers : FlushResizeDebounce(epoch)
    \/ \E epoch \in ack.timers : FireResizeAckTimeout(epoch)

ResizeSpec == ResizeInit /\ [][ResizeNext]_resizeVars

------------------------------------------------------------------------------
ResizesAreQuiet ==
    /\ ~notified /\ requests = <<>> /\ acks = <<>>
    /\ debounce.timers = {} /\ ack.timers = {}

(* Once the user lets go and nothing is on its way, the element, the grid and *)
(* the PTY have one size: no stale timer, late acknowledgement, acknowledged  *)
(* older size or reconnect in between leaves the view at another one.         *)
SizesAgreeWhenQuiet ==
    ResizesAreQuiet /\ stage = "live" =>
        grid = pty /\ last = grid /\ (viewport # 0 => viewport = grid)
==============================================================================
