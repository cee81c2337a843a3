------------------------- MODULE TerminalViewProofs --------------------------
(* What holds of the parts of the terminal view: its sizes, for any sizes and *)
(* any number of changes and lost connections; its input, for every sequence  *)
(* of gestures, keys and composed text; its timers, for every pause and       *)
(* however late they fire; its feed, for any attaches, chunks and batches;    *)
(* what a selection copies, for any batches and any number of columns.        *)
EXTENDS TerminalResize, TerminalInput, ViewTimers, TerminalFeed, TerminalScreen,
        FiniteSetTheorems, SequenceTheorems, WellFoundedInduction, TLAPS

------------------------------------------------------------------------------
(* TerminalResize                                                             *)

Debouncing == [size : Nat, epoch : Nat, timers : SUBSET Nat]

ResizeTypes ==
    /\ {viewport, attachSize, last, grid, pty} \subseteq Nat
    /\ notified \in BOOLEAN /\ stage \in {"bootstrap", "pending", "live"}
    /\ debounce \in Debouncing /\ ack \in Debouncing
    /\ requests \in Seq(Nat)

(* The size the PTY has once all requests are served.                         *)
NewestSent == IF requests = <<>> THEN pty ELSE requests[Len(requests)]

(* A size that waits has a timer that will come for it.                       *)
HasItsTimer(timer) == timer.size # 0 => timer.epoch \in timer.timers

(* Without a connection no request is under way, and an attach knows the PTY. *)
NothingSentUnattached ==
    stage # "live" => requests = <<>> /\ (stage = "bootstrap" => attachSize = pty)

(* What the view knows of the element, what it sent of that, and what its     *)
(* grid has of what it sent.                                                  *)
SizesFollow ==
    stage = "live" =>
      /\ notified \/ viewport = 0 \/ last = viewport
      /\ debounce.size # 0 => debounce.size = last
      /\ debounce.size = 0 => last = NewestSent
      /\ IF ack.size = 0 THEN grid = NewestSent ELSE ack.size = NewestSent

ResizeInv ==
    /\ ResizeTypes /\ HasItsTimer(debounce) /\ HasItsTimer(ack)
    /\ NothingSentUnattached /\ SizesFollow

LEMMA ResizeInvInit == ResizeInit => ResizeInv
<1> SUFFICES ASSUME ResizeInit PROVE ResizeInv
  OBVIOUS
<1>1. <<>> \in Seq(Nat)
  BY EmptySeq
<1>2. Idle \in Debouncing /\ Idle.size = 0 /\ HasItsTimer(Idle)
  <2>1. Idle \in Debouncing
    BY DEF Idle, Debouncing
  <2>2. Idle.size = 0
    BY DEF Idle
  <2> QED
    BY <2>1, <2>2 DEF HasItsTimer
<1>3. /\ debounce = Idle /\ ack = Idle /\ requests = <<>> /\ stage = "bootstrap"
      /\ attachSize = pty /\ viewport = 0 /\ notified = FALSE
      /\ attachSize = 1 /\ last = 1 /\ grid = 1 /\ pty = 1
  BY DEF ResizeInit, DefaultSize
<1>4. ResizeTypes
  <2>1. {viewport, attachSize, last, grid, pty} \subseteq Nat
    BY <1>3
  <2>2. debounce \in Debouncing /\ ack \in Debouncing /\ requests \in Seq(Nat)
    BY <1>1, <1>2, <1>3
  <2>3. notified \in BOOLEAN /\ stage \in {"bootstrap", "pending", "live"}
    BY <1>3
  <2> QED
    BY <2>1, <2>2, <2>3 DEF ResizeTypes
<1>5. NothingSentUnattached /\ SizesFollow
  BY <1>3 DEF NothingSentUnattached, SizesFollow
<1>6. HasItsTimer(debounce) /\ HasItsTimer(ack)
  BY <1>2, <1>3
<1> QED
  BY <1>4, <1>5, <1>6 DEF ResizeInv

-------------------------------------------------------------------------------
LEMMA TimersBehave ==
  ASSUME NEW timer \in Debouncing, NEW size \in Nat
  PROVE  /\ Cleared(timer) \in Debouncing /\ Cleared(timer).size = 0
         /\ Armed(timer, size) \in Debouncing /\ Armed(timer, size).size = size
         /\ HasItsTimer(Cleared(timer)) /\ HasItsTimer(Armed(timer, size))
<1>1. Cleared(timer) = [size |-> 0, epoch |-> timer.epoch + 1, timers |-> timer.timers]
  <2>1. Bumped(timer) = [size |-> timer.size, epoch |-> timer.epoch + 1,
                         timers |-> timer.timers]
    BY DEF Bumped, Debouncing
  <2> QED
    BY <2>1 DEF Cleared
<1>2. timer.epoch + 1 \in Nat /\ timer.timers \cup {timer.epoch + 1} \in SUBSET Nat
  BY DEF Debouncing
<1> QED
  BY <1>1, <1>2 DEF Armed, Debouncing, HasItsTimer

LEMMA FiredTimersBehave ==
  ASSUME NEW timer \in Debouncing, NEW epoch
  PROVE  LET kept == [timer EXCEPT !.timers = @ \ {epoch}]
             done == [timer EXCEPT !.timers = @ \ {epoch}, !.size = 0]
         IN  /\ kept \in Debouncing /\ kept.size = timer.size
             /\ done \in Debouncing /\ done.size = 0 /\ HasItsTimer(done)
             /\ HasItsTimer(timer) /\ ~(epoch = timer.epoch /\ timer.size # 0)
                  => HasItsTimer(kept)
BY DEF Debouncing, HasItsTimer

(* A request is the newest; serving the oldest leaves the newest.             *)
LEMMA SendingIsNewest ==
  ASSUME requests \in Seq(Nat), NEW size \in Nat, requests' = Append(requests, size)
  PROVE  requests' \in Seq(Nat) /\ NewestSent' = size
<1>1. /\ requests' \in Seq(Nat) /\ Len(requests') = Len(requests) + 1
      /\ requests'[Len(requests) + 1] = size /\ Len(requests) \in Nat
  BY AppendProperties, LenProperties
<1>2. requests' # <<>>
  BY <1>1, EmptySeq
<1> QED
  BY <1>1, <1>2 DEF NewestSent

LEMMA ServingKeepsNewest ==
  ASSUME requests \in Seq(Nat), requests # <<>>,
         requests' = Tail(requests), pty' = Head(requests)
  PROVE  requests' \in Seq(Nat) /\ NewestSent' = NewestSent
<1>1. /\ Tail(requests) \in Seq(Nat) /\ Len(Tail(requests)) = Len(requests) - 1
      /\ Head(requests) = requests[1] /\ Len(requests) \in Nat
      /\ \A i \in 1..Len(Tail(requests)) : Tail(requests)[i] = requests[i + 1]
  BY HeadTailProperties, LenProperties
<1>2. Len(requests) # 0
  BY EmptySeq, SeqEqual
<1>3. CASE Tail(requests) = <<>>
  <2>1. Len(requests) = 1
    BY <1>1, <1>3, EmptySeq, SMTT(30)
  <2> QED
    BY <1>1, <1>3, <2>1 DEF NewestSent
<1>4. CASE Tail(requests) # <<>>
  <2>1. Len(Tail(requests)) # 0
    BY <1>1, <1>4, EmptySeq, SeqEqual
  <2>2. Len(Tail(requests)) \in 1..Len(Tail(requests)) /\ Len(requests) - 1 + 1 = Len(requests)
    BY <1>1, <2>1
  <2>3. Tail(requests)[Len(Tail(requests))] = requests[Len(requests)]
    BY <1>1, <2>2
  <2> QED
    BY <1>1, <1>4, <2>3 DEF NewestSent
<1> QED
  BY <1>1, <1>3, <1>4

-------------------------------------------------------------------------------
LEMMA InitializeKeepsSizes ==
  ASSUME ResizeInv, NEW size \in Nat \ {0}, viewport = size,
         requests = <<>>, attachSize' = pty, InitializeAttachedSize(size),
         UNCHANGED <<viewport, pty>>, notified' \in BOOLEAN
  PROVE  ResizeInv'
<1>1. /\ debounce' = Cleared(debounce) /\ ack' = Cleared(ack)
      /\ stage' = "live" /\ last' = size /\ grid' = size
      /\ requests' = IF size # attachSize' THEN Append(requests, size) ELSE requests
  BY DEF InitializeAttachedSize
<1>2. /\ debounce' \in Debouncing /\ debounce'.size = 0 /\ HasItsTimer(debounce')
      /\ ack' \in Debouncing /\ ack'.size = 0 /\ HasItsTimer(ack')
  BY <1>1, TimersBehave DEF ResizeInv, ResizeTypes
<1>3. requests' \in Seq(Nat) /\ NewestSent' = size
  <2>1. CASE size # attachSize'
    BY <1>1, <2>1, SendingIsNewest DEF ResizeInv, ResizeTypes
  <2>2. CASE size = attachSize'
    BY <1>1, <2>2 DEF ResizeInv, ResizeTypes, NewestSent
  <2> QED
    BY <2>1, <2>2
<1>4. ResizeTypes'
  BY <1>1, <1>2, <1>3 DEF ResizeInv, ResizeTypes
<1>5. SizesFollow'
  BY <1>1, <1>2, <1>3 DEF SizesFollow
<1>6. NothingSentUnattached'
  BY <1>1 DEF NothingSentUnattached
<1> QED
  BY <1>2, <1>4, <1>5, <1>6 DEF ResizeInv

LEMMA PaintedKeeps ==
  ASSUME ResizeInv, NEW size \in Sizes \cup {0}, Painted(size)
  PROVE  ResizeInv'
<1>1. /\ viewport' = size /\ notified' = TRUE /\ size \in Nat
      /\ UNCHANGED <<stage, attachSize, last, grid, debounce, ack, requests, pty>>
  BY ResizeAssumption DEF Painted
<1>2. ResizeTypes'
  BY <1>1 DEF ResizeInv, ResizeTypes
<1>3. NewestSent' = NewestSent
  BY <1>1 DEF NewestSent
<1>4. SizesFollow' /\ NothingSentUnattached'
  BY <1>1, <1>3 DEF ResizeInv, SizesFollow, NothingSentUnattached
<1> QED
  BY <1>1, <1>2, <1>4 DEF ResizeInv

LEMMA BoundsChangedKeeps == ASSUME ResizeInv, OnBoundsChanged PROVE ResizeInv'
<1>0. notified' = FALSE /\ UNCHANGED <<viewport, pty>> /\ viewport \in Nat
  BY DEF OnBoundsChanged, ResizeInv, ResizeTypes
<1>1. CASE stage = "bootstrap" /\ viewport # 0
  <2>1. InitializeAttachedSize(viewport) /\ attachSize' = attachSize
    BY <1>1 DEF OnBoundsChanged
  <2>2. requests = <<>> /\ attachSize = pty
    BY <1>1 DEF ResizeInv, NothingSentUnattached
  <2> QED
    BY <1>0, <1>1, <2>1, <2>2, InitializeKeepsSizes
<1>2. CASE stage = "live"
  <2>1. CheckResize /\ UNCHANGED <<stage, attachSize, grid, ack, requests>>
    BY <1>2 DEF OnBoundsChanged
  <2>2. NewestSent' = NewestSent
    BY <1>0, <2>1 DEF NewestSent
  <2>3. CASE viewport \in {0, last}
    <3>1. UNCHANGED <<last, debounce>>
      BY <2>1, <2>3 DEF CheckResize
    <3>2. ResizeTypes'
      BY <1>0, <2>1, <3>1 DEF ResizeInv, ResizeTypes
    <3>3. SizesFollow' /\ NothingSentUnattached'
      BY <1>0, <1>2, <2>1, <2>2, <2>3, <3>1 DEF ResizeInv, SizesFollow, NothingSentUnattached
    <3> QED
      BY <2>1, <3>1, <3>2, <3>3 DEF ResizeInv
  <2>4. CASE viewport \notin {0, last}
    <3>1. last' = viewport /\ debounce' = Armed(debounce, viewport)
      BY <2>1, <2>4 DEF CheckResize
    <3>2. debounce' \in Debouncing /\ debounce'.size = viewport /\ HasItsTimer(debounce')
      BY <1>0, <3>1, TimersBehave DEF ResizeInv, ResizeTypes
    <3>3. ResizeTypes'
      BY <1>0, <2>1, <3>1, <3>2 DEF ResizeInv, ResizeTypes
    <3>4. SizesFollow' /\ NothingSentUnattached'
      BY <1>0, <1>2, <2>1, <2>2, <2>4, <3>1, <3>2
         DEF ResizeInv, SizesFollow, NothingSentUnattached
    <3> QED
      BY <2>1, <3>2, <3>3, <3>4 DEF ResizeInv
  <2> QED
    BY <2>3, <2>4
<1>3. CASE stage = "pending" \/ (stage = "bootstrap" /\ viewport = 0)
  <2>1. UNCHANGED <<stage, attachSize, last, grid, debounce, ack, requests>>
    BY <1>3 DEF OnBoundsChanged
  <2>2. ResizeTypes'
    BY <1>0, <2>1 DEF ResizeInv, ResizeTypes
  <2>3. SizesFollow' /\ NothingSentUnattached'
    BY <1>0, <1>3, <2>1 DEF ResizeInv, SizesFollow, NothingSentUnattached
  <2> QED
    BY <2>1, <2>2, <2>3 DEF ResizeInv
<1> QED
  BY <1>1, <1>2, <1>3 DEF ResizeInv, ResizeTypes

LEMMA FlushKeeps ==
  ASSUME ResizeInv, NEW epoch \in debounce.timers, FlushResizeDebounce(epoch)
  PROVE  ResizeInv'
<1>1. /\ UNCHANGED <<viewport, notified, stage, attachSize, last, grid, pty>>
      /\ debounce \in Debouncing /\ ack \in Debouncing
  BY DEF FlushResizeDebounce, ResizeInv, ResizeTypes
<1>2. CASE epoch = debounce.epoch /\ debounce.size # 0
  <2>1. /\ debounce' = [debounce EXCEPT !.timers = @ \ {epoch}, !.size = 0]
        /\ ack' = Armed(ack, debounce.size)
        /\ requests' = IF stage = "live" THEN Append(requests, debounce.size) ELSE requests
    BY <1>2 DEF FlushResizeDebounce
  <2>2. debounce.size \in Nat
    BY <1>1 DEF Debouncing
  <2>3. /\ debounce' \in Debouncing /\ debounce'.size = 0 /\ HasItsTimer(debounce')
        /\ ack' \in Debouncing /\ ack'.size = debounce.size /\ HasItsTimer(ack')
    BY <1>1, <2>1, <2>2, FiredTimersBehave, TimersBehave
  <2>4. CASE stage = "live"
    <3>1. requests' \in Seq(Nat) /\ NewestSent' = debounce.size
      BY <2>1, <2>2, <2>4, SendingIsNewest DEF ResizeInv, ResizeTypes
    <3>2. ResizeTypes'
      BY <1>1, <2>3, <3>1 DEF ResizeInv, ResizeTypes
    <3>3. SizesFollow'
      BY <1>1, <1>2, <2>3, <2>4, <3>1 DEF ResizeInv, SizesFollow
    <3>4. NothingSentUnattached'
      BY <1>1, <2>4 DEF NothingSentUnattached
    <3> QED
      BY <2>3, <3>2, <3>3, <3>4 DEF ResizeInv
  <2>5. CASE stage # "live"
    <3>1. requests' = requests
      BY <2>1, <2>5
    <3>2. ResizeTypes'
      BY <1>1, <2>3, <3>1 DEF ResizeInv, ResizeTypes
    <3>3. SizesFollow' /\ NothingSentUnattached'
      BY <1>1, <2>5, <3>1 DEF ResizeInv, SizesFollow, NothingSentUnattached
    <3> QED
      BY <2>3, <3>2, <3>3 DEF ResizeInv
  <2> QED
    BY <2>4, <2>5
<1>3. CASE ~(epoch = debounce.epoch /\ debounce.size # 0)
  <2>1. debounce' = [debounce EXCEPT !.timers = @ \ {epoch}] /\ UNCHANGED <<ack, requests>>
    BY <1>3 DEF FlushResizeDebounce
  <2>2. debounce' \in Debouncing /\ debounce'.size = debounce.size /\ HasItsTimer(debounce')
    BY <1>1, <1>3, <2>1, FiredTimersBehave DEF ResizeInv
  <2>3. ResizeTypes' /\ NewestSent' = NewestSent
    BY <1>1, <2>1, <2>2 DEF ResizeInv, ResizeTypes, NewestSent
  <2>4. SizesFollow' /\ NothingSentUnattached'
    BY <1>1, <2>1, <2>2, <2>3 DEF ResizeInv, SizesFollow, NothingSentUnattached
  <2> QED
    BY <2>1, <2>2, <2>3, <2>4 DEF ResizeInv
<1> QED
  BY <1>2, <1>3

(* The grid takes the size that waits, or leaves it.                          *)
LEMMA GridKeeps ==
  ASSUME ResizeInv, UNCHANGED <<viewport, notified, stage, attachSize, last, debounce,
                                requests, pty>>,
         ack' \in Debouncing, HasItsTimer(ack'),
         \/ ack.size # 0 /\ grid' = ack.size /\ ack'.size = 0
         \/ grid' = grid /\ ack'.size = ack.size
  PROVE  ResizeInv'
<1>1. NewestSent' = NewestSent
  BY DEF NewestSent
<1>2. ResizeTypes'
  BY DEF ResizeInv, ResizeTypes, Debouncing
<1>3. SizesFollow' /\ NothingSentUnattached'
  BY <1>1 DEF ResizeInv, SizesFollow, NothingSentUnattached
<1> QED
  BY <1>2, <1>3 DEF ResizeInv

LEMMA AckTimeoutKeeps ==
  ASSUME ResizeInv, NEW epoch \in ack.timers, FireResizeAckTimeout(epoch)
  PROVE  ResizeInv'
<1>1. UNCHANGED <<viewport, notified, stage, attachSize, last, debounce, requests, pty>>
      /\ ack \in Debouncing /\ HasItsTimer(ack)
  BY DEF FireResizeAckTimeout, ResizeInv, ResizeTypes
<1>2. CASE epoch = ack.epoch /\ ack.size # 0
  <2>1. grid' = ack.size /\ ack' = [ack EXCEPT !.timers = @ \ {epoch}, !.size = 0]
    BY <1>2 DEF FireResizeAckTimeout
  <2>2. ack' \in Debouncing /\ HasItsTimer(ack') /\ ack'.size = 0
    BY <1>1, <2>1, FiredTimersBehave
  <2> QED
    BY <1>1, <1>2, <2>1, <2>2, GridKeeps
<1>3. CASE ~(epoch = ack.epoch /\ ack.size # 0)
  <2>1. grid' = grid /\ ack' = [ack EXCEPT !.timers = @ \ {epoch}]
    BY <1>3 DEF FireResizeAckTimeout
  <2>2. ack' \in Debouncing /\ HasItsTimer(ack') /\ ack'.size = ack.size
    BY <1>1, <1>3, <2>1, FiredTimersBehave
  <2> QED
    BY <1>1, <2>1, <2>2, GridKeeps
<1> QED
  BY <1>2, <1>3

LEMMA ResizeAckKeeps == ASSUME ResizeInv, ApplyResizeAck PROVE ResizeInv'
<1>1. UNCHANGED <<viewport, notified, stage, attachSize, last, debounce, requests, pty>>
      /\ ack \in Debouncing /\ HasItsTimer(ack)
  BY DEF ApplyResizeAck, ResizeInv, ResizeTypes
<1>2. CASE IsForPending(Head(acks))
  <2>1. grid' = ack.size /\ ack' = Cleared(ack) /\ ack.size # 0
    BY <1>2 DEF ApplyResizeAck, IsForPending
  <2>2. ack' \in Debouncing /\ HasItsTimer(ack') /\ ack'.size = 0
    BY <1>1, <2>1, TimersBehave
  <2> QED
    BY <1>1, <2>1, <2>2, GridKeeps
<1>3. CASE ~IsForPending(Head(acks))
  BY <1>1, <1>3, GridKeeps DEF ApplyResizeAck
<1> QED
  BY <1>2, <1>3

LEMMA DaemonResizesKeeps == ASSUME ResizeInv, DaemonResizes PROVE ResizeInv'
<1>1. /\ requests # <<>> /\ requests' = Tail(requests) /\ pty' = Head(requests)
      /\ UNCHANGED <<viewport, notified, stage, attachSize, last, grid, debounce, ack>>
  BY DEF DaemonResizes
<1>2. requests' \in Seq(Nat) /\ NewestSent' = NewestSent /\ pty' \in Nat
  BY <1>1, ServingKeepsNewest, HeadTailProperties DEF ResizeInv, ResizeTypes
<1>3. ResizeTypes'
  BY <1>1, <1>2 DEF ResizeInv, ResizeTypes
<1>4. SizesFollow' /\ NothingSentUnattached'
  BY <1>1, <1>2 DEF ResizeInv, SizesFollow, NothingSentUnattached
<1> QED
  BY <1>1, <1>3, <1>4 DEF ResizeInv

LEMMA LossKeeps == ASSUME ResizeInv, MarkPendingResizes PROVE ResizeInv'
<1>1. /\ stage' = "pending" /\ requests' = <<>> /\ <<>> \in Seq(Nat)
      /\ UNCHANGED <<viewport, notified, attachSize, last, grid, debounce, ack, pty>>
  BY EmptySeq DEF MarkPendingResizes
<1>2. ResizeTypes'
  BY <1>1 DEF ResizeInv, ResizeTypes
<1>3. SizesFollow' /\ NothingSentUnattached'
  BY <1>1 DEF SizesFollow, NothingSentUnattached
<1> QED
  BY <1>1, <1>2, <1>3 DEF ResizeInv

LEMMA AttachKeepsSizes == ASSUME ResizeInv, AttachSessionSize PROVE ResizeInv'
<1>1. /\ stage = "pending" /\ attachSize' = pty /\ UNCHANGED <<viewport, notified, pty>>
      /\ requests = <<>> /\ viewport \in Nat /\ notified \in BOOLEAN
  BY DEF AttachSessionSize, ResizeInv, ResizeTypes, NothingSentUnattached
<1>2. CASE viewport # 0
  <2>1. InitializeAttachedSize(viewport)
    BY <1>2 DEF AttachSessionSize
  <2> QED
    BY <1>1, <1>2, <2>1, InitializeKeepsSizes
<1>3. CASE viewport = 0
  <2>1. /\ stage' = "bootstrap" /\ UNCHANGED <<last, grid, requests>>
        /\ debounce' = [debounce EXCEPT !.size = 0] /\ ack' = [ack EXCEPT !.size = 0]
    BY <1>3 DEF AttachSessionSize
  <2>2. /\ debounce' \in Debouncing /\ HasItsTimer(debounce')
        /\ ack' \in Debouncing /\ HasItsTimer(ack')
    BY <2>1 DEF ResizeInv, ResizeTypes, Debouncing, HasItsTimer
  <2>3. ResizeTypes'
    BY <1>1, <2>1, <2>2 DEF ResizeInv, ResizeTypes
  <2>4. SizesFollow' /\ NothingSentUnattached'
    BY <1>1, <2>1 DEF SizesFollow, NothingSentUnattached
  <2> QED
    BY <2>2, <2>3, <2>4 DEF ResizeInv
<1> QED
  BY <1>2, <1>3

LEMMA ResizeNextKeeps == ResizeInv /\ [ResizeNext]_resizeVars => ResizeInv'
<1> SUFFICES ASSUME ResizeInv, [ResizeNext]_resizeVars PROVE ResizeInv'
  OBVIOUS
<1>1. CASE UNCHANGED resizeVars
  BY <1>1 DEF resizeVars, ResizeInv, ResizeTypes, HasItsTimer, NothingSentUnattached,
              SizesFollow, NewestSent
<1>2. CASE ResizeNext
  BY <1>2, PaintedKeeps, BoundsChangedKeeps, FlushKeeps, AckTimeoutKeeps, ResizeAckKeeps,
     DaemonResizesKeeps, LossKeeps, AttachKeepsSizes DEF ResizeNext
<1> QED
  BY <1>1, <1>2

(* For any sizes and any number of changes and lost connections: once nothing *)
(* is on its way, the element, the grid and the PTY have one size, since a    *)
(* size that waits keeps a timer and the newest request is the one that waits *)
(* for its acknowledgement.                                                   *)
THEOREM SizesAgree == ResizeSpec => []SizesAgreeWhenQuiet
<1>1. ResizeInv => SizesAgreeWhenQuiet
  <2> SUFFICES ASSUME ResizeInv, ResizesAreQuiet, stage = "live"
               PROVE  grid = pty /\ last = grid /\ (viewport # 0 => viewport = grid)
    BY DEF SizesAgreeWhenQuiet
  <2>1. debounce.size = 0 /\ ack.size = 0
    BY DEF ResizesAreQuiet, ResizeInv, HasItsTimer
  <2>2. NewestSent = pty
    BY DEF ResizesAreQuiet, NewestSent
  <2> QED
    BY <2>1, <2>2 DEF ResizesAreQuiet, ResizeInv, SizesFollow
<1> QED
  BY <1>1, ResizeInvInit, ResizeNextKeeps, PTL DEF ResizeSpec

------------------------------------------------------------------------------
(* TerminalInput                                                              *)

(* A gesture of the view's own, a selection or a click on a link, goes on     *)
(* while the left button is down, and the program did not see that press; two *)
(* never go on at once. Without a session none goes on.                       *)
GestureHasTheButton ==
    ~cut =>
      /\ linkClick \/ selecting => "Left" \in down /\ "Left" \notin reported
      /\ ~(linkClick /\ selecting)
      /\ ~live => ~linkClick /\ ~selecting

InputTypes == /\ live \in BOOLEAN /\ cut \in BOOLEAN /\ linkClick \in BOOLEAN
         /\ selecting \in BOOLEAN

InputInv == InputTypes /\ NoStuckButton /\ GestureHasTheButton

LEMMA InputInvInit == InputInit => InputInv
BY DEF InputInit, InputInv, InputTypes, NoStuckButton, GestureHasTheButton

------------------------------------------------------------------------------
(* The session comes, goes or starts to track the mouse.                      *)
LEMMA SessionKeeps ==
  ASSUME InputInv, \/ MarkPendingRestore
               \/ \E on \in BOOLEAN : ProgramTracks(on) \/ Attach(on)
  PROVE  InputInv'
<1>1. CASE MarkPendingRestore
  BY <1>1 DEF MarkPendingRestore, InputInv, InputTypes, NoStuckButton, GestureHasTheButton
<1>2. ASSUME NEW on \in BOOLEAN, ProgramTracks(on) PROVE InputInv'
  BY <1>2 DEF ProgramTracks, InputInv, InputTypes, NoStuckButton, GestureHasTheButton
<1>3. ASSUME NEW on \in BOOLEAN, Attach(on) PROVE InputInv'
  BY <1>3 DEF Attach, InputInv, InputTypes, NoStuckButton, GestureHasTheButton
<1> QED
  BY <1>1, <1>2, <1>3

(* A press begins at most one thing: a click on a link, a selection, or a     *)
(* press of the program.                                                      *)
LEMMA MouseDownKeeps ==
  ASSUME InputInv,
         NEW button \in Buttons, NEW spot \in Spots, NEW shift \in BOOLEAN,
         NEW modifier \in BOOLEAN, NEW click \in 1..3,
         MouseDown(button, spot, shift, modifier, click)
  PROVE  InputInv'
<1> DEFINE onLink == button = "Left" /\ ClicksLink(spot, shift, modifier, click)
           selects == Selects(button, spot, shift, modifier, click)
<1>1. CASE ~live
  BY <1>1 DEF MouseDown, GestureUnchanged, InputInv, InputTypes, NoStuckButton, GestureHasTheButton
<1>2. CASE live /\ onLink
  BY <1>2 DEF MouseDown, InputInv, InputTypes, NoStuckButton, GestureHasTheButton
<1>3. CASE live /\ ~onLink /\ selects
  <2>1. button = "Left" /\ BeginTerminalSelection(click) /\ UNCHANGED <<pressed, reported>>
    BY <1>3 DEF MouseDown, SelectionTakesPress, Selects
  <2> QED
    BY <1>3, <2>1
       DEF MouseDown, BeginTerminalSelection, InputInv, InputTypes, NoStuckButton, GestureHasTheButton
<1>4. CASE live /\ ~onLink /\ ~selects
  <2>1. GestureUnchanged /\ PressReported(button)
    BY <1>4 DEF MouseDown
  <2>2. reported' \subseteq reported \cup {button} /\ down' = down \cup {button}
    BY <2>1 DEF PressReported, MouseDown
  <2>3. ~cut /\ (linkClick \/ selecting) => button # "Left"
    BY DEF MouseDown, InputInv, GestureHasTheButton
  <2> QED
    BY <1>4, <2>1, <2>2, <2>3
       DEF MouseDown, GestureUnchanged, InputInv, InputTypes, NoStuckButton, GestureHasTheButton
<1> QED
  BY <1>1, <1>2, <1>3, <1>4

(* A release ends what its press began.                                       *)
LEMMA MouseUpKeeps ==
  ASSUME InputInv, NEW button \in Buttons, MouseUp(button)
  PROVE  InputInv'
<1>1. CASE ~live
  BY <1>1 DEF MouseUp, GestureUnchanged, InputInv, InputTypes, NoStuckButton, GestureHasTheButton
<1>2. CASE live /\ button = "Left" /\ linkClick
  <2>1. linkClick' = FALSE /\ UNCHANGED <<live, selecting, reported, cut>>
    BY <1>2 DEF MouseUp
  <2>2. down' = down \ {"Left"}
    BY <1>2 DEF MouseUp
  <2>3. ~cut => "Left" \notin reported /\ reported \subseteq down
    BY <1>2 DEF InputInv, NoStuckButton, GestureHasTheButton
  <2>4. NoStuckButton'
    BY <2>1, <2>2, <2>3 DEF NoStuckButton
  <2>5. GestureHasTheButton'
    BY <1>2, <2>1 DEF GestureHasTheButton, InputInv, InputTypes
  <2>6. InputTypes'
    BY <2>1 DEF InputInv, InputTypes
  <2> QED
    BY <2>4, <2>5, <2>6 DEF InputInv
<1>3. CASE live /\ button = "Left" /\ ~linkClick /\ selecting
  <2>1. selecting' = FALSE /\ UNCHANGED <<live, linkClick, reported, cut>>
    BY <1>3 DEF MouseUp
  <2>2. down' = down \ {"Left"}
    BY <1>3 DEF MouseUp
  <2>3. ~cut => "Left" \notin reported /\ reported \subseteq down
    BY <1>3 DEF InputInv, NoStuckButton, GestureHasTheButton
  <2>4. NoStuckButton'
    BY <2>1, <2>2, <2>3 DEF NoStuckButton
  <2>5. GestureHasTheButton'
    BY <1>3, <2>1 DEF GestureHasTheButton, InputInv, InputTypes
  <2>6. InputTypes'
    BY <2>1 DEF InputInv, InputTypes
  <2> QED
    BY <2>4, <2>5, <2>6 DEF InputInv
<1>4. CASE live /\ ~(button = "Left" /\ (linkClick \/ selecting))
  <2>1. UNCHANGED <<live, linkClick, selecting, cut>>
    BY <1>4 DEF MouseUp, GestureUnchanged
  <2>2. down' = down \ {button} /\ reported' = reported \ {button}
    BY <1>4 DEF MouseUp
  <2>3. NoStuckButton'
    BY <2>1, <2>2 DEF NoStuckButton, InputInv
  <2>4. GestureHasTheButton'
    BY <1>4, <2>1, <2>2 DEF GestureHasTheButton, InputInv
  <2>5. InputTypes'
    BY <2>1 DEF InputInv, InputTypes
  <2> QED
    BY <2>3, <2>4, <2>5 DEF InputInv
<1> QED
  BY <1>1, <1>2, <1>3, <1>4

LEMMA MouseDragKeeps ==
  ASSUME InputInv, NEW far \in BOOLEAN, NEW text \in BOOLEAN, MouseDrag(far, text)
  PROVE  InputInv'
BY DEF MouseDrag, GestureUnchanged, InputInv, InputTypes, NoStuckButton, GestureHasTheButton

(* Keys, paste and the input method end a gesture or leave it; they never     *)
(* touch the buttons.                                                         *)
LEMMA KeysKeep ==
  ASSUME InputInv,
         \/ \E key \in {"named", "character"}, modifier \in BOOLEAN : KeyDown(key, modifier)
         \/ Paste \/ ReplaceAndMarkText \/ ReplaceText \/ UnmarkText
  PROVE  InputInv'
<1>1. SelectionCleared \/ GestureUnchanged
  BY DEF KeyDown, Paste, ReplaceAndMarkText, ReplaceText, UnmarkText
<1>2. UNCHANGED <<live, down, reported, cut>>
  BY DEF KeyDown, Paste, ReplaceAndMarkText, ReplaceText, UnmarkText
<1>3. NoStuckButton'
  BY <1>2 DEF InputInv, NoStuckButton
<1>4. InputTypes' /\ GestureHasTheButton'
  <2>1. CASE SelectionCleared
    BY <1>2, <2>1 DEF SelectionCleared, InputInv, InputTypes, GestureHasTheButton
  <2>2. CASE GestureUnchanged
    BY <1>2, <2>2 DEF GestureUnchanged, InputInv, InputTypes, GestureHasTheButton
  <2> QED
    BY <1>1, <2>1, <2>2
<1> QED
  BY <1>3, <1>4 DEF InputInv

LEMMA InputNextKeeps == InputInv /\ [InputNext]_inputVars => InputInv'
<1> SUFFICES ASSUME InputInv, [InputNext]_inputVars PROVE InputInv'
  OBVIOUS
<1>1. CASE UNCHANGED inputVars
  BY <1>1 DEF inputVars, InputInv, InputTypes, NoStuckButton, GestureHasTheButton
<1>2. CASE InputNext
  BY <1>2, SessionKeeps, MouseDownKeeps, MouseUpKeeps, MouseDragKeeps, KeysKeep DEF InputNext
<1> QED
  BY <1>1, <1>2

------------------------------------------------------------------------------
(* However selections, link clicks, keys and changes of the tracking mode     *)
(* come between, the program sees the release of every button it saw pressed. *)
THEOREM ButtonsAreReleased == InputSpec => []NoStuckButton
<1>1. InputInv => NoStuckButton
  BY DEF InputInv
<1> QED
  BY <1>1, InputInvInit, InputNextKeeps, PTL DEF InputSpec

------------------------------------------------------------------------------
(* ViewTimers                                                                 *)

Timers == [epoch : Nat, at : Nat]

TimersTypes ==
    /\ now \in Nat /\ pausedUntil \in Nat
    /\ blinkEpoch \in Nat /\ lastChange \in Nat /\ fadeEpoch \in Nat /\ lastScroll \in Nat
    /\ blinkTimers \in SUBSET Timers /\ fadeTimers \in SUBSET Timers

(* Only the youngest timer counts, and it fires a whole pause after the cursor *)
(* was last shown or toggled; the others have an older epoch.                  *)
BlinkIsWhole ==
    /\ \A timer \in blinkTimers :
           /\ timer.epoch <= blinkEpoch
           /\ timer.epoch = blinkEpoch => timer.at >= lastChange + Pause
    /\ pausedUntil <= lastChange + Pause

(* So for the scrollbar.                                                       *)
FadeIsWhole ==
    \A timer \in fadeTimers :
        /\ timer.epoch <= fadeEpoch
        /\ timer.epoch = fadeEpoch => timer.at >= lastScroll + Fade

TimersInv == TimersTypes /\ BlinkIsWhole /\ FadeIsWhole

LEMMA TimersInvInit == TimersInit => TimersInv
<1> SUFFICES ASSUME TimersInit PROVE TimersInv
  OBVIOUS
<1>1. TimersTypes
  BY DEF TimersInit, TimersTypes
<1>2. BlinkIsWhole /\ FadeIsWhole
  BY TimersAssumption DEF TimersInit, BlinkIsWhole, FadeIsWhole
<1> QED
  BY <1>1, <1>2 DEF TimersInv

-------------------------------------------------------------------------------
(* A timer armed under a new epoch is the one that counts.                     *)
LEMMA ShowKeeps ==
  ASSUME TimersInv, NEW blinks, ShowCursorNow(blinks), now' = now
  PROVE  /\ BlinkIsWhole'
         /\ pausedUntil' \in Nat /\ blinkEpoch' \in Nat /\ lastChange' \in Nat
         /\ blinkTimers' \in SUBSET Timers
<1> DEFINE armed == [epoch |-> blinkEpoch + 1, at |-> now + Pause]
<1>1. armed \in Timers
  BY TimersAssumption DEF TimersInv, TimersTypes, Timers
<1>2. /\ blinkTimers' = blinkTimers \cup {armed} /\ blinkEpoch' = blinkEpoch + 1
      /\ lastChange' = now /\ pausedUntil' = now + Pause
  BY DEF ShowCursorNow, Arms
<1>3. \A timer \in blinkTimers : timer \in Timers /\ timer.epoch <= blinkEpoch
  BY DEF TimersInv, TimersTypes, BlinkIsWhole
<1>4. \A timer \in blinkTimers : timer.epoch \in Nat /\ timer.epoch <= blinkEpoch
  BY <1>3 DEF Timers
<1>5. ASSUME NEW timer \in blinkTimers'
      PROVE  /\ timer.epoch <= blinkEpoch'
             /\ timer.epoch = blinkEpoch' => timer.at >= lastChange' + Pause
  <2>1. CASE timer = armed
    BY <1>2, <2>1, TimersAssumption DEF TimersInv, TimersTypes
  <2>2. CASE timer \in blinkTimers
    <3>1. timer.epoch < blinkEpoch + 1
      BY <1>4, <2>2 DEF TimersInv, TimersTypes
    <3> QED
      BY <1>2, <1>4, <2>2, <3>1 DEF TimersInv, TimersTypes
  <2> QED
    BY <1>2, <2>1, <2>2
<1> QED
  BY <1>1, <1>2, <1>5, TimersAssumption DEF TimersInv, TimersTypes, BlinkIsWhole

LEMMA OutputKeeps == ASSUME TimersInv, Output PROVE TimersInv'
<1>1. BlinkIsWhole' /\ TimersTypes'
  BY ShowKeeps DEF Output, barVars, TimersInv, TimersTypes
<1>2. FadeIsWhole'
  BY DEF Output, barVars, TimersInv, FadeIsWhole
<1> QED
  BY <1>1, <1>2 DEF TimersInv

LEMMA ScrollKeeps == ASSUME TimersInv, Scroll PROVE TimersInv'
<1> DEFINE armed == [epoch |-> fadeEpoch + 1, at |-> now + Fade]
<1>1. armed \in Timers
  BY TimersAssumption DEF TimersInv, TimersTypes, Timers
<1>2. /\ fadeTimers' = fadeTimers \cup {armed} /\ fadeEpoch' = fadeEpoch + 1
      /\ lastScroll' = now /\ now' = now
  BY DEF Scroll, Arms
<1>3. BlinkIsWhole' /\ TimersTypes'
  <2>1. ShowCursorNow(blinking)
    BY DEF Scroll
  <2> QED
    BY <1>1, <1>2, <2>1, ShowKeeps DEF TimersInv, TimersTypes
<1>4. \A timer \in fadeTimers : timer.epoch \in Nat /\ timer.epoch <= fadeEpoch
  BY DEF TimersInv, TimersTypes, FadeIsWhole, Timers
<1>5. ASSUME NEW timer \in fadeTimers'
      PROVE  /\ timer.epoch <= fadeEpoch'
             /\ timer.epoch = fadeEpoch' => timer.at >= lastScroll' + Fade
  <2>1. CASE timer = armed
    BY <1>2, <2>1, TimersAssumption DEF TimersInv, TimersTypes
  <2>2. CASE timer \in fadeTimers
    BY <1>2, <1>4, <2>2 DEF TimersInv, TimersTypes
  <2> QED
    BY <1>2, <2>1, <2>2
<1> QED
  BY <1>3, <1>5 DEF TimersInv, FadeIsWhole

(* What a blink timer does when it fires.                                      *)
LEMMA BlinkIsLate ==
  ASSUME TimersInv, NEW timer \in blinkTimers, TickBlink(timer),
         cursorVisible' # cursorVisible
  PROVE  now - lastChange >= Pause
<1>1. timer.epoch = blinkEpoch /\ timer.at <= now /\ timer \in Timers
  BY DEF TickBlink, IsCurrent, Due, TimersInv, TimersTypes
<1>2. timer.at >= lastChange + Pause
  BY <1>1 DEF TimersInv, BlinkIsWhole
<1> QED
  BY <1>1, <1>2, TimersAssumption DEF TimersInv, TimersTypes, Timers

LEMMA TickKeeps == ASSUME TimersInv, NEW timer \in blinkTimers, TickBlink(timer) PROVE TimersInv'
<1>1. FadeIsWhole' /\ UNCHANGED <<now, pausedUntil, fadeEpoch, lastScroll, fadeTimers>>
  BY DEF TickBlink, barVars, TimersInv, FadeIsWhole
<1>2. CASE blinkTimers' = blinkTimers \ {timer} /\ UNCHANGED <<blinkEpoch, lastChange>>
  <2>1. TimersTypes'
    BY <1>1, <1>2 DEF TimersInv, TimersTypes
  <2>2. BlinkIsWhole'
    BY <1>1, <1>2 DEF TimersInv, BlinkIsWhole
  <2> QED
    BY <1>1, <2>1, <2>2 DEF TimersInv
<1>3. CASE /\ IsCurrent(timer) /\ lastChange' = now /\ blinkEpoch' = blinkEpoch + 1
           /\ blinkTimers' = Arms(blinkTimers \ {timer}, blinkEpoch + 1, Pause)
           /\ now >= pausedUntil
  <2> DEFINE armed == [epoch |-> blinkEpoch + 1, at |-> now + Pause]
  <2>1. armed \in Timers
    BY TimersAssumption DEF TimersInv, TimersTypes, Timers
  <2>2. blinkTimers' = (blinkTimers \ {timer}) \cup {armed}
    BY <1>3 DEF Arms
  <2>3. \A t \in blinkTimers : t.epoch \in Nat /\ t.epoch <= blinkEpoch
    BY DEF TimersInv, TimersTypes, BlinkIsWhole, Timers
  <2>4. ASSUME NEW t \in blinkTimers'
        PROVE  /\ t.epoch <= blinkEpoch'
               /\ t.epoch = blinkEpoch' => t.at >= lastChange' + Pause
    <3>1. CASE t = armed
      BY <1>3, <3>1, TimersAssumption DEF TimersInv, TimersTypes
    <3>2. CASE t \in blinkTimers
      BY <1>3, <2>3, <3>2 DEF TimersInv, TimersTypes
    <3> QED
      BY <2>2, <3>1, <3>2
  <2>5. BlinkIsWhole'
    <3>1. pausedUntil' <= lastChange' + Pause
      BY <1>1, <1>3, TimersAssumption DEF TimersInv, TimersTypes
    <3> QED
      BY <2>4, <3>1 DEF BlinkIsWhole
  <2>6. TimersTypes'
    BY <1>1, <1>3, <2>1, <2>2 DEF TimersInv, TimersTypes
  <2> QED
    BY <1>1, <2>5, <2>6 DEF TimersInv
<1> QED
  BY <1>2, <1>3 DEF TickBlink

LEMMA FadeIsLate ==
  ASSUME TimersInv, NEW timer \in fadeTimers, FireFade(timer), scrollbar, ~scrollbar'
  PROVE  now - lastScroll >= Fade
<1>1. timer.epoch = fadeEpoch /\ timer.at <= now /\ timer \in Timers
  BY DEF FireFade, Due, TimersInv, TimersTypes
<1>2. timer.at >= lastScroll + Fade
  BY <1>1 DEF TimersInv, FadeIsWhole
<1> QED
  BY <1>1, <1>2, TimersAssumption DEF TimersInv, TimersTypes, Timers

LEMMA FireFadeKeeps ==
  ASSUME TimersInv, NEW timer \in fadeTimers, FireFade(timer)
  PROVE  TimersInv'
<1>1. /\ fadeTimers' = fadeTimers \ {timer}
      /\ UNCHANGED <<now, fadeEpoch, lastScroll, pausedUntil, blinkEpoch, blinkTimers, lastChange>>
  BY DEF FireFade, cursorVars
<1>2. TimersTypes'
  BY <1>1 DEF TimersInv, TimersTypes
<1>3. BlinkIsWhole' /\ FadeIsWhole'
  BY <1>1 DEF TimersInv, BlinkIsWhole, FadeIsWhole
<1> QED
  BY <1>2, <1>3 DEF TimersInv

LEMMA TimePassesKeeps == ASSUME TimersInv, TimePasses PROVE TimersInv'
<1>1. TimersTypes'
  BY DEF TimePasses, cursorVars, barVars, TimersInv, TimersTypes
<1>2. BlinkIsWhole' /\ FadeIsWhole'
  BY DEF TimePasses, cursorVars, barVars, TimersInv, BlinkIsWhole, FadeIsWhole
<1> QED
  BY <1>1, <1>2 DEF TimersInv

LEMMA TimersNextKeeps == TimersInv /\ [TimersNext]_timerVars => TimersInv'
<1> SUFFICES ASSUME TimersInv, [TimersNext]_timerVars PROVE TimersInv'
  OBVIOUS
<1>1. CASE UNCHANGED timerVars
  BY <1>1 DEF timerVars, TimersInv, TimersTypes, BlinkIsWhole, FadeIsWhole
<1>2. CASE TimersNext
  BY <1>2, OutputKeeps, ScrollKeeps, TickKeeps, FireFadeKeeps, TimePassesKeeps DEF TimersNext
<1> QED
  BY <1>1, <1>2

-------------------------------------------------------------------------------
(* What the property says of one step.                                         *)
Whole ==
    /\ cursorVisible' # cursorVisible /\ ~cursorVisible' => now - lastChange >= Pause
    /\ cursorVisible' # cursorVisible /\ lastChange' = now /\ pausedUntil' = pausedUntil
           => now - lastChange >= Pause
    /\ scrollbar /\ ~scrollbar' => now - lastScroll >= Fade

(* A step that shows the cursor moves the end of its pause.                    *)
LEMMA ShowIsWhole ==
  ASSUME TimersInv, NEW blinks, ShowCursorNow(blinks), lastChange < now,
         scrollbar' = scrollbar \/ scrollbar' = TRUE
  PROVE  Whole
<1>1. cursorVisible' = TRUE /\ pausedUntil' = now + Pause
  BY DEF ShowCursorNow
<1>2. pausedUntil' # pausedUntil
  BY <1>1, TimersAssumption DEF TimersInv, TimersTypes, BlinkIsWhole
<1>3. ~(~cursorVisible') /\ ~(scrollbar /\ ~scrollbar')
  BY <1>1
<1> QED
  BY <1>2, <1>3, Zenon DEF Whole

LEMMA StepIsWhole == ASSUME TimersInv, TimersNext PROVE Whole
<1>1. CASE lastChange < now /\ Output
  BY <1>1, ShowIsWhole DEF Output, barVars
<1>2. CASE lastChange < now /\ Scroll
  BY <1>2, ShowIsWhole DEF Scroll
<1>3. ASSUME NEW timer \in blinkTimers, TickBlink(timer) PROVE Whole
  <2>1. scrollbar' = scrollbar
    BY <1>3 DEF TickBlink, barVars
  <2> QED
    BY <1>3, <2>1, BlinkIsLate DEF Whole
<1>4. ASSUME NEW timer \in fadeTimers, FireFade(timer) PROVE Whole
  <2>1. cursorVisible' = cursorVisible
    BY <1>4 DEF FireFade, cursorVars
  <2> QED
    BY <1>4, <2>1, FadeIsLate DEF Whole
<1>5. CASE TimePasses
  BY <1>5 DEF TimePasses, cursorVars, barVars, Whole
<1> QED
  BY <1>1, <1>2, <1>3, <1>4, <1>5 DEF TimersNext

(* However late timers fire and however often output and scrolling arm new     *)
(* ones, the cursor is shown and hidden for whole half periods and the         *)
(* scrollbar stays for its whole time.                                         *)
THEOREM TimersKeepTheirTime == TimersSpec => TimersDoNotPileUp
<1>1. TimersInit => TimersInv
  BY TimersInvInit
<1>2. TimersInv /\ [TimersNext]_timerVars => TimersInv'
  BY TimersNextKeeps
<1>3. TimersInv /\ [TimersNext]_timerVars => [Whole]_timerVars
  BY StepIsWhole
<1>4. (TimersInv /\ [TimersNext]_timerVars => [Whole]_timerVars)
        => (TimersInv /\ [TimersNext]_timerVars
              => [/\ cursorVisible' # cursorVisible /\ ~cursorVisible'
                         => now - lastChange >= Pause
                  /\ cursorVisible' # cursorVisible /\ lastChange' = now
                       /\ pausedUntil' = pausedUntil => now - lastChange >= Pause
                  /\ scrollbar /\ ~scrollbar' => now - lastScroll >= Fade]_timerVars)
  BY DEF Whole
<1> QED
  BY <1>1, <1>2, <1>3, <1>4, PTL DEF TimersSpec, TimersDoNotPileUp

------------------------------------------------------------------------------
(* TerminalFeed                                                               *)

Pieces == Handles \X Nat

FeedTypes ==
    /\ channels \in [Handles -> Seq(Pieces)] /\ sent \in [Handles -> Nat]
    /\ bootstrap \in Handles \cup {0} /\ drains \in Handles \cup {0}
    /\ batch \in Seq(Pieces) /\ shown \in Seq(Pieces)
    /\ sized \in BOOLEAN

(* A bootstrap is for an attach after the one that is drained.                 *)
BootstrapIsNewer == bootstrap # 0 => bootstrap > drains

(* Nobody has read the channel of an attach after the one that is drained.     *)
ChannelIsWhole ==
    \A h \in Handles : h > drains => channels[h] = [i \in 1..sent[h] |-> <<h, i>>]

NothingWithoutATask == drains = 0 => batch = <<>>

FeedInv == /\ FeedTypes /\ BootstrapIsNewer /\ ChannelIsWhole /\ NothingWithoutATask
        /\ ShowsOneAttachInOrder

-------------------------------------------------------------------------------
(* Sequences *)

(* What is taken from the third of three goes to the end of the second.        *)
LEMMA TakingKeepsTheWhole ==
  \A s, b, c \in Seq(Pieces) : c # <<>> => s \o Append(b, Head(c)) \o Tail(c) = s \o b \o c
<1> DEFINE S == Pieces
<1> SUFFICES ASSUME NEW s \in Seq(S), NEW b \in Seq(S), NEW c \in Seq(S), c # <<>>
             PROVE  s \o Append(b, Head(c)) \o Tail(c) = s \o b \o c
  OBVIOUS
<1> HIDE DEF S
<1>1. Head(c) \in S /\ Tail(c) \in Seq(S) /\ <<Head(c)>> \in Seq(S)
  BY HeadTailProperties
<1>2. c = <<Head(c)>> \o Tail(c)
  <2>1. /\ Len(<<Head(c)>> \o Tail(c)) = Len(c) /\ <<Head(c)>> \o Tail(c) \in Seq(S)
        /\ Len(c) \in Nat
    BY <1>1, HeadTailProperties, ConcatProperties, LenProperties
  <2>2. ASSUME NEW i \in 1..Len(c) PROVE c[i] = (<<Head(c)>> \o Tail(c))[i]
    <3>1. Len(Tail(c)) = Len(c) - 1 /\ \A j \in 1..Len(Tail(c)) : Tail(c)[j] = c[j + 1]
      BY HeadTailProperties
    <3>2. (<<Head(c)>> \o Tail(c))[i] = IF i <= 1 THEN Head(c) ELSE Tail(c)[i - 1]
      BY <1>1, <2>1, <3>1, ConcatProperties
    <3>3. CASE i = 1
      BY <3>2, <3>3
    <3>4. CASE i # 1
      BY <2>1, <3>1, <3>2, <3>4
    <3> QED
      BY <3>3, <3>4
  <2> QED
    BY <2>1, <2>2, SeqEqual
<1>3. Append(b, Head(c)) = b \o <<Head(c)>>
  BY <1>1, AppendIsConcat
<1>4. s \o (b \o <<Head(c)>>) = (s \o b) \o <<Head(c)>>
  BY <1>1, ConcatAssociative
<1>5. s \o b \in Seq(S)
  BY ConcatProperties
<1>6. ((s \o b) \o <<Head(c)>>) \o Tail(c) = (s \o b) \o (<<Head(c)>> \o Tail(c))
  BY <1>1, <1>5, ConcatAssociative
<1> QED
  BY <1>2, <1>3, <1>4, <1>6

LEMMA AppendingToTheLast ==
  ASSUME NEW S, NEW s \in Seq(S), NEW c \in Seq(S), NEW x \in S
  PROVE  s \o Append(c, x) = Append(s \o c, x)
<1>1. <<x>> \in Seq(S) /\ s \o c \in Seq(S)
  BY ConcatProperties
<1>2. Append(c, x) = c \o <<x>> /\ Append(s \o c, x) = (s \o c) \o <<x>>
  BY <1>1, AppendIsConcat
<1> QED
  BY <1>1, <1>2, ConcatAssociative

(* The numbered chunks of a handle, from 0 or from 1.                          *)
LEMMA NumberedChunks ==
  ASSUME NEW h \in Handles, NEW n \in Nat
  PROVE  /\ [i \in 1..n |-> <<h, i>>] \in Seq(Pieces)
         /\ Append([i \in 1..n |-> <<h, i>>], <<h, n + 1>>) = [i \in 1..(n + 1) |-> <<h, i>>]
         /\ Append([i \in 1..(n + 1) |-> <<h, i - 1>>], <<h, n + 1>>)
                = [i \in 1..(n + 2) |-> <<h, i - 1>>]
         /\ <<<<h, 0>>>> \o [i \in 1..n |-> <<h, i>>] = [i \in 1..(n + 1) |-> <<h, i - 1>>]
<1> DEFINE S == Handles \X Nat
           from1(m) == [i \in 1..m |-> <<h, i>>]
           from0(m) == [i \in 1..m |-> <<h, i - 1>>]
<1>1. \A m \in Nat : /\ from1(m) \in Seq(S) /\ Len(from1(m)) = m
                     /\ from0(m) \in Seq(S) /\ Len(from0(m)) = m
  OBVIOUS
<1>2. <<h, n + 1>> \in S /\ <<<<h, 0>>>> \in Seq(S)
  OBVIOUS
<1>3. Append(from1(n), <<h, n + 1>>) = from1(n + 1)
  BY <1>1, <1>2
<1>4. Append(from0(n + 1), <<h, n + 1>>) = from0(n + 2)
  BY <1>1, <1>2
<1>5. <<<<h, 0>>>> \o from1(n) = from0(n + 1)
  BY <1>1, <1>2
<1> QED
  BY <1>1, <1>3, <1>4, <1>5 DEF Pieces

-------------------------------------------------------------------------------
LEMMA FeedInvInit == FeedInit => FeedInv
<1> SUFFICES ASSUME FeedInit PROVE FeedInv
  OBVIOUS
<1>1. 1 \in Handles
  BY FeedAssumption DEF Handles
<1>2. FeedTypes
  <2>1. channels \in [Handles -> Seq(Pieces)] /\ sent \in [Handles -> Nat]
    BY DEF FeedInit
  <2>2. batch \in Seq(Pieces) /\ shown \in Seq(Pieces)
    BY DEF FeedInit
  <2>3. bootstrap \in Handles \cup {0} /\ drains \in Handles \cup {0} /\ sized \in BOOLEAN
    BY <1>1 DEF FeedInit
  <2> QED
    BY <2>1, <2>2, <2>3 DEF FeedTypes
<1>3. ChannelIsWhole
  BY DEF FeedInit, ChannelIsWhole
<1>4. BootstrapIsNewer /\ NothingWithoutATask /\ ShowsOneAttachInOrder
  BY DEF FeedInit, BootstrapIsNewer, NothingWithoutATask, ShowsOneAttachInOrder
<1> QED
  BY <1>2, <1>3, <1>4 DEF FeedInv

(* A chunk goes to the end of its channel, whoever reads that.                 *)
LEMMA ArrivesKeeps == ASSUME FeedInv, NEW h \in Handles, Arrives(h) PROVE FeedInv'
<1> DEFINE x == <<h, sent[h] + 1>>
<1>1. /\ channels \in [Handles -> Seq(Pieces)] /\ sent \in [Handles -> Nat]
      /\ drains \in Handles \cup {0} /\ batch \in Seq(Pieces) /\ shown \in Seq(Pieces)
  BY DEF FeedInv, FeedTypes
<1>2. /\ sent' = [sent EXCEPT ![h] = @ + 1]
      /\ channels' = [channels EXCEPT ![h] = Append(@, x)]
      /\ UNCHANGED <<bootstrap, sized, drains, batch, shown>>
  BY DEF Arrives
<1>3. x \in Pieces /\ Append(channels[h], x) \in Seq(Pieces)
  BY <1>1 DEF Pieces
<1>4. FeedTypes'
  BY <1>1, <1>2, <1>3 DEF FeedInv, FeedTypes
<1>5. ChannelIsWhole'
  <2> SUFFICES ASSUME NEW g \in Handles, g > drains'
               PROVE  channels'[g] = [i \in 1..sent'[g] |-> <<g, i>>]
    BY DEF ChannelIsWhole
  <2>1. channels[g] = [i \in 1..sent[g] |-> <<g, i>>]
    BY <1>2 DEF FeedInv, ChannelIsWhole
  <2>2. CASE g = h
    <3>1. channels'[h] = Append(channels[h], <<h, sent[h] + 1>>) /\ sent'[h] = sent[h] + 1
      BY <1>1, <1>2
    <3>2. sent[h] \in Nat
      BY <1>1
    <3>3. Append(channels[h], <<h, sent[h] + 1>>) = [i \in 1..(sent[h] + 1) |-> <<h, i>>]
      <4>1. channels[h] = [i \in 1..sent[h] |-> <<h, i>>]
        BY <2>1, <2>2, Zenon
      <4> QED
        BY <3>2, <4>1, NumberedChunks
    <3>4. channels'[h] = [i \in 1..sent'[h] |-> <<h, i>>]
      BY <3>1, <3>3, Zenon
    <3> QED
      BY <2>2, <3>4, Zenon
  <2>3. CASE g # h
    BY <1>1, <1>2, <2>1, <2>3
  <2> QED
    BY <2>2, <2>3
<1>6. ShowsOneAttachInOrder'
  <2> SUFFICES ASSUME drains # 0
               PROVE  shown \o batch \o channels'[drains] =
                          [i \in 1..(sent'[drains] + 1) |-> <<drains, i - 1>>]
    BY <1>2 DEF ShowsOneAttachInOrder
  <2>1. shown \o batch \o channels[drains] = [i \in 1..(sent[drains] + 1) |-> <<drains, i - 1>>]
    BY DEF FeedInv, ShowsOneAttachInOrder
  <2>2. CASE drains = h
    <3>1. shown \o batch \in Seq(Pieces) /\ channels[h] \in Seq(Pieces)
      BY <1>1, ConcatProperties
    <3>2. shown \o batch \o channels'[drains] = Append(shown \o batch \o channels[drains], x)
      <4> HIDE DEF x
      <4> QED
        BY <1>1, <1>2, <1>3, <2>2, <3>1, AppendingToTheLast, SMTT(30)
    <3>3. sent'[drains] + 1 = sent[h] + 2
      BY <1>1, <1>2, <2>2
    <3> QED
      BY <1>1, <2>1, <2>2, <3>2, <3>3, NumberedChunks, ZenonT(60)
  <2>3. CASE drains # h
    BY <1>1, <1>2, <2>1, <2>3
  <2> QED
    BY <2>2, <2>3
<1> QED
  BY <1>2, <1>4, <1>5, <1>6 DEF FeedInv, BootstrapIsNewer, NothingWithoutATask

(* The terminal is new: it shows the replay and the whole channel.             *)
LEMMA InitializeKeeps ==
  ASSUME FeedInv, NEW h \in Handles, h > drains, InitializeAttached(h),
         sent' = sent, sized' \in BOOLEAN
  PROVE  FeedInv'
<1>1. /\ channels \in [Handles -> Seq(Pieces)] /\ sent \in [Handles -> Nat]
      /\ drains \in Handles \cup {0}
  BY DEF FeedInv, FeedTypes
<1>2. /\ shown' = <<<<h, 0>>>> \o channels[h] /\ channels' = [channels EXCEPT ![h] = <<>>]
      /\ drains' = h /\ batch' = <<>> /\ bootstrap' = 0
  BY DEF InitializeAttached, FormerBatchDropped
<1>3. channels[h] = [i \in 1..sent[h] |-> <<h, i>>]
  BY DEF FeedInv, ChannelIsWhole
<1>4. /\ shown' = [i \in 1..(sent[h] + 1) |-> <<h, i - 1>>]
      /\ shown' \in Seq(Pieces)
  <2>1. <<h, 0>> \in Pieces
    BY DEF Pieces
  <2>2. <<<<h, 0>>>> \in Seq(Pieces)
    BY <2>1
  <2> QED
    BY <1>1, <1>2, <1>3, <2>2, NumberedChunks, ConcatProperties
<1>5. FeedTypes'
  BY <1>1, <1>2, <1>4 DEF FeedTypes
<1>6. ChannelIsWhole'
  <2> SUFFICES ASSUME NEW g \in Handles, g > drains'
               PROVE  channels'[g] = [i \in 1..sent'[g] |-> <<g, i>>]
    BY DEF ChannelIsWhole
  <2>1. g # h /\ g > drains
    BY <1>1, <1>2 DEF Handles
  <2>2. channels'[g] = channels[g]
    BY <1>1, <1>2, <2>1
  <2> QED
    BY <2>1, <2>2 DEF FeedInv, ChannelIsWhole
<1>7. ShowsOneAttachInOrder'
  <2>1. shown' \o batch' = shown' /\ shown' \o channels'[h] = shown'
    BY <1>1, <1>2, <1>4, ConcatEmptySeq
  <2> QED
    BY <1>2, <1>4, <2>1 DEF ShowsOneAttachInOrder
<1>8. BootstrapIsNewer' /\ NothingWithoutATask'
  BY <1>2 DEF BootstrapIsNewer, NothingWithoutATask
<1> QED
  BY <1>5, <1>6, <1>7, <1>8 DEF FeedInv

LEMMA NewestIsNotDrained ==
  ASSUME FeedInv, Newest < MaxHandles
  PROVE  Newest + 1 \in Handles /\ Newest + 1 > drains
BY FeedAssumption DEF FeedInv, FeedTypes, BootstrapIsNewer, Newest, Handles

LEMMA AttachKeeps == ASSUME FeedInv, AttachSession PROVE FeedInv'
<1>1. Newest + 1 \in Handles /\ Newest + 1 > drains /\ UNCHANGED <<sent, sized>>
  BY NewestIsNotDrained DEF AttachSession
<1>2. CASE sized
  BY <1>1, <1>2, InitializeKeeps DEF AttachSession, FeedInv, FeedTypes
<1>3. CASE ~sized
  <2>1. bootstrap' = Newest + 1 /\ UNCHANGED <<channels, drains, batch, shown, sent, sized>>
    BY <1>1, <1>3 DEF AttachSession
  <2>2. FeedTypes' /\ BootstrapIsNewer'
    BY <1>1, <2>1 DEF FeedInv, FeedTypes, BootstrapIsNewer
  <2> QED
    BY <2>1, <2>2 DEF FeedInv, ChannelIsWhole, NothingWithoutATask, ShowsOneAttachInOrder
<1> QED
  BY <1>2, <1>3

LEMMA BoundsKeep == ASSUME FeedInv, BootstrapFromBounds \/ LosesRoom PROVE FeedInv'
<1>1. CASE BootstrapFromBounds /\ bootstrap # 0
  <2>1. bootstrap \in Handles /\ bootstrap > drains
    BY <1>1 DEF FeedInv, FeedTypes, BootstrapIsNewer
  <2> QED
    BY <1>1, <2>1, InitializeKeeps DEF BootstrapFromBounds
<1>2. CASE (BootstrapFromBounds /\ bootstrap = 0) \/ LosesRoom
  <2>1. UNCHANGED <<channels, bootstrap, drains, batch, shown, sent>> /\ sized' \in BOOLEAN
    BY <1>2 DEF BootstrapFromBounds, LosesRoom
  <2> QED
    BY <2>1 DEF FeedInv, FeedTypes, BootstrapIsNewer, ChannelIsWhole, NothingWithoutATask,
                ShowsOneAttachInOrder
<1> QED
  BY <1>1, <1>2

(* The task takes a chunk, and feeds what it has taken.                        *)
LEMMA DrainKeeps == ASSUME FeedInv, Takes \/ Feeds PROVE FeedInv'
<1>1. /\ channels \in [Handles -> Seq(Pieces)]
      /\ drains \in Handles \cup {0} /\ batch \in Seq(Pieces) /\ shown \in Seq(Pieces)
  BY DEF FeedInv, FeedTypes
<1>2. CASE Takes
  <2>1. drains \in Handles /\ channels[drains] \in Seq(Pieces) /\ channels[drains] # <<>>
    BY <1>1, <1>2 DEF Takes
  <2>2. /\ batch' = Append(batch, Head(channels[drains]))
        /\ channels' = [channels EXCEPT ![drains] = Tail(channels[drains])]
        /\ UNCHANGED <<sent, bootstrap, sized, drains, shown>>
    BY <1>2 DEF Takes
  <2>3. /\ Head(channels[drains]) \in Pieces /\ Tail(channels[drains]) \in Seq(Pieces)
        /\ batch' \in Seq(Pieces)
    BY <1>1, <2>1, <2>2, HeadTailProperties
  <2>4. FeedTypes'
    BY <1>1, <2>2, <2>3 DEF FeedInv, FeedTypes
  <2>5. ChannelIsWhole'
    <3> SUFFICES ASSUME NEW g \in Handles, g > drains
                 PROVE  channels'[g] = [i \in 1..sent[g] |-> <<g, i>>]
      BY <2>2 DEF ChannelIsWhole
    <3>1. channels'[g] = channels[g]
      BY <1>1, <2>1, <2>2 DEF Handles
    <3> QED
      BY <3>1 DEF FeedInv, ChannelIsWhole
  <2>6. channels'[drains] = Tail(channels[drains])
    BY <1>1, <2>1, <2>2
  <2>7. shown' \o batch' \o channels'[drains'] = shown \o batch \o channels[drains]
    <3> DEFINE c == channels[drains]
    <3>1. shown \o Append(batch, Head(c)) \o Tail(c) = shown \o batch \o c
      BY <1>1, <2>1, TakingKeepsTheWhole
    <3> QED
      BY <2>2, <2>6, <3>1
  <2>8. ShowsOneAttachInOrder'
    BY <2>2, <2>7 DEF FeedInv, ShowsOneAttachInOrder
  <2> QED
    BY <2>1, <2>2, <2>4, <2>5, <2>8 DEF FeedInv, BootstrapIsNewer, NothingWithoutATask, Handles
<1>3. CASE Feeds
  <2>1. /\ shown' = shown \o batch /\ batch' = <<>>
        /\ UNCHANGED <<channels, sent, bootstrap, sized, drains>>
    BY <1>3 DEF Feeds
  <2>2. shown' \in Seq(Pieces) /\ shown' \o batch' = shown'
    BY <1>1, <2>1, ConcatProperties, ConcatEmptySeq
  <2>3. FeedTypes'
    BY <2>1, <2>2 DEF FeedInv, FeedTypes
  <2>4. ShowsOneAttachInOrder'
    BY <2>1, <2>2 DEF FeedInv, ShowsOneAttachInOrder
  <2> QED
    BY <2>1, <2>3, <2>4 DEF FeedInv, BootstrapIsNewer, ChannelIsWhole, NothingWithoutATask
<1> QED
  BY <1>2, <1>3

LEMMA FeedNextKeeps == FeedInv /\ [FeedNext]_feedVars => FeedInv'
<1> SUFFICES ASSUME FeedInv, [FeedNext]_feedVars PROVE FeedInv'
  OBVIOUS
<1>1. CASE UNCHANGED feedVars
  BY <1>1 DEF feedVars, FeedInv, FeedTypes, BootstrapIsNewer, ChannelIsWhole, NothingWithoutATask,
              ShowsOneAttachInOrder
<1>2. CASE FeedNext
  BY <1>2, ArrivesKeeps, AttachKeeps, BoundsKeep, DrainKeeps DEF FeedNext
<1> QED
  BY <1>1, <1>2

-------------------------------------------------------------------------------
(* However attaches, chunks, the element's size and batches interleave, the    *)
(* terminal on screen shows one attach from its replay on, each chunk in its   *)
(* order and once.                                                             *)
THEOREM OneAttachIsShown == FeedSpec => []ShowsOneAttachInOrder
<1>1. FeedInit => FeedInv
  BY FeedInvInit
<1>2. FeedInv /\ [FeedNext]_feedVars => FeedInv'
  BY FeedNextKeeps
<1>3. FeedInv => ShowsOneAttachInOrder
  BY DEF FeedInv
<1> QED
  BY <1>1, <1>2, <1>3, PTL DEF FeedSpec

------------------------------------------------------------------------------
(* TerminalScreen: points in reading order, and what two sets of points have  *)
(* in the same order.                                                         *)
IsGrid(A) == A \subseteq Int \X Int

LEMMA PointsAreOrdered ==
    ASSUME NEW A, IsGrid(A), NEW p \in A, NEW q \in A
    PROVE  /\ p = <<p[1], p[2]>> /\ p[1] \in Int /\ p[2] \in Int
           /\ Before(p, q) \/ Before(q, p) \/ p = q
           /\ ~Before(p, p) /\ ~(Before(p, q) /\ Before(q, p))
           /\ \A r \in A : Before(p, q) /\ Before(q, r) => Before(p, r)
<1>1. \A x \in A : x = <<x[1], x[2]>> /\ x[1] \in Int /\ x[2] \in Int
  BY DEF IsGrid
<1>2. \A x, y \in A : x[1] = y[1] /\ x[2] = y[2] => x = y
  BY <1>1, Zenon
<1>3. Before(p, q) \/ Before(q, p) \/ (p[1] = q[1] /\ p[2] = q[2])
  BY <1>1 DEF Before
<1> QED BY <1>1, <1>2, <1>3 DEF Before

Ranks(A) == [p \in A |-> Cardinality({q \in A : Before(q, p)})]

(* The ranks of n points are 0..n - 1.                                        *)
LEMMA RanksAreOnto ==
    ASSUME NEW A, IsGrid(A), IsFiniteSet(A)
    PROVE  /\ Cardinality(A) \in Nat
           /\ \A p \in A : Ranks(A)[p] \in 0..(Cardinality(A) - 1)
           /\ \A p, q \in A : Ranks(A)[p] = Ranks(A)[q] => p = q
           /\ \A i \in 1..Cardinality(A) : \E p \in A : Ranks(A)[p] = i - 1
<1> DEFINE Earlier(p) == {q \in A : Before(q, p)}
           n == Cardinality(A)
           f == Ranks(A)
<1>1. n \in Nat
  BY FS_CardinalityType
<1>2. ASSUME NEW p \in A
      PROVE  IsFiniteSet(Earlier(p)) /\ Cardinality(Earlier(p)) \in Nat
             /\ Cardinality(Earlier(p)) < n
  <2>1. Earlier(p) \in SUBSET A /\ Earlier(p) # A
    BY PointsAreOrdered
  <2> HIDE DEF Earlier
  <2>2. IsFiniteSet(Earlier(p)) /\ Cardinality(Earlier(p)) <= n /\ Cardinality(Earlier(p)) # n
    BY <2>1, FS_Subset
  <2>3. Cardinality(Earlier(p)) \in Nat
    BY <2>2, FS_CardinalityType
  <2> QED BY <1>1, <2>2, <2>3
<1>3. ASSUME NEW p \in A, NEW q \in A, Before(p, q)
      PROVE  Cardinality(Earlier(p)) < Cardinality(Earlier(q))
  <2>1. Earlier(p) \subseteq Earlier(q)
    BY <1>3, PointsAreOrdered
  <2>2. p \in Earlier(q) /\ p \notin Earlier(p)
    BY <1>3, PointsAreOrdered
  <2> HIDE DEF Earlier
  <2>3. Earlier(p) \in SUBSET Earlier(q) /\ Earlier(p) # Earlier(q)
    BY <2>1, <2>2
  <2>4. Cardinality(Earlier(p)) <= Cardinality(Earlier(q)) /\ Cardinality(Earlier(p)) # Cardinality(Earlier(q))
    BY <1>2, <2>3, FS_Subset
  <2> QED BY <1>2, <2>4
<1>4. \A p \in A : f[p] = Cardinality(Earlier(p))
  BY DEF Ranks
<1> HIDE DEF Earlier, f, n
<1>5. \A p \in A : f[p] \in 0..(n - 1)
  BY <1>1, <1>2, <1>4
<1>6. \A p, q \in A : f[p] = f[q] => p = q
  <2> SUFFICES ASSUME NEW p \in A, NEW q \in A, f[p] = f[q] PROVE p = q
    OBVIOUS
  <2>1. f[p] \in Int /\ f[q] \in Int
    BY <1>5
  <2>2. ~Before(p, q) /\ ~Before(q, p)
    BY <1>3, <1>4, <2>1
  <2> QED BY <2>2, PointsAreOrdered
<1>7. f \in Injection(A, 0..(n - 1))
  <2>1. f = [p \in A |-> f[p]]
    BY DEF f, Ranks
  <2>2. f \in [A -> 0..(n - 1)]
    BY <1>5, <2>1
  <2> QED BY <1>6, <2>2 DEF Injection, IsInjective
<1>8. IsFiniteSet(0..(n - 1)) /\ Cardinality(0..(n - 1)) = n
  <2>1. 0 \in Int /\ n - 1 \in Int
    BY <1>1
  <2>2. IsFiniteSet(0..(n - 1)) /\ Cardinality(0..(n - 1)) = IF 0 > n - 1 THEN 0 ELSE (n - 1) - 0 + 1
    BY <2>1, FS_Interval
  <2> QED BY <1>1, <2>2
<1>9. f \in Surjection(A, 0..(n - 1))
  <2>1. Cardinality(A) = Cardinality(0..(n - 1))
    BY <1>8 DEF n
  <2> QED BY <1>7, <1>8, <2>1, FS_Injection
<1>10. \A i \in 0..(n - 1) : \E p \in A : f[p] = i
  BY <1>9 DEF Surjection
<1>11. \A i \in 1..n : \E p \in A : f[p] = i - 1
  <2>1. \A i \in 1..n : i - 1 \in 0..(n - 1)
    BY <1>1
  <2> QED BY <1>10, <2>1
<1> QED BY <1>1, <1>5, <1>6, <1>11 DEF f, n

(* A set of points that another one is mapped to, point by point and in the   *)
(* same order, has the same order.                                            *)
IsInOrder(A, B, g) ==
    /\ g \in [A -> B]
    /\ \A y \in B : \E x \in A : g[x] = y
    /\ \A x, y \in A : Before(x, y) => Before(g[x], g[y])

LEMMA OrderedAlike ==
    ASSUME NEW A, IsGrid(A), IsFiniteSet(A), NEW B, IsGrid(B), NEW g, IsInOrder(A, B, g)
    PROVE  /\ Cardinality(A) = Cardinality(B) /\ Cardinality(A) \in Nat
           /\ DOMAIN InOrder(A) = 1..Cardinality(A) /\ DOMAIN InOrder(B) = 1..Cardinality(A)
           /\ \A i \in 1..Cardinality(A) : InOrder(A)[i] \in A /\ InOrder(B)[i] = g[InOrder(A)[i]]
<1>1. /\ \A x \in A : g[x] \in B
      /\ \A x, y \in A : Before(x, y) => Before(g[x], g[y])
      /\ \A y \in B : \E x \in A : g[x] = y
  BY DEF IsInOrder
<1>2. ASSUME NEW x \in A, NEW y \in A, g[x] = g[y] PROVE x = y
  <2>1. ~Before(x, y) /\ ~Before(y, x)
    <3>1. g[x] \in B /\ g[y] \in B
      BY <1>1
    <3> QED BY <1>1, <1>2, <3>1, PointsAreOrdered
  <2> QED BY <2>1, PointsAreOrdered
<1>3. ASSUME NEW x \in A, NEW y \in A, Before(g[x], g[y]) PROVE Before(x, y)
  <2>1. g[x] \in B /\ g[y] \in B
    BY <1>1
  <2>2. ~Before(y, x)
    BY <1>1, <1>3, <2>1, PointsAreOrdered
  <2>3. x # y
    BY <1>3, <2>1, PointsAreOrdered
  <2> QED BY <2>2, <2>3, PointsAreOrdered
<1>4. g \in Bijection(A, B)
  BY <1>1, <1>2 DEF IsInOrder, Bijection, Injection, IsInjective, Surjection
<1>5. IsFiniteSet(B) /\ Cardinality(B) = Cardinality(A)
  <2>1. ExistsBijection(A, B)
    BY <1>4 DEF ExistsBijection
  <2> QED BY <2>1, FS_Bijection
<1>6. ASSUME NEW x \in A PROVE Ranks(B)[g[x]] = Ranks(A)[x]
  <2> DEFINE S == {q \in A : Before(q, x)}
             T == {q \in B : Before(q, g[x])}
             h == [q \in S |-> g[q]]
  <2>1. \A q \in S : g[q] \in T
    BY <1>1
  <2>2. \A y \in T : \E q \in S : g[q] = y
    BY <1>1, <1>3
  <2>3. \A q, r \in S : g[q] = g[r] => q = r
    BY <1>2
  <2>4. S \in SUBSET A
    OBVIOUS
  <2>5. Ranks(A)[x] = Cardinality(S)
    BY DEF Ranks
  <2>6. Ranks(B)[g[x]] = Cardinality(T)
    <3>1. g[x] \in B
      BY <1>1
    <3> QED BY <3>1 DEF Ranks
  <2> HIDE DEF S, T
  <2>7. h \in Bijection(S, T)
    BY <2>1, <2>2, <2>3 DEF Bijection, Injection, IsInjective, Surjection
  <2>8. IsFiniteSet(S)
    BY <2>4, FS_Subset
  <2>9. ExistsBijection(S, T)
    BY <2>7 DEF ExistsBijection
  <2> QED BY <2>5, <2>6, <2>8, <2>9, FS_Bijection
<1> DEFINE n == Cardinality(A)
<1>7. n \in Nat
  BY RanksAreOnto
<1>8. InOrder(A) = [i \in 1..n |-> CHOOSE p \in A : Ranks(A)[p] = i - 1]
  BY DEF InOrder, Ranks
<1>9. InOrder(B) = [i \in 1..n |-> CHOOSE p \in B : Ranks(B)[p] = i - 1]
  BY <1>5 DEF InOrder, Ranks
<1>10. ASSUME NEW i \in 1..n PROVE InOrder(A)[i] \in A /\ InOrder(B)[i] = g[InOrder(A)[i]]
  <2> DEFINE a == CHOOSE p \in A : Ranks(A)[p] = i - 1
             b == CHOOSE p \in B : Ranks(B)[p] = i - 1
  <2>1. a \in A /\ Ranks(A)[a] = i - 1
    <3>1. \E p \in A : Ranks(A)[p] = i - 1
      BY RanksAreOnto
    <3> QED BY <3>1
  <2>2. b \in B /\ Ranks(B)[b] = i - 1
    <3>1. \E p \in B : Ranks(B)[p] = i - 1
      BY <1>5, RanksAreOnto
    <3> QED BY <3>1
  <2>3. InOrder(A)[i] = a
    BY <1>8
  <2>4. InOrder(B)[i] = b
    BY <1>9
  <2> HIDE DEF a, b
  <2>5. g[a] \in B /\ Ranks(B)[g[a]] = i - 1
    BY <1>1, <1>6, <2>1
  <2>6. b = g[a]
    BY <1>5, <2>2, <2>5, RanksAreOnto
  <2> QED BY <2>1, <2>3, <2>4, <2>6
<1> QED BY <1>5, <1>7, <1>8, <1>9, <1>10

------------------------------------------------------------------------------
(* The screen: the printed characters by their places, a line and a column    *)
(* from 1; the line feed that ended a line is after its last column.          *)
Tokens == STRING \cup {"nl", " ", "tail", "head"}
CellRecords == [ch : Tokens, link : Seq(Tokens), nr : Nat]
LineRecords == [cells : Seq(CellRecords), wraps : BOOLEAN, ended : Nat]

NumberAt(ls, p) == IF p[2] = MaxCols + 1 THEN ls[p[1]].ended ELSE ls[p[1]].cells[p[2]].nr
CharAt(ls, p) == IF p[2] = MaxCols + 1 THEN "nl" ELSE ls[p[1]].cells[p[2]].ch
Filled(ls, p) ==
    /\ p[1] \in 1..Len(ls)
    /\ p[2] \in 1..Len(ls[p[1]].cells) \/ p[2] = MaxCols + 1
    /\ NumberAt(ls, p) # 0
Places(ls) == {p \in Nat \X Nat : Filled(ls, p)}

(* The cells of a line: spacers go with wide characters and with wraps.       *)
Spaced(cells, wraps, w) ==
    /\ Len(cells) <= w
    /\ wraps => Len(cells) = w
    /\ \A k \in 1..Len(cells) :
           /\ cells[k].ch # "nl"
           /\ cells[k].nr = 0 <=> cells[k].ch \in {"tail", "head"}
           /\ cells[k].ch = "w" => k + 1 \in 1..Len(cells) /\ cells[k + 1].ch = "tail"
           /\ cells[k].ch = "tail" => k - 1 \in 1..Len(cells) /\ cells[k - 1].ch = "w"
           /\ cells[k].ch = "head" => wraps
LinesAreSpaced(ls, w) ==
    /\ ls # <<>>
    /\ \A l \in 1..Len(ls) : /\ Spaced(ls[l].cells, ls[l].wraps, w)
                             /\ ls[l].wraps => l # Len(ls)
                             /\ ls[l].ended = 0 <=> ls[l].wraps \/ l = Len(ls)

(* The numbers are those of the output, from place to place.                  *)
NumbersFollow(ls, out) ==
    /\ \A p, q \in Places(ls) : Before(p, q) => NumberAt(ls, p) < NumberAt(ls, q)
    /\ \A p \in Places(ls) :
           NumberAt(ls, p) \in 1..Len(out) /\ out[NumberAt(ls, p)] = CharAt(ls, p)
    /\ \A n \in 1..Len(out) : \E p \in Places(ls) : NumberAt(ls, p) = n

Widths == 2..MaxCols
Lines == synced.lines
Width == synced.cols

LEMMA WidthsAre ==
    /\ \A w \in Widths : w \in Nat /\ w > 1 /\ w <= MaxCols
    /\ MaxCols \in Nat
BY ScreenAssumption DEF Widths

ScreenTypes ==
    /\ printed \in Seq(Tokens) /\ inks \in Seq(Seq(Tokens)) /\ Len(inks) = Len(printed)
    /\ lines \in Seq(LineRecords) /\ pen \in Seq(Tokens)
    /\ pin \in Nat /\ cols \in Widths /\ rows \in Heights /\ moved \in BOOLEAN
    /\ Lines \in Seq(LineRecords) /\ Width \in Widths
    /\ "rows" \in DOMAIN content /\ "wraps" \in DOMAIN content

(* The content is the screen that the last sync saw, as of some top line, the *)
(* present one unless the screen has moved since.                             *)
IsShownFrom(top) ==
    /\ Len(content.rows) \in Nat /\ DOMAIN content.rows = 1..Len(content.rows)
    /\ \A r \in 1..Len(content.rows) :
           /\ content.rows[r] = Viewport(Lines, top + r - 1, Width)
           /\ content.wraps[r] = LineAt(Lines, top + r - 1).wraps
ContentIsShown ==
    \E top \in Nat \ {0} :
        /\ IsShownFrom(top)
        /\ ~moved /\ Len(content.rows) = rows => top = Top(lines, pin, rows)

(* The lines that the last sync saw hold what was printed, as those of the    *)
(* emulator do, and are those unless the screen has moved since.              *)
ScreenInv ==
    /\ ScreenTypes
    /\ LinesAreSpaced(lines, cols) /\ NumbersFollow(lines, printed)
    /\ LinesAreSpaced(Lines, Width) /\ NumbersFollow(Lines, printed)
    /\ ~moved => Lines = lines /\ Width = cols
    /\ ContentIsShown

(* What a write may make of the lines.                                        *)
WriteStates ==
    [printed : Seq(Tokens), inks : Seq(Seq(Tokens)), lines : Seq(LineRecords), pen : Seq(Tokens),
     cols : Nat, dirty : SUBSET Nat]
SameLine(ls, old, l) ==
    LineAt(ls, l).cells = LineAt(old, l).cells /\ LineAt(ls, l).wraps = LineAt(old, l).wraps
Writes(s, old, w) ==
    /\ s \in WriteStates /\ s.cols = w /\ Len(s.inks) = Len(s.printed)
    /\ LinesAreSpaced(s.lines, w) /\ NumbersFollow(s.lines, s.printed)
    /\ \A l \in Nat \ {0} : l \notin s.dirty => SameLine(s.lines, old, l)

LEMMA PlacesAre ==
    ASSUME NEW w \in Widths, NEW ls \in Seq(LineRecords), LinesAreSpaced(ls, w), NEW p \in Places(ls)
    PROVE  /\ p = <<p[1], p[2]>> /\ p[1] \in 1..Len(ls) /\ p[2] \in 1..(MaxCols + 1) /\ Filled(ls, p)
           /\ p[1] = Len(ls) => p[2] \in 1..Len(ls[p[1]].cells)
<1>1. p = <<p[1], p[2]>> /\ p[1] \in Nat /\ p[2] \in Nat /\ Filled(ls, p)
  BY DEF Places
<1>2. w \in Nat /\ w > 1 /\ w <= MaxCols /\ MaxCols \in Nat
  BY WidthsAre
<1>3. p[1] \in 1..Len(ls) /\ (p[2] \in 1..Len(ls[p[1]].cells) \/ p[2] = MaxCols + 1) /\ NumberAt(ls, p) # 0
  BY <1>1 DEF Filled
<1>4. Len(ls[p[1]].cells) <= w /\ Len(ls[p[1]].cells) \in Nat
  BY <1>3 DEF LinesAreSpaced, Spaced, LineRecords
<1>5. p[1] = Len(ls) => p[2] # MaxCols + 1
  BY <1>3 DEF LinesAreSpaced, NumberAt
<1> QED BY <1>1, <1>2, <1>3, <1>4, <1>5

LEMMA PlacesAreAGrid == ASSUME NEW ls PROVE IsGrid(Places(ls))
BY DEF IsGrid, Places

(* A character at the end of the output goes to a place after all others.     *)
LEMMA Extends ==
    ASSUME NEW ls, NEW new, NEW out \in Seq(Tokens), NEW token \in Tokens, NEW z \in Nat \X Nat,
           NumbersFollow(ls, out),
           \A p \in Nat \X Nat : Filled(new, p) <=> Filled(ls, p) \/ p = z,
           NumberAt(new, z) = Len(out) + 1, CharAt(new, z) = token,
           \A p \in Places(ls) : /\ NumberAt(new, p) = NumberAt(ls, p)
                                 /\ CharAt(new, p) = CharAt(ls, p) /\ Before(p, z)
    PROVE  NumbersFollow(new, Append(out, token))
<1> DEFINE more == Append(out, token)
<1>1. Len(out) \in Nat /\ Len(more) = Len(out) + 1 /\ more[Len(out) + 1] = token
      /\ \A i \in 1..Len(out) : more[i] = out[i]
  <2>1. Len(out) \in Nat
    OBVIOUS
  <2>2. Len(more) = Len(out) + 1 /\ more[Len(out) + 1] = token
    BY AppendProperties
  <2>3. \A i \in 1..Len(out) : more[i] = out[i]
    BY AppendProperties
  <2> QED BY <2>1, <2>2, <2>3
<1>2. Places(new) = Places(ls) \cup {z}
  BY DEF Places
<1>3. \A p \in Places(ls) : p \in Nat \X Nat
  BY DEF Places
<1>4. IsGrid(Places(new))
  BY PlacesAreAGrid
<1>5. \A p \in Places(ls) : NumberAt(ls, p) \in 1..Len(out) /\ out[NumberAt(ls, p)] = CharAt(ls, p)
  BY DEF NumbersFollow
<1> HIDE DEF more
<1>6. ASSUME NEW p \in Places(new), NEW q \in Places(new), Before(p, q)
      PROVE  NumberAt(new, p) < NumberAt(new, q)
  <2>1. CASE p \in Places(ls) /\ q \in Places(ls)
    <3>1. NumberAt(ls, p) < NumberAt(ls, q)
      BY <1>6, <2>1 DEF NumbersFollow
    <3> QED BY <2>1, <3>1
  <2>2. CASE p \in Places(ls) /\ q = z
    <3>1. NumberAt(new, p) \in 1..Len(out)
      BY <1>5, <2>2
    <3> QED BY <1>1, <2>2, <3>1
  <2>3. p # z
    <3>1. z \in Places(new)
      BY <1>2
    <3>2. ~Before(z, z)
      BY <1>4, <3>1, PointsAreOrdered
    <3>3. \A x \in Places(ls) : ~Before(z, x)
      <4> SUFFICES ASSUME NEW x \in Places(ls) PROVE ~Before(z, x)
        OBVIOUS
      <4>1. x \in Places(new) /\ Before(x, z)
        BY <1>2
      <4> QED BY <1>4, <3>1, <4>1, PointsAreOrdered
    <3> QED BY <1>2, <1>6, <3>2, <3>3
  <2> QED BY <1>2, <2>1, <2>2, <2>3
<1>7. ASSUME NEW p \in Places(new)
      PROVE  NumberAt(new, p) \in 1..Len(more) /\ more[NumberAt(new, p)] = CharAt(new, p)
  <2>1. CASE p \in Places(ls)
    <3>1. NumberAt(new, p) \in 1..Len(out) /\ out[NumberAt(new, p)] = CharAt(new, p)
      BY <1>5, <2>1
    <3> QED BY <1>1, <3>1
  <2>2. CASE p = z
    <3>1. NumberAt(new, p) = Len(out) + 1 /\ CharAt(new, p) = token
      BY <2>2
    <3>2. Len(out) + 1 \in 1..Len(more)
      BY <1>1
    <3>3. more[Len(out) + 1] = token
      BY <1>1
    <3> QED BY <3>1, <3>2, <3>3, Zenon
  <2> QED BY <1>2, <2>1, <2>2
<1>8. ASSUME NEW n \in 1..Len(more) PROVE \E p \in Places(new) : NumberAt(new, p) = n
  <2>1. CASE n \in 1..Len(out)
    <3>1. PICK p \in Places(ls) : NumberAt(ls, p) = n
      BY <2>1 DEF NumbersFollow
    <3> QED BY <1>2, <3>1
  <2>2. CASE n = Len(out) + 1
    BY <1>2, <2>2
  <2> QED BY <1>1, <2>1, <2>2
<1>9. NumbersFollow(new, more)
  BY <1>6, <1>7, <1>8 DEF NumbersFollow
<1> QED BY <1>9 DEF more

------------------------------------------------------------------------------
(* A write adds to the last line, or begins another one.                      *)
LEMMA GrownLines ==
    ASSUME NEW ls \in Seq(LineRecords), ls # <<>>, NEW line \in LineRecords, NEW next \in LineRecords
    PROVE  LET e == [ls EXCEPT ![Len(ls)] = line]
               more == Append(e, next)
           IN  /\ Len(ls) \in Nat \ {0} /\ e \in Seq(LineRecords) /\ Len(e) = Len(ls) /\ e # <<>>
               /\ e[Len(ls)] = line /\ \A l \in 1..Len(ls) : l # Len(ls) => e[l] = ls[l]
               /\ more \in Seq(LineRecords) /\ Len(more) = Len(ls) + 1 /\ more # <<>>
               /\ more[Len(ls) + 1] = next /\ more[Len(ls)] = line
               /\ \A l \in 1..Len(ls) : l # Len(ls) => more[l] = ls[l]
<1> DEFINE n == Len(ls)
           e == [ls EXCEPT ![n] = line]
           more == Append(e, next)
<1>1. n \in Nat \ {0} /\ n \in 1..n
  BY EmptySeq
<1>2. e \in Seq(LineRecords) /\ Len(e) = n /\ \A l \in 1..n : e[l] = IF l = n THEN line ELSE ls[l]
  BY <1>1, ExceptSeq
<1> HIDE DEF e
<1>3. e # <<>>
  BY <1>1, <1>2
<1>4. more \in Seq(LineRecords) /\ more # <<>> /\ Len(more) = n + 1 /\ more[n + 1] = next
  BY <1>2, AppendProperties
<1>5. \A l \in 1..n : more[l] = e[l]
  BY <1>2, AppendProperties
<1> HIDE DEF more, n
<1>6. e[n] = line /\ more[n] = line
  BY <1>1, <1>2, <1>5
<1>7. \A l \in 1..n : l # n => e[l] = ls[l] /\ more[l] = ls[l]
  BY <1>2, <1>5
<1> QED BY <1>1, <1>2, <1>3, <1>4, <1>6, <1>7 DEF e, more, n

LEMMA NewLineIs ==
    NewLine \in LineRecords /\ NewLine.cells = <<>> /\ NewLine.wraps = FALSE /\ NewLine.ended = 0
    /\ Len(NewLine.cells) = 0 /\ \A w \in Nat : Spaced(NewLine.cells, FALSE, w)
<1>1. <<>> \in Seq(CellRecords)
  BY EmptySeq
<1>3. NewLine \in LineRecords /\ NewLine.cells = <<>> /\ NewLine.wraps = FALSE /\ NewLine.ended = 0
  BY <1>1 DEF NewLine, LineRecords
<1>4. Len(NewLine.cells) = 0
  BY <1>3
<1> QED BY <1>3, <1>4 DEF Spaced

LEMMA LastLine ==
    ASSUME NEW w \in Widths, NEW s \in WriteStates, LinesAreSpaced(s.lines, w)
    PROVE  /\ s.printed \in Seq(Tokens) /\ s.lines \in Seq(LineRecords) /\ s.pen \in Seq(Tokens)
           /\ s.inks \in Seq(Seq(Tokens)) /\ s.dirty \subseteq Nat /\ s.lines # <<>>
           /\ Len(s.lines) \in Nat \ {0} /\ s.lines[Len(s.lines)] \in LineRecords
           /\ s.lines[Len(s.lines)].ended = 0
           /\ s.lines[Len(s.lines)].wraps = FALSE /\ Spaced(s.lines[Len(s.lines)].cells, FALSE, w)
           /\ Len(s.printed) + 1 \in Nat \ {0}
<1>1. s.printed \in Seq(Tokens) /\ s.lines \in Seq(LineRecords) /\ s.pen \in Seq(Tokens)
      /\ s.inks \in Seq(Seq(Tokens)) /\ s.dirty \subseteq Nat /\ s.lines # <<>>
  BY DEF WriteStates, LinesAreSpaced
<1>2. Len(s.lines) \in Nat \ {0}
  BY <1>1, EmptySeq
<1>3. s.lines[Len(s.lines)] \in LineRecords
  BY <1>1, <1>2, ElementOfSeq
<1>4. s.lines[Len(s.lines)].ended = 0 /\ s.lines[Len(s.lines)].wraps = FALSE
      /\ Spaced(s.lines[Len(s.lines)].cells, FALSE, w)
  <2>1. s.lines[Len(s.lines)].wraps \in BOOLEAN
    BY <1>3 DEF LineRecords
  <2>2. s.lines[Len(s.lines)].ended = 0 /\ ~s.lines[Len(s.lines)].wraps
        /\ Spaced(s.lines[Len(s.lines)].cells, s.lines[Len(s.lines)].wraps, w)
    BY <1>2 DEF LinesAreSpaced
  <2>3. s.lines[Len(s.lines)].wraps = FALSE
    BY <2>1, <2>2
  <2> QED BY <2>2, <2>3
<1>5. Len(s.printed) + 1 \in Nat \ {0}
  BY <1>1
<1> QED BY <1>1, <1>2, <1>3, <1>4, <1>5

LEMMA InksGrow ==
    ASSUME NEW out \in Seq(Tokens), NEW seen \in Seq(Seq(Tokens)), Len(seen) = Len(out),
           NEW token \in Tokens, NEW ink \in Seq(Tokens)
    PROVE  /\ Append(out, token) \in Seq(Tokens) /\ Append(seen, ink) \in Seq(Seq(Tokens))
           /\ Len(Append(seen, ink)) = Len(Append(out, token))
BY AppendProperties

LEMMA LineFeedKeeps ==
    ASSUME NEW w \in Widths, NEW old, NEW s, Writes(s, old, w)
    PROVE  Writes(LineFeed(s), old, w)
<1> DEFINE ls == s.lines
           n == Len(ls)
           m == Len(s.printed) + 1
           line == [ls[n] EXCEPT !.ended = m]
           new == Append([ls EXCEPT ![n] = line], NewLine)
           t == LineFeed(s)
           z == <<n, MaxCols + 1>>
<1>1. s \in WriteStates /\ s.cols = w /\ Len(s.inks) = Len(s.printed)
      /\ LinesAreSpaced(ls, w) /\ NumbersFollow(ls, s.printed)
      /\ \A l \in Nat \ {0} : l \notin s.dirty => SameLine(ls, old, l)
  BY DEF Writes
<1>2. s.printed \in Seq(Tokens) /\ ls \in Seq(LineRecords) /\ ls # <<>> /\ n \in Nat \ {0} /\ n = Len(ls)
      /\ ls[n] \in LineRecords /\ ls[n].ended = 0 /\ ls[n].wraps = FALSE /\ Spaced(ls[n].cells, FALSE, w) /\ m \in Nat \ {0}
      /\ s.inks \in Seq(Seq(Tokens))
  BY <1>1, LastLine
<1>3. line \in LineRecords /\ line.cells = ls[n].cells /\ line.wraps = ls[n].wraps /\ line.ended = m
  BY <1>2 DEF LineRecords
<1>4. t = [s EXCEPT !.printed = Append(s.printed, "nl"), !.inks = Append(s.inks, <<>>), !.lines = new]
  BY DEF LineFeed
<1> HIDE DEF line
<1>5. /\ new \in Seq(LineRecords) /\ Len(new) = n + 1 /\ new # <<>>
      /\ new[n + 1] = NewLine /\ new[n] = line
      /\ \A l \in 1..n : l # n => new[l] = ls[l]
  BY <1>2, <1>3, NewLineIs, GrownLines
<1>6. /\ "nl" \in Tokens /\ Append(s.printed, "nl") \in Seq(Tokens)
      /\ Append(s.inks, <<>>) \in Seq(Seq(Tokens))
      /\ Len(Append(s.inks, <<>>)) = Len(Append(s.printed, "nl"))
  <2>1. "nl" \in Tokens /\ <<>> \in Seq(Tokens)
    BY EmptySeq DEF Tokens
  <2> QED BY <1>1, <1>2, <2>1, InksGrow
<1> HIDE DEF new
<1>7. t \in WriteStates /\ t.printed = Append(s.printed, "nl") /\ t.lines = new /\ t.dirty = s.dirty
      /\ t.cols = w /\ Len(t.inks) = Len(t.printed)
  BY <1>1, <1>4, <1>5, <1>6 DEF WriteStates
<1> HIDE DEF t, ls, n, m
<1>8. LinesAreSpaced(new, w)
  <2> SUFFICES ASSUME NEW l \in 1..(n + 1)
               PROVE  /\ Spaced(new[l].cells, new[l].wraps, w) /\ (new[l].wraps => l # n + 1)
                      /\ (new[l].ended = 0 <=> new[l].wraps \/ l = n + 1)
    BY <1>5 DEF LinesAreSpaced
  <2>1. CASE l = n + 1
    <3>1. Spaced(NewLine.cells, NewLine.wraps, w) /\ NewLine.wraps = FALSE /\ NewLine.ended = 0
      BY NewLineIs, WidthsAre, Zenon
    <3>2. new[l] = NewLine
      BY <1>5, <2>1
    <3> QED BY <2>1, <3>1, <3>2
  <2>2. CASE l = n
    <3>1. new[l].cells = ls[n].cells /\ new[l].wraps = FALSE /\ new[l].ended = m
      BY <1>2, <1>3, <1>5, <2>2
    <3>2. Spaced(new[l].cells, new[l].wraps, w)
      BY <1>2, <3>1, Zenon
    <3>3. m # 0 /\ n # n + 1
      BY <1>2
    <3> QED BY <2>2, <3>1, <3>2, <3>3, Zenon
  <2>3. CASE l # n /\ l # n + 1
    <3>1. l \in 1..n /\ new[l] = ls[l]
      BY <1>2, <1>5, <2>3
    <3> QED BY <1>1, <1>2, <2>3, <3>1 DEF LinesAreSpaced
  <2> QED BY <2>1, <2>2, <2>3
<1>9. w \in Nat /\ w > 1 /\ w <= MaxCols /\ MaxCols \in Nat /\ Len(ls[n].cells) \in Nat /\ Len(ls[n].cells) <= w
  BY <1>2, WidthsAre DEF Spaced, LineRecords
<1>10. \A p \in Nat \X Nat : Filled(new, p) <=> Filled(ls, p) \/ p = z
  <2> SUFFICES ASSUME NEW p \in Nat \X Nat PROVE Filled(new, p) <=> Filled(ls, p) \/ p = z
    OBVIOUS
  <2>0. p[1] \in Nat /\ p[2] \in Nat /\ (p = z <=> p[1] = n /\ p[2] = MaxCols + 1)
    OBVIOUS
  <2>1. CASE p[1] = n + 1
    BY <1>2, <1>5, <1>9, <2>0, <2>1, NewLineIs DEF Filled, NumberAt
  <2>2. CASE p[1] = n
    BY <1>2, <1>3, <1>5, <1>9, <2>0, <2>2 DEF Filled, NumberAt
  <2>3. CASE p[1] # n /\ p[1] # n + 1
    BY <1>2, <1>5, <2>0, <2>3 DEF Filled, NumberAt
  <2> QED BY <2>1, <2>2, <2>3
<1>11. \A p \in Places(ls) : NumberAt(new, p) = NumberAt(ls, p) /\ CharAt(new, p) = CharAt(ls, p) /\ Before(p, z)
  <2> SUFFICES ASSUME NEW p \in Places(ls)
               PROVE  NumberAt(new, p) = NumberAt(ls, p) /\ CharAt(new, p) = CharAt(ls, p) /\ Before(p, z)
    OBVIOUS
  <2>1. p[1] \in 1..n /\ p[2] \in 1..(MaxCols + 1) /\ (p[1] = n => p[2] \in 1..Len(ls[n].cells))
    BY <1>1, <1>2, PlacesAre
  <2>2. CASE p[1] = n
    <3>1. p[2] # MaxCols + 1 /\ p[2] < MaxCols + 1 /\ z[1] = n /\ z[2] = MaxCols + 1
      BY <1>9, <2>1, <2>2
    <3>2. new[n].cells = ls[n].cells
      BY <1>3, <1>5
    <3>3. NumberAt(new, p) = NumberAt(ls, p) /\ CharAt(new, p) = CharAt(ls, p)
      BY <2>2, <3>1, <3>2 DEF NumberAt, CharAt
    <3>4. Before(p, z)
      BY <2>2, <3>1 DEF Before
    <3> QED BY <3>3, <3>4
  <2>3. CASE p[1] # n
    BY <1>2, <1>5, <2>1, <2>3 DEF NumberAt, CharAt, Before
  <2> QED BY <2>2, <2>3
<1>12. NumberAt(new, z) = m /\ CharAt(new, z) = "nl" /\ z \in Nat \X Nat
  BY <1>2, <1>3, <1>5, <1>9 DEF NumberAt, CharAt
<1>13. NumbersFollow(new, Append(s.printed, "nl"))
  <2>1. NumberAt(new, z) = Len(s.printed) + 1
    BY <1>12 DEF m
  <2> HIDE DEF z
  <2> QED BY <1>1, <1>2, <1>6, <1>10, <1>11, <1>12, <2>1, Extends
<1>14. \A l \in Nat \ {0} : l \notin s.dirty => SameLine(new, old, l)
  <2> SUFFICES ASSUME NEW l \in Nat \ {0} PROVE LineAt(new, l).cells = LineAt(ls, l).cells
                                                /\ LineAt(new, l).wraps = LineAt(ls, l).wraps
    BY <1>1 DEF SameLine
  <2>1. CASE l <= n
    BY <1>2, <1>3, <1>5, <2>1 DEF LineAt
  <2>2. CASE l = n + 1
    BY <1>2, <1>5, <2>2 DEF LineAt
  <2>3. CASE l > n + 1
    BY <1>2, <1>5, <2>3 DEF LineAt
  <2> QED BY <1>2, <2>1, <2>2, <2>3
<1>15. Writes(t, old, w)
  BY <1>7, <1>8, <1>13, <1>14 DEF Writes
<1> QED BY <1>15 DEF t

LEMMA OneCell ==
    ASSUME NEW S, NEW a \in S, NEW t, t = <<a>>
    PROVE  t \in Seq(S) /\ Len(t) = 1 /\ t[1] = a
OBVIOUS

LEMMA TwoCells ==
    ASSUME NEW S, NEW a \in S, NEW b \in S, NEW t, t = <<a, b>>
    PROVE  t \in Seq(S) /\ Len(t) = 2 /\ t[1] = a /\ t[2] = b
OBVIOUS

(* The cells of a character, after others, or after those of a full line.     *)
LEMMA Spacers ==
    /\ Blank = [ch |-> " ", link |-> <<>>, nr |-> 0]
    /\ SpacerTail \in CellRecords /\ SpacerTail.ch = "tail" /\ SpacerTail.nr = 0
    /\ SpacerHead \in CellRecords /\ SpacerHead.ch = "head" /\ SpacerHead.nr = 0
<1>1. <<>> \in Seq(Tokens)
  BY EmptySeq
<1> QED BY <1>1 DEF Blank, SpacerTail, SpacerHead, CellRecords, Tokens

LEMMA CellsForIs ==
    ASSUME NEW w \in Widths, NEW s \in WriteStates, NEW token \in Tokens,
           token \notin {"nl", "tail", "head"}
    PROVE  LET added == CellsFor(s, token) IN
           /\ added \in Seq(CellRecords) /\ Spaced(added, FALSE, w)
           /\ (Len(added) = 1 \/ Len(added) = 2) /\ added[1].ch = token /\ added[1].nr = Len(s.printed) + 1
           /\ Len(added) = 2 => added[2].nr = 0
<1> DEFINE cell == [ch |-> token, link |-> s.pen, nr |-> Len(s.printed) + 1]
           added == CellsFor(s, token)
<1>1. cell \in CellRecords /\ cell.ch = token /\ cell.nr = Len(s.printed) + 1 /\ cell.nr # 0
  BY DEF WriteStates, CellRecords
<1>2. added = IF token = "w" THEN <<cell, SpacerTail>> ELSE <<cell>>
  BY DEF CellsFor
<1>3. w \in Nat /\ w > 1 /\ w <= MaxCols /\ MaxCols \in Nat
  BY WidthsAre
<1> DEFINE m == Len(s.printed) + 1
<1> HIDE DEF cell, added, m
<1> SUFFICES /\ added \in Seq(CellRecords) /\ Spaced(added, FALSE, w)
             /\ (Len(added) = 1 \/ Len(added) = 2) /\ added[1].ch = token /\ added[1].nr = Len(s.printed) + 1
             /\ Len(added) = 2 => added[2].nr = 0
  BY DEF added
<1>4. CASE token = "w"
  <2>1. added = <<cell, SpacerTail>>
    BY <1>2, <1>4
  <2>2. added \in Seq(CellRecords) /\ Len(added) = 2 /\ added[1] = cell /\ added[2] = SpacerTail
    BY <1>1, <2>1, Spacers, TwoCells
  <2>3. ASSUME NEW k \in 1..2 PROVE k = 1 \/ k = 2
    OBVIOUS
  <2>4. added[1].ch = "w" /\ added[1].nr # 0 /\ added[2].ch = "tail" /\ added[2].nr = 0
    BY <1>1, <1>4, <2>2, Spacers
  <2>5. Spaced(added, FALSE, w)
    BY <1>3, <2>2, <2>3, <2>4 DEF Spaced
  <2>6. added[1].ch = token /\ added[1].nr = Len(s.printed) + 1
    BY <1>1, <2>2
  <2>7. Len(added) = 1 \/ Len(added) = 2
    BY <2>2
  <2> QED BY <2>2, <2>4, <2>5, <2>6, <2>7, Zenon
<1>5. CASE token # "w"
  <2>1. added = <<cell>>
    BY <1>2, <1>5
  <2>2. added \in Seq(CellRecords) /\ Len(added) = 1 /\ added[1] = cell
    BY <1>1, <2>1, OneCell
  <2>3. Spaced(added, FALSE, w)
    BY <1>1, <1>3, <1>5, <2>2 DEF Spaced
  <2>4. added[1].ch = token /\ added[1].nr = Len(s.printed) + 1
    BY <1>1, <2>2
  <2>5. (Len(added) = 1 \/ Len(added) = 2) /\ Len(added) # 2
    BY <2>2
  <2> QED BY <2>2, <2>3, <2>4, <2>5, Zenon
<1> QED BY <1>4, <1>5

LEMMA JoinedCells ==
    ASSUME NEW w \in Widths, NEW f \in Seq(CellRecords), NEW g \in Seq(CellRecords), Spaced(f, FALSE, w), Spaced(g, FALSE, w),
           Len(f) + Len(g) <= w
    PROVE  /\ f \o g \in Seq(CellRecords) /\ Len(f \o g) = Len(f) + Len(g)
           /\ \A k \in 1..Len(f) : (f \o g)[k] = f[k]
           /\ \A k \in 1..Len(g) : (f \o g)[Len(f) + k] = g[k]
           /\ Spaced(f \o g, FALSE, w)
<1> DEFINE h == f \o g
<1>1. h \in Seq(CellRecords) /\ Len(h) = Len(f) + Len(g) /\ Len(f) \in Nat /\ Len(g) \in Nat
  BY ConcatProperties
<1>2. \A k \in 1..Len(f) : h[k] = f[k]
  BY ConcatProperties
<1>3. \A k \in 1..Len(g) : h[Len(f) + k] = g[k]
  BY ConcatProperties
<1>4. w \in Nat /\ w > 1 /\ w <= MaxCols /\ MaxCols \in Nat
  BY WidthsAre
<1> HIDE DEF h
<1> DEFINE Good(c, n, k) ==
             /\ c[k].ch # "nl" /\ (c[k].nr = 0 <=> c[k].ch \in {"tail", "head"})
             /\ c[k].ch = "w" => k + 1 \in 1..n /\ c[k + 1].ch = "tail"
             /\ c[k].ch = "tail" => k - 1 \in 1..n /\ c[k - 1].ch = "w"
             /\ c[k].ch # "head"
<1>5. ASSUME NEW k \in 1..Len(f) PROVE Good(h, Len(h), k)
  <2>1. Good(f, Len(f), k)
    BY DEF Spaced
  <2>2. h[k] = f[k]
    BY <1>2
  <2>3. k + 1 \in 1..Len(f) => h[k + 1] = f[k + 1] /\ k + 1 \in 1..Len(h)
    BY <1>1, <1>2
  <2>4. k - 1 \in 1..Len(f) => h[k - 1] = f[k - 1] /\ k - 1 \in 1..Len(h)
    BY <1>1, <1>2
  <2> QED BY <2>1, <2>2, <2>3, <2>4
<1>6. ASSUME NEW k \in 1..Len(g) PROVE Good(h, Len(h), Len(f) + k)
  <2>1. Good(g, Len(g), k)
    BY DEF Spaced
  <2>2. h[Len(f) + k] = g[k]
    BY <1>3
  <2>3. k + 1 \in 1..Len(g) => h[(Len(f) + k) + 1] = g[k + 1] /\ (Len(f) + k) + 1 \in 1..Len(h)
    <3>1. (Len(f) + k) + 1 = Len(f) + (k + 1)
      BY <1>1
    <3> DEFINE j == k + 1
    <3>2. j \in 1..Len(g) => h[Len(f) + j] = g[j]
      BY <1>3
    <3>3. j \in 1..Len(g) => Len(f) + j \in 1..Len(h)
      BY <1>1
    <3> QED BY <3>1, <3>2, <3>3
  <2>4. k - 1 \in 1..Len(g) => h[(Len(f) + k) - 1] = g[k - 1] /\ (Len(f) + k) - 1 \in 1..Len(h)
    <3>1. (Len(f) + k) - 1 = Len(f) + (k - 1)
      BY <1>1
    <3> DEFINE j == k - 1
    <3>2. j \in 1..Len(g) => h[Len(f) + j] = g[j]
      BY <1>3
    <3>3. j \in 1..Len(g) => Len(f) + j \in 1..Len(h)
      BY <1>1
    <3> QED BY <3>1, <3>2, <3>3
  <2> QED BY <2>1, <2>2, <2>3, <2>4
<1>7. ASSUME NEW k \in 1..Len(h) PROVE Good(h, Len(h), k)
  <2>1. CASE k \in 1..Len(f)
    BY <1>5, <2>1
  <2>2. CASE k \notin 1..Len(f)
    <3> DEFINE j == k - Len(f)
    <3>1. j \in 1..Len(g) /\ Len(f) + j = k
      BY <1>1, <2>2
    <3> HIDE DEF j, Good
    <3>2. Good(h, Len(h), Len(f) + j)
      BY <1>6, <3>1
    <3> QED BY <3>1, <3>2
  <2> QED BY <2>1, <2>2
<1>8. Spaced(h, FALSE, w)
  BY <1>1, <1>7 DEF Spaced
<1> QED BY <1>1, <1>2, <1>3, <1>8 DEF h

FilledUp(f, w) == f \o (IF Len(f) < w THEN <<SpacerHead>> ELSE <<>>)

LEMMA FullLine ==
    ASSUME NEW w \in Widths, NEW f \in Seq(CellRecords), Spaced(f, FALSE, w), Len(f) + 2 > w
    PROVE  /\ FilledUp(f, w) \in Seq(CellRecords) /\ Len(FilledUp(f, w)) = w
           /\ \A k \in 1..Len(f) : FilledUp(f, w)[k] = f[k]
           /\ \A k \in 1..w : k > Len(f) => FilledUp(f, w)[k].nr = 0
           /\ Spaced(FilledUp(f, w), TRUE, w)
<1> DEFINE left == IF Len(f) < w THEN <<SpacerHead>> ELSE <<>>
           h == f \o left
<1>0. FilledUp(f, w) = h
  BY DEF FilledUp
<1>1. w \in Nat /\ w > 1 /\ w <= MaxCols /\ MaxCols \in Nat /\ Len(f) \in Nat /\ Len(f) <= w
  BY WidthsAre DEF Spaced
<1>2. left \in Seq(CellRecords) /\ Len(left) = w - Len(f) /\ \A k \in 1..Len(left) : left[k] = SpacerHead
  <2>1. CASE Len(f) < w
    <3>1. left = <<SpacerHead>> /\ w - Len(f) = 1
      BY <1>1, <2>1
    <3>2. left \in Seq(CellRecords) /\ Len(left) = 1 /\ left[1] = SpacerHead
      BY <3>1, Spacers, OneCell
    <3> QED BY <3>1, <3>2
  <2>2. CASE ~(Len(f) < w)
    <3>1. left = <<>> /\ w - Len(f) = 0
      BY <1>1, <2>2
    <3> QED BY <3>1
  <2> QED BY <2>1, <2>2
<1> HIDE DEF left
<1>3. h \in Seq(CellRecords) /\ Len(h) = w
  <2>1. h \in Seq(CellRecords) /\ Len(h) = Len(f) + Len(left)
    BY <1>2, ConcatProperties
  <2> QED BY <1>1, <1>2, <2>1
<1>4. \A k \in 1..Len(f) : h[k] = f[k]
  BY <1>2, ConcatProperties
<1>5. \A k \in 1..Len(left) : h[Len(f) + k] = left[k]
  BY <1>2, ConcatProperties
<1> HIDE DEF h
<1>6. \A k \in 1..w : k > Len(f) => h[k] = SpacerHead
  <2> SUFFICES ASSUME NEW k \in 1..w, k > Len(f) PROVE h[k] = SpacerHead
    OBVIOUS
  <2> DEFINE j == k - Len(f)
  <2>1. j \in 1..Len(left) /\ Len(f) + j = k
    BY <1>1, <1>2
  <2> HIDE DEF j
  <2> QED BY <1>2, <1>5, <2>1
<1>7. ASSUME NEW k \in 1..w
      PROVE  /\ h[k].ch # "nl" /\ (h[k].nr = 0 <=> h[k].ch \in {"tail", "head"})
             /\ h[k].ch = "w" => k + 1 \in 1..w /\ h[k + 1].ch = "tail"
             /\ h[k].ch = "tail" => k - 1 \in 1..w /\ h[k - 1].ch = "w"
  <2>1. CASE k \in 1..Len(f)
    BY <1>1, <1>4, <2>1 DEF Spaced
  <2>2. CASE k > Len(f)
    BY <1>6, <2>2, Spacers
  <2> QED BY <1>1, <2>1, <2>2
<1>8. Spaced(h, TRUE, w)
  BY <1>1, <1>3, <1>7 DEF Spaced
<1> QED BY <1>0, <1>3, <1>4, <1>6, <1>8, Spacers, Zenon

LEMMA FitsKeeps ==
    ASSUME NEW w \in Widths, NEW old, NEW s, Writes(s, old, w), NEW token \in Tokens, token \notin {"nl", "tail", "head"},
           Len(s.lines[Len(s.lines)].cells) + Len(CellsFor(s, token)) <= w
    PROVE  Writes(Prints(s, token), old, w)
<1> DEFINE ls == s.lines
           n == Len(ls)
           m == Len(s.printed) + 1
           full == ls[n].cells
           added == CellsFor(s, token)
           cells == full \o added
           line == [ls[n] EXCEPT !.cells = cells]
           new == [ls EXCEPT ![n] = line]
           t == Prints(s, token)
           z == <<n, Len(full) + 1>>
<1>1. s \in WriteStates /\ s.cols = w /\ Len(s.inks) = Len(s.printed)
      /\ LinesAreSpaced(ls, w) /\ NumbersFollow(ls, s.printed)
      /\ \A l \in Nat \ {0} : l \notin s.dirty => SameLine(ls, old, l)
  BY DEF Writes
<1>2. s.printed \in Seq(Tokens) /\ ls \in Seq(LineRecords) /\ ls # <<>> /\ n \in Nat \ {0} /\ n = Len(ls)
      /\ ls[n] \in LineRecords /\ ls[n].ended = 0 /\ ls[n].wraps = FALSE /\ Spaced(full, FALSE, w) /\ m \in Nat \ {0}
      /\ s.dirty \subseteq Nat /\ s.inks \in Seq(Seq(Tokens)) /\ s.pen \in Seq(Tokens)
  BY <1>1, LastLine
<1>3. /\ added \in Seq(CellRecords) /\ Spaced(added, FALSE, w)
      /\ (Len(added) = 1 \/ Len(added) = 2) /\ added[1].ch = token /\ added[1].nr = m
      /\ Len(added) = 2 => added[2].nr = 0
  BY <1>1, CellsForIs
<1>4. t = [s EXCEPT !.printed = Append(s.printed, token), !.inks = Append(s.inks, s.pen),
                     !.dirty = s.dirty \cup {n}, !.lines = new]
  BY <1>1 DEF Prints
<1>5. /\ Append(s.printed, token) \in Seq(Tokens) /\ Append(s.inks, s.pen) \in Seq(Seq(Tokens))
      /\ Len(Append(s.inks, s.pen)) = Len(Append(s.printed, token))
  BY <1>1, <1>2, InksGrow
<1>6. full \in Seq(CellRecords) /\ Len(full) \in Nat /\ Len(full) + Len(added) <= w
  BY <1>2 DEF LineRecords
<1> HIDE DEF t, m, new, line, cells, added, full, n, ls
<1>7. w \in Nat /\ w > 1 /\ w <= MaxCols /\ MaxCols \in Nat
  BY WidthsAre
<1>8. /\ cells \in Seq(CellRecords) /\ Len(cells) = Len(full) + Len(added)
      /\ \A k \in 1..Len(full) : cells[k] = full[k]
      /\ \A k \in 1..Len(added) : cells[Len(full) + k] = added[k]
      /\ Spaced(cells, FALSE, w)
  BY <1>2, <1>3, <1>6, JoinedCells DEF cells
<1>9. line \in LineRecords /\ line.cells = cells /\ line.wraps = FALSE /\ line.ended = 0
  BY <1>2, <1>8 DEF LineRecords, line
<1>10. /\ new \in Seq(LineRecords) /\ Len(new) = n /\ new # <<>> /\ new[n] = line
       /\ \A l \in 1..n : l # n => new[l] = ls[l]
  BY <1>2, <1>9, GrownLines DEF new
<1>11. /\ t \in WriteStates /\ t.printed = Append(s.printed, token) /\ t.lines = new
       /\ t.dirty = s.dirty \cup {n} /\ t.cols = w /\ Len(t.inks) = Len(t.printed)
  <2>1. s.dirty \cup {n} \subseteq Nat
    BY <1>2
  <2> QED BY <1>1, <1>4, <1>5, <1>10, <2>1 DEF WriteStates
<1>12. LinesAreSpaced(new, w)
  <2> SUFFICES ASSUME NEW l \in 1..n
               PROVE  /\ Spaced(new[l].cells, new[l].wraps, w) /\ (new[l].wraps => l # n)
                      /\ (new[l].ended = 0 <=> new[l].wraps \/ l = n)
    BY <1>10 DEF LinesAreSpaced
  <2>1. CASE l = n
    <3>1. new[l].cells = cells /\ new[l].wraps = FALSE /\ new[l].ended = 0
      BY <1>9, <1>10, <2>1
    <3>2. Spaced(new[l].cells, new[l].wraps, w)
      BY <1>8, <3>1, Zenon
    <3> QED BY <2>1, <3>1, <3>2, Zenon
  <2>2. CASE l # n
    <3>1. new[l] = ls[l]
      BY <1>10, <2>2
    <3> QED BY <1>1, <1>2, <3>1 DEF LinesAreSpaced
  <2> QED BY <2>1, <2>2
<1>13. cells[Len(full) + 1] = added[1] /\ (Len(added) = 2 => cells[Len(full) + 2] = added[2])
  BY <1>3, <1>6, <1>8
<1>14. \A p \in Nat \X Nat : Filled(new, p) <=> Filled(ls, p) \/ p = z
  <2> SUFFICES ASSUME NEW p \in Nat \X Nat PROVE Filled(new, p) <=> Filled(ls, p) \/ p = z
    OBVIOUS
  <2>1. p[1] \in Nat /\ p[2] \in Nat /\ (p = z <=> p[1] = n /\ p[2] = Len(full) + 1)
    OBVIOUS
  <2>2. CASE p[1] = n
    <3>1. Len(new[n].cells) = Len(full) + Len(added) /\ new[n].cells = cells /\ ls[n].cells = full
      BY <1>8, <1>9, <1>10 DEF full
    <3>2. CASE p[2] = MaxCols + 1
      <4>1. NumberAt(new, p) = 0 /\ NumberAt(ls, p) = 0
        BY <1>2, <1>9, <1>10, <2>2, <3>2 DEF NumberAt
      <4>2. p[2] # Len(full) + 1
        BY <1>3, <1>6, <1>7, <3>2
      <4> QED BY <2>1, <4>1, <4>2 DEF Filled
    <3>3. CASE p[2] \in 1..Len(full)
      <4>1. p[2] # MaxCols + 1 /\ p[2] \in 1..Len(cells) /\ p[2] # Len(full) + 1
        BY <1>3, <1>6, <1>7, <1>8, <3>3
      <4>2. NumberAt(new, p) = NumberAt(ls, p)
        BY <1>8, <2>2, <3>1, <3>3, <4>1 DEF NumberAt
      <4>3. n \in 1..Len(new) /\ n \in 1..Len(ls)
        BY <1>2, <1>10
      <4> QED BY <2>1, <2>2, <3>1, <3>3, <4>1, <4>2, <4>3 DEF Filled
    <3>4. CASE p[2] = Len(full) + 1
      <4>1. p[2] # MaxCols + 1 /\ p[2] \in 1..Len(cells)
        BY <1>3, <1>6, <1>7, <1>8, <3>4
      <4>2. NumberAt(new, p) = cells[p[2]].nr /\ cells[p[2]].nr # 0
        <5>1. cells[p[2]] = added[1] /\ added[1].nr = m /\ m # 0
          BY <1>2, <1>3, <1>13, <3>4
        <5>2. NumberAt(new, p) = new[n].cells[p[2]].nr
          BY <2>2, <4>1 DEF NumberAt
        <5> QED BY <3>1, <5>1, <5>2
      <4>3. n \in 1..Len(new)
        BY <1>2, <1>10
      <4> QED BY <2>1, <2>2, <3>1, <3>4, <4>1, <4>2, <4>3 DEF Filled
    <3>5. CASE p[2] # MaxCols + 1 /\ p[2] \notin 1..(Len(full) + 1)
      <4>1. p[2] \notin 1..Len(full) /\ p # z
        BY <1>6, <2>1, <3>5
      <4>2. ~Filled(ls, p)
        BY <2>2, <3>1, <3>5, <4>1 DEF Filled
      <4>3. CASE p[2] \in 1..Len(cells)
        <5>1. Len(added) = 2 /\ p[2] = Len(full) + 2
          <6>1. p[2] \in Nat /\ p[2] >= 1 /\ p[2] <= Len(full) + Len(added) /\ ~(p[2] <= Len(full) + 1)
            BY <1>6, <1>8, <2>1, <3>5, <4>3
          <6>2. Len(added) = 1 \/ Len(added) = 2
            BY <1>3
          <6>3. CASE Len(added) = 1
            BY <1>6, <6>1, <6>3
          <6>4. CASE Len(added) = 2
            BY <1>6, <6>1, <6>4
          <6> QED BY <6>2, <6>3, <6>4
        <5>2. NumberAt(new, p) = 0
          BY <1>3, <1>13, <2>2, <3>1, <3>5, <5>1 DEF NumberAt
        <5> QED BY <4>1, <4>2, <5>2 DEF Filled
      <4>4. CASE p[2] \notin 1..Len(cells)
        BY <2>2, <3>1, <3>5, <4>1, <4>2, <4>4 DEF Filled
      <4> QED BY <4>3, <4>4
    <3> QED BY <1>6, <2>1, <3>2, <3>3, <3>4, <3>5
  <2>3. CASE p[1] # n
    BY <1>2, <1>10, <2>1, <2>3 DEF Filled, NumberAt
  <2> QED BY <2>2, <2>3
<1>15. \A p \in Places(ls) : NumberAt(new, p) = NumberAt(ls, p) /\ CharAt(new, p) = CharAt(ls, p) /\ Before(p, z)
  <2> SUFFICES ASSUME NEW p \in Places(ls)
               PROVE  NumberAt(new, p) = NumberAt(ls, p) /\ CharAt(new, p) = CharAt(ls, p) /\ Before(p, z)
    OBVIOUS
  <2>1. p[1] \in 1..n /\ p[2] \in 1..(MaxCols + 1) /\ (p[1] = n => p[2] \in 1..Len(full))
    BY <1>1, <1>2, PlacesAre DEF full
  <2>2. CASE p[1] = n
    <3>1. new[n].cells = cells /\ ls[n].cells = full
      BY <1>9, <1>10 DEF full
    <3>2. p[2] # MaxCols + 1 /\ p[2] \in 1..Len(full) /\ p[2] < Len(full) + 1
      <4>1. p[2] \in 1..Len(full)
        BY <2>1, <2>2
      <4>2. Len(full) <= MaxCols
        BY <1>3, <1>6, <1>7
      <4> QED BY <1>6, <1>7, <4>1, <4>2
    <3>3. cells[p[2]] = full[p[2]]
      BY <1>8, <3>2
    <3> QED BY <2>2, <3>1, <3>2, <3>3 DEF NumberAt, CharAt, Before
  <2>3. CASE p[1] # n
    <3>1. new[p[1]] = ls[p[1]]
      BY <1>10, <2>1, <2>3
    <3>2. p[1] < n
      BY <1>2, <2>1, <2>3
    <3>3. z[1] = n
      BY DEF z
    <3> QED BY <3>1, <3>2, <3>3 DEF NumberAt, CharAt, Before
  <2> QED BY <2>2, <2>3
<1>16. NumberAt(new, z) = m /\ CharAt(new, z) = token /\ z \in Nat \X Nat
  <2>1. z[1] = n /\ z[2] = Len(full) + 1 /\ z \in Nat \X Nat
    BY <1>2, <1>6
  <2>2. Len(full) + 1 # MaxCols + 1
    BY <1>3, <1>6, <1>7
  <2>3. new[n].cells = cells /\ cells[Len(full) + 1] = added[1]
    BY <1>9, <1>10, <1>13
  <2> HIDE DEF z
  <2> QED BY <1>3, <2>1, <2>2, <2>3 DEF NumberAt, CharAt
<1>17. NumbersFollow(new, Append(s.printed, token))
  <2>1. NumberAt(new, z) = Len(s.printed) + 1
    BY <1>16 DEF m
  <2> HIDE DEF z
  <2> QED BY <1>1, <1>2, <1>14, <1>15, <1>16, <2>1, Extends
<1>18. \A l \in Nat \ {0} : l \notin t.dirty => SameLine(new, old, l)
  <2> SUFFICES ASSUME NEW l \in Nat \ {0}, l # n PROVE LineAt(new, l) = LineAt(ls, l)
    BY <1>1, <1>11 DEF SameLine
  <2> QED BY <1>2, <1>10 DEF LineAt
<1>19. Writes(t, old, w)
  BY <1>11, <1>12, <1>17, <1>18 DEF Writes
<1> QED BY <1>19 DEF t

LEMMA WrapsKeeps ==
    ASSUME NEW w \in Widths, NEW old, NEW s, Writes(s, old, w), NEW token \in Tokens, token \notin {"nl", "tail", "head"},
           ~(Len(s.lines[Len(s.lines)].cells) + Len(CellsFor(s, token)) <= w)
    PROVE  Writes(Prints(s, token), old, w)
<1> DEFINE ls == s.lines
           n == Len(ls)
           m == Len(s.printed) + 1
           full == ls[n].cells
           left == IF Len(full) < w THEN <<SpacerHead>> ELSE <<>>
           added == CellsFor(s, token)
           cells == full \o left
           line == [NewLine EXCEPT !.cells = cells, !.wraps = TRUE]
           next == [NewLine EXCEPT !.cells = added]
           new == Append([ls EXCEPT ![n] = line], next)
           t == Prints(s, token)
           z == <<n + 1, 1>>
<1>1. s \in WriteStates /\ s.cols = w /\ Len(s.inks) = Len(s.printed)
      /\ LinesAreSpaced(ls, w) /\ NumbersFollow(ls, s.printed)
      /\ \A l \in Nat \ {0} : l \notin s.dirty => SameLine(ls, old, l)
  BY DEF Writes
<1>2. s.printed \in Seq(Tokens) /\ ls \in Seq(LineRecords) /\ ls # <<>> /\ n \in Nat \ {0} /\ n = Len(ls)
      /\ ls[n] \in LineRecords /\ ls[n].ended = 0 /\ ls[n].wraps = FALSE /\ Spaced(full, FALSE, w) /\ m \in Nat \ {0}
      /\ s.dirty \subseteq Nat /\ s.inks \in Seq(Seq(Tokens)) /\ s.pen \in Seq(Tokens)
  BY <1>1, LastLine
<1>3. /\ added \in Seq(CellRecords) /\ Spaced(added, FALSE, w)
      /\ (Len(added) = 1 \/ Len(added) = 2) /\ added[1].ch = token /\ added[1].nr = m
      /\ Len(added) = 2 => added[2].nr = 0
  BY <1>1, CellsForIs
<1>4. t = [s EXCEPT !.printed = Append(s.printed, token), !.inks = Append(s.inks, s.pen),
                     !.dirty = s.dirty \cup {n, n + 1}, !.lines = new]
  BY <1>1 DEF Prints
<1>5. /\ Append(s.printed, token) \in Seq(Tokens) /\ Append(s.inks, s.pen) \in Seq(Seq(Tokens))
      /\ Len(Append(s.inks, s.pen)) = Len(Append(s.printed, token))
  BY <1>1, <1>2, InksGrow
<1>6. full \in Seq(CellRecords) /\ Len(full) \in Nat /\ Len(full) + 2 > w
  <2>1. full \in Seq(CellRecords) /\ Len(full) \in Nat
    BY <1>2 DEF LineRecords
  <2>2. w \in Nat /\ w > 1 /\ w <= MaxCols /\ MaxCols \in Nat
    BY WidthsAre
  <2>3. ~(Len(full) + Len(added) <= w)
    OBVIOUS
  <2> HIDE DEF full, added
  <2>4. Len(full) + 2 > w
    <3>1. Len(added) = 1 \/ Len(added) = 2
      BY <1>3, Zenon
    <3>2. Len(full) \in Nat
      BY <2>1
    <3>3. CASE Len(added) = 1
      BY <2>2, <2>3, <3>2, <3>3
    <3>4. CASE Len(added) = 2
      BY <2>2, <2>3, <3>2, <3>4
    <3> QED BY <3>1, <3>3, <3>4
  <2> QED BY <2>1, <2>4
<1>7. w \in Nat /\ w > 1 /\ w <= MaxCols /\ MaxCols \in Nat
  BY WidthsAre
<1>8. /\ cells \in Seq(CellRecords) /\ Len(cells) = w
      /\ \A k \in 1..Len(full) : cells[k] = full[k]
      /\ \A k \in 1..w : k > Len(full) => cells[k].nr = 0
      /\ Spaced(cells, TRUE, w) /\ Len(full) <= w
  <2>1. cells = FilledUp(full, w)
    BY DEF FilledUp
  <2> HIDE DEF cells, full
  <2>2. Len(full) <= w
    BY <1>2 DEF Spaced
  <2>3. full \in Seq(CellRecords) /\ Spaced(full, FALSE, w) /\ Len(full) + 2 > w
    BY <1>2, <1>6
  <2>4. /\ FilledUp(full, w) \in Seq(CellRecords) /\ Len(FilledUp(full, w)) = w
        /\ \A k \in 1..Len(full) : FilledUp(full, w)[k] = full[k]
        /\ \A k \in 1..w : k > Len(full) => FilledUp(full, w)[k].nr = 0
        /\ Spaced(FilledUp(full, w), TRUE, w)
    BY <2>3, FullLine
  <2> QED BY <2>1, <2>2, <2>4
<1> HIDE DEF t, m, new, line, next, cells, left, added, full, n, ls
<1>9. line \in LineRecords /\ line.cells = cells /\ line.wraps = TRUE /\ line.ended = 0
  BY <1>8, NewLineIs DEF LineRecords, line
<1>10. next \in LineRecords /\ next.cells = added /\ next.wraps = FALSE /\ next.ended = 0
  BY <1>3, NewLineIs DEF LineRecords, next
<1>11. /\ new \in Seq(LineRecords) /\ Len(new) = n + 1 /\ new # <<>> /\ new[n] = line /\ new[n + 1] = next
       /\ \A l \in 1..n : l # n => new[l] = ls[l]
  <2>1. line \in LineRecords /\ next \in LineRecords /\ ls \in Seq(LineRecords) /\ ls # <<>>
    BY <1>2, <1>9, <1>10
  <2>2. new = Append([ls EXCEPT ![Len(ls)] = line], next) /\ n = Len(ls)
    BY DEF new, n
  <2> QED BY <2>1, <2>2, GrownLines
<1>12. /\ t \in WriteStates /\ t.printed = Append(s.printed, token) /\ t.lines = new
       /\ t.dirty = s.dirty \cup {n, n + 1} /\ t.cols = w /\ Len(t.inks) = Len(t.printed)
  <2>1. s.dirty \cup {n, n + 1} \subseteq Nat
    BY <1>2
  <2> QED BY <1>1, <1>4, <1>5, <1>11, <2>1 DEF WriteStates
<1>13. LinesAreSpaced(new, w)
  <2> SUFFICES ASSUME NEW l \in 1..(n + 1)
               PROVE  /\ Spaced(new[l].cells, new[l].wraps, w) /\ (new[l].wraps => l # n + 1)
                      /\ (new[l].ended = 0 <=> new[l].wraps \/ l = n + 1)
    BY <1>11 DEF LinesAreSpaced
  <2>1. CASE l = n + 1
    <3>1. new[l].cells = added /\ new[l].wraps = FALSE /\ new[l].ended = 0
      BY <1>10, <1>11, <2>1
    <3>2. Spaced(new[l].cells, new[l].wraps, w)
      BY <1>3, <3>1, Zenon
    <3> QED BY <2>1, <3>1, <3>2, Zenon
  <2>2. CASE l = n
    <3>1. new[l].cells = cells /\ new[l].wraps = TRUE /\ new[l].ended = 0 /\ n # n + 1
      BY <1>2, <1>9, <1>11, <2>2
    <3>2. Spaced(new[l].cells, new[l].wraps, w)
      BY <1>8, <3>1, Zenon
    <3> QED BY <2>2, <3>1, <3>2, Zenon
  <2>3. CASE l # n /\ l # n + 1
    <3>1. l \in 1..n /\ new[l] = ls[l]
      BY <1>2, <1>11, <2>3
    <3> QED BY <1>1, <1>2, <2>3, <3>1 DEF LinesAreSpaced
  <2> QED BY <2>1, <2>2, <2>3
<1>14. \A p \in Nat \X Nat : Filled(new, p) <=> Filled(ls, p) \/ p = z
  <2> SUFFICES ASSUME NEW p \in Nat \X Nat PROVE Filled(new, p) <=> Filled(ls, p) \/ p = z
    OBVIOUS
  <2>1. p[1] \in Nat /\ p[2] \in Nat /\ (p = z <=> p[1] = n + 1 /\ p[2] = 1)
    OBVIOUS
  <2>2. CASE p[1] = n
    <3>1. new[n].cells = cells /\ ls[n].cells = full /\ p # z /\ new[n].ended = 0
      BY <1>2, <1>9, <1>11, <2>1, <2>2 DEF full
    <3>2. CASE p[2] = MaxCols + 1
      BY <1>2, <2>2, <3>1, <3>2 DEF Filled, NumberAt
    <3>3. CASE p[2] # MaxCols + 1 /\ p[2] \in 1..Len(full)
      BY <1>2, <1>6, <1>7, <1>8, <1>11, <2>1, <2>2, <3>1, <3>3 DEF Filled, NumberAt
    <3>4. CASE p[2] # MaxCols + 1 /\ p[2] \notin 1..Len(full)
      <4>1. ~Filled(ls, p)
        BY <2>2, <3>1, <3>4 DEF Filled
      <4>2. p[2] \in 1..w => NumberAt(new, p) = 0
        BY <1>6, <1>7, <1>8, <2>1, <2>2, <3>1, <3>4 DEF NumberAt
      <4> QED BY <1>8, <2>2, <3>1, <3>4, <4>1, <4>2 DEF Filled
    <3> QED BY <3>2, <3>3, <3>4
  <2>3. CASE p[1] = n + 1
    <3>1. ~Filled(ls, p)
      BY <1>2, <2>3 DEF Filled
    <3>2. new[n + 1].cells = added /\ new[n + 1].ended = 0
      BY <1>10, <1>11
    <3>3. CASE p[2] = MaxCols + 1
      <4>1. p # z
        BY <1>7, <2>1, <3>3
      <4> QED BY <2>3, <3>1, <3>2, <3>3, <4>1 DEF Filled, NumberAt
    <3>4. CASE p[2] # MaxCols + 1
      <4>1. Filled(new, p) <=> p[2] \in 1..Len(added) /\ added[p[2]].nr # 0
        BY <1>2, <1>11, <2>3, <3>2, <3>4 DEF Filled, NumberAt
      <4>2. p[2] \in 1..Len(added) => p[2] = 1 \/ (p[2] = 2 /\ Len(added) = 2)
        <5>1. CASE Len(added) = 1
          BY <2>1, <5>1
        <5>2. CASE Len(added) = 2
          BY <2>1, <5>2
        <5> QED BY <1>3, <5>1, <5>2
      <4>3. 1 \in 1..Len(added) /\ added[1].nr # 0
        BY <1>2, <1>3
      <4> QED BY <1>3, <2>1, <2>3, <3>1, <4>1, <4>2, <4>3
    <3> QED BY <3>3, <3>4
  <2>4. CASE p[1] # n /\ p[1] # n + 1
    BY <1>2, <1>11, <2>1, <2>4 DEF Filled, NumberAt
  <2> QED BY <2>2, <2>3, <2>4
<1>15. \A p \in Places(ls) : NumberAt(new, p) = NumberAt(ls, p) /\ CharAt(new, p) = CharAt(ls, p) /\ Before(p, z)
  <2> SUFFICES ASSUME NEW p \in Places(ls)
               PROVE  NumberAt(new, p) = NumberAt(ls, p) /\ CharAt(new, p) = CharAt(ls, p) /\ Before(p, z)
    OBVIOUS
  <2>1. p[1] \in 1..n /\ p[2] \in 1..(MaxCols + 1) /\ (p[1] = n => p[2] \in 1..Len(full))
    BY <1>1, <1>2, PlacesAre DEF full
  <2>2. CASE p[1] = n
    <3>1. new[n].cells = cells /\ ls[n].cells = full
      BY <1>9, <1>11 DEF full
    <3>2. p[2] # MaxCols + 1 /\ p[2] \in 1..Len(full) /\ n < n + 1
      BY <1>2, <1>6, <1>7, <1>8, <2>1, <2>2
    <3>3. cells[p[2]] = full[p[2]]
      BY <1>8, <3>2
    <3> QED BY <2>2, <3>1, <3>2, <3>3 DEF NumberAt, CharAt, Before
  <2>3. CASE p[1] # n
    BY <1>2, <1>11, <2>1, <2>3 DEF NumberAt, CharAt, Before
  <2> QED BY <2>2, <2>3
<1>16. NumberAt(new, z) = m /\ CharAt(new, z) = token /\ z \in Nat \X Nat
  BY <1>2, <1>3, <1>7, <1>10, <1>11 DEF NumberAt, CharAt
<1>17. NumbersFollow(new, Append(s.printed, token))
  <2>1. NumberAt(new, z) = Len(s.printed) + 1
    BY <1>16 DEF m
  <2> HIDE DEF z
  <2> QED BY <1>1, <1>2, <1>14, <1>15, <1>16, <2>1, Extends
<1>18. \A l \in Nat \ {0} : l \notin t.dirty => SameLine(new, old, l)
  <2> SUFFICES ASSUME NEW l \in Nat \ {0}, l # n, l # n + 1 PROVE LineAt(new, l) = LineAt(ls, l)
    BY <1>1, <1>12 DEF SameLine
  <2> QED BY <1>2, <1>11 DEF LineAt
<1>19. Writes(t, old, w)
  BY <1>12, <1>13, <1>17, <1>18 DEF Writes
<1> QED BY <1>19 DEF t

LEMMA VtWriteKeeps ==
    ASSUME NEW w \in Widths, NEW old, NEW s, Writes(s, old, w), NEW token \in STRING, token \notin {"tail", "head"}
    PROVE  Writes(VtWrite(s, token), old, w)
<1>1. ASSUME NEW link \in Seq(Tokens) PROVE Writes([s EXCEPT !.pen = link], old, w)
  <2> DEFINE t == [s EXCEPT !.pen = link]
  <2>1. s \in WriteStates
    BY DEF Writes
  <2>2. t \in WriteStates /\ t.lines = s.lines /\ t.printed = s.printed /\ t.dirty = s.dirty
        /\ t.cols = s.cols /\ t.inks = s.inks
    BY <2>1 DEF WriteStates
  <2> HIDE DEF t
  <2>3. Writes(t, old, w)
    BY <2>2 DEF Writes
  <2> QED BY <2>3 DEF t
<1>2. token \in Tokens
  BY DEF Tokens
<1>3. <<>> \in Seq(Tokens) /\ <<token>> \in Seq(Tokens)
  BY <1>2, OneCell, EmptySeq
<1>4. Writes(LineFeed(s), old, w)
  BY LineFeedKeeps
<1>5. token # "nl" => Writes(Prints(s, token), old, w)
  BY <1>2, FitsKeeps, WrapsKeeps
<1>6. \/ VtWrite(s, token) = [s EXCEPT !.pen = <<>>]
      \/ VtWrite(s, token) = [s EXCEPT !.pen = <<token>>]
      \/ VtWrite(s, token) = s
      \/ VtWrite(s, token) = LineFeed(s)
      \/ token # "nl" /\ VtWrite(s, token) = Prints(s, token)
  BY DEF VtWrite
<1> QED BY <1>1, <1>3, <1>4, <1>5, <1>6

(* A set of numbers that is not empty has a least one.                        *)
LEMMA HasLeast ==
    ASSUME NEW T \in SUBSET Nat, T # {}
    PROVE  \E m \in T : \A n \in T : ~(n < m)
<1>1. PICK m \in T : \A n \in T : ~(<<n, m>> \in OpToRel(<, Nat))
  BY NatLessThanWellFounded, WFMin
<1> QED BY <1>1 DEF OpToRel

(* A batch of output is written token by token.                               *)
LEMMA WrittenKeeps ==
    ASSUME ScreenTypes, LinesAreSpaced(lines, cols), NumbersFollow(lines, printed), NEW chunk \in Chunks
    PROVE  Writes(Written(chunk), lines, cols)
<1> DEFINE from == [printed |-> printed, inks |-> inks, lines |-> lines, pen |-> pen, cols |-> cols,
                    dirty |-> {}]
<1> DEFINE Step(g, i) == IF i = 0 THEN from ELSE VtWrite(g[i - 1], chunk[i])
<1> DEFINE Run(g, m) == g = [i \in 0..m |-> Step(g, i)]
<1>1. Len(chunk) \in Nat /\ \A i \in 1..Len(chunk) : chunk[i] \in STRING /\ chunk[i] \notin {"tail", "head"}
  <2>1. chunk \in Seq(STRING) /\ {"tail", "head", "B"} \cap Range(chunk) = {}
    BY ScreenAssumption
  <2>2. Len(chunk) \in Nat /\ DOMAIN chunk = 1..Len(chunk) /\ \A i \in 1..Len(chunk) : chunk[i] \in STRING
    BY <2>1
  <2>3. ASSUME NEW i \in 1..Len(chunk) PROVE chunk[i] \notin {"tail", "head"}
    <3>1. chunk[i] \in Range(chunk)
      BY <2>2 DEF Range
    <3> QED BY <2>1, <3>1
  <2> QED BY <2>2, <2>3
<1>2. \E g : Run(g, Len(chunk))
  <2> DEFINE T == {m \in Nat : ~\E g : Run(g, m)}
  <2> SUFFICES ASSUME T # {} PROVE FALSE
    BY <1>1
  <2>1. PICK m \in T : \A i \in T : ~(i < m)
    <3>1. T \subseteq Nat
      OBVIOUS
    <3> HIDE DEF T
    <3> QED BY <3>1, HasLeast
  <2> HIDE DEF from
  <2>2. CASE m = 0
    <3> DEFINE g == [i \in 0..0 |-> from]
    <3>1. \A i \in 0..0 : i = 0
      OBVIOUS
    <3>2. g = [i \in 0..0 |-> Step(g, i)]
      BY <3>1
    <3> QED BY <2>2, <3>2
  <2>3. CASE m # 0
    <3>1. m \in Nat /\ m - 1 \in Nat /\ m - 1 < m /\ (m - 1) + 1 = m
      BY <2>3
    <3>2. PICK g : Run(g, m - 1)
      BY <2>1, <3>1
    <3> DEFINE h == [i \in 0..m |-> IF i = m THEN VtWrite(g[m - 1], chunk[m]) ELSE g[i]]
    <3>3. \A i \in 0..m : h[i] = Step(h, i)
      <4> SUFFICES ASSUME NEW i \in 0..m PROVE h[i] = Step(h, i)
        OBVIOUS
      <4>1. CASE i = m
        <5>1. h[m - 1] = g[m - 1] /\ m # 0 /\ h[m] = VtWrite(g[m - 1], chunk[m])
          BY <3>1, <2>3
        <5> QED BY <4>1, <5>1
      <4>2. CASE i # m
        <5>1. i \in 0..(m - 1) /\ h[i] = g[i]
          BY <4>2, <3>1
        <5>2. g[i] = Step(g, i)
          BY <3>2, <5>1
        <5>3. i # 0 => h[i - 1] = g[i - 1]
          BY <4>2, <3>1
        <5> QED BY <5>1, <5>2, <5>3
      <4> QED BY <4>1, <4>2
    <3>4. h = [i \in 0..m |-> Step(h, i)]
      <4> DEFINE r == [i \in 0..m |-> Step(h, i)]
      <4>1. \A i \in 0..m : h[i] = r[i]
        BY <3>3
      <4> QED BY <4>1
    <3> QED BY <3>4
  <2> QED BY <2>2, <2>3
<1> DEFINE state == CHOOSE g : Run(g, Len(chunk))
<1>3. Run(state, Len(chunk))
  <2> HIDE DEF Run
  <2> QED BY <1>2
<1>4. Written(chunk) = state[Len(chunk)]
  BY DEF Written
<1> HIDE DEF state
<1>5. \A i \in 0..Len(chunk) : state[i] = Step(state, i)
  BY <1>3
<1>6. Writes(from, lines, cols)
  <2>1. from \in WriteStates /\ from.lines = lines /\ from.printed = printed /\ from.inks = inks
        /\ from.cols = cols /\ Len(inks) = Len(printed)
    BY WidthsAre DEF WriteStates, ScreenTypes
  <2> HIDE DEF from
  <2> QED BY <2>1 DEF Writes, SameLine
<1> HIDE DEF from
<1>7. \A i \in 0..Len(chunk) : Writes(state[i], lines, cols)
  <2> DEFINE T == {i \in 0..Len(chunk) : ~Writes(state[i], lines, cols)}
  <2> SUFFICES ASSUME T # {} PROVE FALSE
    OBVIOUS
  <2>1. PICK m \in T : \A i \in T : ~(i < m)
    <3>1. T \subseteq Nat
      BY <1>1
    <3> HIDE DEF T
    <3> QED BY <3>1, HasLeast
  <2>2. m \in 0..Len(chunk) /\ m \in Nat /\ ~Writes(state[m], lines, cols)
    BY <1>1
  <2>3. CASE m = 0
    <3>1. state[m] = from
      BY <2>2, <2>3, <1>5
    <3> QED BY <1>6, <2>2, <3>1
  <2>4. CASE m # 0
    <3> DEFINE i == m - 1
    <3>1. i \in 0..Len(chunk) /\ i < m /\ m \in 1..Len(chunk)
      BY <1>1, <2>2, <2>4
    <3>2. state[m] = VtWrite(state[i], chunk[m])
      BY <1>5, <2>2, <2>4
    <3> HIDE DEF i
    <3>3. Writes(state[i], lines, cols)
      BY <2>1, <3>1
    <3>4. Writes(VtWrite(state[i], chunk[m]), lines, cols)
      BY <1>1, <3>1, <3>3, VtWriteKeeps DEF ScreenTypes
    <3> QED BY <2>2, <3>2, <3>4
  <2> QED BY <2>3, <2>4
<1>8. Writes(state[Len(chunk)], lines, cols)
  BY <1>1, <1>7
<1> QED BY <1>4, <1>8

------------------------------------------------------------------------------
(* What sync shows of the screen.                                             *)
LEMMA TopIs ==
    ASSUME NEW ls \in Seq(LineRecords), NEW top \in Nat, NEW height \in Nat \ {0}
    PROVE  Top(ls, top, height) \in Nat \ {0} /\ BottomTop(ls, height) \in Nat \ {0}
<1>1. Len(ls) \in Nat
  OBVIOUS
<1> QED BY <1>1 DEF Top, BottomTop

LEMMA SameViewport ==
    ASSUME NEW ls, NEW old, NEW l, NEW w, SameLine(ls, old, l)
    PROVE  Viewport(ls, l, w) = Viewport(old, l, w) /\ LineAt(ls, l).wraps = LineAt(old, l).wraps
BY DEF SameLine, Viewport

LEMMA RowsOf ==
    ASSUME NEW n \in Nat, NEW f, f = [i \in 1..n |-> f[i]]
    PROVE  Len(f) = n /\ DOMAIN f = 1..n
<1>1. f \in [1..n -> {f[i] : i \in 1..n}]
  OBVIOUS
<1>2. f \in Seq({f[i] : i \in 1..n})
  BY <1>1
<1> QED BY <1>1, <1>2

LEMMA SyncShows ==
    ASSUME ScreenInv, NEW written, NEW all, Sync(written, all),
           lines' \in Seq(LineRecords), pin' \in Nat, rows' \in Heights,
           \A l \in Nat \ {0} : l \notin written => SameLine(lines', lines, l),
           ~all => rows' = rows /\ Top(lines', pin', rows') = Top(lines, pin, rows)
    PROVE  ContentIsShown' /\ moved' = FALSE /\ cols' = cols
           /\ Lines' = lines' /\ Width' = cols
           /\ "rows" \in DOMAIN content' /\ "wraps" \in DOMAIN content'
<1> DEFINE top == Top(lines', pin', rows')
           full == all \/ moved \/ GeometryChanged
           touched == {r \in 1..rows' : full \/ top + r - 1 \in written}
           seen == [r \in 1..rows' |-> IF r \in touched THEN Viewport(lines', top + r - 1, cols) ELSE content.rows[r]]
           wraps == [r \in 1..rows' |-> IF r \in touched THEN LineAt(lines', top + r - 1).wraps ELSE content.wraps[r]]
           copied == [content EXCEPT !.rows = seen, !.wraps = wraps]
<1>1. rows' \in Nat \ {0} /\ top \in Nat \ {0}
  <2>1. rows' \in Nat \ {0}
    BY ScreenAssumption
  <2> QED BY <2>1, TopIs
<1>2. /\ content' = IF written = {} /\ ~full THEN content
                    ELSE [copied EXCEPT !.links = LinksOf(copied, tracker'.candidates)]
      /\ moved' = FALSE /\ cols' = cols /\ Lines' = lines' /\ Width' = cols
  BY DEF Sync, Lines, Width
<1>3. "rows" \in DOMAIN content /\ "wraps" \in DOMAIN content
  BY DEF ScreenInv, ScreenTypes
<1>4. ~full => /\ ~all /\ ~moved /\ Len(content.rows) = rows' /\ rows' = rows
               /\ \A r \in 1..rows' : /\ content.rows[r] = Viewport(lines, top + r - 1, cols)
                                      /\ content.wraps[r] = LineAt(lines, top + r - 1).wraps
               /\ DOMAIN content.rows = 1..rows'
  <2> SUFFICES ASSUME ~full
               PROVE  /\ ~all /\ ~moved /\ Len(content.rows) = rows' /\ rows' = rows
                      /\ \A r \in 1..rows' : /\ content.rows[r] = Viewport(lines, top + r - 1, cols)
                                             /\ content.wraps[r] = LineAt(lines, top + r - 1).wraps
                      /\ DOMAIN content.rows = 1..rows'
    OBVIOUS
  <2>1. ~all /\ ~moved /\ Len(content.rows) = rows'
    BY DEF GeometryChanged
  <2>2. rows' = rows /\ top = Top(lines, pin, rows)
    BY <2>1
  <2> HIDE DEF top
  <2>3. IsShownFrom(top) /\ Lines = lines /\ Width = cols
    BY <2>1, <2>2 DEF ScreenInv, ContentIsShown
  <2> QED BY <2>1, <2>2, <2>3 DEF IsShownFrom
<1> HIDE DEF full
<1>5. ASSUME NEW r \in 1..rows'
      PROVE  seen[r] = Viewport(lines', top + r - 1, cols) /\ wraps[r] = LineAt(lines', top + r - 1).wraps
  <2> DEFINE l == top + r - 1
  <2>1. l \in Nat \ {0}
    BY <1>1
  <2>2. CASE r \in touched
    BY <2>2
  <2>3. CASE r \notin touched
    <3>1. ~full /\ l \notin written
      BY <2>3
    <3>2. SameLine(lines', lines, l)
      BY <2>1, <3>1
    <3>3. seen[r] = content.rows[r] /\ wraps[r] = content.wraps[r]
      BY <2>3
    <3>4. content.rows[r] = Viewport(lines, l, cols) /\ content.wraps[r] = LineAt(lines, l).wraps
      BY <1>4, <3>1
    <3> HIDE DEF seen, wraps, l
    <3>5. seen[r] = Viewport(lines', l, cols) /\ wraps[r] = LineAt(lines', l).wraps
      BY <3>2, <3>3, <3>4, SameViewport
    <3> QED BY <3>5 DEF l
  <2> QED BY <2>2, <2>3
<1>6. Len(seen) = rows' /\ DOMAIN seen = 1..rows'
  <2>1. seen = [i \in 1..rows' |-> seen[i]]
    OBVIOUS
  <2> HIDE DEF seen
  <2> QED BY <1>1, <2>1, RowsOf
<1> HIDE DEF top, touched, seen, wraps
<1>7. copied.rows = seen /\ copied.wraps = wraps
      /\ "rows" \in DOMAIN copied /\ "wraps" \in DOMAIN copied
  BY <1>3
<1>8. /\ Len(content'.rows) = rows' /\ DOMAIN content'.rows = 1..rows'
      /\ \A r \in 1..rows' : /\ content'.rows[r] = Viewport(lines', top + r - 1, cols)
                             /\ content'.wraps[r] = LineAt(lines', top + r - 1).wraps
      /\ "rows" \in DOMAIN content' /\ "wraps" \in DOMAIN content'
  <2> HIDE DEF copied
  <2>1. CASE written = {} /\ ~full
    <3>1. content' = content
      BY <1>2, <2>1
    <3>2. ASSUME NEW r \in 1..rows'
          PROVE  content.rows[r] = Viewport(lines', top + r - 1, cols)
                 /\ content.wraps[r] = LineAt(lines', top + r - 1).wraps
      <4> DEFINE l == top + r - 1
      <4>1. l \in Nat \ {0}
        BY <1>1
      <4>2. SameLine(lines', lines, l)
        BY <2>1, <4>1
      <4>3. content.rows[r] = Viewport(lines, l, cols) /\ content.wraps[r] = LineAt(lines, l).wraps
        BY <1>4, <2>1
      <4> HIDE DEF l
      <4>4. content.rows[r] = Viewport(lines', l, cols) /\ content.wraps[r] = LineAt(lines', l).wraps
        BY <4>2, <4>3, SameViewport
      <4> QED BY <4>4 DEF l
    <3> QED BY <1>3, <1>4, <2>1, <3>1, <3>2
  <2>2. CASE ~(written = {} /\ ~full)
    <3> DEFINE found == LinksOf(copied, tracker'.candidates)
    <3>1. content' = [copied EXCEPT !.links = found]
      BY <1>2, <2>2
    <3> HIDE DEF found
    <3>2. content'.rows = seen /\ content'.wraps = wraps
          /\ "rows" \in DOMAIN content' /\ "wraps" \in DOMAIN content'
      BY <1>7, <3>1
    <3> QED BY <1>5, <1>6, <3>2
  <2> QED BY <2>1, <2>2
<1>9. PICK t \in Nat \ {0} : t = top
  BY <1>1
<1>10. IsShownFrom(t)'
  BY <1>1, <1>2, <1>8, <1>9 DEF IsShownFrom
<1>11. ContentIsShown'
  BY <1>9, <1>10 DEF ContentIsShown, top
<1> QED BY <1>2, <1>8, <1>11

(* Lines without a character, and what a resize makes of those printed.       *)
LEMMA NothingIsWritten ==
    ASSUME NEW w \in Widths, NEW ls, ls = <<NewLine>>, NEW out, out = <<>>
    PROVE  LinesAreSpaced(ls, w) /\ NumbersFollow(ls, out)
<1>1. ls \in Seq(LineRecords) /\ Len(ls) = 1 /\ ls[1] = NewLine /\ w \in Nat
  BY NewLineIs, OneCell, WidthsAre
<1>2. LinesAreSpaced(ls, w)
  <2>1. ls # <<>>
    BY <1>1
  <2>2. \A l \in 1..1 : l = 1
    OBVIOUS
  <2>3. Spaced(ls[1].cells, ls[1].wraps, w) /\ ls[1].wraps = FALSE /\ ls[1].ended = 0
    BY <1>1, NewLineIs, Zenon
  <2> QED BY <1>1, <2>1, <2>2, <2>3 DEF LinesAreSpaced
<1>3. Places(ls) = {}
  <2> SUFFICES ASSUME NEW p \in Places(ls) PROVE FALSE
    OBVIOUS
  <2>1. p[1] \in 1..1 /\ (p[1] = 1 => p[2] \in 1..Len(ls[1].cells))
    BY <1>1, <1>2, PlacesAre
  <2>2. Len(ls[1].cells) = 0
    BY <1>1, NewLineIs
  <2> QED BY <2>1, <2>2
<1>4. Len(out) = 0
  OBVIOUS
<1> QED BY <1>2, <1>3, <1>4 DEF NumbersFollow

(* What was printed is a character or a line feed.                            *)
LEMMA PrintedAre ==
    ASSUME ScreenTypes, LinesAreSpaced(lines, cols), NumbersFollow(lines, printed), NEW i \in 1..Len(printed)
    PROVE  printed[i] \in Tokens /\ printed[i] \notin {"tail", "head"} /\ inks[i] \in Seq(Tokens)
<1>1. printed[i] \in Tokens /\ inks[i] \in Seq(Tokens)
  <2>1. printed \in Seq(Tokens) /\ inks \in Seq(Seq(Tokens)) /\ i \in 1..Len(inks)
    BY DEF ScreenTypes
  <2>2. printed[i] \in Tokens
    BY <2>1
  <2>3. inks[i] \in Seq(Tokens)
    BY <2>1, ElementOfSeq
  <2> QED BY <2>2, <2>3
<1>2. PICK p \in Places(lines) : NumberAt(lines, p) = i
  BY DEF NumbersFollow
<1>3. printed[i] = CharAt(lines, p)
  BY <1>2 DEF NumbersFollow
<1>4. CASE p[2] = MaxCols + 1
  BY <1>1, <1>3, <1>4 DEF CharAt
<1>5. CASE p[2] # MaxCols + 1
  <2>1. Filled(lines, p)
    BY DEF Places
  <2>2. p[1] \in 1..Len(lines) /\ p[2] \in 1..Len(lines[p[1]].cells) /\ lines[p[1]].cells[p[2]].nr # 0
    BY <1>5, <2>1 DEF Filled, NumberAt
  <2>3. printed[i] = lines[p[1]].cells[p[2]].ch
    BY <1>3, <1>5 DEF CharAt
  <2> QED BY <1>1, <2>2, <2>3 DEF LinesAreSpaced, Spaced
<1> QED BY <1>4, <1>5

(* The emulator wraps anew what it prints with another hyperlink.             *)
Anew(s, token, ink) ==
    LET t == [s EXCEPT !.pen = ink] IN IF token = "nl" THEN LineFeed(t) ELSE Prints(t, token)

LEMMA AnewKeeps ==
    ASSUME NEW w \in Widths, NEW old, NEW s, Writes(s, old, w), NEW token \in Tokens,
           token \notin {"tail", "head"}, NEW ink \in Seq(Tokens)
    PROVE  Writes(Anew(s, token, ink), old, w) /\ Anew(s, token, ink).printed = Append(s.printed, token)
<1> DEFINE t == [s EXCEPT !.pen = ink]
<1>1. s \in WriteStates
  BY DEF Writes
<1>2. t \in WriteStates /\ t.lines = s.lines /\ t.printed = s.printed /\ t.dirty = s.dirty
      /\ t.cols = s.cols /\ t.inks = s.inks
  BY <1>1 DEF WriteStates
<1>3. Anew(s, token, ink) = IF token = "nl" THEN LineFeed(t) ELSE Prints(t, token)
  BY DEF Anew
<1> HIDE DEF t
<1>4. Writes(t, old, w)
  BY <1>2 DEF Writes
<1>5. Writes(LineFeed(t), old, w) /\ (token # "nl" => Writes(Prints(t, token), old, w))
  BY <1>4, LineFeedKeeps, FitsKeeps, WrapsKeeps
<1>6. LineFeed(t).printed = Append(t.printed, "nl")
  BY <1>2 DEF LineFeed, WriteStates
<1>7. Prints(t, token).printed = Append(t.printed, token)
  BY <1>2 DEF Prints, WriteStates
<1> QED BY <1>2, <1>3, <1>5, <1>6, <1>7

LEMMA ReflowedKeeps ==
    ASSUME ScreenTypes, LinesAreSpaced(lines, cols), NumbersFollow(lines, printed), NEW w \in Widths
    PROVE  /\ Reflowed(w) \in Seq(LineRecords)
           /\ LinesAreSpaced(Reflowed(w), w) /\ NumbersFollow(Reflowed(w), printed)
<1> DEFINE old == <<NewLine>>
           from == [printed |-> <<>>, inks |-> <<>>, lines |-> old, pen |-> <<>>, cols |-> w, dirty |-> {}]
           N == Len(printed)
<1> DEFINE Step(g, i) == IF i = 0 THEN from ELSE Anew(g[i - 1], printed[i], inks[i])
<1> DEFINE Run(g, m) == g = [i \in 0..m |-> Step(g, i)]
<1>1. N \in Nat /\ printed \in Seq(Tokens)
  BY DEF ScreenTypes
<1>2. \E g : Run(g, N)
  <2> DEFINE T == {m \in Nat : ~\E g : Run(g, m)}
  <2> SUFFICES ASSUME T # {} PROVE FALSE
    BY <1>1
  <2>1. PICK m \in T : \A i \in T : ~(i < m)
    <3>1. T \subseteq Nat
      OBVIOUS
    <3> HIDE DEF T
    <3> QED BY <3>1, HasLeast
  <2> HIDE DEF from
  <2>2. CASE m = 0
    <3> DEFINE g == [i \in 0..0 |-> from]
    <3>1. \A i \in 0..0 : i = 0
      OBVIOUS
    <3>2. g = [i \in 0..0 |-> Step(g, i)]
      BY <3>1
    <3> QED BY <2>2, <3>2
  <2>3. CASE m # 0
    <3>1. m \in Nat /\ m - 1 \in Nat /\ m - 1 < m /\ (m - 1) + 1 = m
      BY <2>3
    <3>2. PICK g : Run(g, m - 1)
      BY <2>1, <3>1
    <3> DEFINE h == [i \in 0..m |-> IF i = m THEN Anew(g[m - 1], printed[m], inks[m]) ELSE g[i]]
    <3>3. \A i \in 0..m : h[i] = Step(h, i)
      <4> SUFFICES ASSUME NEW i \in 0..m PROVE h[i] = Step(h, i)
        OBVIOUS
      <4>1. CASE i = m
        <5>1. h[m - 1] = g[m - 1] /\ m # 0 /\ h[m] = Anew(g[m - 1], printed[m], inks[m])
          BY <3>1, <2>3
        <5> QED BY <4>1, <5>1
      <4>2. CASE i # m
        <5>1. i \in 0..(m - 1) /\ h[i] = g[i]
          BY <4>2, <3>1
        <5>2. g[i] = Step(g, i)
          BY <3>2, <5>1
        <5>3. i # 0 => h[i - 1] = g[i - 1]
          BY <4>2, <3>1
        <5> QED BY <5>1, <5>2, <5>3
      <4> QED BY <4>1, <4>2
    <3>4. h = [i \in 0..m |-> Step(h, i)]
      <4> DEFINE r == [i \in 0..m |-> Step(h, i)]
      <4>1. \A i \in 0..m : h[i] = r[i]
        BY <3>3
      <4> QED BY <4>1
    <3> QED BY <3>4
  <2> QED BY <2>2, <2>3
<1> DEFINE state == CHOOSE g : Run(g, N)
<1>3. Run(state, N)
  <2> HIDE DEF Run
  <2> QED BY <1>2
<1>4. Reflowed(w) = state[N].lines
  BY DEF Reflowed, Anew
<1> HIDE DEF state
<1>5. \A i \in 0..N : state[i] = Step(state, i)
  BY <1>3
<1>6. Writes(from, old, w) /\ from.printed = <<>>
  <2>1. from \in WriteStates /\ from.lines = old /\ from.printed = <<>> /\ from.inks = <<>>
        /\ from.cols = w
    <3>1. old \in Seq(LineRecords)
      BY NewLineIs, OneCell
    <3>2. <<>> \in Seq(Tokens) /\ <<>> \in Seq(Seq(Tokens)) /\ w \in Nat
      BY EmptySeq, WidthsAre
    <3> HIDE DEF old
    <3> QED BY <3>1, <3>2 DEF WriteStates
  <2>2. LinesAreSpaced(old, w) /\ NumbersFollow(old, <<>>)
    BY NothingIsWritten
  <2> HIDE DEF from, old
  <2> QED BY <2>1, <2>2 DEF Writes, SameLine
<1> HIDE DEF from, old
<1> DEFINE Fine(i) == /\ Writes(state[i], old, w) /\ Len(state[i].printed) = i
                      /\ \A j \in 1..i : state[i].printed[j] = printed[j]
<1>7. \A i \in 0..N : Fine(i)
  <2> DEFINE T == {i \in 0..N : ~Fine(i)}
  <2> SUFFICES ASSUME T # {} PROVE FALSE
    OBVIOUS
  <2>1. PICK m \in T : \A i \in T : ~(i < m)
    <3>1. T \subseteq Nat
      BY <1>1
    <3> HIDE DEF T
    <3> QED BY <3>1, HasLeast
  <2>2. m \in 0..N /\ m \in Nat /\ ~Fine(m)
    BY <1>1
  <2>3. CASE m = 0
    <3>1. state[m] = from
      BY <2>2, <2>3, <1>5
    <3>2. Len(state[m].printed) = 0
      BY <1>6, <3>1
    <3> QED BY <1>6, <2>2, <2>3, <3>1, <3>2
  <2>4. CASE m # 0
    <3> DEFINE i == m - 1
               t == state[i]
               token == printed[m]
               ink == inks[m]
    <3>1. i \in 0..N /\ i < m /\ m \in 1..N /\ i + 1 = m /\ i \in Nat
      BY <1>1, <2>2, <2>4
    <3>2. state[m] = Anew(t, token, ink)
      BY <1>5, <2>2, <2>4
    <3>3. Fine(i)
      BY <2>1, <3>1
    <3>4. Writes(t, old, w) /\ Len(t.printed) = i /\ \A j \in 1..i : t.printed[j] = printed[j]
      BY <3>3
    <3>5. token \in Tokens /\ token \notin {"tail", "head"} /\ ink \in Seq(Tokens)
      BY <3>1, PrintedAre
    <3> HIDE DEF t, token, ink, i
    <3>6. Writes(Anew(t, token, ink), old, w) /\ Anew(t, token, ink).printed = Append(t.printed, token)
      BY <3>4, <3>5, AnewKeeps
    <3>7. t.printed \in Seq(Tokens)
      BY <3>4 DEF Writes, WriteStates
    <3>8. Len(state[m].printed) = m
      BY <3>1, <3>2, <3>4, <3>6, <3>7, <3>5, AppendProperties
    <3>9. ASSUME NEW j \in 1..m PROVE state[m].printed[j] = printed[j]
      <4> DEFINE out == t.printed
                 more == Append(out, token)
      <4>1. more[i + 1] = token /\ \A k \in 1..i : more[k] = out[k]
        BY <3>4, <3>5, <3>7, AppendProperties
      <4>2. state[m].printed = more
        BY <3>2, <3>6
      <4> HIDE DEF more, out
      <4>3. CASE j = m
        BY <3>1, <4>1, <4>2, <4>3 DEF token
      <4>4. CASE j # m
        <5>1. j \in 1..i
          BY <3>1, <4>4
        <5> QED BY <3>4, <4>1, <4>2, <5>1 DEF out
      <4> QED BY <4>3, <4>4
    <3>10. Fine(m)
      BY <3>2, <3>6, <3>8, <3>9
    <3> QED BY <2>2, <3>10
  <2> QED BY <2>3, <2>4
<1>8. Fine(N)
  BY <1>1, <1>7
<1> DEFINE t == state[N]
<1>9. Writes(t, old, w) /\ Len(t.printed) = N /\ \A j \in 1..N : t.printed[j] = printed[j]
  BY <1>8
<1> HIDE DEF t
<1>10. t.printed \in Seq(Tokens) /\ t.lines \in Seq(LineRecords)
  BY <1>9 DEF Writes, WriteStates
<1>11. t.printed = printed
  BY <1>1, <1>9, <1>10, SeqEqual
<1>12. Reflowed(w) = t.lines
  BY <1>4 DEF t
<1> HIDE DEF N
<1> QED BY <1>9, <1>10, <1>11, <1>12 DEF Writes

LEMMA PrimedLines ==
    /\ LinesAreSpaced(lines, cols)' <=> LinesAreSpaced(lines', cols')
    /\ NumbersFollow(lines, printed)' <=> NumbersFollow(lines', printed')
    /\ LinesAreSpaced(Lines, Width)' <=> LinesAreSpaced(Lines', Width')
    /\ NumbersFollow(Lines, printed)' <=> NumbersFollow(Lines', printed')
<1>1. LinesAreSpaced(lines, cols)' <=> LinesAreSpaced(lines', cols')
  BY DEF LinesAreSpaced
<1>2. NumbersFollow(lines, printed)' <=> NumbersFollow(lines', printed')
  BY DEF NumbersFollow, Places, Filled, NumberAt, CharAt
<1>3. LinesAreSpaced(Lines, Width)' <=> LinesAreSpaced(Lines', Width')
  BY DEF LinesAreSpaced
<1>4. NumbersFollow(Lines, printed)' <=> NumbersFollow(Lines', printed')
  BY DEF NumbersFollow, Places, Filled, NumberAt, CharAt
<1> QED BY <1>1, <1>2, <1>3, <1>4

LEMMA KeptByASync ==
    ASSUME ScreenTypes', ContentIsShown', Lines' = lines', Width' = cols',
           LinesAreSpaced(lines', cols'), NumbersFollow(lines', printed')
    PROVE  ScreenInv'
<1>1. LinesAreSpaced(Lines', Width') /\ NumbersFollow(Lines', printed')
  OBVIOUS
<1>2. /\ LinesAreSpaced(lines, cols)' /\ NumbersFollow(lines, printed)'
      /\ LinesAreSpaced(Lines, Width)' /\ NumbersFollow(Lines, printed)'
  BY <1>1, PrimedLines
<1>3. (~moved => Lines = lines /\ Width = cols)'
  OBVIOUS
<1> QED BY <1>2, <1>3 DEF ScreenInv

LEMMA ScreenInvInit == ScreenInit => ScreenInv
<1> SUFFICES ASSUME ScreenInit PROVE ScreenInv
  OBVIOUS
<1>1. /\ printed = <<>> /\ inks = <<>> /\ lines = <<NewLine>> /\ pen = <<>> /\ pin = 0
      /\ cols \in Widths /\ rows \in Heights /\ moved = TRUE
      /\ content = [rows |-> <<>>, wraps |-> <<>>, links |-> <<>>]
      /\ Lines = lines /\ Width = cols
  BY DEF ScreenInit, Widths, Lines, Width
<1>2. lines \in Seq(LineRecords) /\ Len(lines) = 1 /\ lines[1] = NewLine
  BY <1>1, NewLineIs, OneCell
<1>3. ScreenTypes
  <2>1. printed \in Seq(Tokens) /\ pen \in Seq(Tokens) /\ inks \in Seq(Seq(Tokens)) /\ Len(inks) = Len(printed)
    BY <1>1, EmptySeq
  <2>2. "rows" \in DOMAIN content /\ "wraps" \in DOMAIN content
    BY <1>1
  <2> QED BY <1>1, <1>2, <2>1, <2>2 DEF ScreenTypes
<1>4. LinesAreSpaced(lines, cols) /\ NumbersFollow(lines, printed)
  BY <1>1, NothingIsWritten
<1>5. ContentIsShown
  <2>1. IsShownFrom(1)
    <3>1. content.rows = <<>>
      BY <1>1
    <3>2. Len(content.rows) = 0 /\ DOMAIN content.rows = 1..0
      BY <3>1
    <3> QED BY <3>2 DEF IsShownFrom
  <2>2. 1 \in Nat \ {0}
    OBVIOUS
  <2> QED BY <1>1, <2>1, <2>2 DEF ContentIsShown
<1> QED BY <1>1, <1>3, <1>4, <1>5, Zenon DEF ScreenInv

LEMMA FeedPtyDataKeeps == ASSUME ScreenInv, NEW chunk \in Chunks, FeedPtyData(chunk) PROVE ScreenInv'
<1> DEFINE s == Written(chunk)
           all == Top(s.lines, pin, rows) # Top(lines, pin, rows)
<1>1. ScreenTypes /\ LinesAreSpaced(lines, cols) /\ NumbersFollow(lines, printed)
  BY DEF ScreenInv
<1>2. Writes(s, lines, cols)
  BY <1>1, WrittenKeeps
<1> HIDE DEF s
<1>3. s \in WriteStates /\ LinesAreSpaced(s.lines, cols) /\ NumbersFollow(s.lines, s.printed)
      /\ Len(s.inks) = Len(s.printed)
      /\ \A l \in Nat \ {0} : l \notin s.dirty => SameLine(s.lines, lines, l)
  BY <1>2 DEF Writes
<1>4. /\ s.lines \in Seq(LineRecords) /\ s.printed \in Seq(Tokens) /\ s.pen \in Seq(Tokens)
      /\ s.inks \in Seq(Seq(Tokens))
  BY <1>3 DEF WriteStates
<1>5. /\ printed' = s.printed /\ inks' = s.inks /\ lines' = s.lines /\ pen' = s.pen
      /\ pin' = pin /\ rows' = rows /\ Sync(s.dirty, all)
  BY DEF FeedPtyData, s
<1>6. pin' \in Nat /\ rows' \in Heights
  BY <1>1, <1>5 DEF ScreenTypes
<1>7. ~all => rows' = rows /\ Top(lines', pin', rows') = Top(lines, pin, rows)
  BY <1>5
<1> HIDE DEF all
<1>8. /\ ContentIsShown' /\ moved' = FALSE /\ cols' = cols /\ Lines' = lines' /\ Width' = cols
      /\ "rows" \in DOMAIN content' /\ "wraps" \in DOMAIN content'
  BY <1>3, <1>4, <1>5, <1>6, <1>7, SyncShows
<1>9. ScreenTypes'
  BY <1>1, <1>3, <1>4, <1>5, <1>6, <1>8 DEF ScreenTypes
<1>10. LinesAreSpaced(lines', cols') /\ NumbersFollow(lines', printed')
  BY <1>3, <1>5, <1>8, Zenon
<1> QED BY <1>8, <1>9, <1>10, KeptByASync

(* The user moves the screen, and nothing is written.                         *)
LEMMA ScrollLineKeeps == ASSUME ScreenInv, ScrollLine PROVE ScreenInv'
<1>1. ScreenTypes /\ LinesAreSpaced(lines, cols) /\ NumbersFollow(lines, printed)
  BY DEF ScreenInv
<1>2. /\ UNCHANGED <<printed, inks, lines, pen>> /\ rows' = rows /\ Sync({}, TRUE)
      /\ \E t \in 1..BottomTop(lines, rows) : pin' = (IF t = BottomTop(lines, rows) THEN 0 ELSE t)
  BY DEF ScrollLine, UserMoves
<1>3. pin' \in Nat /\ rows' \in Heights
  BY <1>1, <1>2 DEF ScreenTypes
<1>4. lines' \in Seq(LineRecords) /\ lines' = lines
  BY <1>1, <1>2 DEF ScreenTypes
<1>5. \A l \in Nat \ {0} : l \notin {} => SameLine(lines', lines, l)
  BY <1>4 DEF SameLine
<1>6. /\ ContentIsShown' /\ moved' = FALSE /\ cols' = cols /\ Lines' = lines' /\ Width' = cols
      /\ "rows" \in DOMAIN content' /\ "wraps" \in DOMAIN content'
  BY <1>2, <1>3, <1>4, <1>5, SyncShows
<1>7. ScreenTypes'
  BY <1>1, <1>2, <1>3, <1>6 DEF ScreenTypes
<1>8. LinesAreSpaced(lines', cols') /\ NumbersFollow(lines', printed')
  BY <1>1, <1>2, <1>6
<1> QED BY <1>6, <1>7, <1>8, KeptByASync

(* The screen moves, or is resized, and the content stays as it is.           *)
LEMMA MovedKeeps ==
    ASSUME ScreenInv, UNCHANGED <<printed, inks, pen, content, synced>>, moved' = TRUE,
           lines' \in Seq(LineRecords), pin' \in Nat, cols' \in Widths, rows' \in Heights,
           LinesAreSpaced(lines', cols'), NumbersFollow(lines', printed')
    PROVE  ScreenInv'
<1>1. Lines' = Lines /\ Width' = Width
  BY DEF Lines, Width
<1>2. ScreenTypes'
  BY <1>1 DEF ScreenInv, ScreenTypes
<1>3. LinesAreSpaced(Lines', Width') /\ NumbersFollow(Lines', printed')
  BY <1>1 DEF ScreenInv
<1>4. /\ LinesAreSpaced(lines, cols)' /\ NumbersFollow(lines, printed)'
      /\ LinesAreSpaced(Lines, Width)' /\ NumbersFollow(Lines, printed)'
  BY <1>3, PrimedLines
<1>5. ContentIsShown'
  <2>1. PICK top \in Nat \ {0} : IsShownFrom(top)
    BY DEF ScreenInv, ContentIsShown
  <2>2. IsShownFrom(top)'
    BY <1>1, <2>1 DEF IsShownFrom
  <2> QED BY <2>2 DEF ContentIsShown
<1> QED BY <1>2, <1>4, <1>5 DEF ScreenInv

LEMMA ScreenNextKeeps == ScreenInv /\ [ScreenNext]_screenVars => ScreenInv'
<1> SUFFICES ASSUME ScreenInv, [ScreenNext]_screenVars PROVE ScreenInv'
  OBVIOUS
<1>1. /\ ScreenTypes /\ LinesAreSpaced(lines, cols) /\ NumbersFollow(lines, printed)
      /\ lines \in Seq(LineRecords) /\ pin \in Nat /\ cols \in Widths /\ rows \in Heights /\ rows \in Nat \ {0}
  BY ScreenAssumption DEF ScreenInv, ScreenTypes
<1>2. ASSUME NEW chunk \in Chunks, FeedPtyData(chunk) PROVE ScreenInv'
  BY <1>2, FeedPtyDataKeeps
<1>3. CASE ScrollLine
  BY <1>3, ScrollLineKeeps
<1>4. ASSUME NEW width \in 2..MaxCols, NEW height \in Heights, ResizeScreen(width, height) PROVE ScreenInv'
  <2>1. /\ UNCHANGED <<printed, inks, pen, content, synced>> /\ moved' = TRUE
        /\ cols' = width /\ rows' = height /\ lines' = Reflowed(width)
        /\ pin' \in {0} \cup IF pin = 0 THEN {} ELSE 1..(BottomTop(lines', height) - 1)
    BY <1>4 DEF ResizeScreen, UserMoves, contentVars
  <2>2. pin' \in Nat
    <3>1. \A k : k \in 1..(BottomTop(lines', height) - 1) => k \in Nat
      OBVIOUS
    <3> QED BY <2>1, <3>1
  <2>3. cols' \in Widths /\ width \in Widths
    BY <2>1 DEF Widths
  <2>4. lines' \in Seq(LineRecords) /\ LinesAreSpaced(lines', cols') /\ NumbersFollow(lines', printed')
    <3>1. Reflowed(width) \in Seq(LineRecords) /\ LinesAreSpaced(Reflowed(width), width)
          /\ NumbersFollow(Reflowed(width), printed)
      BY <1>1, <2>3, ReflowedKeeps
    <3> QED BY <2>1, <3>1, Zenon
  <2> QED BY <2>1, <2>2, <2>3, <2>4, MovedKeeps
<1>5. CASE ScrollDown
  <2>1. UNCHANGED <<printed, inks, lines, pen, cols, rows, content, synced>> /\ pin' = 0 /\ moved' = TRUE
    BY <1>5 DEF ScrollDown, UserMoves, contentVars
  <2> QED BY <1>1, <2>1, MovedKeeps
<1>6. CASE Paint \/ UNCHANGED screenVars
  <2>1. UNCHANGED <<printed, inks, lines, pen, pin, cols, rows, moved, content, synced>>
    BY <1>6 DEF Paint, emulatorVars, contentVars, screenVars
  <2>2. Lines' = Lines /\ Width' = Width
    BY <2>1 DEF Lines, Width
  <2>3. ScreenTypes'
    BY <1>1, <2>1, <2>2 DEF ScreenTypes
  <2>4. /\ LinesAreSpaced(lines', cols') /\ NumbersFollow(lines', printed')
        /\ LinesAreSpaced(Lines', Width') /\ NumbersFollow(Lines', printed')
    BY <2>1, <2>2 DEF ScreenInv
  <2>5. /\ LinesAreSpaced(lines, cols)' /\ NumbersFollow(lines, printed)'
        /\ LinesAreSpaced(Lines, Width)' /\ NumbersFollow(Lines, printed)'
    BY <2>4, PrimedLines
  <2>6. (~moved => Lines = lines /\ Width = cols)'
    BY <2>1, <2>2 DEF ScreenInv
  <2>7. ContentIsShown'
    <3>1. PICK top \in Nat \ {0} :
              IsShownFrom(top) /\ (~moved /\ Len(content.rows) = rows => top = Top(lines, pin, rows))
      BY DEF ScreenInv, ContentIsShown
    <3>2. IsShownFrom(top)'
      BY <2>1, <2>2, <3>1 DEF IsShownFrom
    <3> QED BY <2>1, <3>1, <3>2 DEF ContentIsShown
  <2> QED BY <2>3, <2>5, <2>6, <2>7 DEF ScreenInv
<1> QED BY <1>2, <1>3, <1>4, <1>5, <1>6 DEF ScreenNext

------------------------------------------------------------------------------
(* The cells of the content and the places of the screen.                     *)
Shown(top) == ScreenInv /\ top \in Nat \ {0} /\ IsShownFrom(top)
Height == Len(content.rows)
PlaceOf(top, x) == <<top + x[1] - 1, x[2] + 1>>

LEMMA SomeTop == ASSUME ScreenInv PROVE \E top \in Nat \ {0} : Shown(top)
BY DEF ScreenInv, ContentIsShown, Shown

LEMMA LineIs ==
    ASSUME ScreenInv, NEW l \in Nat \ {0}
    PROVE  /\ LineAt(Lines, l).cells \in Seq(CellRecords) /\ LineAt(Lines, l).wraps \in BOOLEAN
           /\ Spaced(LineAt(Lines, l).cells, LineAt(Lines, l).wraps, Width)
           /\ Len(LineAt(Lines, l).cells) \in Nat /\ Len(LineAt(Lines, l).cells) <= Width
           /\ Width \in Nat /\ Width <= MaxCols /\ Width > 1 /\ Width \in Widths
           /\ l <= Len(Lines) => LineAt(Lines, l) = Lines[l] /\ l \in 1..Len(Lines)
           /\ ~(l <= Len(Lines)) => Len(LineAt(Lines, l).cells) = 0
           /\ Len(Lines) \in Nat /\ Lines \in Seq(LineRecords) /\ LinesAreSpaced(Lines, Width)
<1>0. Width \in Nat /\ Width <= MaxCols /\ Width > 1 /\ Width \in Widths
  BY WidthsAre DEF ScreenInv, ScreenTypes
<1>1. Lines \in Seq(LineRecords) /\ LinesAreSpaced(Lines, Width) /\ Len(Lines) \in Nat
  BY DEF ScreenInv, ScreenTypes
<1>2. LineAt(Lines, l) \in LineRecords /\ Spaced(LineAt(Lines, l).cells, LineAt(Lines, l).wraps, Width)
  <2>1. CASE l <= Len(Lines)
    <3>1. LineAt(Lines, l) = Lines[l] /\ l \in 1..Len(Lines)
      BY <1>1, <2>1 DEF LineAt
    <3>2. Lines[l] \in LineRecords
      BY <1>1, <3>1
    <3>3. Spaced(Lines[l].cells, Lines[l].wraps, Width)
      BY <1>1, <3>1 DEF LinesAreSpaced
    <3> QED BY <3>1, <3>2, <3>3
  <2>2. CASE ~(l <= Len(Lines))
    <3>1. LineAt(Lines, l) = NewLine
      BY <2>2 DEF LineAt
    <3>2. Spaced(NewLine.cells, NewLine.wraps, Width)
      BY <1>0, NewLineIs, Zenon
    <3> QED BY <3>1, <3>2, NewLineIs
  <2> QED BY <2>1, <2>2
<1>3. LineAt(Lines, l).cells \in Seq(CellRecords) /\ LineAt(Lines, l).wraps \in BOOLEAN
      /\ Len(LineAt(Lines, l).cells) \in Nat
  BY <1>2 DEF LineRecords
<1>4. Len(LineAt(Lines, l).cells) <= Width
  BY <1>2 DEF Spaced
<1>5. l <= Len(Lines) => LineAt(Lines, l) = Lines[l] /\ l \in 1..Len(Lines)
  BY <1>1 DEF LineAt
<1>6. ~(l <= Len(Lines)) => Len(LineAt(Lines, l).cells) = 0
  BY NewLineIs DEF LineAt
<1> QED BY <1>0, <1>1, <1>2, <1>3, <1>4, <1>5, <1>6

LEMMA CellIs ==
    ASSUME NEW top, Shown(top), NEW p, p[1] \in 1..Height, p[2] \in 0..(Width - 1),
           NEW cells, cells = LineAt(Lines, top + p[1] - 1).cells
    PROVE  /\ Height \in Nat /\ DOMAIN content.rows = 1..Height
           /\ top + p[1] - 1 \in Nat \ {0}
           /\ content.wraps[p[1]] = LineAt(Lines, top + p[1] - 1).wraps
           /\ p[2] + 1 \in 1..Len(cells) => CellAt(content, p) = cells[p[2] + 1]
           /\ p[2] + 1 \notin 1..Len(cells) => CellAt(content, p) = Blank
<1>1. /\ Height \in Nat /\ DOMAIN content.rows = 1..Height /\ top \in Nat \ {0} /\ ScreenInv
      /\ content.rows[p[1]] = Viewport(Lines, top + p[1] - 1, Width)
      /\ content.wraps[p[1]] = LineAt(Lines, top + p[1] - 1).wraps
  BY DEF Shown, IsShownFrom, Height
<1> DEFINE l == top + p[1] - 1
<1>2. l \in Nat \ {0}
  BY <1>1
<1> DEFINE k == p[2] + 1
<1>3. k \in 1..Width /\ Width \in Nat
  <2>1. Width \in Nat
    BY <1>1, WidthsAre DEF ScreenInv, ScreenTypes
  <2> QED BY <2>1
<1> HIDE DEF l
<1>4. cells = LineAt(Lines, l).cells /\ Len(cells) \in Nat /\ Len(cells) <= Width
  BY <1>1, <1>2, LineIs DEF l
<1> HIDE DEF k
<1>5. Viewport(Lines, l, Width)[k] = IF k <= Len(cells) THEN cells[k] ELSE Blank
  BY <1>3, <1>4 DEF Viewport
<1>6. CellAt(content, p) = Viewport(Lines, l, Width)[k]
  BY <1>1 DEF CellAt, l, k
<1>7. k \in 1..Len(cells) <=> k <= Len(cells)
  BY <1>3, <1>4
<1> QED BY <1>1, <1>2, <1>5, <1>6, <1>7 DEF k, l

(* The rows are as wide as the screen was at the last sync.                   *)
LEMMA RowsAreWide ==
    ASSUME NEW top, Shown(top), NEW r \in 1..Height
    PROVE  LineEndCol(content, r) = Width
<1>1. content.rows[r] = Viewport(Lines, top + r - 1, Width) /\ Width \in Nat
  BY WidthsAre DEF Shown, IsShownFrom, Height, ScreenInv, ScreenTypes
<1> DEFINE row == Viewport(Lines, top + r - 1, Width)
           cells == LineAt(Lines, top + r - 1).cells
<1>2. row = [i \in 1..Width |-> IF i <= Len(cells) THEN cells[i] ELSE Blank]
  BY DEF Viewport
<1>3. row = [i \in 1..Width |-> row[i]]
  BY <1>2
<1> HIDE DEF row
<1>4. Len(row) = Width
  BY <1>1, <1>3, RowsOf
<1> QED BY <1>1, <1>4 DEF LineEndCol, row

(* What a cell of the content is.                                             *)
LEMMA CellsAre ==
    ASSUME NEW top, Shown(top), NEW p \in Cells(content)
    PROVE  /\ p = <<p[1], p[2]>> /\ p[1] \in 1..Height /\ p[2] \in 0..(MaxCols - 1)
           /\ CellAt(content, p).ch \notin {"tail", "head", "nl"}
           /\ CellWidth(CellAt(content, p)) \in 1..2
           /\ p[2] \in 0..(Width - 1) /\ Width \in Nat /\ Width <= MaxCols
           /\ p[2] + CellWidth(CellAt(content, p)) <= Width
           /\ CellWidth(CellAt(content, p)) = 2 =>
                  \A q \in Cells(content) : ~(q[1] = p[1] /\ q[2] = p[2] + 1)
           /\ CellAt(content, p).nr # 0 =>
                  /\ PlaceOf(top, p) \in Places(Lines)
                  /\ NumberAt(Lines, PlaceOf(top, p)) = CellAt(content, p).nr
                  /\ CharAt(Lines, PlaceOf(top, p)) = CellAt(content, p).ch
                  /\ top + p[1] - 1 \in 1..Len(Lines)
                  /\ p[2] + 1 \in 1..Len(Lines[top + p[1] - 1].cells)
           /\ CellAt(content, p).nr = 0 =>
                  /\ CellAt(content, p).ch = " "
                  /\ p[2] + 1 \notin 1..Len(LineAt(Lines, top + p[1] - 1).cells)
                  /\ ~content.wraps[p[1]]
<1> DEFINE c == CellAt(content, p)
           l == top + p[1] - 1
           k == p[2] + 1
           cells == LineAt(Lines, l).cells
           wraps == LineAt(Lines, l).wraps
<1>1. DOMAIN content.rows = 1..Height /\ Height \in Nat /\ top \in Nat \ {0} /\ ScreenInv
  BY DEF Shown, IsShownFrom, Height
<1>2. p = <<p[1], p[2]>> /\ p[1] \in 1..Height /\ p[2] \in 0..(MaxCols - 1) /\ c.ch \notin {"tail", "head"}
      /\ p[2] \in 0..(Width - 1)
  <2>1. p = <<p[1], p[2]>> /\ p[1] \in 1..Height /\ p[2] \in 0..(MaxCols - 1) /\ c.ch \notin {"tail", "head"}
        /\ p[2] < LineEndCol(content, p[1])
    BY <1>1 DEF Cells
  <2>2. LineEndCol(content, p[1]) = Width
    BY <2>1, RowsAreWide
  <2> QED BY <1>1, <2>1, <2>2, WidthsAre DEF ScreenInv, ScreenTypes
<1>3. MaxCols \in Nat /\ MaxCols > 1 /\ Width \in Nat /\ Width <= MaxCols
  BY <1>1, ScreenAssumption, WidthsAre DEF ScreenInv, ScreenTypes
<1>4. k \in 1..Width /\ l \in Nat \ {0}
  BY <1>1, <1>2, <1>3
<1>5. /\ content.wraps[p[1]] = wraps
      /\ k \in 1..Len(cells) => c = cells[k]
      /\ k \notin 1..Len(cells) => c = Blank
  BY <1>2, CellIs
<1>6. /\ Spaced(cells, wraps, Width) /\ Len(cells) \in Nat /\ Len(cells) <= Width /\ wraps \in BOOLEAN
      /\ (l <= Len(Lines) => LineAt(Lines, l) = Lines[l] /\ l \in 1..Len(Lines))
      /\ (~(l <= Len(Lines)) => Len(cells) = 0) /\ Len(Lines) \in Nat
  <2> HIDE DEF l
  <2> QED BY <1>1, <1>4, LineIs
<1>7. CellWidth(c) \in 1..2 /\ (CellWidth(c) = 2 <=> c.ch = "w")
  BY DEF CellWidth
<1> DEFINE width == CellWidth(c)
<1> HIDE DEF c, l, k, cells, wraps, width
<1>8. Blank.ch = " " /\ Blank.nr = 0
  BY Spacers
<1>9. c.ch # "nl" /\ (c.nr = 0 => c.ch = " " /\ k \notin 1..Len(cells) /\ ~wraps)
  <2>1. CASE k \in 1..Len(cells)
    BY <1>2, <1>5, <1>6, <2>1 DEF Spaced
  <2>2. CASE k \notin 1..Len(cells)
    <3>1. ~wraps
      BY <1>4, <1>6, <2>2 DEF Spaced
    <3> QED BY <1>5, <1>8, <2>2, <3>1
  <2> QED BY <2>1, <2>2
<1>10. c.ch = "w" => k + 1 \in 1..Len(cells) /\ cells[k + 1].ch = "tail"
  <2>1. CASE k \in 1..Len(cells)
    BY <1>5, <1>6, <2>1 DEF Spaced
  <2>2. CASE k \notin 1..Len(cells)
    BY <1>5, <1>8, <2>2
  <2> QED BY <2>1, <2>2
<1>11. p[2] + width <= Width
  <2>1. p[2] + 1 <= Width /\ (c.ch = "w" => p[2] + 2 <= Width)
    BY <1>2, <1>3, <1>6, <1>10 DEF k
  <2>2. width = 1 \/ (width = 2 /\ c.ch = "w")
    BY <1>7 DEF width
  <2> QED BY <2>1, <2>2
<1>12. ASSUME CellWidth(c) = 2, NEW q \in Cells(content), q[1] = p[1], q[2] = p[2] + 1
       PROVE  FALSE
  <2>1. k + 1 \in 1..Len(cells) /\ cells[k + 1].ch = "tail"
    BY <1>7, <1>10, <1>12
  <2>2. q[1] \in 1..Height /\ q[2] \in 0..(Width - 1) /\ CellAt(content, q).ch # "tail"
    <3>1. q[1] \in 1..Height /\ q[2] \in 0..(MaxCols - 1) /\ CellAt(content, q).ch # "tail"
          /\ q[2] < LineEndCol(content, q[1])
      BY <1>1 DEF Cells
    <3>2. LineEndCol(content, q[1]) = Width
      BY <3>1, RowsAreWide
    <3> QED BY <1>3, <3>1, <3>2
  <2>3. q[2] + 1 = k + 1
    BY <1>12 DEF k
  <2>4. cells = LineAt(Lines, top + q[1] - 1).cells
    BY <1>12 DEF cells, l
  <2>5. q[2] + 1 \in 1..Len(cells) => CellAt(content, q) = cells[q[2] + 1]
    BY <2>2, <2>4, CellIs
  <2> QED BY <2>1, <2>2, <2>3, <2>5
<1>13. c.nr # 0 => /\ PlaceOf(top, p) \in Places(Lines) /\ NumberAt(Lines, PlaceOf(top, p)) = c.nr
                   /\ CharAt(Lines, PlaceOf(top, p)) = c.ch
                   /\ l \in 1..Len(Lines) /\ k \in 1..Len(Lines[l].cells)
  <2> SUFFICES ASSUME c.nr # 0
               PROVE  /\ <<l, k>> \in Places(Lines) /\ NumberAt(Lines, <<l, k>>) = c.nr
                      /\ CharAt(Lines, <<l, k>>) = c.ch
                      /\ l \in 1..Len(Lines) /\ k \in 1..Len(Lines[l].cells)
    BY DEF PlaceOf, l, k
  <2>1. k \in 1..Len(cells) /\ c = cells[k]
    BY <1>5, <1>8
  <2>2. l \in 1..Len(Lines) /\ Lines[l].cells = cells
    BY <1>4, <1>6, <2>1 DEF cells
  <2>3. k # MaxCols + 1
    BY <1>3, <1>4
  <2>4. NumberAt(Lines, <<l, k>>) = c.nr /\ CharAt(Lines, <<l, k>>) = c.ch
    BY <2>1, <2>2, <2>3 DEF NumberAt, CharAt
  <2>5. <<l, k>> \in Nat \X Nat
    BY <1>4
  <2>6. Filled(Lines, <<l, k>>)
    BY <2>1, <2>2, <2>4 DEF Filled
  <2> QED BY <2>1, <2>2, <2>4, <2>5, <2>6 DEF Places
<1>14. c.nr = 0 => ~content.wraps[p[1]]
  BY <1>5, <1>9
<1> QED BY <1>2, <1>3, <1>7, <1>9, <1>11, <1>12, <1>13, <1>14 DEF c, l, k, cells, width

(* What the content shows of a place: a cell, or the end of a row.            *)
LEMMA PlacesAreShown ==
    ASSUME NEW top, Shown(top), NEW z \in Places(Lines), NEW r \in 1..Height, z[1] = top + r - 1
    PROVE  /\ PlaceOf(top, <<r, z[2] - 1>>) = z /\ z[2] - 1 \in Nat
           /\ z[2] = MaxCols + 1 => ~content.wraps[r]
           /\ z[2] # MaxCols + 1 =>
                  /\ z[2] \in 1..Len(Lines[z[1]].cells) /\ z[2] - 1 \in 0..(MaxCols - 1)
                  /\ <<r, z[2] - 1>> \in Cells(content)
                  /\ CellAt(content, <<r, z[2] - 1>>) = Lines[z[1]].cells[z[2]]
                  /\ CellAt(content, <<r, z[2] - 1>>).nr = NumberAt(Lines, z)
<1> DEFINE p == <<r, z[2] - 1>>
           cells == Lines[z[1]].cells
<1>1. DOMAIN content.rows = 1..Height /\ Height \in Nat /\ top \in Nat \ {0} /\ ScreenInv
      /\ content.wraps[r] = LineAt(Lines, top + r - 1).wraps
  BY DEF Shown, IsShownFrom, Height
<1>2. MaxCols \in Nat /\ MaxCols > 1 /\ Width \in Nat /\ Width <= MaxCols /\ Width \in Widths
  BY <1>1, ScreenAssumption, WidthsAre DEF ScreenInv, ScreenTypes
<1>3. Lines \in Seq(LineRecords) /\ LinesAreSpaced(Lines, Width) /\ Len(Lines) \in Nat
  BY <1>1 DEF ScreenInv, ScreenTypes
<1>4. z = <<z[1], z[2]>> /\ z[1] \in 1..Len(Lines) /\ z[2] \in 1..(MaxCols + 1) /\ Filled(Lines, z)
  BY <1>2, <1>3, PlacesAre
<1>5. LineAt(Lines, z[1]) = Lines[z[1]] /\ Spaced(cells, Lines[z[1]].wraps, Width) /\ Len(cells) \in Nat /\ Len(cells) <= Width
  <2>1. z[1] \in Nat \ {0} /\ z[1] <= Len(Lines)
    BY <1>3, <1>4
  <2>2. LineAt(Lines, z[1]) = Lines[z[1]]
    BY <1>1, <2>1, LineIs
  <2> QED BY <1>1, <2>1, <2>2, LineIs
<1>6. PlaceOf(top, p) = z /\ z[2] - 1 \in Nat
  BY <1>1, <1>4 DEF PlaceOf
<1>7. ASSUME z[2] = MaxCols + 1 PROVE ~content.wraps[r]
  <2>1. Lines[z[1]].ended # 0
    BY <1>4, <1>7 DEF Filled, NumberAt
  <2>2. ~Lines[z[1]].wraps
    BY <1>3, <1>4, <2>1 DEF LinesAreSpaced
  <2> QED BY <1>1, <1>5, <2>2
<1>8. ASSUME z[2] # MaxCols + 1
      PROVE  /\ z[2] \in 1..Len(cells) /\ z[2] - 1 \in 0..(MaxCols - 1) /\ p \in Cells(content)
             /\ CellAt(content, p) = cells[z[2]] /\ CellAt(content, p).nr = NumberAt(Lines, z)
  <2>1. z[2] \in 1..Len(cells) /\ NumberAt(Lines, z) = cells[z[2]].nr /\ cells[z[2]].nr # 0
    BY <1>4, <1>8 DEF Filled, NumberAt
  <2>2. z[2] - 1 \in 0..(Width - 1) /\ z[2] - 1 \in 0..(MaxCols - 1) /\ (z[2] - 1) + 1 = z[2]
    BY <1>2, <1>5, <2>1
  <2>3. p[1] = r /\ p[2] = z[2] - 1
    OBVIOUS
  <2> HIDE DEF p
  <2>4. cells = LineAt(Lines, top + p[1] - 1).cells
    BY <1>5, <2>3
  <2> HIDE DEF cells
  <2>5. p[1] \in 1..Height /\ p[2] \in 0..(Width - 1) /\ p[2] + 1 \in 1..Len(cells) /\ p[2] + 1 = z[2]
    BY <2>1, <2>2, <2>3
  <2>6. CellAt(content, p) = cells[z[2]]
    BY <2>4, <2>5, CellIs
  <2>7. cells[z[2]].ch \notin {"tail", "head"}
    BY <1>5, <2>1 DEF Spaced, cells
  <2>8. p \in (DOMAIN content.rows) \X (0..(MaxCols - 1))
    BY <1>1, <2>2 DEF p
  <2>9. p \in Cells(content)
    <3>1. p[2] < LineEndCol(content, p[1])
      BY <1>2, <2>5, RowsAreWide
    <3> QED BY <2>6, <2>7, <2>8, <3>1 DEF Cells
  <2> QED BY <2>1, <2>2, <2>6, <2>9
<1> QED BY <1>6, <1>7, <1>8

(* The numbers tell the places apart, and their order.                        *)
LEMMA NumbersOrder ==
    ASSUME ScreenInv, NEW y \in Places(Lines), NEW z \in Places(Lines)
    PROVE  /\ NumberAt(Lines, y) \in 1..Len(printed) /\ NumberAt(Lines, y) \in Nat \ {0}
           /\ NumberAt(Lines, y) < NumberAt(Lines, z) <=> Before(y, z)
           /\ NumberAt(Lines, y) = NumberAt(Lines, z) <=> y = z
           /\ NumberAt(Lines, y) <= NumberAt(Lines, z) <=> NoLater(y, z)
<1>1. NumbersFollow(Lines, printed) /\ IsGrid(Places(Lines)) /\ Len(printed) \in Nat
  BY PlacesAreAGrid DEF ScreenInv, ScreenTypes
<1>2. NumberAt(Lines, y) \in 1..Len(printed) /\ NumberAt(Lines, z) \in 1..Len(printed)
      /\ (Before(y, z) => NumberAt(Lines, y) < NumberAt(Lines, z))
      /\ (Before(z, y) => NumberAt(Lines, z) < NumberAt(Lines, y))
  BY <1>1 DEF NumbersFollow
<1>3. Before(y, z) \/ Before(z, y) \/ y = z
  BY <1>1, PointsAreOrdered
<1>4. ~Before(y, y) /\ ~Before(z, z) /\ ~(Before(y, z) /\ Before(z, y))
  BY <1>1, PointsAreOrdered
<1> DEFINE a == NumberAt(Lines, y)
           b == NumberAt(Lines, z)
<1>5. y = z => a = b
  OBVIOUS
<1>6. a \in Int /\ b \in Int /\ a > 0
  BY <1>1, <1>2
<1> HIDE DEF a, b
<1>7. /\ a < b <=> Before(y, z)
      /\ a = b <=> y = z
      /\ a <= b <=> y = z \/ Before(y, z)
  <2>1. Before(y, z) => a < b
    BY <1>2 DEF a, b
  <2>2. Before(z, y) => b < a
    BY <1>2 DEF a, b
  <2> QED BY <1>3, <1>4, <1>5, <1>6, <2>1, <2>2
<1> QED BY <1>1, <1>2, <1>7 DEF a, b, NoLater

(* A selection between two characters is of the cells between them.           *)
RangeOf(p, q) == [start |-> p, end |-> EndOf(content, q)]

LEMMA SelectedAre ==
    ASSUME NEW top, Shown(top), NEW p \in Cells(content), NEW q \in Cells(content), NEW x \in Cells(content),
           p[1] = q[1] \/ Width <= cols
    PROVE  x \in SelectedCells(content, RangeOf(p, q)) <=> NoLater(p, x) /\ NoLater(x, q)
<1> DEFINE range == RangeOf(p, q)
           w == CellWidth(CellAt(content, q))
           v == CellWidth(CellAt(content, x))
<1>1. /\ p = <<p[1], p[2]>> /\ p[1] \in 1..Height /\ p[2] \in 0..(Width - 1)
      /\ q = <<q[1], q[2]>> /\ q[1] \in 1..Height /\ q[2] \in 0..(Width - 1)
      /\ x = <<x[1], x[2]>> /\ x[1] \in 1..Height /\ x[2] \in 0..(Width - 1)
  BY CellsAre
<1>2. w \in 1..2 /\ q[2] + w <= Width /\ (w = 2 => ~(x[1] = q[1] /\ x[2] = q[2] + 1))
  BY CellsAre
<1>3. v \in 1..2 /\ x[2] + v <= Width /\ (v = 2 => ~(p[1] = x[1] /\ p[2] = x[2] + 1))
  BY CellsAre
<1>4. range.start = p /\ range.end = <<q[1], q[2] + w>> /\ EndOf(content, x)[2] = x[2] + v
      /\ range.end[1] = q[1] /\ range.end[2] = q[2] + w
  BY DEF RangeOf, EndOf
<1>5. Width \in Nat /\ cols \in Nat /\ Height \in Nat
  BY WidthsAre DEF Shown, ScreenInv, ScreenTypes, IsShownFrom, Height
<1>6. x \in SelectedCells(content, range) <=>
          /\ x[1] \in p[1]..q[1]
          /\ x[2] < IF x[1] = q[1] THEN q[2] + w ELSE cols
          /\ (IF x[1] = p[1] THEN p[2] ELSE 0) < x[2] + v
  BY <1>4 DEF SelectedCells, RowEnd, RowStart
<1> HIDE DEF w, v, range
<1>7. x[1] \in p[1]..q[1] =>
          (x[2] < (IF x[1] = q[1] THEN q[2] + w ELSE cols) <=> x[1] # q[1] \/ x[2] <= q[2])
  <2>1. w = 1 \/ w = 2
    BY <1>2
  <2>2. x[1] \in p[1]..q[1] /\ x[1] # q[1] => Width <= cols
    BY <1>1, <1>5
  <2> QED BY <1>1, <1>2, <1>5, <2>1, <2>2
<1>8. (IF x[1] = p[1] THEN p[2] ELSE 0) < x[2] + v <=> x[1] # p[1] \/ p[2] <= x[2]
  <2>1. v = 1 \/ v = 2
    BY <1>3
  <2> QED BY <1>1, <1>3, <1>5, <2>1
<1>9. NoLater(p, x) <=> p[1] < x[1] \/ (p[1] = x[1] /\ p[2] <= x[2])
  <2>1. p = x <=> p[1] = x[1] /\ p[2] = x[2]
    BY <1>1, Zenon
  <2> QED BY <1>1, <2>1 DEF NoLater, Before
<1>10. NoLater(x, q) <=> x[1] < q[1] \/ (x[1] = q[1] /\ x[2] <= q[2])
  <2>1. x = q <=> x[1] = q[1] /\ x[2] = q[2]
    BY <1>1, Zenon
  <2> QED BY <1>1, <2>1 DEF NoLater, Before
<1>11. x[1] \in p[1]..q[1] <=> p[1] <= x[1] /\ x[1] <= q[1]
  BY <1>1, <1>5
<1>12. x \in SelectedCells(content, range) <=> NoLater(p, x) /\ NoLater(x, q)
  BY <1>1, <1>6, <1>7, <1>8, <1>9, <1>10, <1>11
<1> QED BY <1>12 DEF range

(* Two characters of the content, and what is printed from one to the other.  *)
Selected(top, p, q) ==
    /\ Shown(top) /\ p \in Characters(content) /\ q \in Characters(content) /\ NoLater(p, q)
    /\ p[1] = q[1] \/ Width <= cols

LEMMA SelectedIs ==
    ASSUME NEW top, NEW p, NEW q, Selected(top, p, q)
    PROVE  /\ Shown(top) /\ ScreenInv /\ top \in Nat \ {0} /\ Height \in Nat /\ MaxCols \in Nat \ {0}
           /\ Lines \in Seq(LineRecords) /\ LinesAreSpaced(Lines, Width) /\ Len(Lines) \in Nat
           /\ Width \in Widths /\ Width \in Nat /\ Width <= MaxCols
           /\ p[2] \in 0..(Width - 1) /\ q[2] \in 0..(Width - 1) /\ (p[1] = q[1] \/ Width <= cols)
           /\ p \in Cells(content) /\ q \in Cells(content)
           /\ p = <<p[1], p[2]>> /\ p[1] \in 1..Height /\ p[2] \in 0..(MaxCols - 1)
           /\ q = <<q[1], q[2]>> /\ q[1] \in 1..Height /\ q[2] \in 0..(MaxCols - 1)
           /\ p[1] <= q[1]
           /\ PlaceOf(top, p) \in Places(Lines) /\ NumberAt(Lines, PlaceOf(top, p)) = CellAt(content, p).nr
           /\ PlaceOf(top, q) \in Places(Lines) /\ NumberAt(Lines, PlaceOf(top, q)) = CellAt(content, q).nr
           /\ top + q[1] - 1 \in 1..Len(Lines)
<1>1. /\ Shown(top) /\ p \in Cells(content) /\ q \in Cells(content) /\ CellAt(content, p).nr # 0
      /\ CellAt(content, q).nr # 0 /\ NoLater(p, q)
      /\ (p[1] = q[1] \/ Width <= cols)
  BY DEF Selected, Characters
<1>2. ScreenInv /\ top \in Nat \ {0} /\ Height \in Nat /\ MaxCols \in Nat \ {0}
  BY <1>1, ScreenAssumption DEF Shown, IsShownFrom, Height
<1>3. Lines \in Seq(LineRecords) /\ LinesAreSpaced(Lines, Width) /\ Len(Lines) \in Nat
      /\ Width \in Widths /\ Width \in Nat /\ Width <= MaxCols
  BY <1>2, WidthsAre DEF ScreenInv, ScreenTypes
<1>4. /\ p = <<p[1], p[2]>> /\ p[1] \in 1..Height /\ p[2] \in 0..(MaxCols - 1) /\ p[2] \in 0..(Width - 1)
      /\ PlaceOf(top, p) \in Places(Lines) /\ NumberAt(Lines, PlaceOf(top, p)) = CellAt(content, p).nr
  BY <1>1, CellsAre
<1>5. /\ q = <<q[1], q[2]>> /\ q[1] \in 1..Height /\ q[2] \in 0..(MaxCols - 1) /\ q[2] \in 0..(Width - 1)
      /\ PlaceOf(top, q) \in Places(Lines) /\ NumberAt(Lines, PlaceOf(top, q)) = CellAt(content, q).nr
      /\ top + q[1] - 1 \in 1..Len(Lines)
  BY <1>1, CellsAre
<1>6. p[1] <= q[1]
  BY <1>1, <1>4, <1>5 DEF NoLater, Before
<1> QED BY <1>1, <1>2, <1>3, <1>4, <1>5, <1>6

(* A point of the content is before another if its place is.                  *)
LEMMA PlacesInOrder ==
    ASSUME NEW top \in Nat, NEW x \in Int \X Int, NEW y \in Int \X Int
    PROVE  /\ Before(PlaceOf(top, x), PlaceOf(top, y)) <=> Before(x, y)
           /\ NoLater(PlaceOf(top, x), PlaceOf(top, y)) <=> NoLater(x, y)
<1>1. x = <<x[1], x[2]>> /\ y = <<y[1], y[2]>> /\ x[1] \in Int /\ x[2] \in Int /\ y[1] \in Int /\ y[2] \in Int
  OBVIOUS
<1> DEFINE a == PlaceOf(top, x)
           b == PlaceOf(top, y)
<1>2. a[1] = top + x[1] - 1 /\ a[2] = x[2] + 1 /\ b[1] = top + y[1] - 1 /\ b[2] = y[2] + 1
      /\ a = <<a[1], a[2]>> /\ b = <<b[1], b[2]>>
  BY DEF PlaceOf
<1> HIDE DEF a, b
<1>3. Before(a, b) <=> Before(x, y)
  BY <1>1, <1>2 DEF Before
<1>4. a = b <=> x = y
  <2>1. a[1] = b[1] /\ a[2] = b[2] <=> x[1] = y[1] /\ x[2] = y[2]
    BY <1>1, <1>2
  <2>2. a = b <=> a[1] = b[1] /\ a[2] = b[2]
    BY <1>2, Zenon
  <2>3. x = y <=> x[1] = y[1] /\ x[2] = y[2]
    BY <1>1, Zenon
  <2> QED BY <2>1, <2>2, <2>3
<1> QED BY <1>3, <1>4 DEF NoLater, a, b

(* The end of a row that is selected is a line feed, between the two.         *)
LEMMA EndedRowsAre ==
    ASSUME NEW top, NEW p, NEW q, Selected(top, p, q), NEW r \in EndedRows(content, RangeOf(p, q))
    PROVE  /\ r \in p[1]..(q[1] - 1) /\ r \in 1..Height /\ ~content.wraps[r]
           /\ top + r - 1 \in 1..Len(Lines) /\ ~Lines[top + r - 1].wraps
           /\ PlaceOf(top, <<r, MaxCols>>) \in Places(Lines)
           /\ PlaceOf(top, <<r, MaxCols>>) = <<top + r - 1, MaxCols + 1>>
           /\ CharAt(Lines, PlaceOf(top, <<r, MaxCols>>)) = "nl"
           /\ NumberAt(Lines, PlaceOf(top, <<r, MaxCols>>)) \in CellAt(content, p).nr..CellAt(content, q).nr
<1> DEFINE l == top + r - 1
           z == <<l, MaxCols + 1>>
<1>1. r \in p[1]..(q[1] - 1) /\ ~content.wraps[r]
  BY DEF EndedRows, RangeOf, EndOf, GoesOn
<1>2. /\ Shown(top) /\ ScreenInv /\ top \in Nat \ {0} /\ Height \in Nat /\ MaxCols \in Nat \ {0}
      /\ Lines \in Seq(LineRecords) /\ LinesAreSpaced(Lines, Width) /\ Len(Lines) \in Nat
      /\ p = <<p[1], p[2]>> /\ p[1] \in 1..Height /\ p[2] \in 0..(MaxCols - 1)
      /\ q = <<q[1], q[2]>> /\ q[1] \in 1..Height /\ q[2] \in 0..(MaxCols - 1)
      /\ PlaceOf(top, p) \in Places(Lines) /\ NumberAt(Lines, PlaceOf(top, p)) = CellAt(content, p).nr
      /\ PlaceOf(top, q) \in Places(Lines) /\ NumberAt(Lines, PlaceOf(top, q)) = CellAt(content, q).nr
      /\ top + q[1] - 1 \in 1..Len(Lines)
  BY SelectedIs
<1>3. r \in 1..Height /\ l \in 1..Len(Lines) /\ l # Len(Lines) /\ r \in Int
  <2> DEFINE i == p[1]
             j == q[1]
             n == Len(Lines)
  <2>1. i \in 1..Height /\ j \in 1..Height /\ Height \in Nat /\ top \in Nat \ {0} /\ n \in Nat
        /\ top + j - 1 \in 1..n /\ r \in i..(j - 1)
    BY <1>1, <1>2
  <2> HIDE DEF i, j, n
  <2>2. r \in 1..Height /\ top + r - 1 \in 1..n /\ top + r - 1 # n /\ r \in Int
    BY <2>1
  <2> QED BY <2>2 DEF n
<1>4. content.wraps[r] = Lines[l].wraps
  <2>1. content.wraps[r] = LineAt(Lines, l).wraps
    BY <1>2, <1>3 DEF Shown, IsShownFrom, Height
  <2>2. LineAt(Lines, l) = Lines[l]
    BY <1>3 DEF LineAt
  <2> QED BY <2>1, <2>2
<1>5. Lines[l].ended # 0
  BY <1>1, <1>2, <1>3, <1>4 DEF LinesAreSpaced
<1>6. PlaceOf(top, <<r, MaxCols>>) = z
  BY DEF PlaceOf
<1> HIDE DEF l
<1>7. z \in Places(Lines) /\ CharAt(Lines, z) = "nl"
  <2>1. z[1] = l /\ z[2] = MaxCols + 1 /\ l \in Nat /\ z \in Nat \X Nat
    BY <1>2, <1>3
  <2>2. NumberAt(Lines, z) = Lines[l].ended /\ CharAt(Lines, z) = "nl"
    BY <2>1 DEF NumberAt, CharAt
  <2>3. Filled(Lines, z)
    BY <1>3, <1>5, <2>1, <2>2 DEF Filled
  <2> QED BY <2>1, <2>2, <2>3 DEF Places
<1>8. NoLater(PlaceOf(top, p), z) /\ NoLater(z, PlaceOf(top, q))
  <2>1. <<r, MaxCols>> \in Int \X Int /\ p \in Int \X Int /\ q \in Int \X Int
    BY <1>2, <1>3
  <2>2. NoLater(p, <<r, MaxCols>>) /\ NoLater(<<r, MaxCols>>, q)
    BY <1>1, <1>2 DEF NoLater, Before
  <2> DEFINE x == <<r, MaxCols>>
  <2>3. PlaceOf(top, x) = z /\ top \in Nat
    BY <1>2, <1>6
  <2> HIDE DEF x, z
  <2>4. NoLater(PlaceOf(top, p), PlaceOf(top, x)) /\ NoLater(PlaceOf(top, x), PlaceOf(top, q))
    BY <2>1, <2>2, <2>3, PlacesInOrder DEF x
  <2> QED BY <2>3, <2>4
<1>9. NumberAt(Lines, z) \in CellAt(content, p).nr..CellAt(content, q).nr
  <2>1. /\ NumberAt(Lines, PlaceOf(top, p)) <= NumberAt(Lines, z)
        /\ NumberAt(Lines, z) <= NumberAt(Lines, PlaceOf(top, q))
    BY <1>2, <1>7, <1>8, NumbersOrder
  <2>2. NumberAt(Lines, PlaceOf(top, p)) \in Nat /\ NumberAt(Lines, z) \in Nat
        /\ NumberAt(Lines, PlaceOf(top, q)) \in Nat
    BY <1>2, <1>7, NumbersOrder
  <2> QED BY <1>2, <2>1, <2>2
<1> QED BY <1>1, <1>3, <1>4, <1>6, <1>7, <1>9 DEF l

(* What ends a line, by its place.                                            *)
LEMMA EndsALineAt ==
    ASSUME ScreenInv, NEW z \in Places(Lines)
    PROVE  EndsALine(NumberAt(Lines, z)) <=>
               /\ z[2] # MaxCols + 1 /\ ~Lines[z[1]].wraps
               /\ \A j \in z[2]..Len(Lines[z[1]].cells) : Lines[z[1]].cells[j].ch = " "
<1> DEFINE n == NumberAt(Lines, z)
<1>1. Lines \in Seq(LineRecords) /\ LinesAreSpaced(Lines, Width) /\ Len(Lines) \in Nat /\ MaxCols \in Nat
      /\ Width \in Widths /\ Width \in Nat /\ Width <= MaxCols
  BY WidthsAre DEF ScreenInv, ScreenTypes
<1>2. z = <<z[1], z[2]>> /\ z[1] \in 1..Len(Lines) /\ Filled(Lines, z) /\ n # 0
  BY <1>1, PlacesAre DEF Filled
<1>3. DOMAIN Lines = 1..Len(Lines)
      /\ \A l \in 1..Len(Lines) : /\ DOMAIN Lines[l].cells = 1..Len(Lines[l].cells)
                                  /\ Len(Lines[l].cells) \in Nat /\ Len(Lines[l].cells) <= Width
  BY <1>1 DEF LineRecords, LinesAreSpaced, Spaced
<1> HIDE DEF n
<1>4. ASSUME EndsALine(n)
      PROVE  /\ z[2] # MaxCols + 1 /\ ~Lines[z[1]].wraps
             /\ \A j \in z[2]..Len(Lines[z[1]].cells) : Lines[z[1]].cells[j].ch = " "
  <2>1. PICK line \in Range(Lines) : \E k \in DOMAIN line.cells :
            /\ ~line.wraps /\ line.cells[k].nr = n
            /\ \A j \in k..Len(line.cells) : line.cells[j].ch = " "
    BY <1>4 DEF EndsALine, Lines
  <2>2. PICK l \in 1..Len(Lines) : line = Lines[l]
    BY <1>3, <2>1 DEF Range
  <2>3. PICK k \in 1..Len(Lines[l].cells) :
            /\ ~Lines[l].wraps /\ Lines[l].cells[k].nr = n
            /\ \A j \in k..Len(Lines[l].cells) : Lines[l].cells[j].ch = " "
    BY <1>3, <2>1, <2>2
  <2>4. k # MaxCols + 1 /\ k \in Nat /\ l \in Nat
    BY <1>1, <1>3
  <2>5. NumberAt(Lines, <<l, k>>) = n
    BY <2>3, <2>4 DEF NumberAt
  <2>6. <<l, k>> \in Places(Lines)
    <3>1. Filled(Lines, <<l, k>>)
      BY <1>2, <2>5 DEF Filled
    <3> QED BY <2>4, <3>1 DEF Places
  <2>7. z = <<l, k>>
    BY <2>5, <2>6, NumbersOrder DEF n
  <2> QED BY <2>3, <2>4, <2>7
<1>5. ASSUME z[2] # MaxCols + 1, ~Lines[z[1]].wraps,
             \A j \in z[2]..Len(Lines[z[1]].cells) : Lines[z[1]].cells[j].ch = " "
      PROVE  EndsALine(n)
  <2>1. z[2] \in 1..Len(Lines[z[1]].cells) /\ Lines[z[1]].cells[z[2]].nr = n
    BY <1>2, <1>5 DEF Filled, NumberAt, n
  <2>2. Lines[z[1]] \in Range(Lines)
    BY <1>2, <1>3 DEF Range
  <2>3. z[2] \in DOMAIN Lines[z[1]].cells
    BY <1>2, <1>3, <2>1
  <2> QED BY <1>5, <2>1, <2>2, <2>3 DEF EndsALine, Lines
<1> QED BY <1>4, <1>5 DEF n

TrimmedAt(range, x) ==
    /\ x[1] \in EndedRows(content, range)
    /\ \A y \in SelectedCells(content, range) :
           y[1] = x[1] /\ ~Before(y, x) => CellAt(content, y).ch = " "

LEMMA CopiedAre ==
    ASSUME NEW range, NEW x
    PROVE  x \in Copied(content, range) <=>
               \/ x \in SelectedCells(content, range) /\ ~TrimmedAt(range, x)
               \/ \E r \in EndedRows(content, range) : x = <<r, MaxCols>>
BY DEF Copied, TrimmedAt

(* A cell without a character is trimmed.                                     *)
LEMMA PaddingIsTrimmed ==
    ASSUME NEW top, NEW p, NEW q, Selected(top, p, q), NEW x \in Cells(content),
           NoLater(p, x), NoLater(x, q), CellAt(content, x).nr = 0
    PROVE  TrimmedAt(RangeOf(p, q), x)
<1> DEFINE range == RangeOf(p, q)
           l == top + x[1] - 1
           cells == LineAt(Lines, l).cells
<1>1. /\ Shown(top) /\ ScreenInv /\ top \in Nat \ {0} /\ Height \in Nat /\ MaxCols \in Nat \ {0}
      /\ p \in Cells(content) /\ q \in Cells(content)
      /\ p = <<p[1], p[2]>> /\ p[1] \in 1..Height /\ p[2] \in 0..(MaxCols - 1)
      /\ q = <<q[1], q[2]>> /\ q[1] \in 1..Height /\ q[2] \in 0..(MaxCols - 1)
  BY SelectedIs
<1>2. x = <<x[1], x[2]>> /\ x[1] \in 1..Height /\ x[2] \in 0..(MaxCols - 1)
      /\ x[2] + 1 \notin 1..Len(cells) /\ ~content.wraps[x[1]]
  BY <1>1, CellsAre
<1>3. l \in Nat \ {0} /\ Len(cells) \in Nat
  <2>1. l \in Nat \ {0}
    <3>1. top \in Nat \ {0} /\ x[1] \in Nat \ {0}
      BY <1>1, <1>2
    <3> QED BY <3>1
  <2> HIDE DEF l
  <2> QED BY <1>1, <2>1, LineIs
<1>4. x[1] # q[1]
  <2> SUFFICES ASSUME x[1] = q[1] PROVE FALSE
    OBVIOUS
  <2>1. x[2] <= q[2]
    <3>1. x[2] \in Int /\ q[2] \in Int /\ x[1] \in Int
      BY <1>1, <1>2
    <3> QED BY <3>1 DEF NoLater, Before
  <2>2. CellAt(content, q).nr # 0
    BY DEF Selected, Characters
  <2>3. l \in 1..Len(Lines) /\ q[2] + 1 \in 1..Len(Lines[l].cells)
    BY <1>1, <2>2, CellsAre
  <2>4. cells = Lines[l].cells
    BY <2>3 DEF LineAt
  <2>5. x[2] \in Int /\ q[2] \in Int /\ 0 <= x[2] /\ Len(cells) \in Nat /\ x[2] + 1 \notin 1..Len(cells)
    BY <1>1, <1>2, <1>3
  <2> HIDE DEF cells, l
  <2>6. q[2] + 1 \in 1..Len(cells)
    BY <2>3, <2>4
  <2> QED BY <2>1, <2>5, <2>6
<1>5. x[1] \in EndedRows(content, range)
  <2>1. x[1] \in p[1]..(q[1] - 1)
    <3>1. p[1] \in Int /\ x[1] \in Int /\ q[1] \in Int
      BY <1>1, <1>2
    <3>2. p[1] <= x[1] /\ x[1] <= q[1]
      BY <3>1 DEF NoLater, Before
    <3> QED BY <1>4, <3>1, <3>2
  <2> QED BY <1>2, <2>1 DEF EndedRows, RangeOf, EndOf, GoesOn
<1>6. ASSUME NEW y \in SelectedCells(content, range), y[1] = x[1], ~Before(y, x)
      PROVE  CellAt(content, y).ch = " "
  <2>1. y \in Cells(content)
    BY DEF SelectedCells
  <2>2. y = <<y[1], y[2]>> /\ y[1] \in 1..Height /\ y[2] \in 0..(Width - 1)
    BY <1>1, <2>1, CellsAre
  <2>3. x[2] <= y[2]
    BY <1>2, <1>6, <2>2 DEF Before
  <2>4. cells = LineAt(Lines, top + y[1] - 1).cells
    BY <1>6
  <2> HIDE DEF cells, l
  <2>5. y[2] + 1 \notin 1..Len(cells)
    <3>1. x[2] \in Int /\ y[2] \in Int /\ 0 <= x[2] /\ Len(cells) \in Nat /\ x[2] + 1 \notin 1..Len(cells)
      BY <1>2, <1>3, <2>2
    <3> QED BY <2>3, <3>1
  <2>6. CellAt(content, y) = Blank
    BY <1>1, <2>2, <2>4, <2>5, CellIs
  <2>7. Blank.ch = " "
    BY DEF Blank
  <2> HIDE DEF range
  <2> QED BY <2>6, <2>7
<1>7. TrimmedAt(range, x)
  BY <1>5, <1>6 DEF TrimmedAt
<1> QED BY <1>7

LEMMA LineFeedsAre ==
    ASSUME ScreenInv, NEW z \in Places(Lines)
    PROVE  /\ printed[NumberAt(Lines, z)] = CharAt(Lines, z)
           /\ CharAt(Lines, z) = "nl" <=> z[2] = MaxCols + 1
<1>1. Lines \in Seq(LineRecords) /\ LinesAreSpaced(Lines, Width) /\ NumbersFollow(Lines, printed)
      /\ Width \in Widths
  BY DEF ScreenInv, ScreenTypes
<1>2. printed[NumberAt(Lines, z)] = CharAt(Lines, z)
  BY <1>1 DEF NumbersFollow
<1>3. z[1] \in 1..Len(Lines) /\ Filled(Lines, z)
  BY <1>1, PlacesAre
<1>4. z[2] # MaxCols + 1 => CharAt(Lines, z) # "nl"
  BY <1>1, <1>3 DEF Filled, CharAt, LinesAreSpaced, Spaced
<1>5. z[2] = MaxCols + 1 => CharAt(Lines, z) = "nl"
  BY DEF CharAt
<1> QED BY <1>2, <1>4, <1>5

(* The blanks that end a line are trimmed if its end is selected.             *)
LEMMA EndingIsTrimmed ==
    ASSUME NEW top, NEW p, NEW q, Selected(top, p, q), NEW x \in Cells(content),
           NoLater(p, x), NoLater(x, q), CellAt(content, x).nr # 0,
           EndsALine(CellAt(content, x).nr),
           NEW m \in CellAt(content, x).nr..CellAt(content, q).nr, printed[m] = "nl"
    PROVE  TrimmedAt(RangeOf(p, q), x)
<1> DEFINE range == RangeOf(p, q)
           l == top + x[1] - 1
           z == PlaceOf(top, x)
<1>1. /\ Shown(top) /\ ScreenInv /\ top \in Nat \ {0} /\ Height \in Nat /\ MaxCols \in Nat \ {0}
      /\ p \in Cells(content) /\ q \in Cells(content)
      /\ Lines \in Seq(LineRecords) /\ LinesAreSpaced(Lines, Width) /\ Len(Lines) \in Nat
      /\ p = <<p[1], p[2]>> /\ p[1] \in 1..Height /\ p[2] \in 0..(MaxCols - 1)
      /\ q = <<q[1], q[2]>> /\ q[1] \in 1..Height /\ q[2] \in 0..(MaxCols - 1)
      /\ PlaceOf(top, q) \in Places(Lines) /\ NumberAt(Lines, PlaceOf(top, q)) = CellAt(content, q).nr
  BY SelectedIs
<1>2. x = <<x[1], x[2]>> /\ x[1] \in 1..Height /\ x[2] \in 0..(MaxCols - 1)
      /\ z \in Places(Lines) /\ NumberAt(Lines, z) = CellAt(content, x).nr
      /\ l \in 1..Len(Lines) /\ x[2] + 1 \in 1..Len(Lines[l].cells)
  BY <1>1, CellsAre
<1>3. z[1] = l /\ z[2] = x[2] + 1 /\ PlaceOf(top, q)[1] = top + q[1] - 1 /\ PlaceOf(top, q)[2] = q[2] + 1
  BY DEF PlaceOf
<1>4. /\ ~Lines[l].wraps
      /\ \A j \in (x[2] + 1)..Len(Lines[l].cells) : Lines[l].cells[j].ch = " "
  <2>1. EndsALine(NumberAt(Lines, z))
    BY <1>2
  <2> HIDE DEF z, l
  <2> QED BY <1>1, <1>2, <1>3, <2>1, EndsALineAt
<1>5. content.wraps[x[1]] = Lines[l].wraps
  <2>1. content.wraps[x[1]] = LineAt(Lines, l).wraps
    BY <1>1, <1>2 DEF Shown, IsShownFrom, Height
  <2>2. LineAt(Lines, l) = Lines[l]
    BY <1>2 DEF LineAt
  <2> QED BY <2>1, <2>2
<1> HIDE DEF z, l
<1>6. x[1] < q[1]
  <2>1. CellAt(content, x).nr \in Nat \ {0} /\ CellAt(content, q).nr \in 1..Len(printed) /\ Len(printed) \in Nat
    <3>1. Len(printed) \in Nat
      BY <1>1 DEF ScreenInv, ScreenTypes
    <3> DEFINE b == PlaceOf(top, q)
    <3>2. b \in Places(Lines) /\ NumberAt(Lines, b) = CellAt(content, q).nr
      BY <1>1
    <3> HIDE DEF b
    <3>3. NumberAt(Lines, b) \in 1..Len(printed)
      BY <1>1, <3>2, NumbersOrder
    <3>4. NumberAt(Lines, z) \in Nat \ {0}
      BY <1>1, <1>2, NumbersOrder
    <3> QED BY <1>2, <3>1, <3>2, <3>3, <3>4
  <2>2. m \in 1..Len(printed)
    BY <2>1
  <2>3. PICK y \in Places(Lines) : NumberAt(Lines, y) = m
    <3>1. NumbersFollow(Lines, printed)
      BY <1>1 DEF ScreenInv
    <3> QED BY <2>2, <3>1 DEF NumbersFollow
  <2>4. y[2] = MaxCols + 1
    <3>1. printed[m] = CharAt(Lines, y)
      BY <1>1, <2>3, LineFeedsAre
    <3>2. CharAt(Lines, y) = "nl"
      BY <3>1
    <3> QED BY <1>1, <3>2, LineFeedsAre
  <2>5. NoLater(z, y) /\ NoLater(y, PlaceOf(top, q))
    <3> DEFINE b == PlaceOf(top, q)
    <3>1. b \in Places(Lines) /\ NumberAt(Lines, b) = CellAt(content, q).nr
      BY <1>1
    <3> HIDE DEF b
    <3>2. NumberAt(Lines, z) <= NumberAt(Lines, y) /\ NumberAt(Lines, y) <= NumberAt(Lines, b)
      BY <1>2, <2>1, <2>3, <3>1
    <3>3. NoLater(z, y) /\ NoLater(y, b)
      BY <1>1, <1>2, <3>1, <3>2, NumbersOrder
    <3> QED BY <3>3 DEF b
  <2>6. y[1] \in Nat
    BY DEF Places
  <2>7. z[1] <= y[1]
    <3>1. z[1] \in Nat
      BY <1>2 DEF Places
    <3> QED BY <2>5, <2>6, <3>1 DEF NoLater, Before
  <2>8. y[1] < top + q[1] - 1
    <3> DEFINE b == PlaceOf(top, q)
    <3>1. b[1] = top + q[1] - 1 /\ b[2] = q[2] + 1 /\ NoLater(y, b)
      BY <1>3, <2>5
    <3> HIDE DEF b
    <3>2. y # b
      BY <1>1, <2>4, <3>1
    <3>3. Before(y, b)
      BY <3>1, <3>2 DEF NoLater
    <3> QED BY <1>1, <2>4, <2>6, <3>1, <3>3 DEF Before
  <2>9. z[1] = top + x[1] - 1
    BY <1>3 DEF l
  <2>10. top \in Int /\ x[1] \in Int /\ q[1] \in Int
    BY <1>1, <1>2
  <2> DEFINE i == x[1]
             j == q[1]
             k == z[1]
             h == y[1]
  <2>11. k = top + i - 1 /\ k <= h /\ h < top + j - 1 /\ h \in Nat /\ top \in Int /\ i \in Int /\ j \in Int
    BY <2>6, <2>7, <2>8, <2>9, <2>10
  <2> HIDE DEF i, j, k, h
  <2>12. i < j
    BY <2>11
  <2> QED BY <2>12 DEF i, j
<1>7. x[1] \in EndedRows(content, range)
  <2>1. x[1] \in p[1]..(q[1] - 1)
    <3>1. p[1] \in Int /\ x[1] \in Int /\ q[1] \in Int
      BY <1>1, <1>2
    <3>2. p[1] <= x[1]
      BY <3>1 DEF NoLater, Before
    <3> QED BY <1>6, <3>1, <3>2
  <2> QED BY <1>4, <1>5, <2>1 DEF EndedRows, RangeOf, EndOf, GoesOn
<1>8. ASSUME NEW y \in SelectedCells(content, range), y[1] = x[1], ~Before(y, x)
      PROVE  CellAt(content, y).ch = " "
  <2>1. y \in Cells(content)
    BY DEF SelectedCells
  <2>2. y = <<y[1], y[2]>> /\ y[1] \in 1..Height /\ y[2] \in 0..(Width - 1)
    BY <1>1, <2>1, CellsAre
  <2>3. x[2] <= y[2]
    BY <1>2, <1>8, <2>2 DEF Before
  <2>4. CASE CellAt(content, y).nr = 0
    BY <1>1, <2>1, <2>4, CellsAre
  <2>5. CASE CellAt(content, y).nr # 0
    <3>1. y[2] + 1 \in 1..Len(Lines[l].cells)
      BY <1>1, <1>8, <2>1, <2>5, CellsAre DEF l
    <3>2. LineAt(Lines, l) = Lines[l]
      BY <1>2 DEF LineAt
    <3> DEFINE cells == Lines[l].cells
    <3>3. cells = LineAt(Lines, top + y[1] - 1).cells
      BY <1>8, <3>2 DEF l
    <3> HIDE DEF cells
    <3>4. y[2] + 1 \in 1..Len(cells)
      BY <3>1 DEF cells
    <3>5. CellAt(content, y) = cells[y[2] + 1]
      <4>1. Shown(top) /\ y[1] \in 1..Height /\ y[2] \in 0..(Width - 1)
        BY <1>1, <2>2
      <4> QED BY <3>3, <3>4, <4>1, CellIs
    <3>6. y[2] + 1 \in (x[2] + 1)..Len(cells)
      <4>1. x[2] \in Int /\ y[2] \in Int
        BY <1>2, <2>2
      <4> QED BY <2>3, <3>4, <4>1
    <3> QED BY <1>4, <3>5, <3>6 DEF cells
  <2> QED BY <2>4, <2>5
<1>9. TrimmedAt(range, x)
  BY <1>7, <1>8 DEF TrimmedAt
<1> QED BY <1>9

LEMMA CopiedIsCopyable ==
    ASSUME NEW top, NEW p, NEW q, Selected(top, p, q), NEW x \in Copied(content, RangeOf(p, q))
    PROVE  /\ PlaceOf(top, x) \in Places(Lines) /\ x \in (1..Height) \X (0..MaxCols)
           /\ NumberAt(Lines, PlaceOf(top, x)) \in Copyable(CellAt(content, p).nr, CellAt(content, q).nr)
           /\ CharAt(Lines, PlaceOf(top, x)) = IF x[2] = MaxCols THEN "nl" ELSE CellAt(content, x).ch
<1> DEFINE range == RangeOf(p, q)
           z == PlaceOf(top, x)
           a == CellAt(content, p).nr
           b == CellAt(content, q).nr
<1>1. /\ Shown(top) /\ ScreenInv /\ top \in Nat \ {0} /\ Height \in Nat /\ MaxCols \in Nat \ {0}
      /\ p \in Cells(content) /\ q \in Cells(content)
      /\ p = <<p[1], p[2]>> /\ p[1] \in 1..Height /\ p[2] \in 0..(MaxCols - 1)
      /\ q = <<q[1], q[2]>> /\ q[1] \in 1..Height /\ q[2] \in 0..(MaxCols - 1)
      /\ PlaceOf(top, p) \in Places(Lines) /\ NumberAt(Lines, PlaceOf(top, p)) = a
      /\ PlaceOf(top, q) \in Places(Lines) /\ NumberAt(Lines, PlaceOf(top, q)) = b
      /\ (p[1] = q[1] \/ Width <= cols)
  BY SelectedIs
<1>2. CASE \E r \in EndedRows(content, range) : x = <<r, MaxCols>>
  <2>1. PICK r \in EndedRows(content, range) : x = <<r, MaxCols>>
    BY <1>2
  <2>2. /\ r \in 1..Height /\ PlaceOf(top, <<r, MaxCols>>) \in Places(Lines)
        /\ PlaceOf(top, <<r, MaxCols>>) = <<top + r - 1, MaxCols + 1>>
        /\ CharAt(Lines, PlaceOf(top, <<r, MaxCols>>)) = "nl"
        /\ NumberAt(Lines, PlaceOf(top, <<r, MaxCols>>)) \in a..b
    BY EndedRowsAre
  <2>3. z \in Places(Lines) /\ z[2] = MaxCols + 1 /\ CharAt(Lines, z) = "nl" /\ NumberAt(Lines, z) \in a..b
        /\ x[2] = MaxCols
    BY <2>1, <2>2
  <2>4. ~EndsALine(NumberAt(Lines, z))
    <3> HIDE DEF z
    <3> QED BY <1>1, <2>3, EndsALineAt
  <2>5. NumberAt(Lines, z) \in Copyable(a, b)
    BY <2>3, <2>4 DEF Copyable
  <2>6. x \in (1..Height) \X (0..MaxCols)
    BY <1>1, <2>1, <2>2
  <2> QED BY <2>3, <2>5, <2>6
<1>3. CASE x \in SelectedCells(content, range) /\ ~TrimmedAt(range, x)
  <2>1. x \in Cells(content)
    BY <1>3 DEF SelectedCells
  <2>2. NoLater(p, x) /\ NoLater(x, q)
    BY <1>1, <1>3, <2>1, SelectedAre
  <2>3. CellAt(content, x).nr # 0
    BY <1>3, <2>1, <2>2, PaddingIsTrimmed
  <2>4. /\ x = <<x[1], x[2]>> /\ x[1] \in 1..Height /\ x[2] \in 0..(MaxCols - 1)
        /\ z \in Places(Lines) /\ NumberAt(Lines, z) = CellAt(content, x).nr
        /\ CharAt(Lines, z) = CellAt(content, x).ch
    BY <1>1, <2>1, <2>3, CellsAre
  <2>5. NumberAt(Lines, z) \in a..b
    <3>1. p \in Int \X Int /\ q \in Int \X Int /\ x \in Int \X Int /\ top \in Nat
      BY <1>1, <2>4
    <3>2. NoLater(PlaceOf(top, p), z) /\ NoLater(z, PlaceOf(top, q))
      BY <2>2, <3>1, PlacesInOrder
    <3>3. a <= NumberAt(Lines, z) /\ NumberAt(Lines, z) <= b
      BY <1>1, <2>4, <3>2, NumbersOrder
    <3>4. a \in Nat /\ b \in Nat /\ NumberAt(Lines, z) \in Nat
      BY <1>1, <2>4, NumbersOrder
    <3> QED BY <3>3, <3>4
  <2>6. EndsALine(NumberAt(Lines, z)) => \A m \in NumberAt(Lines, z)..b : printed[m] # "nl"
    BY <1>3, <2>1, <2>2, <2>3, <2>4, EndingIsTrimmed
  <2>7. NumberAt(Lines, z) \in Copyable(a, b)
    BY <2>5, <2>6 DEF Copyable
  <2>8. x[2] # MaxCols /\ x \in (1..Height) \X (0..MaxCols)
    BY <1>1, <2>4
  <2> QED BY <2>4, <2>7, <2>8
<1> QED BY <1>2, <1>3, CopiedAre

(* What can be copied is on the screen, in the selection.                     *)
LEMMA CopyableIsShown ==
    ASSUME NEW top, NEW p, NEW q, Selected(top, p, q),
           NEW n \in CellAt(content, p).nr..CellAt(content, q).nr
    PROVE  \E z \in Places(Lines) :
               /\ NumberAt(Lines, z) = n /\ z = <<z[1], z[2]>> /\ z[2] \in Nat
               /\ NoLater(PlaceOf(top, p), z) /\ NoLater(z, PlaceOf(top, q))
               /\ z[1] - top + 1 \in p[1]..q[1] /\ z[1] - top + 1 \in 1..Height
               /\ z[1] = top + (z[1] - top + 1) - 1 /\ z[1] \in Nat
               /\ z[1] - top + 1 = q[1] => z[2] # MaxCols + 1
<1> DEFINE u == PlaceOf(top, p)
           v == PlaceOf(top, q)
<1>1. /\ Shown(top) /\ ScreenInv /\ top \in Nat \ {0} /\ Height \in Nat /\ MaxCols \in Nat \ {0}
      /\ p[1] \in 1..Height /\ q[1] \in 1..Height /\ q[2] \in 0..(MaxCols - 1)
      /\ u \in Places(Lines) /\ NumberAt(Lines, u) = CellAt(content, p).nr
      /\ v \in Places(Lines) /\ NumberAt(Lines, v) = CellAt(content, q).nr
  BY SelectedIs
<1>2. u[1] = top + p[1] - 1 /\ v[1] = top + q[1] - 1 /\ v[2] = q[2] + 1
  BY DEF PlaceOf
<1> HIDE DEF u, v
<1>3. /\ NumberAt(Lines, u) \in Nat \ {0} /\ NumberAt(Lines, v) \in 1..Len(printed)
      /\ Len(printed) \in Nat
  BY <1>1, NumbersOrder DEF ScreenInv, ScreenTypes
<1>4. n \in 1..Len(printed) /\ NumberAt(Lines, u) <= n /\ n <= NumberAt(Lines, v)
  BY <1>1, <1>3
<1>5. PICK z \in Places(Lines) : NumberAt(Lines, z) = n
  BY <1>1, <1>4 DEF ScreenInv, NumbersFollow
<1>6. NoLater(u, z) /\ NoLater(z, v)
  BY <1>1, <1>4, <1>5, NumbersOrder
<1>7. z = <<z[1], z[2]>> /\ z[1] \in Nat /\ z[2] \in Nat
  BY DEF Places
<1>8. u[1] <= z[1] /\ z[1] <= v[1] /\ (z[1] = v[1] => z[2] <= v[2])
  BY <1>1, <1>2, <1>6, <1>7 DEF NoLater, Before
<1>9. z[1] - top + 1 \in p[1]..q[1] /\ z[1] - top + 1 \in 1..Height
      /\ z[1] = top + (z[1] - top + 1) - 1
  BY <1>1, <1>2, <1>7, <1>8
<1>10. z[1] - top + 1 = q[1] => z[2] # MaxCols + 1
  BY <1>1, <1>2, <1>7, <1>8
<1> QED BY <1>5, <1>6, <1>7, <1>9, <1>10 DEF u, v

(* What is trimmed ends a line.                                               *)
LEMMA TrimmedEndsALine ==
    ASSUME NEW top, NEW p, NEW q, Selected(top, p, q), NEW x \in Cells(content),
           NoLater(p, x), NoLater(x, q), CellAt(content, x).nr # 0, TrimmedAt(RangeOf(p, q), x)
    PROVE  EndsALine(CellAt(content, x).nr)
<1> DEFINE range == RangeOf(p, q)
           l == top + x[1] - 1
           z == PlaceOf(top, x)
           cells == Lines[l].cells
<1>1. /\ Shown(top) /\ ScreenInv /\ top \in Nat \ {0} /\ Height \in Nat /\ MaxCols \in Nat \ {0}
      /\ p \in Cells(content) /\ q \in Cells(content)
      /\ Lines \in Seq(LineRecords) /\ LinesAreSpaced(Lines, Width) /\ Len(Lines) \in Nat
      /\ p = <<p[1], p[2]>> /\ p[1] \in 1..Height /\ p[2] \in 0..(MaxCols - 1)
      /\ q = <<q[1], q[2]>> /\ q[1] \in 1..Height /\ q[2] \in 0..(MaxCols - 1)
      /\ Width \in Nat /\ Width <= MaxCols /\ (p[1] = q[1] \/ Width <= cols)
  BY SelectedIs
<1>2. x = <<x[1], x[2]>> /\ x[1] \in 1..Height /\ x[2] \in 0..(MaxCols - 1)
      /\ z \in Places(Lines) /\ NumberAt(Lines, z) = CellAt(content, x).nr
      /\ l \in 1..Len(Lines) /\ x[2] + 1 \in 1..Len(cells)
  BY <1>1, CellsAre
<1>3. z[1] = l /\ z[2] = x[2] + 1
  BY DEF PlaceOf
<1>4. x[1] \in p[1]..(q[1] - 1) /\ ~Lines[l].wraps
  <2>1. x[1] \in EndedRows(content, range)
    BY DEF TrimmedAt
  <2> DEFINE r == x[1]
  <2>2. r \in EndedRows(content, RangeOf(p, q))
    BY <2>1
  <2> HIDE DEF r
  <2>3. r \in p[1]..(q[1] - 1) /\ ~Lines[top + r - 1].wraps
    BY <2>2, EndedRowsAre
  <2> QED BY <2>3 DEF r
<1>5. LineAt(Lines, l) = Lines[l] /\ Len(cells) \in Nat /\ Len(cells) <= Width /\ Spaced(cells, Lines[l].wraps, Width)
  <2>0. l \in 1..Len(Lines) /\ Len(Lines) \in Nat
    BY <1>1, <1>2
  <2> HIDE DEF l
  <2>1. l \in Nat \ {0} /\ l <= Len(Lines)
    BY <2>0
  <2>2. LineAt(Lines, l) = Lines[l]
    BY <1>1, <2>1, LineIs
  <2> QED BY <1>1, <2>1, <2>2, LineIs
<1>6. cells = LineAt(Lines, top + x[1] - 1).cells
  BY <1>5
<1>7. z[2] # MaxCols + 1
  <2>1. x[2] \in Int /\ x[2] <= MaxCols - 1 /\ MaxCols \in Int
    BY <1>1, <1>2
  <2>2. z[2] = x[2] + 1
    BY <1>3
  <2> HIDE DEF z
  <2> QED BY <2>1, <2>2
<1> HIDE DEF z, l, cells, range
<1>8. ASSUME NEW j \in (x[2] + 1)..Len(cells), cells[j].ch \notin {"tail", "head"}
      PROVE  cells[j].ch = " "
  <2> DEFINE y == <<x[1], j - 1>>
  <2>1. j - 1 \in 0..(Width - 1) /\ j - 1 \in 0..(MaxCols - 1) /\ (j - 1) + 1 \in 1..Len(cells) /\ j \in Int
    <3>1. x[2] \in Int /\ 0 <= x[2] /\ MaxCols \in Int /\ Len(cells) \in Int /\ Len(cells) <= Width
          /\ Width \in Int /\ Width <= MaxCols
      BY <1>1, <1>2, <1>5
    <3> QED BY <3>1
  <2>2. y[1] = x[1] /\ y[2] = j - 1 /\ y \in (1..Height) \X (0..(MaxCols - 1))
    BY <1>2, <2>1
  <2>3. y[2] + 1 = j
    BY <2>1, <2>2
  <2> HIDE DEF y
  <2>4. CellAt(content, y) = cells[j] /\ DOMAIN content.rows = 1..Height
    <3>1. y[1] \in 1..Height /\ y[2] \in 0..(Width - 1) /\ y[2] + 1 \in 1..Len(cells)
      BY <1>2, <2>1, <2>2, <2>3
    <3>2. cells = LineAt(Lines, top + y[1] - 1).cells
      BY <1>6, <2>2
    <3>3. CellAt(content, y) = cells[y[2] + 1] /\ DOMAIN content.rows = 1..Height
      BY <1>1, <3>1, <3>2, CellIs
    <3> QED BY <2>3, <3>3
  <2>5. y \in Cells(content)
    <3>1. y[1] \in 1..Height /\ y[2] < Width
      <4>1. y[1] \in 1..Height
        BY <1>2, <2>2, Zenon
      <4>2. j - 1 < Width /\ y[2] = j - 1
        BY <1>1, <2>1, <2>2
      <4> QED BY <4>1, <4>2
    <3>2. y[2] < LineEndCol(content, y[1])
      BY <1>1, <3>1, RowsAreWide
    <3> QED BY <1>8, <2>2, <2>4, <3>2 DEF Cells
  <2>6. NoLater(p, y) /\ NoLater(y, q) /\ ~Before(y, x)
    <3>1. x[2] <= y[2] /\ y[1] < q[1]
      <4>1. x[2] + 1 <= j /\ x[2] \in Int /\ j \in Int
        BY <1>2, <2>1
      <4>2. x[1] < q[1]
        BY <1>1, <1>2, <1>4
      <4> QED BY <2>2, <4>1, <4>2
    <3>2. NoLater(p, y)
      <4>1. CASE p[1] < x[1]
        BY <2>2, <4>1 DEF NoLater, Before
      <4>2. CASE ~(p[1] < x[1])
        <5>1. p[1] = x[1] /\ p[2] <= x[2]
          <6>1. p[1] \in Int /\ x[1] \in Int /\ p[2] \in Int /\ x[2] \in Int
            BY <1>1, <1>2
          <6> QED BY <4>2, <6>1 DEF NoLater, Before
        <5>2. p[2] < y[2] \/ (p[1] = y[1] /\ p[2] = y[2])
          <6>1. p[2] \in Int /\ x[2] \in Int /\ y[2] \in Int /\ y[1] = x[1]
            BY <1>1, <1>2, <2>2
          <6> QED BY <3>1, <5>1, <6>1
        <5>3. y = <<y[1], y[2]>>
          BY <2>2
        <5>4. p[1] = y[1] /\ p[2] = y[2] => p = y
          BY <1>1, <5>3, Zenon
        <5> QED BY <2>2, <5>1, <5>2, <5>4 DEF NoLater, Before
      <4> QED BY <4>1, <4>2
    <3>3. ~Before(y, x)
      BY <1>2, <2>2, <3>1 DEF Before
    <3> QED BY <3>1, <3>2, <3>3 DEF NoLater, Before
  <2>7. y \in SelectedCells(content, range)
    BY <1>1, <2>5, <2>6, SelectedAre DEF range
  <2>8. CellAt(content, y).ch = " "
    BY <2>2, <2>6, <2>7 DEF TrimmedAt, range
  <2> QED BY <2>4, <2>8
<1>9. ASSUME NEW j \in (x[2] + 1)..Len(cells) PROVE cells[j].ch = " "
  <2>1. j \in 1..Len(cells)
    <3>1. x[2] \in Int /\ 0 <= x[2] /\ Len(cells) \in Int
      BY <1>2, <1>5
    <3> QED BY <3>1
  <2>2. cells[j].ch # "head"
    <3>1. cells[j].ch = "head" => Lines[l].wraps
      BY <1>5, <2>1 DEF Spaced
    <3> QED BY <1>4, <3>1
  <2>3. cells[x[2] + 1].ch # "tail"
    <3>1. cells[x[2] + 1].nr # 0
      <4>1. NumberAt(Lines, z) = cells[x[2] + 1].nr
        BY <1>3, <1>7 DEF NumberAt, cells
      <4> QED BY <1>2, <4>1
    <3> QED BY <1>2, <1>5, <3>1 DEF Spaced
  <2>4. ASSUME cells[j].ch = "tail" PROVE FALSE
    <3>1. j - 1 \in 1..Len(cells) /\ cells[j - 1].ch = "w"
      BY <1>5, <2>1, <2>4 DEF Spaced
    <3>2. j # x[2] + 1
      BY <2>3, <2>4
    <3>3. j - 1 \in (x[2] + 1)..Len(cells)
      BY <1>2, <1>5, <3>1, <3>2
    <3>4. cells[j - 1].ch = " "
      BY <1>8, <3>1, <3>3
    <3> QED BY <3>1, <3>4
  <2> QED BY <1>8, <2>2, <2>4
<1>10. z[2] # MaxCols + 1 /\ ~Lines[z[1]].wraps
      /\ \A j \in z[2]..Len(Lines[z[1]].cells) : Lines[z[1]].cells[j].ch = " "
  BY <1>3, <1>4, <1>7, <1>9 DEF cells
<1> QED BY <1>1, <1>2, <1>10, EndsALineAt

(* Whatever can be copied is copied, at its place.                            *)
LEMMA CopyableIsCopied ==
    ASSUME NEW top, NEW p, NEW q, Selected(top, p, q),
           NEW n \in Copyable(CellAt(content, p).nr, CellAt(content, q).nr)
    PROVE  \E x \in Copied(content, RangeOf(p, q)) :
               PlaceOf(top, x) \in Places(Lines) /\ NumberAt(Lines, PlaceOf(top, x)) = n
<1> DEFINE a == CellAt(content, p).nr
           b == CellAt(content, q).nr
           range == RangeOf(p, q)
<1>1. /\ Shown(top) /\ ScreenInv /\ top \in Nat \ {0} /\ Height \in Nat /\ MaxCols \in Nat \ {0}
      /\ p \in Cells(content) /\ q \in Cells(content)
      /\ p = <<p[1], p[2]>> /\ p[1] \in 1..Height /\ p[2] \in 0..(MaxCols - 1)
      /\ q = <<q[1], q[2]>> /\ q[1] \in 1..Height /\ q[2] \in 0..(MaxCols - 1)
      /\ PlaceOf(top, p) \in Places(Lines) /\ NumberAt(Lines, PlaceOf(top, p)) = a
      /\ PlaceOf(top, q) \in Places(Lines) /\ NumberAt(Lines, PlaceOf(top, q)) = b
      /\ (p[1] = q[1] \/ Width <= cols)
  BY SelectedIs
<1>2. n \in a..b /\ (EndsALine(n) => \A m \in n..b : printed[m] # "nl")
  BY DEF Copyable
<1>3. PICK z \in Places(Lines) :
               /\ NumberAt(Lines, z) = n /\ z = <<z[1], z[2]>> /\ z[2] \in Nat
               /\ NoLater(PlaceOf(top, p), z) /\ NoLater(z, PlaceOf(top, q))
               /\ z[1] - top + 1 \in p[1]..q[1] /\ z[1] - top + 1 \in 1..Height
               /\ z[1] = top + (z[1] - top + 1) - 1 /\ z[1] \in Nat
               /\ z[1] - top + 1 = q[1] => z[2] # MaxCols + 1
  BY <1>2, CopyableIsShown
<1> DEFINE r == z[1] - top + 1
<1>4. r \in 1..Height /\ r \in p[1]..q[1] /\ z[1] = top + r - 1 /\ r \in Int /\ (r = q[1] => z[2] # MaxCols + 1)
  BY <1>1, <1>3
<1> HIDE DEF r
<1> DEFINE x == <<r, z[2] - 1>>
<1>5. /\ PlaceOf(top, x) = z /\ z[2] - 1 \in Nat
      /\ z[2] = MaxCols + 1 => ~content.wraps[r]
      /\ z[2] # MaxCols + 1 => x \in Cells(content) /\ CellAt(content, x).nr = NumberAt(Lines, z)
  BY <1>1, <1>4, PlacesAreShown
<1>6. CASE z[2] = MaxCols + 1
  <2>1. r \in EndedRows(content, range)
    <3>1. r \in p[1]..(q[1] - 1)
      BY <1>1, <1>4, <1>6
    <3> QED BY <1>5, <1>6, <3>1 DEF EndedRows, RangeOf, EndOf, GoesOn
  <2>2. x = <<r, MaxCols>>
    BY <1>1, <1>6
  <2> HIDE DEF range
  <2>3. x \in Copied(content, range)
    BY <2>1, <2>2, CopiedAre
  <2> QED BY <1>3, <1>5, <2>3 DEF range
<1>7. CASE z[2] # MaxCols + 1
  <2>1. x \in Cells(content) /\ CellAt(content, x).nr = n /\ n # 0
    BY <1>1, <1>3, <1>5, <1>7, NumbersOrder
  <2>2. NoLater(p, x) /\ NoLater(x, q)
    <3>1. x \in Int \X Int /\ p \in Int \X Int /\ q \in Int \X Int /\ top \in Nat
      BY <1>1, <1>4, <1>5
    <3> HIDE DEF x
    <3> QED BY <1>3, <1>5, <3>1, PlacesInOrder
  <2> HIDE DEF x
  <2>3. x \in SelectedCells(content, range)
    BY <1>1, <2>1, <2>2, SelectedAre
  <2>4. ASSUME TrimmedAt(range, x) PROVE FALSE
    <3>1. EndsALine(n)
      BY <2>1, <2>2, <2>4, TrimmedEndsALine
    <3>2. x[1] \in EndedRows(content, range)
      BY <2>4 DEF TrimmedAt
    <3> DEFINE e == PlaceOf(top, <<x[1], MaxCols>>)
    <3>3. /\ e \in Places(Lines) /\ CharAt(Lines, e) = "nl" /\ NumberAt(Lines, e) \in a..b
          /\ e = <<top + x[1] - 1, MaxCols + 1>>
      BY <3>2, EndedRowsAre
    <3>4. NoLater(z, e)
      <4>1. z = <<top + x[1] - 1, x[2] + 1>>
        BY <1>5 DEF PlaceOf
      <4>2. x[2] + 1 < MaxCols + 1
        <5>1. x[2] \in 0..(MaxCols - 1)
          BY <1>1, <2>1, CellsAre
        <5> QED BY <1>1, <5>1
      <4>3. z[1] = e[1] /\ z[2] < e[2]
        <5> HIDE DEF e
        <5> QED BY <3>3, <4>1, <4>2
      <4> QED BY <4>3 DEF NoLater, Before
    <3> HIDE DEF e
    <3>5. printed[NumberAt(Lines, e)] = "nl"
      BY <1>1, <3>3, LineFeedsAre
    <3>6. NumberAt(Lines, e) \in n..b
      <4>1. n <= NumberAt(Lines, e) /\ n \in Nat /\ NumberAt(Lines, e) \in Nat /\ b \in Nat
        BY <1>1, <1>3, <3>3, <3>4, NumbersOrder
      <4> QED BY <3>3, <4>1
    <3> QED BY <1>2, <3>1, <3>5, <3>6
  <2>5. x \in Copied(content, range)
    BY <2>3, <2>4, CopiedAre
  <2> QED BY <1>3, <1>5, <2>5
<1> QED BY <1>6, <1>7

(* A selection copies what was printed from its first character to its last.  *)
LEMMA SelectionIsCopied ==
    ASSUME NEW top, NEW p, NEW q, Selected(top, p, q)
    PROVE  SelectedText(content, RangeOf(p, q))
               = WasPrinted(CellAt(content, p).nr, CellAt(content, q).nr)
<1> DEFINE range == RangeOf(p, q)
           a == CellAt(content, p).nr
           b == CellAt(content, q).nr
           A == Copied(content, range)
           B == {<<0, n>> : n \in Copyable(a, b)}
           At(x) == PlaceOf(top, x)
           g == [x \in A |-> <<0, NumberAt(Lines, At(x))>>]
<1>1. Shown(top) /\ ScreenInv /\ top \in Nat /\ Height \in Nat /\ MaxCols \in Nat
  BY SelectedIs
<1>2. ASSUME NEW x \in A
      PROVE  /\ At(x) \in Places(Lines) /\ x \in (1..Height) \X (0..MaxCols)
             /\ NumberAt(Lines, At(x)) \in Copyable(a, b)
             /\ CharAt(Lines, At(x)) = IF x[2] = MaxCols THEN "nl" ELSE CellAt(content, x).ch
  BY CopiedIsCopyable
<1>3. ASSUME NEW n \in Copyable(a, b)
      PROVE  \E x \in A : At(x) \in Places(Lines) /\ NumberAt(Lines, At(x)) = n
  BY CopyableIsCopied
<1>4. Copyable(a, b) \subseteq Int
  BY DEF Copyable
<1> HIDE DEF range, a, b, A
<1>5. IsGrid(A) /\ IsFiniteSet(A)
  <2>1. A \in SUBSET ((1..Height) \X (0..MaxCols))
    BY <1>2
  <2>2. IsFiniteSet(1..Height) /\ IsFiniteSet(0..MaxCols)
    BY <1>1, FS_Interval
  <2>3. IsFiniteSet((1..Height) \X (0..MaxCols))
    BY <2>2, FS_Product
  <2>4. IsFiniteSet(A)
    BY <2>1, <2>3, FS_Subset
  <2>5. A \subseteq Int \X Int
    BY <1>1, <2>1
  <2> QED BY <2>4, <2>5 DEF IsGrid
<1>6. IsGrid(B)
  BY <1>4 DEF IsGrid
<1>7. IsInOrder(A, B, g)
  <2>1. g \in [A -> B]
    BY <1>2
  <2>2. ASSUME NEW y \in B PROVE \E x \in A : g[x] = y
    <3>1. PICK n \in Copyable(a, b) : y = <<0, n>>
      OBVIOUS
    <3>2. PICK x \in A : NumberAt(Lines, At(x)) = n
      BY <1>3
    <3> QED BY <3>1, <3>2
  <2>3. ASSUME NEW x \in A, NEW y \in A, Before(x, y) PROVE Before(g[x], g[y])
    <3>1. x \in Int \X Int /\ y \in Int \X Int
      BY <1>5 DEF IsGrid
    <3>2. Before(At(x), At(y))
      BY <1>1, <2>3, <3>1, PlacesInOrder
    <3>3. At(x) \in Places(Lines) /\ At(y) \in Places(Lines)
      BY <1>2
    <3> HIDE DEF At
    <3>4. NumberAt(Lines, At(x)) < NumberAt(Lines, At(y))
      BY <1>1, <3>2, <3>3, NumbersOrder
    <3> QED BY <3>4 DEF Before
  <2> QED BY <2>1, <2>2, <2>3 DEF IsInOrder
<1> DEFINE k == Cardinality(A)
           s == InOrder(A)
           t == InOrder(B)
<1>8. /\ DOMAIN s = 1..k /\ DOMAIN t = 1..k
      /\ \A i \in 1..k : s[i] \in A /\ t[i] = g[s[i]]
  <2> HIDE DEF g, B
  <2> QED BY <1>5, <1>6, <1>7, OrderedAlike
<1>9. SelectedText(content, range) = [i \in DOMAIN s |-> IF s[i][2] = MaxCols THEN "nl" ELSE CellAt(content, s[i]).ch]
  BY DEF SelectedText, A
<1>10. WasPrinted(a, b) = [i \in DOMAIN t |-> printed[t[i][2]]]
  BY DEF WasPrinted
<1>11. ASSUME NEW i \in 1..k
       PROVE  (IF s[i][2] = MaxCols THEN "nl" ELSE CellAt(content, s[i]).ch) = printed[t[i][2]]
  <2> DEFINE x == s[i]
  <2>1. x \in A /\ t[i] = g[x]
    BY <1>8
  <2> HIDE DEF s, t, k, x
  <2>2. t[i][2] = NumberAt(Lines, At(x))
    BY <2>1
  <2>3. At(x) \in Places(Lines) /\ CharAt(Lines, At(x)) = IF x[2] = MaxCols THEN "nl" ELSE CellAt(content, x).ch
    BY <1>2, <2>1
  <2> HIDE DEF At, g, B
  <2>4. printed[NumberAt(Lines, At(x))] = CharAt(Lines, At(x))
    BY <1>1, <2>3, LineFeedsAre
  <2>5. (IF x[2] = MaxCols THEN "nl" ELSE CellAt(content, x).ch) = printed[t[i][2]]
    BY <2>2, <2>3, <2>4
  <2> QED BY <2>5 DEF x
<1> HIDE DEF s, t, k
<1>12. SelectedText(content, range) = WasPrinted(a, b)
  BY <1>8, <1>9, <1>10, <1>11
<1> QED BY <1>12 DEF range, a, b

(* The word around a cell contains it.                                        *)
LEMMA WordContains ==
    ASSUME NEW top, Shown(top), NEW p \in Cells(content), NEW at,
           at[1] = p[1], at[2] \in Int, p[2] <= at[2], at[2] < EndOf(content, p)[2]
    PROVE  /\ WordAt(content, at).found
           /\ NoLater(WordAt(content, at).start, p)
           /\ NoLater(EndOf(content, p), WordAt(content, at).end)
<1> DEFINE c == content
           inRow == {q \in Cells(c) : q[1] = at[1]}
           under == {q \in inRow : q[2] <= at[2] /\ at[2] < EndOf(c, q)[2]}
           Solid(q, u) == \A k \in inRow : NoLater(q, k) /\ NoLater(k, u) => CellAt(c, k).ch # " "
           joined == {q \in inRow : \E u \in under : Solid(q, u) /\ Solid(u, q)}
           taken == IF \E u \in under : ~Solid(u, u) THEN under ELSE joined
           first == CHOOSE q \in taken : \A k \in taken : NoLater(q, k)
           final == CHOOSE q \in taken : \A k \in taken : NoLater(k, q)
           W == [start |-> first, end |-> EndOf(c, final), found |-> under # {}]
<1>1. WordAt(content, at) = W
  BY DEF WordAt
<1>2. p \in under /\ p \in taken /\ taken \subseteq inRow
  <2>1. p \in inRow
    OBVIOUS
  <2>2. p \in under
    BY <2>1
  <2> HIDE DEF Solid, under, inRow
  <2>3. p \in taken
    BY <2>1, <2>2
  <2>4. under \subseteq inRow /\ joined \subseteq inRow
    BY DEF under
  <2> QED BY <2>2, <2>3, <2>4
<1>3. ASSUME NEW q \in taken
      PROVE  q \in Cells(content) /\ q = <<p[1], q[2]>> /\ q[2] \in 0..(MaxCols - 1) /\ q[1] = p[1]
  <2>1. q \in Cells(content) /\ q[1] = p[1]
    BY <1>2
  <2> QED BY <2>1, CellsAre
<1>4. MaxCols \in Nat /\ p[1] \in Int
  <2>1. p[1] \in 1..Height
    BY CellsAre
  <2> QED BY <2>1, ScreenAssumption
<1> HIDE DEF taken
<1>5. ASSUME NEW q \in taken, NEW u \in taken PROVE NoLater(q, u) <=> q[2] <= u[2]
  <2>1. q = u <=> q[2] = u[2]
    BY <1>3, Zenon
  <2>2. q[1] = u[1] /\ q[1] \in Int /\ q[2] \in Int /\ u[2] \in Int
    BY <1>3, <1>4
  <2>3. Before(q, u) <=> q[2] < u[2]
    BY <2>2 DEF Before
  <2>4. (q = u \/ q[2] < u[2]) <=> q[2] <= u[2]
    BY <2>1, <2>2
  <2> QED BY <2>3, <2>4 DEF NoLater
<1>6. \E q \in taken : \A k \in taken : NoLater(q, k)
  <2> DEFINE T == {k[2] : k \in taken}
  <2>1. T \in SUBSET Nat /\ T # {}
    BY <1>2, <1>3
  <2> HIDE DEF T
  <2>2. PICK m \in T : \A n \in T : ~(n < m)
    BY <2>1, HasLeast
  <2>3. PICK q \in taken : m = q[2]
    BY DEF T
  <2>4. ASSUME NEW k \in taken PROVE NoLater(q, k)
    <3>1. ~(k[2] < q[2]) /\ k[2] \in Int /\ q[2] \in Int
      BY <1>3, <2>2, <2>3 DEF T
    <3> QED BY <1>5, <3>1
  <2> QED BY <2>4
<1>7. \E q \in taken : \A k \in taken : NoLater(k, q)
  <2> DEFINE T == {MaxCols - 1 - k[2] : k \in taken}
  <2>1. T \in SUBSET Nat /\ T # {}
    BY <1>2, <1>3, <1>4
  <2> HIDE DEF T
  <2>2. PICK m \in T : \A n \in T : ~(n < m)
    BY <2>1, HasLeast
  <2>3. PICK q \in taken : m = MaxCols - 1 - q[2]
    BY DEF T
  <2>4. ASSUME NEW k \in taken PROVE NoLater(k, q)
    <3>1. MaxCols - 1 - k[2] \in T
      BY DEF T
    <3>2. ~(MaxCols - 1 - k[2] < MaxCols - 1 - q[2]) /\ k[2] \in Int /\ q[2] \in Int
      BY <1>3, <2>2, <2>3, <3>1
    <3>3. k[2] <= q[2]
      BY <1>4, <3>2
    <3> QED BY <1>5, <3>3
  <2> QED BY <2>4
<1>8. NoLater(first, p)
  BY <1>2, <1>6
<1>9. final \in taken /\ NoLater(p, final)
  BY <1>2, <1>7
<1> HIDE DEF final, first, under, W
<1>10. NoLater(EndOf(content, p), EndOf(content, final))
  <2> DEFINE v == CellWidth(CellAt(content, p))
             w == CellWidth(CellAt(content, final))
  <2>1. EndOf(content, p) = <<p[1], p[2] + v>> /\ EndOf(content, final) = <<final[1], final[2] + w>>
    BY DEF EndOf
  <2>2. final \in Cells(content) /\ final[1] = p[1] /\ final[2] \in Int /\ p[2] \in Int /\ final = <<p[1], final[2]>>
        /\ p = <<p[1], p[2]>>
    BY <1>2, <1>3, <1>9
  <2>3. v \in 1..2 /\ w \in 1..2 /\ (v = 2 => ~(final[1] = p[1] /\ final[2] = p[2] + 1))
    BY <2>2, CellsAre
  <2>4. CASE p = final
    BY <2>4 DEF NoLater
  <2>5. CASE p # final
    <3> HIDE DEF v, w
    <3>1. p[2] < final[2]
      <4>1. p[2] <= final[2]
        BY <1>2, <1>5, <1>9
      <4>2. p[2] # final[2]
        BY <2>2, <2>5, Zenon
      <4> QED BY <2>2, <4>1, <4>2
    <3>2. p[2] + v < final[2] + w
      <4>1. v = 1 \/ v = 2
        BY <2>3
      <4>2. w = 1 \/ w = 2
        BY <2>3
      <4> QED BY <2>2, <2>3, <3>1, <4>1, <4>2
    <3> QED BY <2>1, <2>2, <3>2 DEF NoLater, Before
  <2> QED BY <2>4, <2>5
<1>11. W.found /\ W.start = first /\ W.end = EndOf(content, final)
  BY <1>2 DEF W
<1> QED BY <1>1, <1>8, <1>10, <1>11

(* A selection of words or of lines contains what was selected.               *)
LEMMA WiderContains ==
    ASSUME NEW top, NEW p, NEW q, Selected(top, p, q), NEW mode \in {"word", "line"}
    PROVE  /\ NoLater(Expanded(content, RangeOf(p, q), mode).start, p)
           /\ NoLater(EndOf(content, q), Expanded(content, RangeOf(p, q), mode).end)
<1> DEFINE range == RangeOf(p, q)
           w == CellWidth(CellAt(content, q))
           active == <<q[1], q[2] + w - 1>>
<1>1. /\ Shown(top) /\ Width \in Nat /\ p \in Cells(content) /\ q \in Cells(content)
      /\ p = <<p[1], p[2]>> /\ p[1] \in 1..Height /\ p[2] \in 0..(MaxCols - 1)
      /\ q = <<q[1], q[2]>> /\ q[1] \in 1..Height /\ q[2] \in 0..(MaxCols - 1)
  BY SelectedIs
<1>2. w \in 1..2 /\ q[2] + w <= Width
  BY <1>1, CellsAre
<1>3. range.start = p /\ range.end = EndOf(content, q) /\ EndOf(content, q) = <<q[1], q[2] + w>>
      /\ range.end[1] = q[1] /\ range.end[2] = q[2] + w
  BY DEF RangeOf, EndOf
<1> HIDE DEF range, w
<1>4. range.end[2] > 0
  BY <1>1, <1>2, <1>3
<1>5. CASE mode = "line"
  <2>1. Expanded(content, range, mode) = [start |-> <<p[1], 0>>, end |-> <<q[1], Width>>]
    <3>1. LineEndCol(content, q[1]) = Width
      BY <1>1, RowsAreWide
    <3>2. range.end[2] # 0 /\ range.start[1] = p[1]
      BY <1>1, <1>2, <1>3
    <3> QED BY <1>3, <1>5, <3>1, <3>2 DEF Expanded
  <2>2. NoLater(<<p[1], 0>>, p)
    BY <1>1 DEF NoLater, Before
  <2>3. NoLater(<<q[1], q[2] + w>>, <<q[1], Width>>)
    BY <1>1, <1>2 DEF NoLater, Before
  <2> QED BY <1>3, <2>1, <2>2, <2>3 DEF range
<1>6. CASE mode = "word"
  <2> DEFINE first == WordAt(content, p)
             final == WordAt(content, active)
  <2>1. first.found /\ NoLater(first.start, p)
    <3>1. p[2] < EndOf(content, p)[2]
      <4>1. CellWidth(CellAt(content, p)) \in 1..2 /\ EndOf(content, p)[2] = p[2] + CellWidth(CellAt(content, p))
        BY <1>1, CellsAre DEF EndOf
      <4> QED BY <1>1, <4>1
    <3>2. p[2] \in Int /\ p[2] <= p[2]
      BY <1>1
    <3> QED BY <1>1, <3>1, <3>2, WordContains
  <2>2. final.found /\ NoLater(EndOf(content, q), final.end)
    <3>1. active[1] = q[1] /\ active[2] \in Int /\ q[2] <= active[2] /\ active[2] < EndOf(content, q)[2]
      BY <1>1, <1>2, <1>3
    <3> HIDE DEF active
    <3> QED BY <1>1, <3>1, WordContains
  <2>3. Expanded(content, range, mode) = [start |-> first.start, end |-> final.end]
    <3> DEFINE act == IF range.end[2] > 0 THEN <<range.end[1], range.end[2] - 1>>
                      ELSE <<range.end[1] - 1, LineEndCol(content, range.end[1] - 1) - 1>>
    <3>1. act = active
      <4>1. range.end[2] - 1 = q[2] + w - 1
        BY <1>1, <1>2, <1>3
      <4> QED BY <1>3, <1>4, <4>1
    <3>2. Expanded(content, range, mode) =
              [start |-> IF WordAt(content, range.start).found THEN WordAt(content, range.start).start ELSE range.start,
               end |-> IF WordAt(content, act).found THEN WordAt(content, act).end ELSE range.end]
      BY <1>6 DEF Expanded
    <3> HIDE DEF act, active
    <3> QED BY <1>3, <2>1, <2>2, <3>1, <3>2 DEF active
  <2> QED BY <2>1, <2>2, <2>3 DEF range
<1> QED BY <1>5, <1>6

(* Whatever is selected between two characters on the screen is copied as it  *)
(* was printed, and a selection of words or of lines contains it, for every   *)
(* output, after any scrolling and resizing, even before the next sync, but   *)
(* for a selection of several rows wider than a screen narrowed since.        *)
(* (sync, resize, selected_text_for_selection, word_range_at.)                *)
THEOREM CopiesAsPrinted == ScreenSpec => []CopiesWhatWasPrinted
<1>1. ScreenInit => ScreenInv
  BY ScreenInvInit
<1>2. ScreenInv /\ [ScreenNext]_screenVars => ScreenInv'
  BY ScreenNextKeeps
<1>3. ScreenInv => CopiesWhatWasPrinted
  <2> SUFFICES ASSUME ScreenInv, NEW p \in Characters(content), NEW q \in Characters(content), NoLater(p, q),
                      p[1] = q[1] \/ Width <= cols
               PROVE  /\ SelectedText(content, RangeOf(p, q))
                             = WasPrinted(CellAt(content, p).nr, CellAt(content, q).nr)
                      /\ \A mode \in {"word", "line"} :
                            /\ NoLater(Expanded(content, RangeOf(p, q), mode).start, p)
                            /\ NoLater(EndOf(content, q), Expanded(content, RangeOf(p, q), mode).end)
    BY DEF CopiesWhatWasPrinted, CopiedAsPrinted, RangeOf, Width
  <2>1. PICK top \in Nat \ {0} : Shown(top)
    BY SomeTop
  <2>2. Selected(top, p, q)
    BY <2>1 DEF Selected
  <2> QED BY <2>2, SelectionIsCopied, WiderContains
<1> QED BY <1>1, <1>2, <1>3, PTL DEF ScreenSpec
==============================================================================
