---------------------------- MODULE TerminalFeed ----------------------------
(* What a terminal view (terminal_view.rs) feeds its terminal: the state that *)
(* an attach replays, what came on the handle's channel before the element    *)
(* had a size, and then batches of what comes. A handle is the number of the  *)
(* attach that made it; its chunks are numbered from 1, its replay is 0.      *)
EXTENDS Naturals, Sequences

CONSTANTS
    MaxHandles,  \* attaches (bound of the model)
    MaxChunks,   \* chunks of one handle (bound of the model)
    MaxBatch     \* chunks of one batch, 100 and one

ASSUME FeedAssumption == {MaxHandles, MaxChunks, MaxBatch} \subseteq Nat \ {0}

VARIABLES
    channels,   \* handle -> what is in its data channel
    sent,       \* handle -> the number of chunks that came on it
    bootstrap,  \* the handle that waits for the element's bounds, or 0
    sized,      \* the element's bounds are known
    drains,     \* the handle that data_drain_task reads, or 0
    batch,      \* what the task has taken and not fed yet
    shown       \* what the terminal on screen was fed, as <<handle, chunk>>

feedVars == <<channels, sent, bootstrap, sized, drains, batch, shown>>

Handles == 1..MaxHandles

FeedInit ==
    /\ channels = [h \in Handles |-> <<>>] /\ sent = [h \in Handles |-> 0]
    /\ bootstrap = 1 /\ sized = FALSE
    /\ drains = 0 /\ batch = <<>> /\ shown = <<>>

Newest == IF bootstrap # 0 THEN bootstrap ELSE drains

(* The connection's reader thread puts data into the handle's channel.        *)
Arrives(h) ==
    /\ h <= Newest /\ sent[h] < MaxChunks
    /\ sent' = [sent EXCEPT ![h] = @ + 1]
    /\ channels' = [channels EXCEPT ![h] = Append(@, <<h, sent[h] + 1>>)]
    /\ UNCHANGED <<bootstrap, sized, drains, batch, shown>>

(* The task of the former handle ends with its batch.                         *)
FormerBatchKept == batch  \* (a slip: the former task goes on)
FormerBatchDropped == <<>>

(* initialize_attached_terminal: a new terminal is fed the replay and what is *)
(* there, and a new task drains the channel from then on.                     *)
InitializeAttached(h) ==
    /\ shown' = <<<<h, 0>>>> \o channels[h]
    /\ channels' = [channels EXCEPT ![h] = <<>>]
    /\ drains' = h /\ batch' = FormerBatchDropped
    /\ bootstrap' = 0

AttachSession ==
    /\ Newest < MaxHandles
    /\ IF sized THEN InitializeAttached(Newest + 1)
       ELSE bootstrap' = Newest + 1 /\ UNCHANGED <<channels, drains, batch, shown>>
    /\ UNCHANGED <<sent, sized>>

(* on_bounds_changed, and an element that is laid out with no room.           *)
BootstrapFromBounds ==
    /\ ~sized /\ sized' = TRUE
    /\ IF bootstrap # 0 THEN InitializeAttached(bootstrap)
       ELSE UNCHANGED <<channels, bootstrap, drains, batch, shown>>
    /\ UNCHANGED sent

LosesRoom == sized /\ sized' = FALSE
             /\ UNCHANGED <<channels, sent, bootstrap, drains, batch, shown>>

(* The drain task: a first chunk opens a window, more join until it closes.   *)
Takes ==
    /\ drains # 0 /\ channels[drains] # <<>> /\ Len(batch) < MaxBatch
    /\ batch' = Append(batch, Head(channels[drains]))
    /\ channels' = [channels EXCEPT ![drains] = Tail(@)]
    /\ UNCHANGED <<sent, bootstrap, sized, drains, shown>>

Feeds ==
    /\ batch # <<>>
    /\ shown' = shown \o batch
    /\ batch' = <<>>
    /\ UNCHANGED <<channels, sent, bootstrap, sized, drains>>

FeedNext ==
    \/ \E h \in Handles : Arrives(h)
    \/ AttachSession \/ BootstrapFromBounds \/ LosesRoom \/ Takes \/ Feeds

FeedSpec == FeedInit /\ [][FeedNext]_feedVars

------------------------------------------------------------------------------
(* The terminal on screen shows one attach from its replay on: every chunk    *)
(* that came on its handle, in order and once, whether it came before the     *)
(* element had a size, in the window of a batch, or across another attach.    *)
ShowsOneAttachInOrder ==
    drains # 0 =>
        shown \o batch \o channels[drains] =
            [i \in 1..(sent[drains] + 1) |-> <<drains, i - 1>>]
==============================================================================
