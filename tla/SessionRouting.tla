--------------------------- MODULE SessionRouting ---------------------------
(* A connection between the app and the daemon, for one session.  On the      *)
(* daemon's side (server.rs, session.rs): the loop that serves the app's      *)
(* commands and holds an answer until it gets the socket, the bounded channel *)
(* into which the session's output is tried, and the task that writes that    *)
(* channel to the same socket.  On the app's side (daemon_client.rs): calls   *)
(* of create_or_attach with their timeout, the maps by session id, and the    *)
(* reader thread that routes every frame by them.  Output is numbered from 1. *)
EXTENDS Naturals, Sequences

CONSTANTS
    Calls,          \* calls of create_or_attach, one handle each
    Capacity,       \* APP_SESSION_DATA_CHANNEL_CAPACITY
    ClientCapacity, \* CLIENT_EVENT_CHANNEL_CAPACITY
    StallLimit,     \* CLIENT_STALL_DISCONNECT_THRESHOLD
    MaxOutput,      \* chunks of output (bound of the model)
    MaxExits        \* shells that exit and are spawned again (bound of the model)

VARIABLES
    phase,        \* call -> "idle", "waiting", "refused" (an error is there for
                  \* it), "attached", "failed", "dropped", "left" (detached)
    sender,       \* session_senders: the call whose channel gets the data
    pending,      \* pending_requests: the call that waits for the answer
    data,         \* call -> what is in its data channel
    read,         \* call -> what its view has read (history)
    replay,       \* call -> the output before its answer, 0 for none
    commands,     \* commands on their way to the daemon
    shellLives,   \* the session is there, and Alive
    attached,     \* the connection is among its attached_clients
    missed,       \* consecutive_drops of that client
    clientEvents, \* the connection's channel of events, with the one that its
                  \* writer task has taken
    heldAnswer,   \* the answer that waits for the socket's lock, or none
    frames,       \* the socket: frames on their way to the app
    output,       \* chunks the session has written
    exits,        \* shells that have exited
    servedAt,     \* call -> the output at which the daemon attached it (history)
    unsent        \* the chunks that were put into no channel (history)

appVars == <<phase, sender, pending, data, read, replay>>
daemonVars == <<shellLives, attached, missed, output, exits, servedAt, unsent>>
wireVars == <<commands, clientEvents, heldAnswer, frames>>
routeVars == <<appVars, daemonVars, wireVars>>

Nobody == "nobody"

ASSUME RoutingAssumption ==
    /\ {Capacity, ClientCapacity, StallLimit, MaxOutput, MaxExits} \subseteq Nat
    /\ Nobody \notin Calls

RoutingInit ==
    /\ phase = [c \in Calls |-> "idle"]
    /\ sender = Nobody /\ pending = Nobody
    /\ data = [c \in Calls |-> <<>>] /\ read = [c \in Calls |-> <<>>]
    /\ replay = [c \in Calls |-> 0]
    /\ commands = <<>> /\ clientEvents = <<>> /\ heldAnswer = <<>> /\ frames = <<>>
    /\ shellLives \in BOOLEAN /\ attached = FALSE /\ missed = 0
    /\ output = 0 /\ exits = 0
    /\ servedAt = [c \in Calls |-> {}] /\ unsent = {}

------------------------------------------------------------------------------
(* create_or_attach up to its wait: the data channel is registered before the *)
(* request is sent, and takes the place of an earlier one.  A window that has *)
(* detached its sessions is closing, and attaches to none again.              *)
CreateOrAttach(c) ==
    /\ phase[c] = "idle" /\ \A d \in Calls : phase[d] # "left"
    /\ phase' = [phase EXCEPT ![c] = "waiting"]
    /\ sender' = c /\ pending' = c
    /\ commands' = Append(commands, [type |-> "CreateOrAttach", call |-> c])
    /\ UNCHANGED <<data, read, replay, clientEvents, heldAnswer, frames, daemonVars>>

(* recv_timeout gives up, and leaves both maps as they are. A call whose      *)
(* place in pending_requests was taken ends this way at once.                 *)
TimesOut(c) ==
    /\ phase[c] = "waiting"
    /\ phase' = [phase EXCEPT ![c] = "failed"]
    /\ UNCHANGED <<sender, pending, data, read, replay, wireVars, daemonVars>>

(* detach and kill: the command is queued, then the sender is removed.        *)
Leave(c, how) ==
    /\ phase[c] = "attached"
    /\ phase' = [phase EXCEPT ![c] = IF how = "Detach" THEN "left" ELSE "dropped"]
    /\ commands' = Append(commands, [type |-> how, call |-> c])
    /\ sender' = Nobody
    /\ UNCHANGED <<pending, data, read, replay, clientEvents, heldAnswer, frames, daemonVars>>

(* The view is dropped with its handle, without a word to the daemon.         *)
DropHandle(c) ==
    /\ phase[c] = "attached"
    /\ phase' = [phase EXCEPT ![c] = "dropped"]
    /\ UNCHANGED <<sender, pending, data, read, replay, wireVars, daemonVars>>

ViewReads(c) ==
    /\ phase[c] = "attached" /\ data[c] # <<>>
    /\ read' = [read EXCEPT ![c] = Append(@, Head(data[c]))]
    /\ data' = [data EXCEPT ![c] = Tail(@)]
    /\ UNCHANGED <<phase, sender, pending, replay, wireVars, daemonVars>>

------------------------------------------------------------------------------
(* client_read_loop serves one command after another, and none while it has   *)
(* an answer to send.  An attach, to a living session or to one it spawns,    *)
(* takes the place of the clients there were; a spawn may fail.  A kill only  *)
(* starts the escalation: the shell's exit follows.                           *)
ServesAttach(c) ==
    \/ /\ shellLives' = TRUE
       /\ attached' = TRUE /\ missed' = 0
       /\ servedAt' = [servedAt EXCEPT ![c] = {output}]
       /\ heldAnswer' = <<[type |-> "SessionAttached", n |-> output]>>
    \/ /\ ~shellLives
       /\ heldAnswer' = <<[type |-> "Error", n |-> output]>>
       /\ UNCHANGED <<shellLives, attached, missed, servedAt>>

ServesDetach ==
    /\ attached' = FALSE
    /\ UNCHANGED <<shellLives, missed, servedAt, heldAnswer>>

DaemonServes ==
    /\ commands # <<>> /\ heldAnswer = <<>>
    /\ commands' = Tail(commands)
    /\ \/ Head(commands).type = "CreateOrAttach" /\ ServesAttach(Head(commands).call)
       \/ Head(commands).type = "Detach" /\ ServesDetach
       \/ /\ Head(commands).type = "Kill"
          /\ UNCHANGED <<shellLives, attached, missed, servedAt, heldAnswer>>
    /\ UNCHANGED <<appVars, clientEvents, frames, output, exits, unsent>>

(* The read loop and the writer task take the socket's lock in any order.     *)
LoopSends ==
    /\ heldAnswer # <<>>
    /\ frames' = frames \o heldAnswer
    /\ heldAnswer' = <<>>
    /\ UNCHANGED <<appVars, daemonVars, commands, clientEvents>>

WriterSends ==
    /\ clientEvents # <<>>
    /\ frames' = Append(frames, Head(clientEvents))
    /\ clientEvents' = Tail(clientEvents)
    /\ UNCHANGED <<appVars, daemonVars, commands, heldAnswer>>

------------------------------------------------------------------------------
(* on_pty_data tries the client's channel.  A chunk that finds it full is     *)
(* dropped, and with more than StallLimit of them in a row the client is, too.*)
Room == Len(clientEvents) < ClientCapacity
PutsEvent(type, n) == clientEvents' = Append(clientEvents, [type |-> type, n |-> n])

StalledNever(drops) == FALSE  \* (a slip: the client is kept however much it misses)
Stalled(drops) == drops > StallLimit

ShellWrites ==
    /\ shellLives /\ output < MaxOutput
    /\ output' = output + 1
    /\ IF attached /\ Room
       THEN PutsEvent("Data", output + 1) /\ missed' = 0 /\ UNCHANGED <<attached, unsent>>
       ELSE /\ unsent' = unsent \cup {output + 1}
            /\ missed' = IF attached THEN missed + 1 ELSE missed
            /\ attached' = (attached /\ ~Stalled(missed + 1))
            /\ UNCHANGED clientEvents
    /\ UNCHANGED <<appVars, commands, heldAnswer, frames, shellLives, exits, servedAt>>

(* on_exit: the client is told if its channel has room, and is let go.        *)
ShellExits ==
    /\ shellLives /\ exits < MaxExits
    /\ exits' = exits + 1
    /\ shellLives' = FALSE /\ attached' = FALSE
    /\ IF attached /\ Room THEN PutsEvent("Exit", output) ELSE UNCHANGED clientEvents
    /\ UNCHANGED <<appVars, commands, heldAnswer, frames, missed, output, servedAt, unsent>>

------------------------------------------------------------------------------
(* reader_loop, frame by frame. A receiver that is gone or full loses its     *)
(* sender and not only the chunk.                                             *)
Frame == Head(frames)
Routes(type) ==
    /\ frames # <<>> /\ Frame.type = type
    /\ frames' = Tail(frames)
    /\ UNCHANGED <<commands, clientEvents, heldAnswer, daemonVars>>
Closed(c) == phase[c] \in {"failed", "dropped", "left"}

AfterFailedSendKept(c) == sender  \* (a slip: only the chunk is dropped)
AfterFailedSend(c) == IF sender = c THEN Nobody ELSE sender

OnData ==
    /\ Routes("Data")
    /\ IF sender = Nobody THEN UNCHANGED <<data, sender>>
       ELSE IF Closed(sender) \/ Len(data[sender]) >= Capacity
       THEN sender' = AfterFailedSend(sender) /\ UNCHANGED data
       ELSE data' = [data EXCEPT ![sender] = Append(@, Frame.n)] /\ UNCHANGED sender
    /\ UNCHANGED <<phase, pending, read, replay>>

OnExit ==
    /\ Routes("Exit")
    /\ sender' = Nobody
    /\ UNCHANGED <<phase, pending, data, read, replay>>

(* The answer goes to whoever is pending for the session.                     *)
OnAnswer ==
    /\ Routes("SessionAttached") \/ Routes("Error")
    /\ pending' = Nobody
    /\ IF pending # Nobody /\ phase[pending] = "waiting"
       THEN /\ phase' = [phase EXCEPT ![pending] =
                             IF Frame.type = "Error" THEN "refused" ELSE "attached"]
            /\ replay' = [replay EXCEPT ![pending] = Frame.n]
       ELSE UNCHANGED <<phase, replay>>
    /\ UNCHANGED <<sender, data, read>>

(* The caller wakes to an error, and removes the session's sender.            *)
Refused(c) ==
    /\ phase[c] = "refused"
    /\ phase' = [phase EXCEPT ![c] = "failed"]
    /\ sender' = Nobody
    /\ UNCHANGED <<pending, data, read, replay, wireVars, daemonVars>>

RoutingNext ==
    \/ \E c \in Calls : CreateOrAttach(c) \/ TimesOut(c) \/ DropHandle(c) \/ ViewReads(c) \/ Refused(c)
    \/ \E c \in Calls, how \in {"Detach", "Kill"} : Leave(c, how)
    \/ DaemonServes \/ LoopSends \/ WriterSends \/ ShellWrites \/ ShellExits
    \/ OnData \/ OnExit \/ OnAnswer

RoutingSpec == RoutingInit /\ [][RoutingNext]_routeVars

------------------------------------------------------------------------------
Got(c) == read[c] \o data[c]
Has(c, n) == \E i \in 1..Len(Got(c)) : Got(c)[i] = n

(* The call was given the answer of its own request.                          *)
OwnAnswer(c) == phase[c] = "attached" /\ servedAt[c] = {replay[c]}

(* The chunks that a view is given come in order and once, and what is        *)
(* missing between its answer and one of them is what the daemon dropped for  *)
(* a full channel: stalls of the app, stale senders, exits, frames of an      *)
(* earlier attach and the race of answer and data leave no other gap.         *)
OnlyDroppedIsMissing ==
    \A c \in Calls : OwnAnswer(c) =>
        /\ \A i, j \in 1..Len(Got(c)) : i < j => Got(c)[i] < Got(c)[j]
        /\ \A i \in 1..Len(Got(c)) : \A n \in (replay[c] + 1)..(Got(c)[i] - 1) :
               Has(c, n) \/ n \in unsent

(* A gap in a view is short: a client that misses more than StallLimit chunks *)
(* in a row is let go, so after as many the view is given no more.            *)
GapsAreShort ==
    \A c \in Calls : OwnAnswer(c) =>
        \A i \in 1..Len(Got(c)) : \A n \in replay[c]..(Got(c)[i] - 1) :
            n + StallLimit < Got(c)[i] - 1 => \E m \in (n + 1)..(n + StallLimit + 1) : Has(c, m)

------------------------------------------------------------------------------
(* Disproved: chunks are missing that the daemon did send when a late answer  *)
(* to a call that has timed out is given to the next call for the session     *)
(* (daemon_client.rs:666), and the chunks after it to the earlier one.        *)
EveryAnswerGoesOn ==
    \A c \in Calls : phase[c] = "attached" =>
        \A i \in 1..Len(Got(c)) : \A n \in (replay[c] + 1)..(Got(c)[i] - 1) :
            Has(c, n) \/ n \in unsent

(* Disproved: a view starts where its replay ends ("restore"), so that        *)
(* nothing is shown twice.                                                    *)
NothingShownTwice ==
    \A c \in Calls : phase[c] = "attached" /\ Got(c) # <<>> => Got(c)[1] > replay[c]

==============================================================================
