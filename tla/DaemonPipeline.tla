--------------------------- MODULE DaemonPipeline ---------------------------
(***************************************************************************)
(* How terminal output travels from the shells to the clients of           *)
(* seoul-daemon, and what every hop waits for: the PTY reader threads and  *)
(* their bounded event channels (session.rs), the maintenance task that    *)
(* drains them under the host lock (server.rs, host.rs), the bounded       *)
(* channel of each connection, its writer task and its read loop, which    *)
(* share the socket behind a lock of its own (server.rs).                  *)
(*                                                                         *)
(* Unlike TerminalHost, which takes a hold of the host lock for one step,  *)
(* this module follows the waiting: a step is what runs between two awaits.*)
(* A frame goes into the socket in two parts, since write_all of a frame   *)
(* may park between any two bytes of it.                                   *)
(***************************************************************************)
EXTENDS Integers, Sequences, FiniteSets

CONSTANTS
  Conn, Session,
  EventCap,    \* SESSION_EVENT_CHANNEL_CAPACITY
  ClientCap,   \* CLIENT_EVENT_CHANNEL_CAPACITY
  PtyCap,      \* PTY_WRITER_CHANNEL_CAPACITY
  SockCap,     \* the kernel's socket buffer, in parts of frames
  StallLimit,  \* CLIENT_STALL_DISCONNECT_THRESHOLD
  MaxChunk,    \* bound: chunks of output of a session; the next event is its exit
  MaxReq       \* bound: requests of a connection

Free == "free"

ASSUME PipelineAssumption ==
  /\ {EventCap, ClientCap, PtyCap, SockCap, MaxChunk, MaxReq} \subseteq Nat \ {0}
  /\ StallLimit \in Nat
  /\ Conn \cap {Free, "tick"} = {}    \* nobody is taken for somebody else

\* Event n of a session: chunk n of its output, or its exit.
EventNo == 1 .. MaxChunk + 1
IsExit(n) == n = MaxChunk + 1

Frame == [kind : {"event", "reply"}, sid : Session, n : EventNo \cup {0}]
Part  == [frame : Frame, half : {1, 2}]

VARIABLES
  hostLock,   \* Arc<Mutex<TerminalHost>>: free, or who holds it
  made,       \* events the reader thread of each session has sent
  events,     \* the event channel of each session
  pulled,     \* the events drain_broadcast has taken from the session it is at
  draining,   \* the sessions it has not come to yet, and the one it is at
  handled,    \* the last event of each session it has handled
  attached,   \* attached_clients of each session
  drops,      \* consecutive_drops of each client handle
  chan,       \* the event channel of each connection
  wtask,      \* the writer task of each connection
  sockLock,   \* Arc<Mutex<OwnedWriteHalf>> of each connection
  sock,       \* the socket, daemon to client
  seen,       \* the first half of the frame the client is in the middle of
  last,       \* the last event of each session the client has read
  loop,       \* the read loop of each connection
  ptyQueue,   \* number of inputs queued for the PTY writer of each session
  asked, open

vars == <<hostLock, made, events, pulled, draining, handled, attached, drops, chan,
          wtask, sockLock, sock, seen, last, loop, ptyQueue, asked, open>>

host == <<made, events, pulled, draining, handled>>
conns == <<chan, wtask, sockLock, sock, seen, last, loop, asked, open>>

Idle  == [op |-> "none", sid |-> "none", at |-> "idle"]
Ended == [op |-> "none", sid |-> "none", at |-> "ended"]
NoDrain == [left |-> {}, cur |-> "none", stage |-> "pull"]

TypeOK ==
  /\ hostLock \in {Free, "tick"} \cup Conn
  /\ made \in [Session -> 0 .. MaxChunk + 1]
  /\ \A s \in Session :
       /\ events[s] \in Seq(EventNo) /\ Len(events[s]) <= EventCap
       /\ attached[s] \subseteq Conn
       /\ drops[s] \in [Conn -> 0 .. StallLimit]
       /\ ptyQueue[s] \in 0 .. PtyCap
  /\ pulled \in Seq(EventNo)
  /\ draining.left \subseteq Session /\ draining.cur \in Session \cup {"none"}
  /\ draining.stage \in {"pull", "handle"}
  /\ \A c \in Conn :
       /\ chan[c] \in Seq(Frame) /\ Len(chan[c]) <= ClientCap
       /\ wtask[c].at \in {"idle", "lock", "first", "second", "ended"}
       /\ sockLock[c] \in {Free, "writer", "loop"}
       /\ sock[c] \in Seq(Part) /\ Len(sock[c]) <= SockCap
       /\ loop[c].at \in {"idle", "host", "socket", "first", "second", "pty", "ended"}
       /\ loop[c].op \in {"none", "attach", "detach", "list", "ping", "write"}
       /\ asked[c] \in 0 .. MaxReq
  /\ open \subseteq Conn

Init ==
  /\ hostLock = Free
  /\ made = [s \in Session |-> 0]
  /\ events = [s \in Session |-> <<>>]
  /\ pulled = <<>>
  /\ draining = NoDrain
  /\ handled = [s \in Session |-> 0]
  /\ attached = [s \in Session |-> {}]
  /\ drops = [s \in Session |-> [c \in Conn |-> 0]]
  /\ chan = [c \in Conn |-> <<>>]
  /\ wtask = [c \in Conn |-> [at |-> "idle", frame |-> <<>>]]
  /\ sockLock = [c \in Conn |-> Free]
  /\ sock = [c \in Conn |-> <<>>]
  /\ seen = [c \in Conn |-> <<>>]
  /\ last = [c \in Conn |-> [s \in Session |-> 0]]
  /\ loop = [c \in Conn |-> Idle]
  /\ ptyQueue = [s \in Session |-> 0]
  /\ asked = [c \in Conn |-> 0]
  /\ open = Conn

-----------------------------------------------------------------------------
(* The PTY of a session *)

\* pty_reader_loop: blocking_send parks the thread while the channel is full.
ReaderSends(s) ==
  /\ made[s] <= MaxChunk
  /\ Len(events[s]) < EventCap
  /\ made' = [made EXCEPT ![s] = @ + 1]
  /\ events' = [events EXCEPT ![s] = Append(@, made[s] + 1)]
  /\ UNCHANGED <<hostLock, pulled, draining, handled, attached, drops, ptyQueue, conns>>

\* pty_writer_loop takes what is queued when the shell reads its input.
ShellReads(s) ==
  /\ ptyQueue[s] > 0
  /\ ptyQueue' = [ptyQueue EXCEPT ![s] = 0]
  /\ UNCHANGED <<hostLock, host, attached, drops, conns>>

-----------------------------------------------------------------------------
(* The maintenance task: try_lock, drain_broadcast, unlock *)

\* Mutant: sessions nobody watches are left for later.
TickStartsIfWatched ==
  /\ hostLock = Free
  /\ \E s \in Session : events[s] # <<>> /\ attached[s] # {}
  /\ hostLock' = "tick"
  /\ draining' = [NoDrain EXCEPT !.left = Session]
  /\ UNCHANGED <<made, events, pulled, handled, attached, drops, ptyQueue, conns>>

TickStarts ==
  /\ hostLock = Free
  /\ \E s \in Session : events[s] # <<>>     \* a drain of nothing changes nothing
  /\ hostLock' = "tick"
  /\ draining' = [NoDrain EXCEPT !.left = Session]
  /\ UNCHANGED <<made, events, pulled, handled, attached, drops, ptyQueue, conns>>

NextSession ==
  /\ hostLock = "tick" /\ draining.cur = "none"
  /\ \E s \in draining.left :
       draining' = [left |-> draining.left \ {s}, cur |-> s, stage |-> "pull"]
  /\ UNCHANGED <<hostLock, made, events, pulled, handled, attached, drops, ptyQueue, conns>>

\* Mutant: the events are collected as on a stack.
PullReversed ==
  LET s == draining.cur IN
  /\ s # "none" /\ draining.stage = "pull"
  /\ IF events[s] # <<>>
     THEN /\ pulled' = <<Head(events[s])>> \o pulled
          /\ events' = [events EXCEPT ![s] = Tail(@)]
          /\ UNCHANGED draining
     ELSE /\ draining' = [draining EXCEPT !.stage = "handle"]
          /\ UNCHANGED <<pulled, events>>
  /\ UNCHANGED <<hostLock, made, handled, attached, drops, ptyQueue, conns>>

\* The events of a session are pulled until try_recv finds its channel empty: a
\* reader that waits for room sends again as soon as one is taken.
Pull ==
  LET s == draining.cur IN
  /\ s # "none" /\ draining.stage = "pull"
  /\ IF events[s] # <<>>
     THEN /\ pulled' = Append(pulled, Head(events[s]))
          /\ events' = [events EXCEPT ![s] = Tail(@)]
          /\ UNCHANGED draining
     ELSE /\ draining' = [draining EXCEPT !.stage = "handle"]
          /\ UNCHANGED <<pulled, events>>
  /\ UNCHANGED <<hostLock, made, handled, attached, drops, ptyQueue, conns>>

EventFrame(s, n) == [kind |-> "event", sid |-> s, n |-> n]

\* The channel of a connection whose writer task has ended is closed.
Closed(c) == wtask[c].at = "ended"
NeverFull(c) == FALSE    \* mutant: an unbounded channel
Full(c)   == Len(chan[c]) = ClientCap

\* The clients that lose a chunk too many, or are gone, are dropped by on_pty_data.
Leaves(c, s) == Closed(c) \/ (Full(c) /\ drops[s][c] = StallLimit)

\* on_pty_data and on_exit: try_send to every attached client, of which there is
\* never more than one.
Handle ==
  LET s == draining.cur
      n == Head(pulled)
      takes(c) == c \in attached[s] /\ ~Closed(c) /\ ~Full(c)
  IN
  /\ s # "none" /\ draining.stage = "handle" /\ pulled # <<>>
  /\ pulled' = Tail(pulled)
  /\ handled' = [handled EXCEPT ![s] = n]
  /\ chan' = [c \in Conn |-> IF takes(c) THEN Append(chan[c], EventFrame(s, n)) ELSE chan[c]]
  /\ attached' = [attached EXCEPT
       ![s] = IF IsExit(n) THEN {} ELSE {c \in @ : ~Leaves(c, s)}]
  /\ drops' = [drops EXCEPT ![s] = [c \in Conn |->
       IF c \notin attached'[s] \/ takes(c) THEN 0 ELSE @[c] + 1]]
  /\ UNCHANGED <<hostLock, made, events, draining, ptyQueue, wtask, sockLock, sock, seen,
                 last, loop, asked, open>>

SessionDrained ==
  /\ draining.cur # "none" /\ draining.stage = "handle" /\ pulled = <<>>
  /\ draining' = [draining EXCEPT !.cur = "none"]
  /\ UNCHANGED <<hostLock, made, events, pulled, handled, attached, drops, ptyQueue, conns>>

TickEnds ==
  /\ hostLock = "tick" /\ draining.left = {} /\ draining.cur = "none"
  /\ hostLock' = Free
  /\ UNCHANGED <<host, attached, drops, ptyQueue, conns>>

Tick == TickStarts \/ NextSession \/ Pull \/ Handle \/ SessionDrained \/ TickEnds

-----------------------------------------------------------------------------
(* The socket *)

\* write_all puts the next half of a frame where there is room.
Puts(c, frame, half) ==
  /\ c \in open
  /\ Len(sock[c]) < SockCap
  /\ sock' = [sock EXCEPT ![c] = Append(@, [frame |-> frame, half |-> half])]

ClientReads(c) ==
  LET p == Head(sock[c]) IN
  /\ c \in open /\ sock[c] # <<>>
  /\ sock' = [sock EXCEPT ![c] = Tail(@)]
  /\ seen' = [seen EXCEPT ![c] = IF p.half = 1 THEN <<p>> ELSE <<>>]
  /\ last' = IF p.frame.kind = "event" THEN [last EXCEPT ![c][p.frame.sid] = p.frame.n]
             ELSE last
  /\ UNCHANGED <<hostLock, host, attached, drops, ptyQueue, chan, wtask, sockLock, loop,
                 asked, open>>

\* The app quits or its connection breaks; what was sent to it is lost.
ClientCloses(c) ==
  /\ c \in open
  /\ open' = open \ {c}
  /\ sock' = [sock EXCEPT ![c] = <<>>]
  /\ UNCHANGED <<hostLock, host, attached, drops, ptyQueue, chan, wtask, sockLock, seen,
                 last, loop, asked>>

-----------------------------------------------------------------------------
(* The writer task of a connection *)

writerElse == <<hostLock, host, attached, drops, ptyQueue, seen, last, loop, asked, open>>

WriterTakes(c) ==
  /\ wtask[c].at = "idle" /\ chan[c] # <<>>
  /\ wtask' = [wtask EXCEPT ![c] = [at |-> "lock", frame |-> Head(chan[c])]]
  /\ chan' = [chan EXCEPT ![c] = Tail(@)]
  /\ UNCHANGED <<writerElse, sockLock, sock>>

WriterLocks(c) ==
  /\ wtask[c].at = "lock" /\ sockLock[c] = Free
  /\ sockLock' = [sockLock EXCEPT ![c] = "writer"]
  /\ wtask' = [wtask EXCEPT ![c].at = "first"]
  /\ UNCHANGED <<writerElse, chan, sock>>

WriterSends(c) ==
  /\ \/ /\ wtask[c].at = "first"
        /\ Puts(c, wtask[c].frame, 1)
        /\ wtask' = [wtask EXCEPT ![c].at = "second"]
        /\ UNCHANGED sockLock
     \/ /\ wtask[c].at = "second"
        /\ Puts(c, wtask[c].frame, 2)
        /\ wtask' = [wtask EXCEPT ![c] = [at |-> "idle", frame |-> <<>>]]
        /\ sockLock' = [sockLock EXCEPT ![c] = Free]
  /\ UNCHANGED <<writerElse, chan>>

WriterEnded(c) == [wtask EXCEPT ![c] = [at |-> "ended", frame |-> <<>>]]

\* Mutant: the socket stays locked by a writer task that has ended.
WriterFailsLocked(c) ==
  /\ wtask[c].at \in {"first", "second"} /\ c \notin open
  /\ wtask' = WriterEnded(c)
  /\ chan' = [chan EXCEPT ![c] = <<>>]
  /\ UNCHANGED <<writerElse, sock, sockLock>>

\* send_frame returns Err: the task ends, and its receiver with it.
WriterFails(c) ==
  /\ wtask[c].at \in {"first", "second"} /\ c \notin open
  /\ wtask' = WriterEnded(c)
  /\ chan' = [chan EXCEPT ![c] = <<>>]
  /\ sockLock' = [sockLock EXCEPT ![c] = Free]
  /\ UNCHANGED <<writerElse, sock>>

-----------------------------------------------------------------------------
(* The read loop of a connection: one request at a time *)

\* The request is read from the socket.  A Write for a session it has a handle of
\* goes to the PTY queue without a lock, a Ping needs the socket only.
Asks(c) ==
  /\ loop[c].at = "idle" /\ c \in open /\ asked[c] < MaxReq
  /\ asked' = [asked EXCEPT ![c] = @ + 1]
  /\ \E s \in Session :
     \E r \in {[op |-> "attach", sid |-> s, at |-> "host"],
               [op |-> "detach", sid |-> s, at |-> "host"],
               [op |-> "list",   sid |-> s, at |-> "host"],
               [op |-> "ping",   sid |-> s, at |-> "socket"],
               [op |-> "write",  sid |-> s, at |-> "pty"]} :
       loop' = [loop EXCEPT ![c] = r]
  /\ UNCHANGED <<hostLock, host, attached, drops, ptyQueue, chan, wtask, sockLock, sock,
                 seen, last, open>>

\* CreateOrAttach (on an Alive session), Detach and the like are done with the
\* host when they come to wait for anything else.  Exited sessions: TerminalHost.
HostServes(c) ==
  LET s == loop[c].sid IN
  /\ loop[c].at = "host" /\ hostLock = Free
  /\ \/ /\ loop[c].op = "attach"
        /\ IF ~IsExit(handled[s])
           THEN /\ attached' = [attached EXCEPT ![s] = {c}]
                /\ drops' = [drops EXCEPT ![s] = [d \in Conn |-> 0]]
           ELSE UNCHANGED <<attached, drops>>
        /\ loop' = [loop EXCEPT ![c].at = "socket"]
     \/ /\ loop[c].op = "detach"
        /\ attached' = [attached EXCEPT ![s] = @ \ {c}]
        /\ drops' = [drops EXCEPT ![s][c] = 0]
        /\ loop' = [loop EXCEPT ![c] = Idle]
  /\ UNCHANGED <<hostLock, host, ptyQueue, chan, wtask, sockLock, sock, seen, last, asked,
                 open>>

\* ListSessions, GetResourceSnapshot and Resize keep the host lock until their
\* answer has gone out.
HostHeld(c) ==
  /\ loop[c].at = "host" /\ loop[c].op = "list" /\ hostLock = Free
  /\ hostLock' = c
  /\ loop' = [loop EXCEPT ![c].at = "socket"]
  /\ UNCHANGED <<host, attached, drops, ptyQueue, chan, wtask, sockLock, sock, seen, last,
                 asked, open>>

\* Mutant: an answer goes out without the socket's lock.
LoopBarges(c) ==
  /\ loop[c].at = "socket"
  /\ loop' = [loop EXCEPT ![c].at = "first"]
  /\ UNCHANGED <<hostLock, sockLock, host, attached, drops, ptyQueue, chan, wtask, sock,
                 seen, last, asked, open>>

LoopLocks(c) ==
  /\ loop[c].at = "socket" /\ sockLock[c] = Free
  /\ sockLock' = [sockLock EXCEPT ![c] = "loop"]
  /\ loop' = [loop EXCEPT ![c].at = "first"]
  /\ UNCHANGED <<hostLock, host, attached, drops, ptyQueue, chan, wtask, sock, seen, last,
                 asked, open>>

\* Mutant: the host guard outlives the request.
UnlockedSocketOnly(c) ==
  /\ sockLock' = [sockLock EXCEPT ![c] = Free]
  /\ UNCHANGED hostLock

Unlocked(c) ==  \* the guards of the request go out of scope
  /\ sockLock' = [sockLock EXCEPT ![c] = Free]
  /\ hostLock' = IF hostLock = c THEN Free ELSE hostLock

Reply(c) == [kind |-> "reply", sid |-> loop[c].sid, n |-> 0]

LoopSends(c) ==
  /\ \/ /\ loop[c].at = "first"
        /\ Puts(c, Reply(c), 1)
        /\ loop' = [loop EXCEPT ![c].at = "second"]
        /\ UNCHANGED <<sockLock, hostLock>>
     \/ /\ loop[c].at = "second"
        /\ Puts(c, Reply(c), 2)
        /\ loop' = [loop EXCEPT ![c] = Idle]
        /\ Unlocked(c)
  /\ UNCHANGED <<host, attached, drops, ptyQueue, chan, wtask, seen, last, asked, open>>

\* handle.tx.send waits for room in the PTY queue, and the read loop with it.
LoopTypes(c) ==
  LET s == loop[c].sid IN
  /\ loop[c].at = "pty" /\ ptyQueue[s] < PtyCap
  /\ ptyQueue' = [ptyQueue EXCEPT ![s] = @ + 1]
  /\ loop' = [loop EXCEPT ![c] = Idle]
  /\ UNCHANGED <<hostLock, host, attached, drops, chan, wtask, sockLock, sock, seen, last,
                 asked, open>>

\* A send fails, or the next read_frame: the loop returns and the writer task is
\* aborted wherever it is.  (It also returns on a frame it cannot read and on Shutdown,
\* with which the whole daemon stops: neither is a step of this module.)
LoopEnds(c) ==
  /\ c \notin open
  /\ loop[c].at \in {"idle", "first", "second"}
  /\ loop' = [loop EXCEPT ![c] = Ended]
  /\ wtask' = WriterEnded(c)
  /\ chan' = [chan EXCEPT ![c] = <<>>]
  /\ Unlocked(c)
  /\ UNCHANGED <<host, attached, drops, ptyQueue, sock, seen, last, asked, open>>

-----------------------------------------------------------------------------
WriterTask(c) == WriterTakes(c) \/ WriterLocks(c) \/ WriterSends(c) \/ WriterFails(c)

ReadLoop(c) ==
  HostServes(c) \/ HostHeld(c) \/ LoopLocks(c) \/ LoopSends(c) \/ LoopTypes(c) \/ LoopEnds(c)

Next ==
  \/ Tick
  \/ \E s \in Session : ReaderSends(s) \/ ShellReads(s)
  \/ \E c \in Conn : WriterTask(c) \/ ReadLoop(c) \/ Asks(c) \/ ClientReads(c) \/ ClientCloses(c)

Spec == Init /\ [][Next]_vars

\* Every tokio task runs when it can.  A task is in one place at a time, so that weak
\* fairness of its steps together is weak fairness of each; what it may wait for is
\* asked of only finitely often by the others, MaxReq and MaxChunk being bounds, so
\* that no task needs to be favoured.  A shell and a client owe nothing.
DaemonFairness ==
  WF_vars(Tick) /\ \A c \in Conn : WF_vars(WriterTask(c)) /\ WF_vars(ReadLoop(c))

StalledSpec == Spec /\ DaemonFairness

\* The app's reader thread reads whatever comes (daemon_client.rs, reader_loop).
FairSpec == StalledSpec /\ \A c \in Conn : WF_vars(ClientReads(c))

-----------------------------------------------------------------------------
(* Properties *)

\* Whoever writes to a socket writes whole frames: the halves of a frame are never
\* parted by another frame, whether the writer task or the read loop sends it.
Stream(c) == seen[c] \o sock[c]

FramesWhole ==
  \A c \in open : LET st == Stream(c) IN
    /\ \A k \in DOMAIN st :
         IF st[k].half = 1 THEN k = 1 \/ st[k - 1].half = 2
         ELSE k > 1 /\ st[k - 1] = [st[k] EXCEPT !.half = 1]
    /\ st # <<>> /\ st[Len(st)].half = 1 => sockLock[c] # Free

\* A client sees the events of a session in the order the shell produced them,
\* the exit last, whatever was dropped in between and whoever attached meanwhile:
\* everything on its way to it is newer than what it has read.
OnTheWay(c) ==
  LET inSock == [k \in DOMAIN sock[c] |-> sock[c][k].frame] IN
  inSock \o (IF wtask[c].at \in {"lock", "first"} THEN <<wtask[c].frame>> ELSE <<>>)
         \o chan[c]

EventsInOrder ==
  \A c \in open, s \in Session :
    LET way == OnTheWay(c)
        mine == {k \in DOMAIN way : way[k].kind = "event" /\ way[k].sid = s}
    IN /\ \A k \in mine : way[k].n >= last[c][s] /\ way[k].n <= handled[s]
       /\ \A k, m \in mine : k < m => way[k].n <= way[m].n
       /\ \A k, m \in mine : k < m /\ way[k].n = way[m].n => m = k + 1

\* Only the task at work holds a lock: none is left behind by a connection that
\* ended, whichever of its two tasks met the broken socket first.
LocksAreHeld ==
  /\ hostLock \in Conn => loop[hostLock].at \in {"socket", "first", "second"}
  /\ \A c \in Conn :
       /\ sockLock[c] = "writer" <=> wtask[c].at \in {"first", "second"}
       /\ sockLock[c] = "loop" <=> loop[c].at \in {"first", "second"}

\* As long as the clients read or hang up, every request but an input for a shell
\* that does not read comes to its end: the two locks and the two channels never
\* wait for each other in a circle.
RequestsEnd ==
  \A c \in Conn : loop[c].at \in {"host", "socket", "first", "second"}
                    ~> loop[c].at \in {"idle", "ended"}

\* ... and no PTY reader is parked for good.
ReadersResume ==
  \A s \in Session : Len(events[s]) = EventCap ~> Len(events[s]) < EventCap

\* session.rs: with one channel per session a slow consumer for one session no longer
\* blocks another session's PTY reader, least of all that of a session that has no
\* consumer.  Stated of StalledSpec, under which clients may stop reading.
SlowClientBlocksNoReader ==
  \A s \in Session :
    Len(events[s]) = EventCap /\ attached[s] = {} ~> Len(events[s]) < EventCap
=============================================================================
