------------------------ MODULE DaemonPipelineProofs ------------------------
(* What holds of DaemonPipeline for any number of connections and sessions   *)
(* and any capacity of the channels and the sockets.                         *)
EXTENDS DaemonPipeline, SequenceTheorems, TLAPS

WTask == [at : {"idle", "lock", "first", "second", "ended"}, frame : Frame \cup {<<>>}]
Loop  == [op : {"none", "attach", "detach", "list", "ping", "write"},
          sid : Session \cup {"none"},
          at : {"idle", "host", "socket", "first", "second", "pty", "ended"}]

HostTypes ==
  /\ hostLock \in {Free, "tick"} \cup Conn
  /\ made \in [Session -> 0 .. MaxChunk + 1]
  /\ events \in [Session -> Seq(EventNo)]
  /\ \A s \in Session : Len(events[s]) <= EventCap
  /\ pulled \in Seq(EventNo)
  /\ draining \in [left : SUBSET Session, cur : Session \cup {"none"},
                   stage : {"pull", "handle"}]
  /\ attached \in [Session -> SUBSET Conn]
  /\ drops \in [Session -> [Conn -> 0 .. StallLimit]]
  /\ ptyQueue \in [Session -> 0 .. PtyCap]

ConnTypes ==
  /\ chan \in [Conn -> Seq(Frame)]
  /\ \A c \in Conn : Len(chan[c]) <= ClientCap
  /\ wtask \in [Conn -> WTask]
  /\ \A c \in Conn : wtask[c].at \in {"lock", "first", "second"} => wtask[c].frame \in Frame
  /\ sockLock \in [Conn -> {Free, "writer", "loop"}]
  /\ sock \in [Conn -> Seq(Part)]
  /\ \A c \in Conn : Len(sock[c]) <= SockCap
  /\ seen \in [Conn -> Seq(Part)]
  /\ loop \in [Conn -> Loop]
  /\ \A c \in Conn : loop[c].at \notin {"idle", "ended"} => loop[c].sid \in Session
  /\ asked \in [Conn -> 0 .. MaxReq]
  /\ open \subseteq Conn

Types == HostTypes /\ ConnTypes

LEMMA TypesImplyTypeOK == Types => TypeOK
BY DEF Types, HostTypes, ConnTypes, TypeOK, WTask, Loop

-----------------------------------------------------------------------------
(* Types *)

LEMMA InitTypes == Init => Types
<1> SUFFICES ASSUME Init PROVE Types
  OBVIOUS
<1>1. HostTypes
  <2>1. events \in [Session -> Seq(EventNo)] /\ pulled \in Seq(EventNo)
    BY DEF Init
  <2>2. \A s \in Session : Len(events[s]) <= EventCap
    BY PipelineAssumption DEF Init
  <2>3. made \in [Session -> 0 .. MaxChunk + 1] /\ ptyQueue \in [Session -> 0 .. PtyCap]
    BY PipelineAssumption DEF Init
  <2>4. drops \in [Session -> [Conn -> 0 .. StallLimit]]
    BY PipelineAssumption DEF Init
  <2>5. hostLock = Free /\ draining = NoDrain /\ attached \in [Session -> SUBSET Conn]
    BY DEF Init
  <2> QED
    BY <2>1, <2>2, <2>3, <2>4, <2>5 DEF HostTypes, NoDrain
<1>2. ConnTypes
  <2>1. chan \in [Conn -> Seq(Frame)] /\ sock \in [Conn -> Seq(Part)] /\ seen \in [Conn -> Seq(Part)]
    BY DEF Init
  <2>2. \A c \in Conn : Len(chan[c]) <= ClientCap /\ Len(sock[c]) <= SockCap
    BY PipelineAssumption DEF Init
  <2>3. /\ wtask \in [Conn -> WTask]
        /\ \A c \in Conn : wtask[c].at = "idle"
    BY DEF Init, WTask
  <2>4. /\ loop \in [Conn -> Loop]
        /\ \A c \in Conn : loop[c].at = "idle"
    BY DEF Init, Loop, Idle
  <2>5. /\ sockLock \in [Conn -> {Free, "writer", "loop"}] /\ asked \in [Conn -> 0 .. MaxReq]
        /\ open \subseteq Conn
    BY PipelineAssumption DEF Init
  <2> QED
    BY <2>1, <2>2, <2>3, <2>4, <2>5 DEF ConnTypes
<1> QED
  BY <1>1, <1>2 DEF Types

(* The drain of the maintenance task.                                        *)
LEMMA TickTypes == Types /\ Tick => Types'
<1> SUFFICES ASSUME Types, Tick PROVE Types'
  OBVIOUS
<1> USE PipelineAssumption
<1>1. CASE TickStarts \/ NextSession \/ SessionDrained \/ TickEnds
  <2> DEFINE D == [left : SUBSET Session, cur : Session \cup {"none"}, stage : {"pull", "handle"}]
  <2>d. draining \in D /\ hostLock \in {Free, "tick"} \cup Conn
    BY DEF Types, HostTypes
  <2>1. draining' \in D /\ hostLock' \in {Free, "tick"} \cup Conn
    <3>1. CASE TickStarts
      BY <3>1 DEF TickStarts, NoDrain
    <3>2. CASE NextSession
      BY <2>d, <3>2 DEF NextSession
    <3>3. CASE SessionDrained
      BY <2>d, <3>3 DEF SessionDrained
    <3>4. CASE TickEnds
      BY <2>d, <3>4 DEF TickEnds, host
    <3> QED
      BY <1>1, <3>1, <3>2, <3>3, <3>4
  <2>2. UNCHANGED <<made, events, pulled, attached, drops, ptyQueue, conns>>
    BY <1>1 DEF TickStarts, NextSession, SessionDrained, TickEnds, host
  <2> QED
    BY <2>1, <2>2 DEF Types, HostTypes, ConnTypes, conns
<1>2. CASE Pull
  <2> DEFINE s == draining.cur
  <2>1. s \in Session /\ events[s] \in Seq(EventNo) /\ Len(events[s]) <= EventCap
    BY <1>2 DEF Types, HostTypes, Pull
  <2>2. UNCHANGED <<hostLock, made, attached, drops, ptyQueue, conns>>
    BY <1>2 DEF Pull
  <2>3. CASE events[s] # <<>>
    <3>1. /\ pulled' = Append(pulled, Head(events[s])) /\ UNCHANGED draining
          /\ events' = [events EXCEPT ![s] = Tail(@)]
      BY <1>2, <2>3 DEF Pull
    <3>2. /\ Head(events[s]) \in EventNo /\ Tail(events[s]) \in Seq(EventNo)
          /\ Len(Tail(events[s])) <= EventCap
      BY <2>1, <2>3, HeadTailProperties
    <3>3. pulled' \in Seq(EventNo)
      BY <3>1, <3>2 DEF Types, HostTypes
    <3>4. events' \in [Session -> Seq(EventNo)] /\ \A r \in Session : Len(events'[r]) <= EventCap
      BY <2>1, <3>1, <3>2 DEF Types, HostTypes
    <3> QED
      BY <2>2, <3>1, <3>3, <3>4 DEF Types, HostTypes, ConnTypes, conns
  <2>4. CASE events[s] = <<>>
    <3>1. UNCHANGED <<pulled, events>> /\ draining' = [draining EXCEPT !.stage = "handle"]
      BY <1>2, <2>4 DEF Pull
    <3> QED
      BY <2>2, <3>1 DEF Types, HostTypes, ConnTypes, conns
  <2> QED
    BY <2>3, <2>4
<1>3. CASE Handle
  <2> DEFINE s == draining.cur
             n == Head(pulled)
             takes(c) == c \in attached[s] /\ ~Closed(c) /\ ~Full(c)
  <2>1. s \in Session /\ n \in EventNo /\ pulled' \in Seq(EventNo) /\ EventFrame(s, n) \in Frame
    <3>1. s \in Session /\ pulled \in Seq(EventNo) /\ pulled # <<>> /\ pulled' = Tail(pulled)
      BY <1>3 DEF Types, HostTypes, Handle
    <3>2. n \in EventNo /\ Tail(pulled) \in Seq(EventNo)
      BY <3>1, HeadTailProperties
    <3> QED
      BY <3>1, <3>2 DEF EventFrame, Frame
  <2>2. /\ chan' \in [Conn -> Seq(Frame)]
        /\ \A c \in Conn : Len(chan'[c]) <= ClientCap
    <3>1. chan' = [c \in Conn |-> IF takes(c) THEN Append(chan[c], EventFrame(s, n)) ELSE chan[c]]
      BY <1>3 DEF Handle
    <3>2. ASSUME NEW c \in Conn
          PROVE  chan'[c] \in Seq(Frame) /\ Len(chan'[c]) <= ClientCap
      <4>1. chan[c] \in Seq(Frame) /\ Len(chan[c]) <= ClientCap
        BY DEF Types, ConnTypes
      <4>2. CASE takes(c)
        <5>1. chan'[c] = Append(chan[c], EventFrame(s, n))
          BY <3>1, <4>2
        <5>2. Len(chan[c]) < ClientCap
          BY <4>1, <4>2 DEF Full
        <5> HIDE DEF n, s
        <5> QED
          BY <2>1, <4>1, <5>1, <5>2
      <4>3. CASE ~takes(c)
        BY <3>1, <4>1, <4>3
      <4> QED
        BY <4>2, <4>3
    <3> QED
      BY <3>1, <3>2
  <2>3. /\ attached' \in [Session -> SUBSET Conn]
        /\ attached'[s] \subseteq {c \in attached[s] : ~Leaves(c, s)}
    <3>1. attached' = [attached EXCEPT ![s] = IF IsExit(n) THEN {}
                                              ELSE {c \in attached[s] : ~Leaves(c, s)}]
      BY <1>3 DEF Handle
    <3> QED
      BY <2>1, <3>1 DEF Types, HostTypes
  <2>4. drops' \in [Session -> [Conn -> 0 .. StallLimit]]
    <3>1. drops' = [drops EXCEPT ![s] = [c \in Conn |->
            IF c \notin attached'[s] \/ takes(c) THEN 0 ELSE drops[s][c] + 1]]
      BY <1>3 DEF Handle
    <3>2. ASSUME NEW c \in Conn, c \in attached'[s], ~takes(c)
          PROVE  drops[s][c] + 1 \in 0 .. StallLimit
      <4>1. drops[s][c] \in 0 .. StallLimit
        BY <2>1 DEF Types, HostTypes
      <4>2. drops[s][c] # StallLimit
        BY <2>3, <3>2 DEF Leaves
      <4> QED
        BY <4>1, <4>2
    <3>3. [c \in Conn |-> IF c \notin attached'[s] \/ takes(c) THEN 0 ELSE drops[s][c] + 1]
             \in [Conn -> 0 .. StallLimit]
      BY <3>2
    <3> QED
      BY <2>1, <3>1, <3>3 DEF Types, HostTypes
  <2>5. UNCHANGED <<hostLock, made, events, draining, ptyQueue, wtask, sockLock, sock, seen,
                    loop, asked, open>>
    BY <1>3 DEF Handle
  <2> QED
    BY <2>1, <2>2, <2>3, <2>4, <2>5 DEF Types, HostTypes, ConnTypes
<1> QED
  BY <1>1, <1>2, <1>3 DEF Tick

LEMMA SessionTypes ==
  ASSUME Types, NEW s \in Session, ReaderSends(s) \/ ShellReads(s) PROVE Types'
<1> USE PipelineAssumption
<1>1. CASE ReaderSends(s)
  <2>1. made[s] + 1 \in EventNo /\ made[s] + 1 \in 0 .. MaxChunk + 1
    BY <1>1, SMTT(30) DEF Types, HostTypes, ReaderSends, EventNo
  <2>2. events[s] \in Seq(EventNo) /\ Len(events[s]) < EventCap
    BY <1>1 DEF Types, HostTypes, ReaderSends
  <2>3. /\ Append(events[s], made[s] + 1) \in Seq(EventNo)
        /\ Len(Append(events[s], made[s] + 1)) <= EventCap
    BY <2>1, <2>2
  <2>4. /\ made' = [made EXCEPT ![s] = made[s] + 1]
        /\ events' = [events EXCEPT ![s] = Append(events[s], made[s] + 1)]
        /\ UNCHANGED <<hostLock, pulled, draining, attached, drops, ptyQueue, conns>>
    BY <1>1 DEF ReaderSends, Types, HostTypes
  <2>5. events' \in [Session -> Seq(EventNo)] /\ \A r \in Session : Len(events'[r]) <= EventCap
    BY <2>3, <2>4 DEF Types, HostTypes
  <2> QED
    BY <2>1, <2>4, <2>5 DEF Types, HostTypes, ConnTypes, conns
<1>2. CASE ShellReads(s)
  <2>1. /\ ptyQueue' \in [Session -> 0 .. PtyCap]
        /\ UNCHANGED <<hostLock, host, attached, drops, conns>>
    BY <1>2 DEF ShellReads, Types, HostTypes
  <2> QED
    BY <2>1 DEF Types, HostTypes, ConnTypes, conns, host
<1> QED
  BY <1>1, <1>2

(* The two tasks of a connection and its client.                             *)
LEMMA ConnectionTypes ==
  ASSUME Types, NEW c \in Conn,
         WriterTask(c) \/ ReadLoop(c) \/ Asks(c) \/ ClientReads(c) \/ ClientCloses(c)
  PROVE  Types'
<1> USE PipelineAssumption
<1>t. HostTypes /\ ConnTypes
  BY DEF Types
<1>0. /\ chan[c] \in Seq(Frame) /\ Len(chan[c]) <= ClientCap /\ wtask[c] \in WTask
      /\ sock[c] \in Seq(Part) /\ Len(sock[c]) <= SockCap /\ seen[c] \in Seq(Part)
      /\ loop[c] \in Loop
  BY <1>t DEF ConnTypes
<1>p. ASSUME NEW f \in Frame, NEW i \in {1, 2}, Puts(c, f, i)
      PROVE  sock' \in [Conn -> Seq(Part)] /\ \A d \in Conn : Len(sock'[d]) <= SockCap
  <2>1. [frame |-> f, half |-> i] \in Part
    BY DEF Part
  <2>2. /\ Append(sock[c], [frame |-> f, half |-> i]) \in Seq(Part)
        /\ Len(Append(sock[c], [frame |-> f, half |-> i])) <= SockCap
    BY <1>0, <1>p, <2>1 DEF Puts
  <2>3. sock' = [sock EXCEPT ![c] = Append(sock[c], [frame |-> f, half |-> i])]
    BY <1>p, <1>t DEF Puts, ConnTypes
  <2> QED
    BY <1>t, <2>2, <2>3 DEF ConnTypes
<1>1. CASE WriterTakes(c)
  <2>1. Head(chan[c]) \in Frame /\ Tail(chan[c]) \in Seq(Frame) /\ Len(Tail(chan[c])) <= ClientCap
    BY <1>0, <1>1, HeadTailProperties DEF WriterTakes
  <2>2. chan' \in [Conn -> Seq(Frame)] /\ \A d \in Conn : Len(chan'[d]) <= ClientCap
    BY <1>1, <1>t, <2>1 DEF WriterTakes, ConnTypes
  <2>3. /\ wtask' \in [Conn -> WTask]
        /\ \A d \in Conn : wtask'[d].at \in {"lock", "first", "second"} => wtask'[d].frame \in Frame
    BY <1>1, <1>t, <2>1 DEF WriterTakes, ConnTypes, WTask
  <2> QED
    BY <1>1, <1>t, <2>2, <2>3 DEF WriterTakes, writerElse, Types, HostTypes, ConnTypes, host
<1>2. CASE WriterLocks(c)
  <2>1. /\ wtask' \in [Conn -> WTask]
        /\ \A d \in Conn : wtask'[d].at \in {"lock", "first", "second"} => wtask'[d].frame \in Frame
    BY <1>2, <1>t DEF WriterLocks, ConnTypes, WTask
  <2> QED
    BY <1>2, <1>t, <2>1 DEF WriterLocks, writerElse, Types, HostTypes, ConnTypes, host
<1>3. CASE WriterSends(c)
  <2>1. PICK i \in {1, 2} : Puts(c, wtask[c].frame, i) /\ wtask[c].frame \in Frame
    BY <1>3, <1>t DEF WriterSends, ConnTypes
  <2>2. sock' \in [Conn -> Seq(Part)] /\ \A d \in Conn : Len(sock'[d]) <= SockCap
    BY <1>p, <2>1
  <2>3. /\ wtask' \in [Conn -> WTask]
        /\ \A d \in Conn : wtask'[d].at \in {"lock", "first", "second"} => wtask'[d].frame \in Frame
    <3>1. CASE wtask[c].at = "first"
      <4>1. wtask' = [wtask EXCEPT ![c].at = "second"]
        BY <1>3, <3>1 DEF WriterSends
      <4>2. [wtask[c] EXCEPT !.at = "second"] \in WTask
        BY <1>0 DEF WTask
      <4> QED
        BY <1>t, <2>1, <4>1, <4>2 DEF ConnTypes
    <3>2. CASE wtask[c].at = "second"
      <4>1. wtask' = [wtask EXCEPT ![c] = [at |-> "idle", frame |-> <<>>]]
        BY <1>3, <3>2 DEF WriterSends
      <4>2. [at |-> "idle", frame |-> <<>>] \in WTask
        BY DEF WTask
      <4> QED
        BY <1>t, <4>1, <4>2 DEF ConnTypes
    <3> QED
      BY <1>3, <3>1, <3>2 DEF WriterSends
  <2>4. sockLock' \in [Conn -> {Free, "writer", "loop"}]
    BY <1>3, <1>t DEF WriterSends, ConnTypes
  <2> QED
    BY <1>3, <1>t, <2>2, <2>3, <2>4 DEF WriterSends, writerElse, Types, HostTypes, ConnTypes, host
<1>e. ASSUME wtask' = WriterEnded(c), chan' = [chan EXCEPT ![c] = <<>>]
      PROVE  /\ wtask' \in [Conn -> WTask]
             /\ \A d \in Conn : wtask'[d].at \in {"lock", "first", "second"} => wtask'[d].frame \in Frame
             /\ chan' \in [Conn -> Seq(Frame)] /\ \A d \in Conn : Len(chan'[d]) <= ClientCap
  <2>1. [at |-> "ended", frame |-> <<>>] \in WTask
    BY DEF WTask
  <2>2. /\ wtask' \in [Conn -> WTask]
        /\ \A d \in Conn : wtask'[d].at \in {"lock", "first", "second"} => wtask'[d].frame \in Frame
    BY <1>e, <1>t, <2>1 DEF ConnTypes, WriterEnded
  <2>3. chan' \in [Conn -> Seq(Frame)] /\ \A d \in Conn : Len(chan'[d]) <= ClientCap
    BY <1>e, <1>t DEF ConnTypes
  <2> QED
    BY <2>2, <2>3
<1>4. CASE WriterFails(c)
  BY <1>4, <1>e, <1>t DEF WriterFails, writerElse, Types, HostTypes, ConnTypes, host
<1>5. CASE Asks(c)
  <2>1. PICK s \in Session : \E r \in {[op |-> "attach", sid |-> s, at |-> "host"],
                                       [op |-> "detach", sid |-> s, at |-> "host"],
                                       [op |-> "list",   sid |-> s, at |-> "host"],
                                       [op |-> "ping",   sid |-> s, at |-> "socket"],
                                       [op |-> "write",  sid |-> s, at |-> "pty"]} :
                                loop' = [loop EXCEPT ![c] = r]
    BY <1>5 DEF Asks
  <2>2. PICK r \in Loop : r.sid \in Session /\ loop' = [loop EXCEPT ![c] = r]
    BY <2>1 DEF Loop
  <2>3. /\ loop' \in [Conn -> Loop]
        /\ \A d \in Conn : loop'[d].at \notin {"idle", "ended"} => loop'[d].sid \in Session
    BY <1>t, <2>2 DEF ConnTypes
  <2>4. asked' \in [Conn -> 0 .. MaxReq]
    BY <1>5, <1>t DEF Asks, ConnTypes
  <2> QED
    BY <1>5, <1>t, <2>3, <2>4 DEF Asks, Types, HostTypes, ConnTypes, host
<1>l. ASSUME \/ \E a \in {"socket", "first", "second"} :
                  loop' = [loop EXCEPT ![c].at = a] /\ loop[c].at \notin {"idle", "ended"}
             \/ loop' = [loop EXCEPT ![c] = Idle] \/ loop' = [loop EXCEPT ![c] = Ended]
      PROVE  /\ loop' \in [Conn -> Loop]
             /\ \A d \in Conn : loop'[d].at \notin {"idle", "ended"} => loop'[d].sid \in Session
  <2>1. Idle \in Loop /\ Ended \in Loop /\ Idle.at = "idle" /\ Ended.at = "ended"
    BY DEF Idle, Ended, Loop
  <2>2. CASE \E a \in {"socket", "first", "second"} :
                  loop' = [loop EXCEPT ![c].at = a] /\ loop[c].at \notin {"idle", "ended"}
    <3>1. PICK a \in {"socket", "first", "second"} :
            loop' = [loop EXCEPT ![c].at = a] /\ loop[c].at \notin {"idle", "ended"}
      BY <2>2
    <3>2. [loop[c] EXCEPT !.at = a] \in Loop /\ [loop[c] EXCEPT !.at = a].sid \in Session
      BY <1>0, <1>t, <3>1 DEF ConnTypes, Loop
    <3> QED
      BY <1>t, <3>1, <3>2 DEF ConnTypes
  <2>3. CASE loop' = [loop EXCEPT ![c] = Idle] \/ loop' = [loop EXCEPT ![c] = Ended]
    BY <1>t, <2>1, <2>3 DEF ConnTypes
  <2> QED
    BY <1>l, <2>2, <2>3
<1>6. CASE HostServes(c)
  <2>1. loop[c].at = "host" /\ loop[c].sid \in Session
    BY <1>6, <1>t DEF HostServes, ConnTypes
  <2>2. loop' = [loop EXCEPT ![c].at = "socket"] \/ loop' = [loop EXCEPT ![c] = Idle]
    BY <1>6 DEF HostServes
  <2>3. attached' \in [Session -> SUBSET Conn] /\ drops' \in [Session -> [Conn -> 0 .. StallLimit]]
    <3> DEFINE t == loop[c].sid
    <3>0. t \in Session /\ drops[t] \in [Conn -> 0 .. StallLimit] /\ attached[t] \in SUBSET Conn
      BY <1>t, <2>1 DEF HostTypes
    <3>1. CASE UNCHANGED <<attached, drops>>
      BY <1>t, <3>1 DEF HostTypes
    <3>2. CASE /\ attached' = [attached EXCEPT ![t] = {c}]
               /\ drops' = [drops EXCEPT ![t] = [d \in Conn |-> 0]]
      <4>1. [d \in Conn |-> 0] \in [Conn -> 0 .. StallLimit]
        OBVIOUS
      <4> QED
        BY <1>t, <3>0, <3>2, <4>1 DEF HostTypes
    <3>3. CASE /\ attached' = [attached EXCEPT ![t] = @ \ {c}]
               /\ drops' = [drops EXCEPT ![t][c] = 0]
      <4>1. drops' = [drops EXCEPT ![t] = [drops[t] EXCEPT ![c] = 0]]
        BY <1>t, <3>0, <3>3 DEF HostTypes
      <4>2. [drops[t] EXCEPT ![c] = 0] \in [Conn -> 0 .. StallLimit]
        BY <3>0
      <4> QED
        BY <1>t, <3>0, <3>3, <4>1, <4>2, SMTT(30) DEF HostTypes
    <3> QED
      BY <1>6, <3>1, <3>2, <3>3 DEF HostServes
  <2> QED
    BY <1>6, <1>l, <1>t, <2>1, <2>2, <2>3 DEF HostServes, Types, HostTypes, ConnTypes, host
<1>7. CASE HostHeld(c)
  BY <1>7, <1>l, <1>t DEF HostHeld, Types, HostTypes, ConnTypes, host
<1>8. CASE LoopLocks(c)
  BY <1>8, <1>l, <1>t DEF LoopLocks, Types, HostTypes, ConnTypes, host
<1>9. CASE LoopSends(c)
  <2>1. loop[c].at \in {"first", "second"} /\ loop[c].sid \in Session
    BY <1>9, <1>t DEF LoopSends, ConnTypes
  <2>2. PICK i \in {1, 2} : Puts(c, Reply(c), i)
    BY <1>9 DEF LoopSends
  <2>3. Reply(c) \in Frame
    BY <2>1 DEF Reply, Frame
  <2>4. sock' \in [Conn -> Seq(Part)] /\ \A d \in Conn : Len(sock'[d]) <= SockCap
    BY <1>p, <2>2, <2>3
  <2>5. /\ loop' = [loop EXCEPT ![c].at = "second"] \/ loop' = [loop EXCEPT ![c] = Idle]
        /\ UNCHANGED <<host, attached, drops, ptyQueue, chan, wtask, seen, asked, open>>
    BY <1>9 DEF LoopSends
  <2>6. sockLock' \in [Conn -> {Free, "writer", "loop"}] /\ hostLock' \in {Free, "tick"} \cup Conn
    BY <1>9, <1>t DEF LoopSends, Unlocked, HostTypes, ConnTypes
  <2> QED
    BY <1>l, <1>t, <2>1, <2>4, <2>5, <2>6 DEF Types, HostTypes, ConnTypes, host
<1>10. CASE LoopTypes(c)
  <2>1. loop[c].sid \in Session /\ ptyQueue' \in [Session -> 0 .. PtyCap]
    <3>1. loop[c].sid \in Session
      BY <1>10, <1>t DEF LoopTypes, ConnTypes
    <3>2. ptyQueue[loop[c].sid] \in 0 .. PtyCap /\ ptyQueue[loop[c].sid] < PtyCap
      BY <1>10, <1>t, <3>1 DEF LoopTypes, HostTypes
    <3>3. ptyQueue[loop[c].sid] + 1 \in 0 .. PtyCap
      BY <3>2
    <3>4. ptyQueue' = [ptyQueue EXCEPT ![loop[c].sid] = ptyQueue[loop[c].sid] + 1]
      BY <1>10, <1>t, <3>1 DEF LoopTypes, HostTypes
    <3> QED
      BY <1>t, <3>1, <3>3, <3>4 DEF HostTypes
  <2> QED
    BY <1>10, <1>l, <1>t, <2>1 DEF LoopTypes, Types, HostTypes, ConnTypes, host
<1>11. CASE LoopEnds(c)
  <2>1. sockLock' \in [Conn -> {Free, "writer", "loop"}] /\ hostLock' \in {Free, "tick"} \cup Conn
    BY <1>11, <1>t DEF LoopEnds, Unlocked, HostTypes, ConnTypes
  <2> QED
    BY <1>11, <1>e, <1>l, <1>t, <2>1 DEF LoopEnds, Types, HostTypes, ConnTypes, host
<1>12. CASE ClientReads(c)
  <2>1. /\ Head(sock[c]) \in Part /\ Tail(sock[c]) \in Seq(Part)
        /\ Len(Tail(sock[c])) <= SockCap
    BY <1>0, <1>12, HeadTailProperties DEF ClientReads
  <2>2. sock' \in [Conn -> Seq(Part)] /\ \A d \in Conn : Len(sock'[d]) <= SockCap
    BY <1>12, <1>t, <2>1 DEF ClientReads, ConnTypes
  <2>3. <<Head(sock[c])>> \in Seq(Part) /\ <<>> \in Seq(Part)
    BY <2>1
  <2>4. seen' \in [Conn -> Seq(Part)]
    BY <1>12, <1>t, <2>3 DEF ClientReads, ConnTypes
  <2> QED
    BY <1>12, <1>t, <2>2, <2>4 DEF ClientReads, Types, HostTypes, ConnTypes, host
<1>13. CASE ClientCloses(c)
  <2>1. /\ sock' \in [Conn -> Seq(Part)] /\ \A d \in Conn : Len(sock'[d]) <= SockCap
        /\ open' \subseteq Conn
    BY <1>13, <1>t DEF ClientCloses, ConnTypes
  <2> QED
    BY <1>13, <1>t, <2>1 DEF ClientCloses, Types, HostTypes, ConnTypes, host
<1> QED
  BY <1>1, <1>2, <1>3, <1>4, <1>5, <1>6, <1>7, <1>8, <1>9, <1>10, <1>11, <1>12, <1>13
     DEF WriterTask, ReadLoop

LEMMA TypesStep == Types /\ [Next]_vars => Types'
<1> SUFFICES ASSUME Types, [Next]_vars PROVE Types'
  OBVIOUS
<1>1. CASE Next
  BY <1>1, TickTypes, SessionTypes, ConnectionTypes DEF Next
<1>2. CASE UNCHANGED vars
  BY <1>2 DEF vars, Types, HostTypes, ConnTypes
<1> QED
  BY <1>1, <1>2

-----------------------------------------------------------------------------
(* Locks *)

LEMMA LocksStep == Types /\ LocksAreHeld /\ [Next]_vars => LocksAreHeld'
<1> SUFFICES ASSUME Types, LocksAreHeld, [Next]_vars PROVE LocksAreHeld'
  OBVIOUS
<1> USE PipelineAssumption
<1>t. /\ wtask \in [Conn -> WTask] /\ loop \in [Conn -> Loop]
      /\ sockLock \in [Conn -> {Free, "writer", "loop"}]
  BY DEF Types, ConnTypes
<1>1. CASE Tick
  <2>1. UNCHANGED <<wtask, loop, sockLock>> /\ hostLock' \in {hostLock, "tick", Free}
    BY <1>1 DEF Tick, TickStarts, NextSession, Pull, Handle, SessionDrained, TickEnds, conns
  <2> QED
    BY <2>1 DEF LocksAreHeld, Free
<1>2. CASE UNCHANGED <<wtask, loop, sockLock, hostLock>>
  BY <1>2 DEF LocksAreHeld
<1>3. ASSUME NEW c \in Conn, WriterTakes(c) \/ WriterLocks(c) \/ WriterSends(c) \/ WriterFails(c)
      PROVE  LocksAreHeld'
  <2>1. UNCHANGED <<loop, hostLock>>
    BY <1>3 DEF WriterTakes, WriterLocks, WriterSends, WriterFails, writerElse
  <2>2. \A d \in Conn \ {c} : wtask'[d] = wtask[d] /\ sockLock'[d] = sockLock[d]
    BY <1>3, <1>t DEF WriterTakes, WriterLocks, WriterSends, WriterFails, WriterEnded
  <2>3. sockLock'[c] = "writer" <=> wtask'[c].at \in {"first", "second"}
    BY <1>3, <1>t DEF WriterTakes, WriterLocks, WriterSends, WriterFails, WriterEnded,
                      LocksAreHeld, WTask, Free
  <2>4. sockLock'[c] = "loop" <=> sockLock[c] = "loop"
    BY <1>3, <1>t DEF WriterTakes, WriterLocks, WriterSends, WriterFails, LocksAreHeld, Free
  <2> QED
    BY <2>1, <2>2, <2>3, <2>4 DEF LocksAreHeld
<1>4. ASSUME NEW c \in Conn, ReadLoop(c) \/ Asks(c) PROVE LocksAreHeld'
  <2>1. \A d \in Conn \ {c} : /\ wtask'[d] = wtask[d] /\ sockLock'[d] = sockLock[d]
                              /\ loop'[d] = loop[d]
    BY <1>4, <1>t DEF ReadLoop, HostServes, HostHeld, LoopLocks, LoopSends, LoopTypes, LoopEnds,
                      Asks, WriterEnded, Unlocked
  <2>2. CASE HostServes(c) \/ LoopTypes(c) \/ Asks(c)
    <3>1. UNCHANGED <<hostLock, wtask, sockLock>>
      BY <2>2 DEF HostServes, LoopTypes, Asks
    <3>2. /\ loop[c].at \notin {"socket", "first", "second"} /\ loop'[c].at \notin {"first", "second"}
      BY <2>2, <1>t DEF HostServes, LoopTypes, Asks, Idle, Loop
    <3> QED
      BY <2>1, <3>1, <3>2 DEF LocksAreHeld
  <2>3. CASE HostHeld(c)
    <3>1. UNCHANGED <<wtask, sockLock>> /\ hostLock' = c /\ loop[c].at = "host"
          /\ loop'[c].at = "socket"
      BY <2>3, <1>t DEF HostHeld, Loop
    <3> QED
      BY <2>1, <3>1 DEF LocksAreHeld
  <2>4. CASE LoopLocks(c)
    <3>1. /\ UNCHANGED <<wtask, hostLock>> /\ sockLock[c] = Free /\ sockLock'[c] = "loop"
          /\ loop[c].at = "socket" /\ loop'[c].at = "first"
      BY <2>4, <1>t DEF LoopLocks, Loop
    <3> QED
      BY <2>1, <3>1 DEF LocksAreHeld, Free
  <2>5. CASE LoopSends(c)
    <3>1. CASE loop[c].at = "first"
      <4>1. UNCHANGED <<wtask, hostLock, sockLock>> /\ loop'[c].at = "second"
        BY <2>5, <3>1, <1>t DEF LoopSends, Loop
      <4> QED
        BY <2>1, <3>1, <4>1 DEF LocksAreHeld
    <3>2. CASE loop[c].at = "second"
      <4>1. /\ UNCHANGED wtask /\ sockLock'[c] = Free /\ loop'[c].at = "idle"
            /\ hostLock' = IF hostLock = c THEN Free ELSE hostLock
        BY <2>5, <3>2, <1>t DEF LoopSends, Unlocked, Idle
      <4> QED
        BY <2>1, <3>2, <4>1 DEF LocksAreHeld, Free
    <3> QED
      BY <2>5, <3>1, <3>2 DEF LoopSends
  <2>6. CASE LoopEnds(c)
    <3>1. /\ sockLock'[c] = Free /\ loop'[c].at = "ended" /\ wtask'[c].at = "ended"
          /\ hostLock' = IF hostLock = c THEN Free ELSE hostLock
      BY <2>6, <1>t DEF LoopEnds, Unlocked, Ended, WriterEnded
    <3> QED
      BY <2>1, <3>1 DEF LocksAreHeld, Free
  <2> QED
    BY <1>4, <2>2, <2>3, <2>4, <2>5, <2>6 DEF ReadLoop
<1>5. ASSUME NEW c \in Conn, ClientReads(c) \/ ClientCloses(c) PROVE LocksAreHeld'
  BY <1>2, <1>5 DEF ClientReads, ClientCloses
<1>6. ASSUME NEW s \in Session, ReaderSends(s) \/ ShellReads(s) PROVE LocksAreHeld'
  BY <1>2, <1>6 DEF ReaderSends, ShellReads, conns
<1>7. CASE UNCHANGED vars
  BY <1>2, <1>7 DEF vars
<1> QED
  BY <1>1, <1>3, <1>4, <1>5, <1>6, <1>7 DEF Next, WriterTask

-----------------------------------------------------------------------------
(* Frames *)

Whole(st) ==
  \A k \in DOMAIN st :
    IF st[k].half = 1 THEN k = 1 \/ st[k - 1].half = 2
    ELSE k > 1 /\ st[k - 1] = [st[k] EXCEPT !.half = 1]

FirstHalf(f) == [frame |-> f, half |-> 1]
SecondHalf(f) == [frame |-> f, half |-> 2]

EndsIn(st, p) == st # <<>> /\ st[Len(st)] = p
EndsHalfway(st) == st # <<>> /\ st[Len(st)].half = 1

(* The stream of an open connection is whole, and where it ends halfway there *)
(* is a task that has sent just this half and holds the other one.            *)
WholeFor(c) ==
  /\ Whole(Stream(c))
  /\ seen[c] # <<>> => Len(seen[c]) = 1 /\ seen[c][1].half = 1
  /\ wtask[c].at = "second" => EndsIn(Stream(c), FirstHalf(wtask[c].frame))
  /\ loop[c].at = "second" => EndsIn(Stream(c), FirstHalf(Reply(c)))
  /\ EndsHalfway(Stream(c)) => wtask[c].at = "second" \/ loop[c].at = "second"

IInv == Types /\ LocksAreHeld /\ \A c \in open : WholeFor(c)

(* A first half may follow a second one, and a second half its first.         *)
LEMMA AppendedFirstHalf ==
  ASSUME NEW st \in Seq(Part), Whole(st), ~EndsHalfway(st), NEW f \in Frame
  PROVE  /\ Whole(Append(st, FirstHalf(f))) /\ EndsIn(Append(st, FirstHalf(f)), FirstHalf(f))
<1> DEFINE p == FirstHalf(f)
           n == Append(st, p)
<1>1. p \in Part /\ p.half = 1
  BY DEF FirstHalf, Part
<1>2. /\ n \in Seq(Part) /\ Len(n) = Len(st) + 1 /\ n[Len(st) + 1] = p /\ DOMAIN n = 1..Len(st) + 1
      /\ \A k \in 1..Len(st) : n[k] = st[k]
      /\ Len(st) \in Nat /\ DOMAIN st = 1..Len(st)
  BY <1>1, AppendProperties, LenProperties
<1>3. st # <<>> => st[Len(st)].half = 2
  <2>1. st # <<>> => Len(st) \in 1..Len(st)
    BY <1>2, EmptySeq
  <2>2. st # <<>> => st[Len(st)] \in Part
    BY <1>2, <2>1, ElementOfSeq
  <2> QED
    BY <2>2 DEF EndsHalfway, Part
<1>4. Len(st) # 0 => st # <<>>
  BY EmptySeq
<1> HIDE DEF p, n
<1>5. Whole(n)
  <2> SUFFICES ASSUME NEW k \in 1..Len(st) + 1
               PROVE  IF n[k].half = 1 THEN k = 1 \/ n[k - 1].half = 2
                      ELSE k > 1 /\ n[k - 1] = [n[k] EXCEPT !.half = 1]
    BY <1>2 DEF Whole
  <2>1. CASE k = Len(st) + 1
    BY <1>1, <1>2, <1>3, <1>4, <2>1
  <2>2. CASE k # Len(st) + 1
    <3>1. k \in 1..Len(st) /\ n[k] = st[k] /\ (k # 1 => n[k - 1] = st[k - 1])
      BY <1>2, <2>2
    <3>2. IF st[k].half = 1 THEN k = 1 \/ st[k - 1].half = 2
          ELSE k > 1 /\ st[k - 1] = [st[k] EXCEPT !.half = 1]
      BY <1>2, <3>1 DEF Whole
    <3> QED
      BY <3>1, <3>2
  <2> QED
    BY <2>1, <2>2
<1>6. n # <<>>
  BY <1>2, EmptySeq
<1> QED
  BY <1>2, <1>5, <1>6 DEF EndsIn, n, p

LEMMA AppendedSecondHalf ==
  ASSUME NEW st \in Seq(Part), Whole(st), NEW f \in Frame, EndsIn(st, FirstHalf(f))
  PROVE  /\ Whole(Append(st, SecondHalf(f))) /\ ~EndsHalfway(Append(st, SecondHalf(f)))
<1> DEFINE p == SecondHalf(f)
           n == Append(st, p)
<1>1. p \in Part /\ p.half = 2 /\ [p EXCEPT !.half = 1] = FirstHalf(f)
  BY DEF FirstHalf, SecondHalf, Part
<1>2. /\ n \in Seq(Part) /\ Len(n) = Len(st) + 1 /\ n[Len(st) + 1] = p /\ DOMAIN n = 1..Len(st) + 1
      /\ \A k \in 1..Len(st) : n[k] = st[k]
      /\ Len(st) \in Nat /\ DOMAIN st = 1..Len(st)
  BY <1>1, AppendProperties, LenProperties
<1>3. Len(st) > 0 /\ st[Len(st)] = FirstHalf(f)
  BY <1>2, EmptySeq DEF EndsIn
<1> HIDE DEF p, n
<1>4. Whole(n)
  <2> SUFFICES ASSUME NEW k \in 1..Len(st) + 1
               PROVE  IF n[k].half = 1 THEN k = 1 \/ n[k - 1].half = 2
                      ELSE k > 1 /\ n[k - 1] = [n[k] EXCEPT !.half = 1]
    BY <1>2 DEF Whole
  <2>1. CASE k = Len(st) + 1
    BY <1>1, <1>2, <1>3, <2>1
  <2>2. CASE k # Len(st) + 1
    <3>1. k \in 1..Len(st) /\ n[k] = st[k] /\ (k # 1 => n[k - 1] = st[k - 1])
      BY <1>2, <2>2
    <3>2. IF st[k].half = 1 THEN k = 1 \/ st[k - 1].half = 2
          ELSE k > 1 /\ st[k - 1] = [st[k] EXCEPT !.half = 1]
      BY <1>2, <3>1 DEF Whole
    <3> QED
      BY <3>1, <3>2
  <2> QED
    BY <2>1, <2>2
<1> QED
  BY <1>1, <1>2, <1>4 DEF EndsHalfway, n, p

(* What is put into the socket goes to the end of the stream.                 *)
LEMMA PutsAppends ==
  ASSUME Types, NEW c \in Conn, NEW f \in Frame, NEW i \in {1, 2}, Puts(c, f, i), seen' = seen
  PROVE  /\ Stream(c)' = Append(Stream(c), [frame |-> f, half |-> i]) /\ Stream(c) \in Seq(Part)
         /\ \A d \in Conn \ {c} : sock'[d] = sock[d]
<1> DEFINE p == [frame |-> f, half |-> i]
<1>1. p \in Part /\ <<p>> \in Seq(Part)
  BY DEF Part
<1>2. sock \in [Conn -> Seq(Part)] /\ seen \in [Conn -> Seq(Part)]
  BY DEF Types, ConnTypes
<1>3. sock' = [sock EXCEPT ![c] = Append(sock[c], p)]
  BY <1>2 DEF Puts
<1> HIDE DEF p
<1>4. seen[c] \o sock[c] \in Seq(Part)
  BY <1>2, ConcatProperties
<1>5. /\ Append(sock[c], p) = sock[c] \o <<p>>
      /\ Append(seen[c] \o sock[c], p) = (seen[c] \o sock[c]) \o <<p>>
  BY <1>1, <1>2, <1>4, AppendIsConcat
<1>6. (seen[c] \o sock[c]) \o <<p>> = seen[c] \o (sock[c] \o <<p>>)
  BY <1>1, <1>2, ConcatAssociative
<1> QED
  BY <1>2, <1>3, <1>4, <1>5, <1>6 DEF Stream, p

LEMMA Unmoved ==
  ASSUME NEW d \in Conn, WholeFor(d), sock'[d] = sock[d], seen'[d] = seen[d],
         wtask'[d] = wtask[d] \/ (wtask[d].at # "second" /\ wtask'[d].at # "second"),
         loop'[d] = loop[d] \/ (loop[d].at # "second" /\ loop'[d].at # "second")
  PROVE  WholeFor(d)'
BY DEF WholeFor, Stream, Reply

(* The client reads a half: the first of a frame is kept until its second one *)
(* comes, and the two leave the stream together.                              *)
LEMMA ClientReadsKeeps ==
  ASSUME Types, NEW c \in Conn, WholeFor(c), ClientReads(c) PROVE WholeFor(c)'
<1> DEFINE q == seen[c]
           u == sock[c]
           p == Head(u)
           r == Tail(u)
           st == q \o u
<1>1. /\ q \in Seq(Part) /\ u \in Seq(Part) /\ u # <<>>
      /\ sock' = [sock EXCEPT ![c] = r] /\ UNCHANGED <<wtask, loop>>
      /\ seen' = [seen EXCEPT ![c] = IF p.half = 1 THEN <<p>> ELSE <<>>]
  BY DEF Types, ConnTypes, ClientReads
<1>2. sock'[c] = r /\ seen'[c] = IF p.half = 1 THEN <<p>> ELSE <<>>
  BY <1>1 DEF Types, ConnTypes
<1>3. /\ p \in Part /\ p = u[1] /\ r \in Seq(Part) /\ Len(r) = Len(u) - 1 /\ Len(u) \in Nat \ {0}
      /\ \A i \in 1..Len(r) : r[i] = u[i + 1]
  BY <1>1, HeadTailProperties, EmptySeq
<1>4. p.half \in {1, 2}
  BY <1>3 DEF Part
<1>5. /\ st \in Seq(Part) /\ Len(st) = Len(q) + Len(u) /\ Len(q) \in Nat
      /\ \A i \in 1..Len(q) + Len(u) : st[i] = IF i <= Len(q) THEN q[i] ELSE u[i - Len(q)]
      /\ DOMAIN st = 1..Len(st)
  BY <1>1, ConcatProperties, LenProperties
<1>6. /\ Whole(st) /\ (q # <<>> => Len(q) = 1 /\ q[1].half = 1)
      /\ wtask[c].at = "second" => EndsIn(st, FirstHalf(wtask[c].frame))
      /\ loop[c].at = "second" => EndsIn(st, FirstHalf(Reply(c)))
      /\ EndsHalfway(st) => wtask[c].at = "second" \/ loop[c].at = "second"
  BY DEF WholeFor, Stream
<1>7. Stream(c)' = seen'[c] \o sock'[c] /\ Reply(c)' = Reply(c)
  BY <1>1 DEF Stream, Reply
<1>8. q = <<>> => Len(q) = 0
  BY EmptySeq
<1> HIDE DEF q, u, p, r, st
<1>9. CASE p.half = 1
  <2>1. q = <<>>
    <3> SUFFICES ASSUME q # <<>> PROVE FALSE
      OBVIOUS
    <3>1. Len(q) = 1 /\ q[1].half = 1 /\ Len(st) >= 2
      BY <1>3, <1>5, <1>6
    <3>2. 1 \in 1..Len(q) + Len(u) /\ 2 \in 1..Len(q) + Len(u) /\ 2 - Len(q) = 1 /\ 2 - 1 = 1
      BY <1>3, <3>1
    <3>3. st[2] = u[1] /\ st[1] = q[1] /\ 2 \in DOMAIN st
      BY <1>5, <3>1, <3>2
    <3>4. IF st[2].half = 1 THEN 2 = 1 \/ st[2 - 1].half = 2
          ELSE 2 > 1 /\ st[2 - 1] = [st[2] EXCEPT !.half = 1]
      BY <1>6, <3>3 DEF Whole
    <3> QED
      BY <1>3, <1>9, <3>1, <3>2, <3>3, <3>4
  <2>2. <<p>> \in Seq(Part) /\ Len(<<p>>) = 1 /\ <<p>>[1] = p
    BY <1>3
  <2>3. <<p>> \o r = u
    <3>1. /\ <<p>> \o r \in Seq(Part) /\ Len(<<p>> \o r) = Len(u)
          /\ \A i \in 1..Len(u) : (<<p>> \o r)[i] = IF i <= 1 THEN p ELSE r[i - 1]
      BY <1>3, <2>2, ConcatProperties
    <3>2. \A i \in 1..Len(u) : (<<p>> \o r)[i] = u[i]
      BY <1>3, <3>1
    <3> QED
      BY <1>1, <3>1, <3>2, SeqEqual
  <2>4. st = u
    BY <1>1, <2>1, ConcatEmptySeq DEF st
  <2>5. Stream(c)' = st
    BY <1>2, <1>7, <1>9, <2>3, <2>4
  <2>6. seen'[c] = <<p>>
    BY <1>2, <1>9
  <2> QED
    BY <1>1, <1>6, <1>7, <1>9, <2>2, <2>5, <2>6 DEF WholeFor
<1>10. CASE p.half = 2
  <2>1. Len(q) = 1 /\ q[1].half = 1
    <3> SUFFICES ASSUME q = <<>> PROVE FALSE
      BY <1>6
    <3>1. st[1] = p /\ 1 \in DOMAIN st
      BY <1>3, <1>5, <1>8
    <3>2. IF st[1].half = 1 THEN 1 = 1 \/ st[1 - 1].half = 2
          ELSE 1 > 1 /\ st[1 - 1] = [st[1] EXCEPT !.half = 1]
      BY <1>6, <3>1 DEF Whole
    <3> QED
      BY <1>10, <3>1, <3>2
  <2>2. /\ Len(st) = Len(r) + 2 /\ st[2] = p /\ Len(r) \in Nat
        /\ \A k \in 1..Len(r) : r[k] = st[k + 2]
    BY <1>3, <1>5, <2>1
  <2>3. Stream(c)' = r /\ seen'[c] = <<>>
    BY <1>2, <1>3, <1>7, <1>10, ConcatEmptySeq
  <2>4. Whole(r)
    <3> SUFFICES ASSUME NEW k \in 1..Len(r)
                 PROVE  IF r[k].half = 1 THEN k = 1 \/ r[k - 1].half = 2
                        ELSE k > 1 /\ r[k - 1] = [r[k] EXCEPT !.half = 1]
      BY <1>3, LenProperties DEF Whole
    <3>1. k + 2 \in DOMAIN st /\ r[k] = st[k + 2] /\ (k # 1 => r[k - 1] = st[k + 1])
      BY <1>5, <2>2
    <3>2. IF st[k + 2].half = 1 THEN k + 2 = 1 \/ st[(k + 2) - 1].half = 2
          ELSE k + 2 > 1 /\ st[(k + 2) - 1] = [st[k + 2] EXCEPT !.half = 1]
      BY <1>6, <3>1 DEF Whole
    <3>3. (k + 2) - 1 = k + 1 /\ k + 2 # 1
      OBVIOUS
    <3>4. CASE st[k + 2].half = 1
      BY <3>1, <3>2, <3>3, <3>4
    <3>5. CASE st[k + 2].half # 1
      <4>1. st[k + 1] = [st[k + 2] EXCEPT !.half = 1]
        BY <3>2, <3>3, <3>5
      <4>2. st[k + 2] \in Part
        BY <1>5, <3>1, ElementOfSeq
      <4>3. st[k + 1].half = 1
        BY <4>1, <4>2 DEF Part
      <4>4. k # 1
        BY <1>10, <2>2, <4>3
      <4> QED
        BY <3>1, <3>5, <4>1, <4>4
    <3> QED
      BY <3>4, <3>5
  <2>5. CASE r = <<>>
    <3>1. Len(st) = 2 /\ st[Len(st)].half = 2
      BY <1>10, <2>2, <2>5, EmptySeq
    <3>2. wtask[c].at # "second" /\ loop[c].at # "second"
      BY <1>6, <3>1 DEF EndsIn, FirstHalf
    <3> QED
      BY <1>1, <2>3, <2>4, <2>5, <3>2 DEF WholeFor, EndsHalfway
  <2>6. CASE r # <<>>
    <3>1. st # <<>> /\ r[Len(r)] = st[Len(st)]
      BY <1>3, <2>2, <2>6, EmptySeq
    <3>2. /\ \A x : EndsIn(st, x) => EndsIn(r, x)
          /\ EndsHalfway(r) => EndsHalfway(st)
      BY <2>6, <3>1 DEF EndsIn, EndsHalfway
    <3> QED
      BY <1>1, <1>6, <1>7, <2>3, <2>4, <3>2 DEF WholeFor
  <2> QED
    BY <2>5, <2>6
<1> QED
  BY <1>4, <1>9, <1>10

(* A task that holds the socket lock sends a half; the other one is elsewhere. *)
LEMMA SendKeeps ==
  ASSUME IInv, NEW c \in open, WriterSends(c) \/ LoopSends(c) PROVE WholeFor(c)'
<1>t. /\ c \in Conn /\ Types /\ LocksAreHeld /\ WholeFor(c)
      /\ wtask \in [Conn -> WTask] /\ loop \in [Conn -> Loop]
  BY DEF IInv, Types, ConnTypes
<1>0. seen' = seen /\ (Stream(c) = <<>> => ~EndsHalfway(Stream(c)))
  BY DEF WriterSends, LoopSends, writerElse, EndsHalfway
<1>1. CASE WriterSends(c)
  <2> DEFINE f == wtask[c].frame
  <2>1. wtask[c].at \in {"first", "second"} /\ f \in Frame /\ loop[c].at \notin {"first", "second"}
    BY <1>1, <1>t DEF WriterSends, Types, ConnTypes, LocksAreHeld
  <2>2. UNCHANGED loop /\ Reply(c)' = Reply(c)
    BY <1>1 DEF WriterSends, writerElse, Reply
  <2>3. CASE wtask[c].at = "first"
    <3>1. Puts(c, f, 1) /\ wtask'[c].at = "second" /\ wtask'[c].frame = f
      BY <1>1, <1>t, <2>3 DEF WriterSends, WTask
    <3>2. /\ Stream(c)' = Append(Stream(c), FirstHalf(f)) /\ Stream(c) \in Seq(Part)
      BY <1>0, <1>t, <2>1, <3>1, PutsAppends DEF FirstHalf
    <3>3. Whole(Stream(c)) /\ ~EndsHalfway(Stream(c))
      BY <1>t, <2>1, <2>3 DEF WholeFor
    <3>4. Whole(Stream(c)') /\ EndsIn(Stream(c)', FirstHalf(f))
      BY <2>1, <3>2, <3>3, AppendedFirstHalf
    <3> QED
      BY <1>0, <1>t, <2>1, <2>2, <3>1, <3>4 DEF WholeFor
  <2>4. CASE wtask[c].at = "second"
    <3>1. Puts(c, f, 2) /\ wtask'[c].at = "idle"
      BY <1>1, <1>t, <2>4 DEF WriterSends, WTask
    <3>2. /\ Stream(c)' = Append(Stream(c), SecondHalf(f)) /\ Stream(c) \in Seq(Part)
      BY <1>0, <1>t, <2>1, <3>1, PutsAppends DEF SecondHalf
    <3>3. Whole(Stream(c)) /\ EndsIn(Stream(c), FirstHalf(f))
      BY <1>t, <2>4 DEF WholeFor
    <3>4. Whole(Stream(c)') /\ ~EndsHalfway(Stream(c)')
      BY <2>1, <3>2, <3>3, AppendedSecondHalf
    <3> QED
      BY <1>0, <1>t, <2>1, <2>2, <3>1, <3>4 DEF WholeFor
  <2> QED
    BY <2>1, <2>3, <2>4
<1>2. CASE LoopSends(c)
  <2> DEFINE f == Reply(c)
  <2>1. loop[c].at \in {"first", "second"} /\ wtask[c].at \notin {"first", "second"}
    BY <1>2, <1>t DEF LoopSends, LocksAreHeld
  <2>2. UNCHANGED wtask /\ f \in Frame
    BY <1>2, <1>t, <2>1 DEF LoopSends, Types, ConnTypes, Reply, Frame
  <2>3. CASE loop[c].at = "first"
    <3>1. Puts(c, f, 1) /\ loop'[c].at = "second" /\ f' = f
      BY <1>2, <1>t, <2>3 DEF LoopSends, Loop, Reply
    <3>2. /\ Stream(c)' = Append(Stream(c), FirstHalf(f)) /\ Stream(c) \in Seq(Part)
      BY <1>0, <1>t, <2>2, <3>1, PutsAppends DEF FirstHalf
    <3>3. Whole(Stream(c)) /\ ~EndsHalfway(Stream(c))
      BY <1>t, <2>1, <2>3 DEF WholeFor
    <3>4. Whole(Stream(c)') /\ EndsIn(Stream(c)', FirstHalf(f))
      BY <2>2, <3>2, <3>3, AppendedFirstHalf
    <3> QED
      BY <1>0, <1>t, <2>1, <2>2, <3>1, <3>4 DEF WholeFor
  <2>4. CASE loop[c].at = "second"
    <3>1. Puts(c, f, 2) /\ loop'[c].at = "idle"
      BY <1>2, <1>t, <2>4 DEF LoopSends, Idle
    <3>2. /\ Stream(c)' = Append(Stream(c), SecondHalf(f)) /\ Stream(c) \in Seq(Part)
      BY <1>0, <1>t, <2>2, <3>1, PutsAppends DEF SecondHalf
    <3>3. Whole(Stream(c)) /\ EndsIn(Stream(c), FirstHalf(f))
      BY <1>t, <2>4 DEF WholeFor
    <3>4. Whole(Stream(c)') /\ ~EndsHalfway(Stream(c)')
      BY <2>2, <3>2, <3>3, AppendedSecondHalf
    <3> QED
      BY <1>0, <1>t, <2>1, <2>2, <3>1, <3>4 DEF WholeFor
  <2> QED
    BY <2>1, <2>3, <2>4
<1> QED
  BY <1>1, <1>2

LEMMA FramesStep == IInv /\ [Next]_vars => \A c \in open' : WholeFor(c)'
<1> SUFFICES ASSUME IInv, [Next]_vars, NEW d \in open' PROVE WholeFor(d)'
  OBVIOUS
<1>t. /\ Types /\ LocksAreHeld /\ \A c \in open : WholeFor(c) /\ open \subseteq Conn
      /\ wtask \in [Conn -> WTask] /\ loop \in [Conn -> Loop] /\ sock \in [Conn -> Seq(Part)]
      /\ seen \in [Conn -> Seq(Part)]
  BY DEF IInv, Types, ConnTypes
<1>1. CASE UNCHANGED <<sock, seen, wtask, loop, open>>
  BY <1>1, <1>t, Unmoved
<1>2. CASE Tick
  BY <1>1, <1>2 DEF Tick, TickStarts, NextSession, Pull, Handle, SessionDrained, TickEnds, conns
<1>3. ASSUME NEW s \in Session, ReaderSends(s) \/ ShellReads(s) PROVE WholeFor(d)'
  BY <1>1, <1>3 DEF ReaderSends, ShellReads, conns
<1>4. ASSUME NEW c \in Conn, WriterTask(c) \/ ReadLoop(c) \/ Asks(c) \/ ClientReads(c) \/ ClientCloses(c),
             d # c
      PROVE  WholeFor(d)'
  <2>1. d \in open
    BY <1>4 DEF WriterTask, WriterTakes, WriterLocks, WriterSends, WriterFails, writerElse,
                ReadLoop, HostServes, HostHeld, LoopLocks, LoopSends, LoopTypes, LoopEnds,
                Asks, ClientReads, ClientCloses
  <2>2. wtask'[d] = wtask[d] /\ loop'[d] = loop[d]
    BY <1>4, <1>t, <2>1 DEF WriterTask, WriterTakes, WriterLocks, WriterSends, WriterFails, writerElse,
                WriterEnded, ReadLoop, HostServes, HostHeld, LoopLocks, LoopSends, LoopTypes, LoopEnds,
                Asks, ClientReads, ClientCloses
  <2>3. sock'[d] = sock[d] /\ seen'[d] = seen[d]
    BY <1>4, <1>t, <2>1 DEF WriterTask, WriterTakes, WriterLocks, WriterSends, WriterFails, writerElse,
                Puts, ReadLoop, HostServes, HostHeld, LoopLocks, LoopSends, LoopTypes, LoopEnds,
                Asks, ClientReads, ClientCloses
  <2> QED
    BY <1>t, <2>1, <2>2, <2>3, Unmoved
<1>5. CASE WriterTask(d)
  <2>1. d \in open /\ d \in Conn
    BY <1>5, <1>t DEF WriterTask, WriterTakes, WriterLocks, WriterSends, WriterFails, writerElse
  <2>2. CASE WriterSends(d)
    BY <2>1, <2>2, SendKeeps
  <2>3. CASE WriterTakes(d) \/ WriterLocks(d) \/ WriterFails(d)
    <3>1. UNCHANGED <<loop, sock, seen>> /\ wtask[d].at # "second" /\ wtask'[d].at # "second"
      BY <1>t, <2>1, <2>3 DEF WriterTakes, WriterLocks, WriterFails, writerElse, WTask
    <3> QED
      BY <1>t, <2>1, <3>1, Unmoved
  <2> QED
    BY <1>5, <2>2, <2>3 DEF WriterTask
<1>6. CASE ReadLoop(d) \/ Asks(d)
  <2>1. d \in open /\ d \in Conn
    BY <1>6, <1>t DEF ReadLoop, HostServes, HostHeld, LoopLocks, LoopSends, LoopTypes, LoopEnds, Asks
  <2>2. CASE LoopSends(d)
    BY <2>1, <2>2, SendKeeps
  <2>3. CASE HostServes(d) \/ HostHeld(d) \/ LoopLocks(d) \/ LoopTypes(d) \/ Asks(d)
    <3>1. UNCHANGED <<wtask, sock, seen>> /\ loop[d].at # "second"
      BY <2>3 DEF HostServes, HostHeld, LoopLocks, LoopTypes, Asks
    <3>2. loop'[d].at # "second"
      BY <1>t, <2>1, <2>3 DEF HostServes, HostHeld, LoopLocks, LoopTypes, Asks, Idle, Loop
    <3> QED
      BY <1>t, <2>1, <3>1, <3>2, Unmoved
  <2>4. ~LoopEnds(d)
    BY <2>1 DEF LoopEnds
  <2> QED
    BY <1>6, <2>2, <2>3, <2>4 DEF ReadLoop
<1>7. CASE ClientReads(d)
  BY <1>7, <1>t, ClientReadsKeeps DEF ClientReads
<1>8. ~ClientCloses(d)
  BY DEF ClientCloses
<1>9. CASE UNCHANGED vars
  BY <1>1, <1>9 DEF vars
<1> QED
  BY <1>2, <1>3, <1>4, <1>5, <1>6, <1>7, <1>8, <1>9 DEF Next

-----------------------------------------------------------------------------
LEMMA InitIInv == Init => IInv
<1> SUFFICES ASSUME Init PROVE IInv
  OBVIOUS
<1>1. LocksAreHeld
  BY PipelineAssumption DEF Init, LocksAreHeld, Idle, Free
<1>2. ASSUME NEW c \in open PROVE WholeFor(c)
  <2>1. /\ c \in Conn /\ seen[c] = <<>> /\ sock[c] = <<>> /\ wtask[c].at = "idle"
        /\ loop[c].at = "idle"
    BY DEF Init, Idle
  <2>2. Stream(c) = <<>>
    BY <2>1 DEF Stream
  <2>3. Whole(<<>>) /\ ~EndsHalfway(<<>>)
    BY DEF Whole, EndsHalfway
  <2> QED
    BY <2>1, <2>2, <2>3 DEF WholeFor
<1> QED
  BY <1>1, <1>2, InitTypes DEF IInv

LEMMA IInvStep == IInv /\ [Next]_vars => IInv'
BY TypesStep, LocksStep, FramesStep DEF IInv

LEMMA Invariance == Spec => []IInv
BY InitIInv, IInvStep, PTL DEF Spec

LEMMA WholeMeansWhole == IInv => FramesWhole
<1> SUFFICES ASSUME IInv, NEW c \in open
             PROVE  /\ Whole(Stream(c))
                    /\ EndsHalfway(Stream(c)) => sockLock[c] # Free
  BY DEF FramesWhole, Whole, EndsHalfway
<1>1. WholeFor(c) /\ c \in Conn
  BY DEF IInv, Types, ConnTypes
<1>2. wtask[c].at = "second" \/ loop[c].at = "second" => sockLock[c] # Free
  BY <1>1 DEF IInv, LocksAreHeld, Free
<1> QED
  BY <1>1, <1>2 DEF WholeFor

(* The channels never hold more than their capacity, and every variable has   *)
(* its type.                                                                  *)
THEOREM PipelineTypes == Spec => []TypeOK
<1>1. IInv => TypeOK
  BY TypesImplyTypeOK DEF IInv
<1> QED
  BY <1>1, Invariance, PTL

(* Only a task at work holds the host lock or a socket lock, however many     *)
(* connections end in the middle of a request or of an event.                 *)
THEOREM NoLockIsLeftBehind == Spec => []LocksAreHeld
<1>1. IInv => LocksAreHeld
  BY DEF IInv
<1> QED
  BY <1>1, Invariance, PTL

(* The two tasks of a connection never mix their frames on its socket.        *)
THEOREM FramesStayWhole == Spec => []FramesWhole
BY WholeMeansWhole, Invariance, PTL

-----------------------------------------------------------------------------
(* Order: what the host is still to handle *)

InTheBatch(s) == IF draining.cur = s THEN Len(pulled) ELSE 0

(* The events of a session that are pulled, and then those in its channel,    *)
(* follow the last one handled without a gap.                                 *)
HostOrder ==
  /\ handled \in [Session -> Nat]
  /\ draining.cur # "none" => hostLock = "tick"
  /\ draining.cur = "none" => pulled = <<>>
  /\ draining.cur \in Session =>
       \A i \in 1..Len(pulled) : pulled[i] = handled[draining.cur] + i
  /\ \A s \in Session :
       /\ made[s] = handled[s] + InTheBatch(s) + Len(events[s])
       /\ \A i \in 1..Len(events[s]) : events[s][i] = handled[s] + InTheBatch(s) + i

LEMMA DrainsASession == Types /\ (Pull \/ Handle) => draining.cur \in Session
BY DEF Types, HostTypes, Pull, Handle

LEMMA PullOrder ==
  ASSUME Types, HostOrder, Pull, NEW s \in Session, s = draining.cur PROVE HostOrder'
<1> DEFINE e == events[s]
<1>t. /\ s \in Session /\ made \in [Session -> 0 .. MaxChunk + 1]
      /\ events \in [Session -> Seq(EventNo)] /\ pulled \in Seq(EventNo)
      /\ e \in Seq(EventNo) /\ Len(e) \in Nat /\ Len(pulled) \in Nat
      /\ handled[s] \in Nat /\ made[s] \in Nat
      /\ draining \in [left : SUBSET Session, cur : Session \cup {"none"}, stage : {"pull", "handle"}]
  BY PipelineAssumption DEF Types, HostTypes, HostOrder, Pull
<1>1. UNCHANGED <<made, handled, hostLock>> /\ draining'.cur = s
  BY <1>t DEF Pull
<1>2. CASE e = <<>>
  <2>1. UNCHANGED <<pulled, events>>
    BY <1>2 DEF Pull
  <2> QED
    BY <1>1, <2>1 DEF HostOrder, InTheBatch
<1>3. CASE e # <<>>
  <2>1. /\ pulled' = Append(pulled, Head(e)) /\ events' = [events EXCEPT ![s] = Tail(e)]
    BY <1>3, <1>t DEF Pull
  <2>2. /\ Head(e) \in EventNo /\ Head(e) = e[1] /\ Tail(e) \in Seq(EventNo) /\ Len(e) > 0
        /\ Len(Tail(e)) = Len(e) - 1 /\ \A i \in 1..Len(Tail(e)) : Tail(e)[i] = e[i + 1]
    BY <1>3, <1>t, HeadTailProperties, EmptySeq
  <2>3. /\ Len(pulled') = Len(pulled) + 1 /\ pulled'[Len(pulled) + 1] = Head(e)
        /\ \A i \in 1..Len(pulled) : pulled'[i] = pulled[i]
    BY <1>t, <2>1, <2>2, AppendProperties
  <2>4. /\ made[s] = handled[s] + Len(pulled) + Len(e)
        /\ \A i \in 1..Len(e) : e[i] = handled[s] + Len(pulled) + i
        /\ \A i \in 1..Len(pulled) : pulled[i] = handled[s] + i
    BY <1>t DEF HostOrder, InTheBatch
  <2> HIDE DEF e
  <2>n. Len(e) \in Nat /\ Len(pulled) \in Nat /\ handled[s] \in Nat
    BY <1>t
  <2>5. Head(e) = handled[s] + Len(pulled) + 1
    <3>1. 1 \in 1..Len(e)
      BY <2>n, <2>2
    <3>2. e[1] = handled[s] + Len(pulled) + 1
      BY <2>4, <3>1
    <3> QED
      BY <2>2, <3>2
  <2>6. \A i \in 1..Len(pulled') : pulled'[i] = handled[s] + i
    <3> SUFFICES ASSUME NEW i \in 1..Len(pulled') PROVE pulled'[i] = handled[s] + i
      OBVIOUS
    <3>1. CASE i = Len(pulled) + 1
      BY <1>t, <2>3, <2>5, <3>1
    <3>2. CASE i # Len(pulled) + 1
      <4>1. i \in 1..Len(pulled)
        BY <1>t, <2>3, <3>2
      <4> QED
        BY <2>3, <2>4, <4>1
    <3> QED
      BY <3>1, <3>2
  <2>7. events'[s] = Tail(e) /\ \A r \in Session \ {s} : events'[r] = events[r]
    BY <1>t, <2>1
  <2>8. /\ made[s] = handled[s] + Len(pulled') + Len(events'[s])
        /\ \A i \in 1..Len(events'[s]) : events'[s][i] = handled[s] + Len(pulled') + i
    <3>1. made[s] = handled[s] + Len(pulled') + Len(events'[s])
      <4>1. Len(events'[s]) = Len(e) - 1 /\ Len(pulled') = Len(pulled) + 1
        BY <2>2, <2>3, <2>7
      <4>2. made[s] = handled[s] + Len(pulled) + Len(e)
        BY <2>4
      <4> QED
        BY <2>n, <4>1, <4>2, SMTT(30)
    <3>2. ASSUME NEW i \in 1..Len(events'[s])
          PROVE  events'[s][i] = handled[s] + Len(pulled') + i
      <4>1. i \in 1..Len(Tail(e)) /\ i + 1 \in 1..Len(e)
        BY <1>t, <2>2, <2>7
      <4>2. events'[s][i] = e[i + 1]
        BY <2>2, <2>7, <4>1
      <4>3. e[i + 1] = handled[s] + Len(pulled) + (i + 1)
        BY <2>4, <4>1
      <4>4. Len(pulled') = Len(pulled) + 1 /\ i \in Nat
        BY <2>3, <4>1
      <4> QED
        BY <2>n, <4>2, <4>3, <4>4, SMTT(30)
    <3> QED
      BY <3>1, <3>2
  <2>9. \A r \in Session \ {s} : InTheBatch(r)' = 0 /\ InTheBatch(r) = 0
    BY <1>1 DEF InTheBatch
  <2>10. InTheBatch(s)' = Len(pulled')
    BY <1>1 DEF InTheBatch
  <2>11. ASSUME NEW r \in Session
         PROVE  /\ made'[r] = handled'[r] + InTheBatch(r)' + Len(events'[r])
                /\ \A i \in 1..Len(events'[r]) : events'[r][i] = handled'[r] + InTheBatch(r)' + i
    <3>1. CASE r = s
      BY <1>1, <2>8, <2>10, <3>1
    <3>2. CASE r # s
      BY <1>1, <2>7, <2>9, <3>2 DEF HostOrder
    <3> QED
      BY <3>1, <3>2
  <2>12. draining'.cur # "none" /\ hostLock' = "tick"
    BY <1>1 DEF HostOrder, Pull
  <2> QED
    BY <1>1, <2>6, <2>11, <2>12 DEF HostOrder
<1> QED
  BY <1>2, <1>3

LEMMA HandleOrder ==
  ASSUME Types, HostOrder, Handle, NEW s \in Session, s = draining.cur
  PROVE  HostOrder' /\ Head(pulled) = handled[s] + 1
<1> DEFINE n == Head(pulled)
<1>t. /\ s \in Session /\ pulled \in Seq(EventNo) /\ pulled # <<>>
      /\ \A r \in Session : handled[r] \in Nat /\ Len(events[r]) \in Nat
      /\ handled \in [Session -> Nat]
  BY DEF Types, HostTypes, HostOrder, Handle
<1>1. /\ UNCHANGED <<made, events, hostLock, draining>> /\ pulled' = Tail(pulled)
      /\ handled' = [handled EXCEPT ![s] = n] /\ s # "none"
  BY DEF Handle
<1>2. /\ n = pulled[1] /\ Len(pulled) \in Nat \ {0} /\ Len(Tail(pulled)) = Len(pulled) - 1
      /\ \A i \in 1..Len(Tail(pulled)) : Tail(pulled)[i] = pulled[i + 1]
  BY <1>t, HeadTailProperties, EmptySeq
<1>3. /\ made[s] = handled[s] + Len(pulled) + Len(events[s])
      /\ \A i \in 1..Len(events[s]) : events[s][i] = handled[s] + Len(pulled) + i
      /\ \A i \in 1..Len(pulled) : pulled[i] = handled[s] + i
  BY <1>t DEF HostOrder, InTheBatch
<1> HIDE DEF n
<1>n. handled[s] \in Nat /\ Len(pulled) \in Nat \ {0} /\ Len(events[s]) \in Nat
  BY <1>t, <1>2
<1>4. n = handled[s] + 1 /\ handled'[s] = n /\ n \in Nat
  <2>1. 1 \in 1..Len(pulled)
    BY <1>n
  <2>2. n = handled[s] + 1
    BY <1>2, <1>3, <2>1
  <2> QED
    BY <1>n, <1>t, <1>1, <2>2
<1>5. \A i \in 1..Len(pulled') : pulled'[i] = handled'[s] + i
  <2> SUFFICES ASSUME NEW i \in 1..Len(pulled') PROVE pulled'[i] = handled'[s] + i
    OBVIOUS
  <2>1. i \in 1..Len(Tail(pulled)) /\ i + 1 \in 1..Len(pulled) /\ i \in Nat
    BY <1>n, <1>1, <1>2
  <2>2. pulled'[i] = pulled[i + 1] /\ pulled[i + 1] = handled[s] + (i + 1)
    BY <1>1, <1>2, <1>3, <2>1
  <2> QED
    <3>1. handled[s] + (i + 1) = (handled[s] + 1) + i
      BY <1>n, <2>1
    <3> QED
      BY <1>4, <2>2, <3>1
<1>6. \A r \in Session \ {s} : /\ InTheBatch(r)' = 0 /\ InTheBatch(r) = 0
                               /\ handled'[r] = handled[r]
  BY <1>t, <1>1 DEF InTheBatch
<1>7. InTheBatch(s)' = Len(pulled')
  BY <1>1 DEF InTheBatch
<1>8. /\ made[s] = handled'[s] + Len(pulled') + Len(events[s])
      /\ \A i \in 1..Len(events[s]) : events[s][i] = handled'[s] + Len(pulled') + i
  <2>1. Len(pulled') = Len(pulled) - 1 /\ Len(pulled) \in Nat /\ handled[s] \in Nat
        /\ handled'[s] = handled[s] + 1 /\ Len(events[s]) \in Nat
    BY <1>t, <1>1, <1>2, <1>4
  <2>2. handled'[s] + Len(pulled') = handled[s] + Len(pulled)
    BY <2>1
  <2> QED
    BY <1>3, <2>2
<1>9. ASSUME NEW r \in Session
      PROVE  /\ made'[r] = handled'[r] + InTheBatch(r)' + Len(events'[r])
             /\ \A i \in 1..Len(events'[r]) : events'[r][i] = handled'[r] + InTheBatch(r)' + i
  <2>1. CASE r = s
    BY <1>1, <1>7, <1>8, <2>1
  <2>2. CASE r # s
    BY <1>1, <1>6, <2>2 DEF HostOrder
  <2> QED
    BY <2>1, <2>2
<1>10. handled' \in [Session -> Nat]
  BY <1>t, <1>1, <1>4
<1>11. draining'.cur = s /\ s # "none" /\ hostLock' = "tick"
  BY <1>1 DEF HostOrder
<1> QED
  BY <1>4, <1>5, <1>9, <1>10, <1>11 DEF HostOrder, n

LEMMA HostOrderStep == Types /\ LocksAreHeld /\ HostOrder /\ [Next]_vars => HostOrder'
<1> SUFFICES ASSUME Types, LocksAreHeld, HostOrder, [Next]_vars PROVE HostOrder'
  OBVIOUS
<1>1. ASSUME UNCHANGED <<made, events, pulled, handled, draining>>,
             hostLock' = hostLock \/ hostLock # "tick"
      PROVE  HostOrder'
  BY <1>1 DEF HostOrder, InTheBatch
<1>2. CASE Tick
  <2>1. ASSUME TickStarts \/ NextSession \/ SessionDrained \/ TickEnds PROVE HostOrder'
    <3>1. UNCHANGED <<made, events, pulled, handled>> /\ pulled = <<>>
      BY <2>1 DEF TickStarts, NextSession, SessionDrained, TickEnds, host, HostOrder, Free
    <3>2. Len(pulled) = 0 /\ Len(pulled') = 0
      BY <3>1
    <3>3. draining'.cur # "none" => hostLock' = "tick"
      BY <2>1 DEF TickStarts, NextSession, SessionDrained, TickEnds, host, NoDrain, Types, HostTypes
    <3> QED
      BY <3>1, <3>2, <3>3 DEF HostOrder, InTheBatch
  <2> QED
    BY <1>2, <2>1, PullOrder, HandleOrder, DrainsASession DEF Tick
<1>3. ASSUME NEW s \in Session, ReaderSends(s) PROVE HostOrder'
  <2> DEFINE e == events[s]
  <2>t. /\ events \in [Session -> Seq(EventNo)] /\ made \in [Session -> 0 .. MaxChunk + 1]
        /\ e \in Seq(EventNo) /\ Len(e) \in Nat /\ made[s] + 1 \in EventNo /\ handled[s] \in Nat
        /\ InTheBatch(s) \in Nat
    <3>1. /\ events \in [Session -> Seq(EventNo)] /\ made \in [Session -> 0 .. MaxChunk + 1]
          /\ handled[s] \in Nat /\ MaxChunk \in Nat \ {0} /\ made[s] < MaxChunk + 1
      BY <1>3, PipelineAssumption, SMTT(30) DEF Types, HostTypes, HostOrder, ReaderSends
    <3>2. e \in Seq(EventNo) /\ Len(e) \in Nat
      BY <3>1, LenProperties
    <3>3. made[s] + 1 \in EventNo
      BY <3>1 DEF EventNo
    <3>4. InTheBatch(s) \in Nat
      BY LenProperties DEF InTheBatch, Types, HostTypes
    <3> QED
      BY <3>1, <3>2, <3>3, <3>4
  <2>1. /\ made' = [made EXCEPT ![s] = made[s] + 1]
        /\ events' = [events EXCEPT ![s] = Append(e, made[s] + 1)]
        /\ UNCHANGED <<hostLock, pulled, draining, handled>>
    BY <1>3, <2>t DEF ReaderSends
  <2>2. /\ made[s] = handled[s] + InTheBatch(s) + Len(e)
        /\ \A i \in 1..Len(e) : e[i] = handled[s] + InTheBatch(s) + i
    BY DEF HostOrder
  <2>3. /\ Len(Append(e, made[s] + 1)) = Len(e) + 1 /\ Append(e, made[s] + 1)[Len(e) + 1] = made[s] + 1
        /\ \A i \in 1..Len(e) : Append(e, made[s] + 1)[i] = e[i]
    BY <2>t, AppendProperties
  <2> HIDE DEF e
  <2>4. /\ made'[s] = handled[s] + InTheBatch(s) + Len(events'[s])
        /\ \A i \in 1..Len(events'[s]) : events'[s][i] = handled[s] + InTheBatch(s) + i
    <3>1. events'[s] = Append(e, made[s] + 1) /\ made'[s] = made[s] + 1
      BY <2>t, <2>1
    <3> QED
      <4>1. made'[s] = handled[s] + InTheBatch(s) + Len(events'[s])
        <5>1. /\ made'[s] = made[s] + 1 /\ Len(events'[s]) = Len(e) + 1
              /\ made[s] = handled[s] + InTheBatch(s) + Len(e)
          BY <2>2, <2>3, <3>1
        <5>2. Len(e) \in Nat /\ handled[s] \in Nat /\ InTheBatch(s) \in Nat
          BY <2>t
        <5> QED
          BY <5>1, <5>2
      <4>2. ASSUME NEW i \in 1..Len(events'[s])
            PROVE  events'[s][i] = handled[s] + InTheBatch(s) + i
        <5>1. CASE i = Len(e) + 1
          BY <2>t, <2>2, <2>3, <3>1, <5>1
        <5>2. CASE i # Len(e) + 1
          <6>1. i \in 1..Len(e)
            BY <2>t, <2>3, <3>1, <5>2
          <6> QED
            BY <2>2, <2>3, <3>1, <6>1
        <5> QED
          BY <5>1, <5>2
      <4> QED
        BY <4>1, <4>2
  <2>5. \A r \in Session \ {s} : made'[r] = made[r] /\ events'[r] = events[r]
    BY <2>t, <2>1
  <2>6. \A r \in Session : InTheBatch(r)' = InTheBatch(r)
    BY <2>1 DEF InTheBatch
  <2> QED
    BY <2>1, <2>4, <2>5, <2>6 DEF HostOrder
<1>4. ASSUME NEW s \in Session, ShellReads(s) PROVE HostOrder'
  BY <1>1, <1>4 DEF ShellReads, host
<1>5. ASSUME NEW c \in Conn, WriterTask(c) \/ ReadLoop(c) \/ Asks(c) \/ ClientReads(c) \/ ClientCloses(c)
      PROVE  HostOrder'
  <2>1. UNCHANGED host
    BY <1>5 DEF WriterTask, WriterTakes, WriterLocks, WriterSends, WriterFails, writerElse,
                ReadLoop, HostServes, HostHeld, LoopLocks, LoopSends, LoopTypes, LoopEnds,
                Asks, ClientReads, ClientCloses
  <2>2. hostLock' = hostLock \/ hostLock # "tick"
    BY <1>5, PipelineAssumption
       DEF WriterTask, WriterTakes, WriterLocks, WriterSends, WriterFails, writerElse,
                ReadLoop, HostServes, HostHeld, LoopLocks, LoopSends, LoopTypes, LoopEnds, Unlocked,
                Asks, ClientReads, ClientCloses, Free
  <2> QED
    BY <1>1, <2>1, <2>2 DEF host
<1>6. CASE UNCHANGED vars
  BY <1>1, <1>6 DEF vars
<1> QED
  BY <1>2, <1>3, <1>4, <1>5, <1>6 DEF Next

-----------------------------------------------------------------------------
(* Order: what is on its way to a client *)

Mine(f, s) == f.kind = "event" /\ f.sid = s
InHand(at) == at \in {"lock", "first", "second"}

(* The parts pt in the socket, the frame f of a writer task that is at at and *)
(* the frames ch in the channel, for session s of which event l was read and  *)
(* event h handled: whatever comes later is newer, and only the second half   *)
(* of a frame comes with the number of the part before it.                    *)
SentOrder(pt, l, h, s) ==
  /\ l <= h
  /\ \A k \in DOMAIN pt : Mine(pt[k].frame, s) => l <= pt[k].frame.n /\ pt[k].frame.n <= h
  /\ \A k, m \in DOMAIN pt : k < m /\ Mine(pt[k].frame, s) /\ Mine(pt[m].frame, s) =>
       /\ pt[k].frame.n <= pt[m].frame.n
       /\ pt[k].frame.n = pt[m].frame.n => m = k + 1

HandOrder(pt, at, f, l, h, s) ==
  InHand(at) /\ Mine(f, s) =>
    /\ l <= f.n /\ f.n <= h
    /\ \A k \in DOMAIN pt : Mine(pt[k].frame, s) =>
         /\ pt[k].frame.n <= f.n
         /\ pt[k].frame.n = f.n => at = "second" /\ k = Len(pt)

QueueOrder(pt, at, f, ch, l, h, s) ==
  \A i \in DOMAIN ch : Mine(ch[i], s) =>
    /\ l <= ch[i].n /\ ch[i].n <= h
    /\ \A k \in DOMAIN pt : Mine(pt[k].frame, s) => pt[k].frame.n < ch[i].n
    /\ InHand(at) /\ Mine(f, s) => f.n < ch[i].n
    /\ \A j \in DOMAIN ch : i < j /\ Mine(ch[j], s) => ch[i].n < ch[j].n

Ordered(pt, at, f, ch, l, h, s) ==
  SentOrder(pt, l, h, s) /\ HandOrder(pt, at, f, l, h, s) /\ QueueOrder(pt, at, f, ch, l, h, s)

LEMMA NumbersOfFrames ==
  /\ \A f \in Frame : f.n \in Nat
  /\ \A p \in Part : p.frame \in Frame /\ p.frame.n \in Nat
BY PipelineAssumption DEF Frame, Part, EventNo

LEMMA TakenInOrder ==
  ASSUME NEW pt \in Seq(Part), NEW ch \in Seq(Frame), ch # <<>>, NEW l \in Nat, NEW h \in Nat, NEW s, NEW f,
         Ordered(pt, "idle", f, ch, l, h, s)
  PROVE  Ordered(pt, "lock", Head(ch), Tail(ch), l, h, s)
<1> DEFINE t == Tail(ch)
<1>1. /\ Head(ch) = ch[1] /\ t \in Seq(Frame) /\ Len(t) = Len(ch) - 1 /\ Len(ch) \in Nat \ {0}
      /\ \A i \in 1..Len(t) : t[i] = ch[i + 1]
      /\ DOMAIN ch = 1..Len(ch) /\ DOMAIN t = 1..Len(t)
  BY HeadTailProperties, EmptySeq, LenProperties
<1> HIDE DEF t
<1>2. \A i \in DOMAIN t : i \in Nat /\ i + 1 \in DOMAIN ch /\ t[i] = ch[i + 1] /\ 1 < i + 1
  BY <1>1
<1>3. \A i, j \in DOMAIN t : i < j => i + 1 < j + 1
  BY <1>2
<1>4. 1 \in DOMAIN ch
  BY <1>1
<1>5. SentOrder(pt, l, h, s) /\ QueueOrder(pt, "idle", f, ch, l, h, s)
  BY DEF Ordered
<1>6. HandOrder(pt, "lock", ch[1], l, h, s)
  <2> SUFFICES ASSUME Mine(ch[1], s)
               PROVE  /\ l <= ch[1].n /\ ch[1].n <= h
                      /\ \A k \in DOMAIN pt : Mine(pt[k].frame, s) =>
                           /\ pt[k].frame.n <= ch[1].n
                           /\ pt[k].frame.n = ch[1].n => FALSE
    BY DEF HandOrder
  <2>1. /\ l <= ch[1].n /\ ch[1].n <= h
        /\ \A k \in DOMAIN pt : Mine(pt[k].frame, s) => pt[k].frame.n < ch[1].n
    BY <1>4, <1>5 DEF QueueOrder
  <2>2. ch[1].n \in Nat /\ \A k \in DOMAIN pt : pt[k].frame.n \in Nat
    <3>1. ch[1] \in Frame /\ \A k \in DOMAIN pt : pt[k] \in Part
      BY <1>1, <1>4, ElementOfSeq, LenProperties
    <3> QED
      BY <3>1, NumbersOfFrames
  <2> QED
    BY <2>1, <2>2
<1>7. QueueOrder(pt, "lock", ch[1], t, l, h, s)
  <2> SUFFICES ASSUME NEW i \in DOMAIN t, Mine(t[i], s)
               PROVE  /\ l <= t[i].n /\ t[i].n <= h
                      /\ \A k \in DOMAIN pt : Mine(pt[k].frame, s) => pt[k].frame.n < t[i].n
                      /\ Mine(ch[1], s) => ch[1].n < t[i].n
                      /\ \A j \in DOMAIN t : i < j /\ Mine(t[j], s) => t[i].n < t[j].n
    BY DEF QueueOrder
  <2>1. i + 1 \in DOMAIN ch /\ t[i] = ch[i + 1] /\ 1 < i + 1
    BY <1>2
  <2>2. Mine(ch[1], s) => ch[1].n < t[i].n
    BY <1>4, <1>5, <2>1 DEF QueueOrder
  <2>3. \A j \in DOMAIN t : i < j /\ Mine(t[j], s) => t[i].n < t[j].n
    BY <1>2, <1>3, <1>5, <2>1 DEF QueueOrder
  <2>4. /\ l <= t[i].n /\ t[i].n <= h
        /\ \A k \in DOMAIN pt : Mine(pt[k].frame, s) => pt[k].frame.n < t[i].n
    BY <1>5, <2>1 DEF QueueOrder
  <2> QED
    BY <2>2, <2>3, <2>4
<1> QED
  BY <1>1, <1>5, <1>6, <1>7 DEF Ordered, t

LEMMA LockedInOrder ==
  ASSUME NEW pt, NEW ch, NEW l, NEW h, NEW s, NEW f, Ordered(pt, "lock", f, ch, l, h, s)
  PROVE  Ordered(pt, "first", f, ch, l, h, s)
BY DEF Ordered, HandOrder, QueueOrder, InHand

(* One more part in the socket.                                               *)
LEMMA PartAppended ==
  ASSUME NEW pt \in Seq(Part), NEW p \in Part
  PROVE  /\ Len(pt) \in Nat /\ DOMAIN pt = 1..Len(pt)
         /\ Len(Append(pt, p)) = Len(pt) + 1
         /\ DOMAIN Append(pt, p) = (DOMAIN pt) \cup {Len(pt) + 1}
         /\ \A k \in DOMAIN pt : Append(pt, p)[k] = pt[k] /\ k \in Nat /\ k < Len(pt) + 1
         /\ Append(pt, p)[Len(pt) + 1] = p
<1>1. /\ Append(pt, p) \in Seq(Part) /\ Len(Append(pt, p)) = Len(pt) + 1
      /\ \A k \in 1..Len(pt) : Append(pt, p)[k] = pt[k]
      /\ Append(pt, p)[Len(pt) + 1] = p
  BY AppendProperties
<1>2. Len(pt) \in Nat /\ DOMAIN pt = 1..Len(pt)
  BY LenProperties
<1>3. DOMAIN Append(pt, p) = 1..Len(pt) + 1
  BY <1>1, LenProperties
<1> QED
  BY <1>1, <1>2, <1>3

LEMMA SentFirstInOrder ==
  ASSUME NEW pt \in Seq(Part), NEW f \in Frame, NEW ch \in Seq(Frame), NEW l \in Nat, NEW h \in Nat,
         NEW s, Ordered(pt, "first", f, ch, l, h, s)
  PROVE  Ordered(Append(pt, FirstHalf(f)), "second", f, ch, l, h, s)
<1> DEFINE p == FirstHalf(f)
           n == Append(pt, p)
           z == Len(pt) + 1
<1>1. p \in Part /\ p.frame = f
  BY DEF FirstHalf, Part
<1>2. /\ Len(pt) \in Nat /\ Len(n) = z /\ DOMAIN n = (DOMAIN pt) \cup {z} /\ n[z] = p
      /\ \A k \in DOMAIN pt : n[k] = pt[k] /\ k \in Nat /\ k < z
  BY <1>1, PartAppended
<1> HIDE DEF p, n
<1>3. /\ SentOrder(pt, l, h, s) /\ HandOrder(pt, "first", f, l, h, s)
      /\ QueueOrder(pt, "first", f, ch, l, h, s)
  BY DEF Ordered
<1>4. Mine(f, s) => /\ l <= f.n /\ f.n <= h
                    /\ \A k \in DOMAIN pt : Mine(pt[k].frame, s) =>
                         pt[k].frame.n <= f.n /\ pt[k].frame.n # f.n
  BY <1>3 DEF HandOrder, InHand
<1>5. SentOrder(n, l, h, s)
  <2>1. \A k \in DOMAIN n : Mine(n[k].frame, s) => l <= n[k].frame.n /\ n[k].frame.n <= h
    BY <1>1, <1>2, <1>3, <1>4 DEF SentOrder
  <2>2. ASSUME NEW k \in DOMAIN n, NEW m \in DOMAIN n, k < m, Mine(n[k].frame, s), Mine(n[m].frame, s)
        PROVE  /\ n[k].frame.n <= n[m].frame.n
               /\ n[k].frame.n = n[m].frame.n => m = k + 1
    <3>1. k \in DOMAIN pt
      BY <1>2, <2>2
    <3>2. CASE m = z
      BY <1>1, <1>2, <1>4, <2>2, <3>1, <3>2
    <3>3. CASE m \in DOMAIN pt
      BY <1>2, <1>3, <2>2, <3>1, <3>3 DEF SentOrder
    <3> QED
      BY <1>2, <3>2, <3>3
  <2> QED
    BY <1>3, <2>1, <2>2 DEF SentOrder
<1>6. HandOrder(n, "second", f, l, h, s)
  <2> SUFFICES ASSUME Mine(f, s)
               PROVE  /\ l <= f.n /\ f.n <= h
                      /\ \A k \in DOMAIN n : Mine(n[k].frame, s) =>
                           n[k].frame.n <= f.n /\ (n[k].frame.n = f.n => k = Len(n))
    BY DEF HandOrder
  <2>1. l <= f.n /\ f.n <= h
    BY <1>4
  <2>2. ASSUME NEW k \in DOMAIN n, Mine(n[k].frame, s)
        PROVE  n[k].frame.n <= f.n /\ (n[k].frame.n = f.n => k = Len(n))
    <3>1. CASE k = z
      <4>1. n[k].frame = f /\ k = Len(n)
        BY <1>1, <1>2, <3>1
      <4>2. f.n \in Nat
        BY NumbersOfFrames
      <4> QED
        BY <4>1, <4>2
    <3>2. CASE k \in DOMAIN pt
      <4>1. n[k] = pt[k]
        BY <1>2, <3>2
      <4> QED
        BY <1>4, <2>2, <3>2, <4>1
    <3> QED
      BY <1>2, <3>1, <3>2
  <2> QED
    BY <2>1, <2>2
<1>7. QueueOrder(n, "second", f, ch, l, h, s)
  <2> SUFFICES ASSUME NEW i \in DOMAIN ch, Mine(ch[i], s)
               PROVE  /\ l <= ch[i].n /\ ch[i].n <= h
                      /\ \A k \in DOMAIN n : Mine(n[k].frame, s) => n[k].frame.n < ch[i].n
                      /\ Mine(f, s) => f.n < ch[i].n
                      /\ \A j \in DOMAIN ch : i < j /\ Mine(ch[j], s) => ch[i].n < ch[j].n
    BY DEF QueueOrder
  <2>1. /\ l <= ch[i].n /\ ch[i].n <= h
        /\ \A k \in DOMAIN pt : Mine(pt[k].frame, s) => pt[k].frame.n < ch[i].n
        /\ Mine(f, s) => f.n < ch[i].n
        /\ \A j \in DOMAIN ch : i < j /\ Mine(ch[j], s) => ch[i].n < ch[j].n
    BY <1>3 DEF QueueOrder, InHand
  <2> QED
    BY <1>1, <1>2, <2>1
<1> QED
  BY <1>5, <1>6, <1>7 DEF Ordered, n, p

LEMMA SentSecondInOrder ==
  ASSUME NEW pt \in Seq(Part), NEW f \in Frame, NEW ch \in Seq(Frame), NEW l \in Nat, NEW h \in Nat,
         NEW s, NEW g, Ordered(pt, "second", f, ch, l, h, s)
  PROVE  Ordered(Append(pt, SecondHalf(f)), "idle", g, ch, l, h, s)
<1> DEFINE p == SecondHalf(f)
           n == Append(pt, p)
           z == Len(pt) + 1
<1>1. p \in Part /\ p.frame = f
  BY DEF SecondHalf, Part
<1>2. /\ Len(pt) \in Nat /\ Len(n) = z /\ DOMAIN n = (DOMAIN pt) \cup {z} /\ n[z] = p
      /\ \A k \in DOMAIN pt : n[k] = pt[k] /\ k \in Nat /\ k < z
  BY <1>1, PartAppended
<1> HIDE DEF p, n
<1>3. /\ SentOrder(pt, l, h, s) /\ HandOrder(pt, "second", f, l, h, s)
      /\ QueueOrder(pt, "second", f, ch, l, h, s)
  BY DEF Ordered
<1>4. Mine(f, s) => /\ l <= f.n /\ f.n <= h
                    /\ \A k \in DOMAIN pt : Mine(pt[k].frame, s) =>
                         pt[k].frame.n <= f.n /\ (pt[k].frame.n = f.n => k = Len(pt))
  BY <1>3 DEF HandOrder, InHand
<1>5. SentOrder(n, l, h, s)
  <2>1. \A k \in DOMAIN n : Mine(n[k].frame, s) => l <= n[k].frame.n /\ n[k].frame.n <= h
    BY <1>1, <1>2, <1>3, <1>4 DEF SentOrder
  <2>2. ASSUME NEW k \in DOMAIN n, NEW m \in DOMAIN n, k < m, Mine(n[k].frame, s), Mine(n[m].frame, s)
        PROVE  /\ n[k].frame.n <= n[m].frame.n
               /\ n[k].frame.n = n[m].frame.n => m = k + 1
    <3>1. k \in DOMAIN pt
      BY <1>2, <2>2
    <3>2. CASE m = z
      BY <1>1, <1>2, <1>4, <2>2, <3>1, <3>2
    <3>3. CASE m \in DOMAIN pt
      BY <1>2, <1>3, <2>2, <3>1, <3>3 DEF SentOrder
    <3> QED
      BY <1>2, <3>2, <3>3
  <2> QED
    BY <1>3, <2>1, <2>2 DEF SentOrder
<1>6. HandOrder(n, "idle", g, l, h, s)
  BY DEF HandOrder, InHand
<1>7. QueueOrder(n, "idle", g, ch, l, h, s)
  <2> SUFFICES ASSUME NEW i \in DOMAIN ch, Mine(ch[i], s)
               PROVE  /\ l <= ch[i].n /\ ch[i].n <= h
                      /\ \A k \in DOMAIN n : Mine(n[k].frame, s) => n[k].frame.n < ch[i].n
                      /\ \A j \in DOMAIN ch : i < j /\ Mine(ch[j], s) => ch[i].n < ch[j].n
    BY DEF QueueOrder, InHand
  <2>1. /\ l <= ch[i].n /\ ch[i].n <= h
        /\ \A k \in DOMAIN pt : Mine(pt[k].frame, s) => pt[k].frame.n < ch[i].n
        /\ Mine(f, s) => f.n < ch[i].n
        /\ \A j \in DOMAIN ch : i < j /\ Mine(ch[j], s) => ch[i].n < ch[j].n
    BY <1>3 DEF QueueOrder, InHand
  <2> QED
    BY <1>1, <1>2, <2>1
<1> QED
  BY <1>5, <1>6, <1>7 DEF Ordered, n, p

LEMMA RepliedInOrder ==
  ASSUME NEW pt \in Seq(Part), NEW p \in Part, NEW at, at # "second", NEW f, NEW ch, NEW l, NEW h,
         NEW s, ~Mine(p.frame, s), Ordered(pt, at, f, ch, l, h, s)
  PROVE  Ordered(Append(pt, p), at, f, ch, l, h, s)
<1> DEFINE n == Append(pt, p)
           z == Len(pt) + 1
<1>1. /\ Len(pt) \in Nat /\ DOMAIN n = (DOMAIN pt) \cup {z} /\ n[z] = p
      /\ \A k \in DOMAIN pt : n[k] = pt[k]
  BY PartAppended
<1> HIDE DEF n
<1>2. \A k \in DOMAIN n : Mine(n[k].frame, s) => k \in DOMAIN pt /\ n[k] = pt[k]
  BY <1>1
<1>3. /\ SentOrder(pt, l, h, s) /\ HandOrder(pt, at, f, l, h, s)
      /\ QueueOrder(pt, at, f, ch, l, h, s)
  BY DEF Ordered
<1>4. SentOrder(n, l, h, s)
  BY <1>2, <1>3 DEF SentOrder
<1>5. HandOrder(n, at, f, l, h, s)
  BY <1>2, <1>3 DEF HandOrder
<1>6. QueueOrder(n, at, f, ch, l, h, s)
  BY <1>2, <1>3 DEF QueueOrder
<1> QED
  BY <1>4, <1>5, <1>6 DEF Ordered, n

LEMMA ReadInOrder ==
  ASSUME NEW pt \in Seq(Part), pt # <<>>, NEW at, NEW f, NEW ch, NEW l, NEW h, NEW s,
         Ordered(pt, at, f, ch, l, h, s),
         NEW e, e = IF Mine(Head(pt).frame, s) THEN Head(pt).frame.n ELSE l,
         InHand(at) => f \in Frame, ch \in Seq(Frame)
  PROVE  Ordered(Tail(pt), at, f, ch, e, h, s)
<1> DEFINE t == Tail(pt)
<1>1. /\ Head(pt) = pt[1] /\ t \in Seq(Part) /\ Len(t) = Len(pt) - 1 /\ Len(pt) \in Nat \ {0}
      /\ \A i \in 1..Len(t) : t[i] = pt[i + 1]
      /\ DOMAIN pt = 1..Len(pt) /\ DOMAIN t = 1..Len(t)
  BY HeadTailProperties, EmptySeq, LenProperties
<1> HIDE DEF t
<1>2. \A i \in DOMAIN t : i \in Nat /\ i + 1 \in DOMAIN pt /\ t[i] = pt[i + 1] /\ 1 < i + 1
  BY <1>1
<1>3. 1 \in DOMAIN pt
  BY <1>1
<1>4. /\ SentOrder(pt, l, h, s) /\ HandOrder(pt, at, f, l, h, s)
      /\ QueueOrder(pt, at, f, ch, l, h, s)
  BY DEF Ordered
<1>5. SentOrder(t, e, h, s)
  <2>1. e <= h
    BY <1>1, <1>3, <1>4 DEF SentOrder
  <2>2. ASSUME NEW k \in DOMAIN t, Mine(t[k].frame, s)
        PROVE  e <= t[k].frame.n /\ t[k].frame.n <= h
    <3>1. k + 1 \in DOMAIN pt /\ t[k] = pt[k + 1] /\ 1 < k + 1
      BY <1>2
    <3>2. l <= pt[k + 1].frame.n /\ pt[k + 1].frame.n <= h
      BY <1>4, <2>2, <3>1 DEF SentOrder
    <3>3. Mine(pt[1].frame, s) => pt[1].frame.n <= pt[k + 1].frame.n
      BY <1>3, <1>4, <2>2, <3>1 DEF SentOrder
    <3> QED
      BY <1>1, <3>1, <3>2, <3>3
  <2>3. ASSUME NEW k \in DOMAIN t, NEW m \in DOMAIN t, k < m, Mine(t[k].frame, s), Mine(t[m].frame, s)
        PROVE  /\ t[k].frame.n <= t[m].frame.n
               /\ t[k].frame.n = t[m].frame.n => m = k + 1
    <3>1. /\ k + 1 \in DOMAIN pt /\ t[k] = pt[k + 1] /\ m + 1 \in DOMAIN pt /\ t[m] = pt[m + 1]
          /\ k + 1 < m + 1 /\ k \in Nat /\ m \in Nat
      BY <1>2, <2>3
    <3>2. /\ pt[k + 1].frame.n <= pt[m + 1].frame.n
          /\ pt[k + 1].frame.n = pt[m + 1].frame.n => m + 1 = (k + 1) + 1
      BY <1>4, <2>3, <3>1 DEF SentOrder
    <3> QED
      BY <3>1, <3>2
  <2> QED
    BY <2>1, <2>2, <2>3 DEF SentOrder
<1>6. HandOrder(t, at, f, e, h, s)
  <2> SUFFICES ASSUME InHand(at), Mine(f, s)
               PROVE  /\ e <= f.n /\ f.n <= h
                      /\ \A k \in DOMAIN t : Mine(t[k].frame, s) =>
                           /\ t[k].frame.n <= f.n
                           /\ t[k].frame.n = f.n => at = "second" /\ k = Len(t)
    BY DEF HandOrder
  <2>1. /\ l <= f.n /\ f.n <= h
        /\ \A k \in DOMAIN pt : Mine(pt[k].frame, s) =>
             /\ pt[k].frame.n <= f.n
             /\ pt[k].frame.n = f.n => at = "second" /\ k = Len(pt)
    BY <1>4 DEF HandOrder
  <2>2. e <= f.n
    BY <1>1, <1>3, <2>1
  <2>3. ASSUME NEW k \in DOMAIN t, Mine(t[k].frame, s)
        PROVE  /\ t[k].frame.n <= f.n
               /\ t[k].frame.n = f.n => at = "second" /\ k = Len(t)
    <3>1. k + 1 \in DOMAIN pt /\ t[k] = pt[k + 1] /\ k \in Nat
      BY <1>2
    <3>2. /\ pt[k + 1].frame.n <= f.n
          /\ pt[k + 1].frame.n = f.n => at = "second" /\ k + 1 = Len(pt)
      BY <2>1, <2>3, <3>1
    <3> QED
      BY <1>1, <3>1, <3>2
  <2> QED
    BY <2>1, <2>2, <2>3
<1>7. QueueOrder(t, at, f, ch, e, h, s)
  <2> SUFFICES ASSUME NEW i \in DOMAIN ch, Mine(ch[i], s)
               PROVE  /\ e <= ch[i].n /\ ch[i].n <= h
                      /\ \A k \in DOMAIN t : Mine(t[k].frame, s) => t[k].frame.n < ch[i].n
                      /\ InHand(at) /\ Mine(f, s) => f.n < ch[i].n
                      /\ \A j \in DOMAIN ch : i < j /\ Mine(ch[j], s) => ch[i].n < ch[j].n
    BY DEF QueueOrder
  <2>1. /\ l <= ch[i].n /\ ch[i].n <= h
        /\ \A k \in DOMAIN pt : Mine(pt[k].frame, s) => pt[k].frame.n < ch[i].n
        /\ InHand(at) /\ Mine(f, s) => f.n < ch[i].n
        /\ \A j \in DOMAIN ch : i < j /\ Mine(ch[j], s) => ch[i].n < ch[j].n
    BY <1>4 DEF QueueOrder
  <2>2. ch[i].n \in Nat /\ pt[1].frame.n \in Nat
    <3>1. ch[i] \in Frame /\ pt[1] \in Part
      BY <1>3, ElementOfSeq, LenProperties
    <3> QED
      BY <3>1, NumbersOfFrames
  <2>3. e <= ch[i].n
    BY <1>1, <1>3, <2>1, <2>2
  <2> QED
    BY <1>2, <2>1, <2>3
<1> QED
  BY <1>5, <1>6, <1>7 DEF Ordered, t

(* The host handles an event; the channel takes it, or a frame of another     *)
(* session, or nothing.                                                       *)
LEMMA HandledInOrder ==
  ASSUME NEW pt \in Seq(Part), NEW at, NEW f, NEW ch \in Seq(Frame), NEW l \in Nat, NEW h \in Nat,
         NEW s, Ordered(pt, at, f, ch, l, h, s), InHand(at) => f \in Frame,
         NEW i \in Nat, i >= h,
         NEW d, d = ch \/ \E g \in Frame : d = Append(ch, g) /\ (Mine(g, s) => g.n = i /\ i > h)
  PROVE  Ordered(pt, at, f, d, l, i, s)
<1>1. /\ SentOrder(pt, l, h, s) /\ HandOrder(pt, at, f, l, h, s)
      /\ QueueOrder(pt, at, f, ch, l, h, s)
  BY DEF Ordered
<1>2. \A k \in DOMAIN pt : pt[k].frame.n \in Nat
  BY NumbersOfFrames, ElementOfSeq, LenProperties
<1>3. \A k \in DOMAIN ch : ch[k].n \in Nat
  BY NumbersOfFrames, ElementOfSeq, LenProperties
<1>4. InHand(at) => f.n \in Nat
  BY NumbersOfFrames
<1>5. SentOrder(pt, l, i, s)
  BY <1>1, <1>2 DEF SentOrder
<1>6. HandOrder(pt, at, f, l, i, s)
  BY <1>1, <1>4 DEF HandOrder
<1>7. QueueOrder(pt, at, f, ch, l, i, s)
  BY <1>1, <1>3 DEF QueueOrder
<1>8. ASSUME NEW g \in Frame, d = Append(ch, g), Mine(g, s) => g.n = i /\ i > h
      PROVE  QueueOrder(pt, at, f, d, l, i, s)
  <2> DEFINE z == Len(ch) + 1
  <2>1. /\ Len(ch) \in Nat /\ DOMAIN ch = 1..Len(ch) /\ DOMAIN d = 1..z /\ d[z] = g
        /\ \A k \in DOMAIN ch : d[k] = ch[k]
    BY <1>8, AppendProperties, LenProperties
  <2>2. ASSUME NEW k \in DOMAIN d, Mine(d[k], s)
        PROVE  /\ l <= d[k].n /\ d[k].n <= i
               /\ \A m \in DOMAIN pt : Mine(pt[m].frame, s) => pt[m].frame.n < d[k].n
               /\ InHand(at) /\ Mine(f, s) => f.n < d[k].n
               /\ \A j \in DOMAIN d : k < j /\ Mine(d[j], s) => d[k].n < d[j].n
    <3>1. CASE k = z
      <4>1. d[k].n = i /\ i > h
        BY <1>8, <2>1, <2>2, <3>1
      <4>2. l <= h /\ \A m \in DOMAIN pt : Mine(pt[m].frame, s) => pt[m].frame.n <= h
        BY <1>1 DEF SentOrder
      <4>3. InHand(at) /\ Mine(f, s) => f.n <= h
        BY <1>1 DEF HandOrder
      <4>4. \A j \in DOMAIN d : ~(k < j)
        BY <2>1, <3>1
      <4> QED
        BY <1>2, <1>4, <4>1, <4>2, <4>3, <4>4
    <3>2. CASE k # z
      <4>1. k \in DOMAIN ch /\ d[k] = ch[k]
        BY <2>1, <3>2
      <4>2. /\ l <= ch[k].n /\ ch[k].n <= h /\ ch[k].n \in Nat
            /\ \A m \in DOMAIN pt : Mine(pt[m].frame, s) => pt[m].frame.n < ch[k].n
            /\ InHand(at) /\ Mine(f, s) => f.n < ch[k].n
            /\ \A j \in DOMAIN ch : k < j /\ Mine(ch[j], s) => ch[k].n < ch[j].n
        BY <1>1, <1>3, <2>2, <4>1 DEF QueueOrder
      <4>3. ASSUME NEW j \in DOMAIN d, k < j, Mine(d[j], s) PROVE d[k].n < d[j].n
        <5>1. CASE j = z
          <6>1. d[j].n = i /\ i > h
            BY <1>8, <2>1, <4>3, <5>1
          <6> QED
            BY <4>1, <4>2, <6>1
        <5>2. CASE j # z
          <6>1. j \in DOMAIN ch /\ d[j] = ch[j]
            BY <2>1, <5>2
          <6> QED
            BY <4>1, <4>2, <4>3, <6>1
        <5> QED
          BY <5>1, <5>2
      <4>4. ch[k].n <= i
        BY <4>2
      <4> QED
        BY <4>1, <4>2, <4>3, <4>4
    <3> QED
      BY <3>1, <3>2
  <2> QED
    BY <2>2 DEF QueueOrder
<1> QED
  BY <1>5, <1>6, <1>7, <1>8 DEF Ordered

-----------------------------------------------------------------------------
(* Order: the steps *)

WayInOrder(c, s) ==
  Ordered(sock[c], wtask[c].at, wtask[c].frame, chan[c], last[c][s], handled[s], s)

OrderInv ==
  /\ HostOrder
  /\ last \in [Conn -> [Session -> Nat]]
  /\ \A c \in open, s \in Session : WayInOrder(c, s)

LEMMA InitOrder == Init => OrderInv
<1> SUFFICES ASSUME Init PROVE OrderInv
  OBVIOUS
<1>1. HostOrder
  <2>1. /\ pulled = <<>> /\ draining.cur = "none" /\ handled \in [Session -> Nat]
        /\ \A s \in Session : made[s] = 0 /\ handled[s] = 0 /\ events[s] = <<>>
    BY DEF Init, NoDrain
  <2>2. Len(pulled) = 0 /\ \A s \in Session : Len(events[s]) = 0 /\ InTheBatch(s) = 0
    BY <2>1 DEF InTheBatch
  <2> QED
    BY <2>1, <2>2 DEF HostOrder
<1>2. last \in [Conn -> [Session -> Nat]]
  BY DEF Init
<1>3. ASSUME NEW c \in open, NEW s \in Session PROVE WayInOrder(c, s)
  <2>1. /\ sock[c] = <<>> /\ chan[c] = <<>> /\ wtask[c].at = "idle" /\ last[c][s] = 0 /\ handled[s] = 0
    BY DEF Init
  <2>2. \A f : Ordered(<<>>, "idle", f, <<>>, 0, 0, s)
    BY DEF Ordered, SentOrder, HandOrder, QueueOrder, InHand
  <2> QED
    BY <2>1, <2>2 DEF WayInOrder
<1> QED
  BY <1>1, <1>2, <1>3 DEF OrderInv

LEMMA ConnectionOrder ==
  ASSUME IInv, OrderInv, NEW c \in open, NEW s \in Session,
         WriterTask(c) \/ ReadLoop(c) \/ Asks(c) \/ ClientReads(c)
  PROVE  WayInOrder(c, s)'
<1> DEFINE l == last[c][s]
           h == handled[s]
<1>t. /\ c \in Conn /\ wtask \in [Conn -> WTask] /\ chan \in [Conn -> Seq(Frame)]
      /\ sock \in [Conn -> Seq(Part)] /\ loop \in [Conn -> Loop]
      /\ InHand(wtask[c].at) => wtask[c].frame \in Frame
      /\ l \in Nat /\ h \in Nat
  BY DEF IInv, Types, ConnTypes, OrderInv, HostOrder, InHand
<1>0. Ordered(sock[c], wtask[c].at, wtask[c].frame, chan[c], l, h, s)
  BY DEF OrderInv, WayInOrder
<1>1. CASE WriterTakes(c)
  <2>1. /\ wtask[c].at = "idle" /\ chan[c] # <<>> /\ UNCHANGED <<sock, last, handled>>
        /\ wtask'[c].at = "lock" /\ wtask'[c].frame = Head(chan[c]) /\ chan'[c] = Tail(chan[c])
    BY <1>1, <1>t DEF WriterTakes, writerElse, host
  <2>2. Ordered(sock[c], "lock", Head(chan[c]), Tail(chan[c]), l, h, s)
    BY <1>0, <1>t, <2>1, TakenInOrder
  <2> QED
    BY <2>1, <2>2 DEF WayInOrder
<1>2. CASE WriterLocks(c)
  <2>1. /\ wtask[c].at = "lock" /\ UNCHANGED <<sock, chan, last, handled>>
        /\ wtask'[c].at = "first" /\ wtask'[c].frame = wtask[c].frame
    BY <1>2, <1>t DEF WriterLocks, writerElse, host, WTask
  <2> QED
    BY <1>0, <2>1, LockedInOrder DEF WayInOrder
<1>3. CASE WriterSends(c)
  <2> DEFINE f == wtask[c].frame
  <2>0. UNCHANGED <<chan, last, handled>> /\ f \in Frame
    BY <1>3, <1>t DEF WriterSends, writerElse, host, InHand
  <2>1. CASE wtask[c].at = "first"
    <3>1. /\ sock'[c] = Append(sock[c], FirstHalf(f)) /\ wtask'[c].at = "second" /\ wtask'[c].frame = f
      BY <1>3, <1>t, <2>1 DEF WriterSends, Puts, FirstHalf, WTask
    <3>2. Ordered(Append(sock[c], FirstHalf(f)), "second", f, chan[c], l, h, s)
      BY <1>0, <1>t, <2>0, <2>1, SentFirstInOrder
    <3> QED
      BY <2>0, <3>1, <3>2 DEF WayInOrder
  <2>2. CASE wtask[c].at = "second"
    <3>1. sock'[c] = Append(sock[c], SecondHalf(f)) /\ wtask'[c].at = "idle"
      BY <1>3, <1>t, <2>2 DEF WriterSends, Puts, SecondHalf
    <3>2. Ordered(Append(sock[c], SecondHalf(f)), "idle", wtask'[c].frame, chan[c], l, h, s)
      BY <1>0, <1>t, <2>0, <2>2, SentSecondInOrder
    <3> QED
      BY <2>0, <3>1, <3>2 DEF WayInOrder
  <2> QED
    BY <1>3, <2>1, <2>2 DEF WriterSends
<1>4. ~WriterFails(c) /\ ~LoopEnds(c)
  BY DEF WriterFails, LoopEnds
<1>5. CASE HostServes(c) \/ HostHeld(c) \/ LoopLocks(c) \/ LoopTypes(c) \/ Asks(c)
  BY <1>0, <1>5 DEF HostServes, HostHeld, LoopLocks, LoopTypes, Asks, host, WayInOrder
<1>6. CASE LoopSends(c)
  <2> DEFINE g == Reply(c)
  <2>0. UNCHANGED <<chan, wtask, last, handled>> /\ wtask[c].at # "second"
    BY <1>6, <1>t DEF LoopSends, host, IInv, LocksAreHeld
  <2>1. g \in Frame /\ ~Mine(g, s)
    <3>1. loop[c].sid \in Session
      BY <1>6, <1>t DEF LoopSends, IInv, Types, ConnTypes
    <3> QED
      BY <3>1 DEF Reply, Frame, Mine
  <2>2. PICK i \in {1, 2} : sock'[c] = Append(sock[c], [frame |-> g, half |-> i])
    BY <1>6, <1>t DEF LoopSends, Puts
  <2>3. [frame |-> g, half |-> i] \in Part /\ [frame |-> g, half |-> i].frame = g
    BY <2>1 DEF Part
  <2> HIDE DEF g
  <2>4. Ordered(Append(sock[c], [frame |-> g, half |-> i]), wtask[c].at, wtask[c].frame, chan[c], l, h, s)
    BY <1>0, <1>t, <2>0, <2>1, <2>3, RepliedInOrder
  <2> QED
    BY <2>0, <2>2, <2>4 DEF WayInOrder
<1>7. CASE ClientReads(c)
  <2> DEFINE p == Head(sock[c])
             e == IF Mine(p.frame, s) THEN p.frame.n ELSE l
  <2>1. UNCHANGED <<chan, wtask, handled>> /\ sock[c] # <<>> /\ sock'[c] = Tail(sock[c])
    BY <1>7, <1>t DEF ClientReads, host
  <2>2. p \in Part /\ p.frame \in Frame /\ (p.frame.kind = "event" => p.frame.sid \in Session)
    <3>1. sock[c] \in Seq(Part)
      BY <1>t
    <3>2. p \in Part
      BY <2>1, <3>1, HeadTailProperties
    <3>3. p.frame \in Frame
      BY <3>2 DEF Part
    <3> QED
      BY <3>2, <3>3 DEF Frame
  <2>3. last'[c][s] = e
    <3>1. last' = IF p.frame.kind = "event" THEN [last EXCEPT ![c][p.frame.sid] = p.frame.n] ELSE last
      BY <1>7 DEF ClientReads
    <3>2. last \in [Conn -> [Session -> Nat]]
      BY DEF OrderInv
    <3> QED
      BY <1>t, <2>2, <3>1, <3>2 DEF Mine
  <2>4. Ordered(Tail(sock[c]), wtask[c].at, wtask[c].frame, chan[c], e, h, s)
    BY <1>0, <1>t, <2>1, ReadInOrder
  <2> QED
    BY <2>1, <2>3, <2>4 DEF WayInOrder
<1> QED
  BY <1>1, <1>2, <1>3, <1>4, <1>5, <1>6, <1>7 DEF WriterTask, ReadLoop

LEMMA OrderStep == IInv /\ OrderInv /\ [Next]_vars => OrderInv'
<1> SUFFICES ASSUME IInv, OrderInv, [Next]_vars PROVE OrderInv'
  OBVIOUS
<1>t. /\ Types /\ LocksAreHeld /\ open \subseteq Conn
      /\ wtask \in [Conn -> WTask] /\ chan \in [Conn -> Seq(Frame)] /\ sock \in [Conn -> Seq(Part)]
      /\ last \in [Conn -> [Session -> Nat]] /\ handled \in [Session -> Nat]
  BY DEF IInv, Types, ConnTypes, OrderInv, HostOrder
<1>1. HostOrder'
  BY <1>t, HostOrderStep DEF OrderInv
<1>2. last' \in [Conn -> [Session -> Nat]]
  <2>1. ASSUME NEW c \in Conn, ClientReads(c) PROVE last' \in [Conn -> [Session -> Nat]]
    <3> DEFINE p == Head(sock[c])
    <3>1. p \in Part
      BY <1>t, <2>1, HeadTailProperties DEF ClientReads
    <3>2. p.frame.n \in Nat
      BY <3>1, NumbersOfFrames
    <3>3. last' = IF p.frame.kind = "event" THEN [last EXCEPT ![c][p.frame.sid] = p.frame.n] ELSE last
      BY <2>1 DEF ClientReads
    <3> HIDE DEF p
    <3> QED
      BY <1>t, <3>2, <3>3
  <2>2. last' = last \/ \E c \in Conn : ClientReads(c)
    BY DEF Next, Tick, TickStarts, NextSession, Pull, Handle, SessionDrained, TickEnds, conns,
           ReaderSends, ShellReads, WriterTask, WriterTakes, WriterLocks, WriterSends, WriterFails,
           writerElse, ReadLoop, HostServes, HostHeld, LoopLocks, LoopSends, LoopTypes, LoopEnds,
           Asks, ClientCloses, vars
  <2> QED
    BY <1>t, <2>1, <2>2
<1>3. ASSUME NEW d \in open', NEW s \in Session PROVE WayInOrder(d, s)'
  <2>0. ASSUME d \in open, UNCHANGED <<sock[d], wtask[d], chan[d], last[d], handled>>
        PROVE  WayInOrder(d, s)'
    <3>1. WayInOrder(d, s)
      BY <2>0 DEF OrderInv
    <3> QED
      BY <2>0, <3>1 DEF WayInOrder
  <2>1. CASE Handle
    <3> DEFINE r == draining.cur
               n == Head(pulled)
    <3>1. r \in Session /\ n = handled[r] + 1
      BY <1>t, <2>1, DrainsASession, HandleOrder DEF OrderInv
    <3>2. /\ handled' = [handled EXCEPT ![r] = n] /\ UNCHANGED <<sock, wtask, last, open>>
          /\ chan'[d] = chan[d] \/ chan'[d] = Append(chan[d], EventFrame(r, n))
      BY <1>t, <2>1 DEF Handle
    <3>3. n \in EventNo
      BY <1>t, <2>1, HeadTailProperties DEF Handle, Types, HostTypes
    <3> HIDE DEF r, n
    <3>4. EventFrame(r, n) \in Frame /\ (Mine(EventFrame(r, n), s) => s = r) /\ EventFrame(r, n).n = n
      BY <3>1, <3>3 DEF EventFrame, Frame, Mine
    <3>5. d \in open /\ d \in Conn /\ WayInOrder(d, s)
      BY <1>t, <3>2 DEF OrderInv
    <3>6. handled'[s] \in Nat /\ handled'[s] >= handled[s] /\ (s = r => handled'[s] = n /\ n > handled[s])
      BY <1>t, <3>1, <3>2
    <3>7. chan'[d] = chan[d] \/ \E g \in Frame : /\ chan'[d] = Append(chan[d], g)
                                                 /\ Mine(g, s) => g.n = handled'[s] /\ handled'[s] > handled[s]
      BY <3>2, <3>4, <3>6
    <3>8. /\ sock[d] \in Seq(Part) /\ chan[d] \in Seq(Frame) /\ last[d][s] \in Nat /\ handled[s] \in Nat
          /\ InHand(wtask[d].at) => wtask[d].frame \in Frame
      BY <1>t, <3>5 DEF Types, ConnTypes, InHand
    <3>9. Ordered(sock[d], wtask[d].at, wtask[d].frame, chan'[d], last[d][s], handled'[s], s)
      <4>1. Ordered(sock[d], wtask[d].at, wtask[d].frame, chan[d], last[d][s], handled[s], s)
        BY <3>5 DEF WayInOrder
      <4> QED
        BY <3>6, <3>7, <3>8, <4>1, HandledInOrder
    <3> QED
      BY <3>2, <3>9 DEF WayInOrder
  <2>2. CASE TickStarts \/ NextSession \/ Pull \/ SessionDrained \/ TickEnds
    BY <2>0, <2>2 DEF TickStarts, NextSession, Pull, SessionDrained, TickEnds, conns, host
  <2>3. ASSUME NEW r \in Session, ReaderSends(r) \/ ShellReads(r) PROVE WayInOrder(d, s)'
    BY <2>0, <2>3 DEF ReaderSends, ShellReads, conns, host
  <2>4. ASSUME NEW c \in Conn, c # d,
               WriterTask(c) \/ ReadLoop(c) \/ Asks(c) \/ ClientReads(c) \/ ClientCloses(c)
        PROVE  WayInOrder(d, s)'
    <3>1. d \in open /\ handled' = handled
      BY <2>4 DEF WriterTask, WriterTakes, WriterLocks, WriterSends, WriterFails, writerElse, host,
                  ReadLoop, HostServes, HostHeld, LoopLocks, LoopSends, LoopTypes, LoopEnds,
                  Asks, ClientReads, ClientCloses
    <3>2. wtask'[d] = wtask[d] /\ chan'[d] = chan[d]
      BY <1>t, <2>4, <3>1
         DEF WriterTask, WriterTakes, WriterLocks, WriterSends, WriterFails, WriterEnded,
             writerElse, ReadLoop, HostServes, HostHeld, LoopLocks, LoopSends, LoopTypes, LoopEnds,
             Asks, ClientReads, ClientCloses
    <3>3. sock'[d] = sock[d]
      BY <1>t, <2>4, <3>1
         DEF WriterTask, WriterTakes, WriterLocks, WriterSends, WriterFails, Puts,
             writerElse, ReadLoop, HostServes, HostHeld, LoopLocks, LoopSends, LoopTypes, LoopEnds,
             Asks, ClientReads, ClientCloses
    <3>4. last'[d] = last[d]
      BY <1>t, <2>4, <3>1
         DEF WriterTask, WriterTakes, WriterLocks, WriterSends, WriterFails,
             writerElse, ReadLoop, HostServes, HostHeld, LoopLocks, LoopSends, LoopTypes, LoopEnds,
             Asks, ClientReads, ClientCloses
    <3> QED
      BY <2>0, <3>1, <3>2, <3>3, <3>4
  <2>5. CASE WriterTask(d) \/ ReadLoop(d) \/ Asks(d) \/ ClientReads(d)
    <3>1. d \in open
      BY <2>5 DEF WriterTask, WriterTakes, WriterLocks, WriterSends, WriterFails, writerElse,
                  ReadLoop, HostServes, HostHeld, LoopLocks, LoopSends, LoopTypes, LoopEnds,
                  Asks, ClientReads
    <3> QED
      BY <2>5, <3>1, ConnectionOrder
  <2>6. ~ClientCloses(d)
    BY DEF ClientCloses
  <2>7. CASE UNCHANGED vars
    BY <2>0, <2>7 DEF vars
  <2> QED
    BY <2>1, <2>2, <2>3, <2>4, <2>5, <2>6, <2>7 DEF Next, Tick
<1> QED
  BY <1>1, <1>2, <1>3 DEF OrderInv

LEMMA OrderInvariance == Spec => []OrderInv
<1>1. IInv /\ OrderInv /\ [Next]_vars => OrderInv'
  BY OrderStep
<1> QED
  BY <1>1, InitOrder, Invariance, PTL DEF Spec

(* The parts in the socket, the frame in hand and the queue, one after the    *)
(* other, are in order if they are Ordered.                                   *)
LEMMA OrderOfTheWay ==
  ASSUME Types, OrderInv, NEW c \in open, NEW s \in Session,
         NEW way, way = OnTheWay(c),
         NEW mine, mine = {k \in DOMAIN way : way[k].kind = "event" /\ way[k].sid = s}
  PROVE  /\ \A k \in mine : way[k].n >= last[c][s] /\ way[k].n <= handled[s]
         /\ \A k, m \in mine : k < m => way[k].n <= way[m].n
         /\ \A k, m \in mine : k < m /\ way[k].n = way[m].n => m = k + 1
<1> DEFINE pt == sock[c]
           at == wtask[c].at
           f == wtask[c].frame
           ch == chan[c]
           A == [k \in DOMAIN pt |-> pt[k].frame]
           B == IF at \in {"lock", "first"} THEN <<f>> ELSE <<>>
           a == Len(A)
           b == Len(B)
<1>1. /\ c \in Conn /\ pt \in Seq(Part) /\ ch \in Seq(Frame) /\ (InHand(at) => f \in Frame)
      /\ last[c][s] \in Nat /\ handled[s] \in Nat
  BY DEF Types, ConnTypes, OrderInv, HostOrder, InHand
<1>2. /\ SentOrder(pt, last[c][s], handled[s], s) /\ HandOrder(pt, at, f, last[c][s], handled[s], s)
      /\ QueueOrder(pt, at, f, ch, last[c][s], handled[s], s)
  BY DEF OrderInv, WayInOrder, Ordered
<1>3. /\ A \in Seq(Frame) /\ a = Len(pt) /\ a \in Nat /\ DOMAIN pt = 1..a
      /\ \A k \in 1..a : A[k] = pt[k].frame
  <2>1. Len(pt) \in Nat /\ DOMAIN pt = 1..Len(pt) /\ \A k \in 1..Len(pt) : pt[k] \in Part
    BY <1>1, LenProperties, ElementOfSeq
  <2>2. \A k \in 1..Len(pt) : pt[k].frame \in Frame
    BY <2>1, NumbersOfFrames
  <2> HIDE DEF pt
  <2> QED
    BY <2>1, <2>2
<1>4. /\ B \in Seq(Frame) /\ b \in {0, 1} /\ (b = 1 => at \in {"lock", "first"} /\ B[1] = f)
  BY <1>1 DEF InHand
<1>5. DOMAIN ch = 1..Len(ch) /\ Len(ch) \in Nat
  BY <1>1, LenProperties
<1>6. way = A \o B \o ch
  BY DEF OnTheWay
<1> HIDE DEF pt, at, f, ch, A, B, a, b
<1>7. /\ A \o B \in Seq(Frame) /\ Len(A \o B) = a + b
      /\ \A k \in 1..a + b : (A \o B)[k] = IF k <= a THEN A[k] ELSE B[k - a]
  BY <1>3, <1>4, ConcatProperties, SMTT(30) DEF a, b
<1>8. /\ way \in Seq(Frame) /\ Len(way) = a + b + Len(ch)
      /\ \A k \in 1..a + b + Len(ch) : way[k] = IF k <= a + b THEN (A \o B)[k] ELSE ch[k - (a + b)]
  BY <1>1, <1>6, <1>7, ConcatProperties
<1>9. DOMAIN way = 1..a + b + Len(ch) /\ \A k \in DOMAIN way : way[k] \in Frame /\ way[k].n \in Nat
  BY <1>8, LenProperties, ElementOfSeq, NumbersOfFrames
<1>10. ASSUME NEW k \in mine
       PROVE  /\ k \in DOMAIN way /\ k \in Nat /\ Mine(way[k], s)
              /\ \/ k \in DOMAIN pt /\ k <= a /\ way[k] = pt[k].frame
                 \/ k = a + 1 /\ b = 1 /\ at \in {"lock", "first"} /\ way[k] = f
                 \/ k - (a + b) \in DOMAIN ch /\ k > a + b /\ way[k] = ch[k - (a + b)]
  <2>1. k \in DOMAIN way /\ k \in 1..a + b + Len(ch) /\ Mine(way[k], s) /\ k \in Nat
    BY <1>9 DEF Mine
  <2>2. CASE k <= a
    <3>1. k \in 1..a /\ k \in 1..a + b /\ k <= a + b
      BY <1>3, <1>4, <2>1, <2>2
    <3>2. way[k] = A[k]
      BY <1>7, <1>8, <2>1, <2>2, <3>1
    <3> QED
      BY <1>3, <2>1, <2>2, <3>1, <3>2
  <2>3. CASE k > a /\ k <= a + b
    <3>1. b = 1 /\ k = a + 1 /\ k - a = 1 /\ k \in 1..a + b /\ ~(k <= a)
      BY <1>3, <1>4, <2>1, <2>3
    <3>2. way[k] = B[1]
      BY <1>7, <1>8, <2>1, <2>3, <3>1
    <3> QED
      BY <1>4, <2>1, <3>1, <3>2
  <2>4. CASE k > a + b
    <3>1. k - (a + b) \in 1..Len(ch) /\ ~(k <= a + b)
      BY <1>3, <1>4, <1>5, <2>1, <2>4
    <3>2. way[k] = ch[k - (a + b)]
      BY <1>8, <2>1, <3>1
    <3> QED
      BY <1>5, <2>1, <2>4, <3>1, <3>2
  <2> QED
    BY <1>3, <1>4, <2>1, <2>2, <2>3, <2>4
<1>11. ASSUME NEW k \in mine PROVE way[k].n >= last[c][s] /\ way[k].n <= handled[s]
  <2>1. way[k].n \in Nat
    BY <1>9, <1>10
  <2>2. last[c][s] <= way[k].n /\ way[k].n <= handled[s]
    <3>1. CASE k \in DOMAIN pt /\ way[k] = pt[k].frame
      BY <1>2, <1>10, <3>1 DEF SentOrder
    <3>2. CASE at \in {"lock", "first"} /\ way[k] = f
      BY <1>2, <1>10, <3>2 DEF HandOrder, InHand
    <3>3. CASE k - (a + b) \in DOMAIN ch /\ way[k] = ch[k - (a + b)]
      BY <1>2, <1>10, <3>3 DEF QueueOrder
    <3> QED
      BY <1>10, <3>1, <3>2, <3>3
  <2> QED
    BY <1>1, <2>1, <2>2
<1>12. ASSUME NEW k \in mine, NEW m \in mine, k < m
       PROVE  way[k].n <= way[m].n /\ (way[k].n = way[m].n => m = k + 1)
  <2>1. /\ k \in Nat /\ m \in Nat /\ Mine(way[k], s) /\ Mine(way[m], s)
        /\ way[k].n \in Nat /\ way[m].n \in Nat
    BY <1>9, <1>10
  <2>2. CASE k \in DOMAIN pt /\ way[k] = pt[k].frame
    <3>1. CASE m \in DOMAIN pt /\ way[m] = pt[m].frame
      BY <1>2, <1>12, <2>1, <2>2, <3>1 DEF SentOrder
    <3>2. CASE at \in {"lock", "first"} /\ way[m] = f
      <4>1. way[k].n <= way[m].n /\ (way[k].n = way[m].n => at = "second")
        BY <1>2, <2>1, <2>2, <3>2 DEF HandOrder, InHand
      <4> QED
        BY <3>2, <4>1
    <3>3. CASE m - (a + b) \in DOMAIN ch /\ way[m] = ch[m - (a + b)]
      <4>1. way[k].n < way[m].n
        BY <1>2, <2>1, <2>2, <3>3 DEF QueueOrder
      <4> QED
        BY <2>1, <4>1
    <3> QED
      BY <1>10, <3>1, <3>2, <3>3
  <2>3. CASE k = a + 1 /\ b = 1 /\ at \in {"lock", "first"} /\ way[k] = f
    <3>1. m - (a + b) \in DOMAIN ch /\ way[m] = ch[m - (a + b)]
      BY <1>3, <1>10, <1>12, <2>1, <2>3
    <3>2. way[k].n < way[m].n
      BY <1>2, <2>1, <2>3, <3>1 DEF QueueOrder, InHand
    <3> QED
      BY <2>1, <3>2
  <2>4. CASE k - (a + b) \in DOMAIN ch /\ k > a + b /\ way[k] = ch[k - (a + b)]
    <3>1. m - (a + b) \in DOMAIN ch /\ way[m] = ch[m - (a + b)] /\ k - (a + b) < m - (a + b)
      BY <1>3, <1>4, <1>10, <1>12, <2>1, <2>4
    <3>2. way[k].n < way[m].n
      BY <1>2, <2>1, <2>4, <3>1 DEF QueueOrder
    <3> QED
      BY <2>1, <3>2
  <2> QED
    BY <1>10, <2>2, <2>3, <2>4
<1> QED
  BY <1>11, <1>12

(* However slow, stalled or short-lived a client is, what is on its way to it *)
(* is in the order of the shell's output, and newer than what it has read.    *)
THEOREM EventsStayInOrder == Spec => []EventsInOrder
<1>1. Types /\ OrderInv => EventsInOrder
  BY OrderOfTheWay, ZenonT(60) DEF EventsInOrder
<1>2. IInv => Types
  BY DEF IInv
<1> QED
  BY <1>1, <1>2, Invariance, OrderInvariance, PTL
=============================================================================
