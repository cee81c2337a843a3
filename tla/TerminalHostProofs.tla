------------------------- MODULE TerminalHostProofs -------------------------
(***************************************************************************)
(* What holds of TerminalHost for every number of connections, sessions,   *)
(* incarnations and queued events, and for every interleaving of requests, *)
(* drains, kills, crashes and restarts.                                    *)
(***************************************************************************)
EXTENDS TerminalHost, TLAPS

-----------------------------------------------------------------------------
(* The pieces a state is typed by *)

LEMMA JobActive ==
  ASSUME TypeOK, NEW c \in Conn, job[c].stage # "idle"
  PROVE  job[c] \in ActiveJob
BY DEF TypeOK, Job, Idle

LEMMA PtyFields ==
  ASSUME TypeOK, NEW i \in Inc
  PROVE  /\ pty[i] \in Pty
         /\ pty[i].queue \in Seq(Event)
         /\ Len(pty[i].queue) <= EventCap
BY DEF TypeOK, Pty

LEMMA MappedSession ==
  ASSUME TypeOK, MapIsConsistent, NEW i \in Inc, Mapped(i)
  PROVE  obj[i].sid \in Session /\ sessions[obj[i].sid] = i
<1>1. PICK s \in Session : sessions[s] = i
  BY DEF Mapped
<1>2. sessions[s] # None
  BY <1>1 DEF Inc, None
<1> QED
  BY <1>1, <1>2 DEF MapIsConsistent

LEMMA SessionInc ==
  ASSUME TypeOK, NEW s \in Session, sessions[s] # None
  PROVE  sessions[s] \in Inc /\ Mapped(sessions[s])
BY ConstAssumption DEF TypeOK, Inc, None, Mapped

\* ObjectAfter changes what drain_broadcast may change, and only that.
LEMMA ObjectAfterFields ==
  ASSUME TypeOK, NEW i \in Inc, NEW k \in 0 .. EventCap, NEW st \in SUBSET Conn,
         IsLastExit(pty[i].queue, k)
  PROVE  LET o == ObjectAfter(i, k, st) IN
         /\ o \in Object
         /\ o.sid = obj[i].sid
         /\ o.killing = obj[i].killing
         /\ o.status = IF k > 0 THEN pty[i].queue[k] ELSE obj[i].status
         /\ k > 0 => o.status \in Exited
         /\ o.clients \subseteq obj[i].clients
         /\ o.linked = (obj[i].linked /\ ~(k > 0 /\ obj[i].killing))
         /\ o.shown = (obj[i].shown \/ HasData(pty[i].queue))
<1> DEFINE q == pty[i].queue
           live == {c \in obj[i].clients : HasData(q) => conn[c] # "closed" /\ c \notin st}
           stat == IF k > 0 THEN q[k] ELSE obj[i].status
           cl == IF k > 0 THEN {} ELSE live
           ln == obj[i].linked /\ ~(k > 0 /\ obj[i].killing)
           sh == obj[i].shown \/ HasData(q)
<1>1. obj[i] \in Object
  BY DEF TypeOK
<1>2. k > 0 => q[k] \in Exited
  <2>1. q \in Seq(Event)
    BY PtyFields
  <2> QED
    BY <2>1 DEF IsLastExit, Event
<1>3. ObjectAfter(i, k, st) = [obj[i] EXCEPT !.status = stat, !.clients = cl,
                                             !.linked = ln, !.shown = sh]
  BY DEF ObjectAfter
<1>4. stat \in Status /\ cl \subseteq obj[i].clients /\ ln \in BOOLEAN /\ sh \in BOOLEAN
  BY <1>1, <1>2 DEF Object, Status, HasData
<1> HIDE DEF stat, cl, ln, sh
<1>5. /\ ObjectAfter(i, k, st) \in Object
      /\ ObjectAfter(i, k, st).sid = obj[i].sid
      /\ ObjectAfter(i, k, st).killing = obj[i].killing
      /\ ObjectAfter(i, k, st).status = stat
      /\ ObjectAfter(i, k, st).clients = cl
      /\ ObjectAfter(i, k, st).linked = ln
      /\ ObjectAfter(i, k, st).shown = sh
  BY <1>1, <1>3, <1>4 DEF Object
<1> QED
  BY <1>2, <1>4, <1>5 DEF stat, cl, ln, sh

\* DirAfter is a directory, and what of it the invariants speak of.
LEMMA DirAfterFields ==
  ASSUME TypeOK, NEW s \in Session, sessions[s] # None, NEW k \in 0 .. EventCap,
         IsLastExit(pty[sessions[s]].queue, k)
  PROVE  LET i == sessions[s]
             removed == k > 0 /\ obj[i].killing
         IN
         /\ DirAfter(s, k) \in Dir
         /\ DirAfter(s, k).meta = IF k > 0 THEN pty[i].queue[k] ELSE disk[s].meta
         /\ DirAfter(s, k).data =
              IF removed THEN {}
              ELSE IF obj[i].linked /\ HasData(pty[i].queue)
                   THEN disk[s].data \cup {i} ELSE disk[s].data
<1>1. sessions[s] \in Inc
  BY SessionInc
<1>2. k > 0 => pty[sessions[s]].queue[k] \in Exited
  BY <1>1, PtyFields DEF IsLastExit, Event
<1>3. disk[s] \in Dir
  BY DEF TypeOK
<1> QED
  BY <1>1, <1>2, <1>3 DEF DirAfter, Dir, Status

LEMMA EmptiedQueue ==
  ASSUME NEW p \in Pty
  PROVE  /\ [p EXCEPT !.queue = <<>>] \in Pty
         /\ Len([p EXCEPT !.queue = <<>>].queue) <= EventCap
<1> DEFINE e == <<>>
<1>1. e \in Seq(Event) /\ Len(e) <= EventCap
  BY ConstAssumption
<1> HIDE DEF e
<1>2. [p EXCEPT !.queue = e] \in Pty /\ [p EXCEPT !.queue = e].queue = e
  BY <1>1 DEF Pty
<1> QED
  BY <1>1, <1>2 DEF e

LEMMA QueueAfterType ==
  ASSUME TypeOK, NEW i \in Inc
  PROVE  QueueAfter(i) \in Pty /\ Len(QueueAfter(i).queue) <= EventCap
BY PtyFields, EmptiedQueue DEF QueueAfter

LEMMA WithoutQueueType ==
  ASSUME TypeOK, NEW x
  PROVE  /\ WithoutQueue(x) \in [Inc -> Pty]
         /\ \A i \in Inc : Len(WithoutQueue(x)[i].queue) <= EventCap
BY PtyFields, EmptiedQueue DEF WithoutQueue
-----------------------------------------------------------------------------
(* Type correctness, action by action *)

Tasks == [term : 0 .. MaxKill, kill : 0 .. MaxKill]

\* An escalation task moves on, or ends.
LEMMA TaskMoves ==
  ASSUME TypeOK, NEW i \in Inc, Escalate(i) \/ ForceExit(i)
  PROVE  /\ esc' \in [Inc -> Tasks]
         /\ \A k \in Inc : esc'[k].term + esc'[k].kill <= MaxKill
<1>1. /\ esc \in [Inc -> Tasks]
      /\ \A k \in Inc : esc[k].term + esc[k].kill <= MaxKill
  BY DEF TypeOK, Tasks
<1>2. esc[i] \in Tasks
  BY <1>1
<1>3. esc[i].term \in 0 .. MaxKill /\ esc[i].kill \in 0 .. MaxKill
  BY <1>2 DEF Tasks
<1>4. CASE Escalate(i)
  <2> DEFINE t == esc[i].term - 1
             n == esc[i].kill + 1
             e == [esc[i] EXCEPT !.term = t, !.kill = n]
  <2>1. t \in 0 .. MaxKill /\ n \in 0 .. MaxKill /\ t + n <= MaxKill
    BY <1>1, <1>3, <1>4, ConstAssumption DEF Escalate
  <2>2. esc' = [esc EXCEPT ![i] = e]
    BY <1>4, Zenon DEF Escalate
  <2> HIDE DEF t, n
  <2>3. e \in Tasks /\ e.term = t /\ e.kill = n
    BY <1>2, <2>1 DEF Tasks
  <2> HIDE DEF e
  <2> QED
    BY <1>1, <2>1, <2>2, <2>3
<1>5. CASE ForceExit(i)
  <2> DEFINE n == esc[i].kill - 1
             e == [esc[i] EXCEPT !.kill = n]
  <2>1. n \in 0 .. MaxKill /\ esc[i].term + n <= MaxKill
    BY <1>1, <1>3, <1>5, ConstAssumption, SMTT(30) DEF ForceExit
  <2>2. esc' = [esc EXCEPT ![i] = e]
    BY <1>5, Zenon DEF ForceExit
  <2> HIDE DEF n
  <2>3. e \in Tasks /\ e.term = esc[i].term /\ e.kill = n
    BY <1>2, <2>1 DEF Tasks
  <2> HIDE DEF e
  <2> QED
    BY <1>1, <2>1, <2>2, <2>3
<1> QED
  BY <1>4, <1>5

LEMMA InitType == Init => TypeOK
<1> SUFFICES ASSUME Init PROVE TypeOK
  OBVIOUS
<1> USE ConstAssumption DEF Init, None, Status, Exited
<1>1. job \in [Conn -> Job]
  BY DEF Job
<1>2. obj \in [Inc -> Object]
  BY DEF Object
<1>3. pty \in [Inc -> Pty] /\ \A i \in Inc : Len(pty[i].queue) <= EventCap
  BY DEF Pty, Event
<1>4. disk \in [Session -> Dir]
  BY DEF Dir, NoDir
<1>5. /\ esc \in [Inc -> Tasks]
      /\ \A i \in Inc : esc[i].term + esc[i].kill <= MaxKill
  BY DEF Tasks
<1> QED
  BY <1>1, <1>2, <1>3, <1>4, <1>5 DEF TypeOK, Tasks

LEMMA LoadMetaType ==
  ASSUME TypeOK, NEW c \in Conn, LoadMeta(c)
  PROVE  TypeOK'
<1> DEFINE m == disk[job[c].sid].meta
           st == IF job[c].op = "attach" /\ ShouldColdRestore(m) THEN "scroll" ELSE "spawn"
           j == [job[c] EXCEPT !.meta = m, !.stage = st]
<1>1. job[c] \in ActiveJob
  BY JobActive DEF LoadMeta
<1>2. m \in Status \cup {"absent"}
  BY <1>1 DEF TypeOK, Dir, ActiveJob
<1>3. j \in Job
  BY <1>1, <1>2 DEF ActiveJob, Job
<1>4. job' = [job EXCEPT ![c] = j]
  BY DEF LoadMeta
<1>5. job' \in [Conn -> Job]
  BY <1>3, <1>4 DEF TypeOK
<1> QED
  BY <1>5 DEF LoadMeta, TypeOK

LEMMA LoadScrollbackType ==
  ASSUME TypeOK, NEW c \in Conn, LoadScrollback(c)
  PROVE  TypeOK'
<1> DEFINE d == disk[job[c].sid].data
           j == [job[c] EXCEPT !.data = d, !.stage = "spawn"]
<1>1. job[c] \in ActiveJob
  BY JobActive DEF LoadScrollback
<1>2. d \in SUBSET Inc
  BY <1>1 DEF TypeOK, Dir, ActiveJob
<1>3. j \in Job
  BY <1>1, <1>2 DEF ActiveJob, Job
<1>4. job' = [job EXCEPT ![c] = j]
  BY DEF LoadScrollback
<1>5. job' \in [Conn -> Job]
  BY <1>3, <1>4 DEF TypeOK
<1> QED
  BY <1>5 DEF LoadScrollback, TypeOK

LEMMA ReaderType ==
  ASSUME TypeOK, NEW i \in Inc, NEW e \in Event, ReaderSends(i, e)
  PROVE  TypeOK'
<1> DEFINE q == IF Mapped(i) THEN Append(pty[i].queue, e) ELSE pty[i].queue
           r == IF Mapped(i) /\ e = "data" THEN "reading" ELSE "done"
           p == [pty[i] EXCEPT !.queue = q, !.reader = r]
<1>1. q \in Seq(Event) /\ Len(q) <= EventCap
  BY PtyFields, ConstAssumption DEF ReaderSends
<1>2. p \in Pty /\ p.queue = q
  BY PtyFields, <1>1 DEF Pty
<1>3. pty' = [pty EXCEPT ![i] = p]
  BY DEF ReaderSends
<1>4. /\ pty' \in [Inc -> Pty]
      /\ \A k \in Inc : Len(pty'[k].queue) <= EventCap
  BY <1>1, <1>2, <1>3 DEF TypeOK
<1> QED
  BY <1>4 DEF ReaderSends, TypeOK

LEMMA ShellType ==
  ASSUME TypeOK, NEW i \in Inc, ShellExits(i) \/ ShellSignalled(i) \/ Escalate(i)
  PROVE  TypeOK'
<1>1. \A x \in {"exited", "signalled"} :
        /\ [pty[i] EXCEPT !.proc = x] \in Pty
        /\ [pty[i] EXCEPT !.proc = x].queue = pty[i].queue
  BY PtyFields DEF Pty
<1>2. /\ pty' \in [Inc -> Pty]
      /\ \A k \in Inc : Len(pty'[k].queue) <= EventCap
  <2>1. CASE ShellExits(i)
    BY <1>1, <2>1 DEF ShellExits, TypeOK
  <2>2. CASE ShellSignalled(i)
    BY <1>1, <2>2 DEF ShellSignalled, TypeOK
  <2>3. CASE Escalate(i)
    <3>1. CASE UNCHANGED pty
      BY <3>1 DEF TypeOK
    <3>2. CASE pty' = [pty EXCEPT ![i].proc = IF @ = "running" THEN "signalled" ELSE @]
      <4>1. CASE pty[i].proc = "running"
        BY <1>1, <3>2, <4>1 DEF TypeOK
      <4>2. CASE pty[i].proc # "running"
        <5>1. pty' = [pty EXCEPT ![i] = [pty[i] EXCEPT !.proc = pty[i].proc]]
          BY <3>2, <4>2
        <5>2. [pty[i] EXCEPT !.proc = pty[i].proc] = pty[i]
          BY PtyFields DEF Pty
        <5> QED
          BY <5>1, <5>2 DEF TypeOK
      <4> QED
        BY <4>1, <4>2
    <3> QED
      BY <2>3, <3>1, <3>2 DEF Escalate
  <2> QED
    BY <2>1, <2>2, <2>3
<1>3. /\ esc' \in [Inc -> Tasks]
      /\ \A k \in Inc : esc'[k].term + esc'[k].kill <= MaxKill
  BY TaskMoves DEF TypeOK, Tasks, ShellExits, ShellSignalled
<1> QED
  BY <1>2, <1>3 DEF Tasks, TypeOK, ShellExits, ShellSignalled, Escalate

LEMMA ForceExitType ==
  ASSUME TypeOK, NEW i \in Inc, ForceExit(i)
  PROVE  TypeOK'
<1> DEFINE q == Append(pty[i].queue, "ExitNeg")
           p == [pty[i] EXCEPT !.queue = q]
<1>1. Mapped(i) => q \in Seq(Event) /\ Len(q) <= EventCap
  BY PtyFields, ConstAssumption DEF ForceExit, Event, Exited
<1>2. Mapped(i) => p \in Pty /\ p.queue = q
  BY PtyFields, <1>1 DEF Pty
<1>3. pty' = IF Mapped(i) THEN [pty EXCEPT ![i] = p] ELSE pty
  BY DEF ForceExit
<1>4. /\ pty' \in [Inc -> Pty]
      /\ \A k \in Inc : Len(pty'[k].queue) <= EventCap
  BY <1>1, <1>2, <1>3 DEF TypeOK
<1>5. /\ esc' \in [Inc -> Tasks]
      /\ \A k \in Inc : esc'[k].term + esc'[k].kill <= MaxKill
  BY TaskMoves
<1> QED
  BY <1>4, <1>5 DEF ForceExit, TypeOK, Tasks

LEMMA ConnectionEndsType ==
  ASSUME TypeOK, NEW c \in Conn, ConnectionEnds(c)
  PROVE  TypeOK'
<1>1. [s \in Session |-> None] \in [Session -> 0 .. MaxInc]
  BY ConstAssumption DEF None
<1>2. /\ conn' \in [Conn -> {"open", "closed"}]
      /\ writers' \in [Conn -> [Session -> 0 .. MaxInc]]
  BY <1>1 DEF ConnectionEnds, TypeOK
<1> QED
  BY <1>2 DEF ConnectionEnds, TypeOK

\* A connection's write handle for a session is set to an incarnation or dropped.
LEMMA WritersSet ==
  ASSUME TypeOK, NEW c \in Conn, NEW s \in Session, NEW v \in 0 .. MaxInc,
         writers' = [writers EXCEPT ![c][s] = v]
  PROVE  writers' \in [Conn -> [Session -> 0 .. MaxInc]]
<1>1. writers[c] \in [Session -> 0 .. MaxInc]
  BY DEF TypeOK
<1> DEFINE w == [writers[c] EXCEPT ![s] = v]
<1>2. w \in [Session -> 0 .. MaxInc]
  BY <1>1
<1>3. writers' = [writers EXCEPT ![c] = w]
  OBVIOUS
<1> HIDE DEF w
<1> QED
  BY <1>2, <1>3 DEF TypeOK

LEMMA NoneIsHandle == None \in 0 .. MaxInc
BY ConstAssumption DEF None

LEMMA AttachWarmType ==
  ASSUME TypeOK, NEW c \in Conn, NEW s \in Session, AttachWarm(c, s)
  PROVE  TypeOK'
<1> DEFINE i == sessions[s]
           o == [obj[i] EXCEPT !.clients = {c}]
<1>1. i \in Inc /\ i \in 0 .. MaxInc
  BY SessionInc DEF AttachWarm, IsAlive, TypeOK
<1>2. obj[i] \in Object
  BY <1>1 DEF TypeOK
<1>3. o \in Object
  BY <1>2 DEF Object
<1>4. obj' = [obj EXCEPT ![i] = o]
  BY DEF AttachWarm
<1>5. obj' \in [Inc -> Object]
  BY <1>3, <1>4 DEF TypeOK
<1>6. writers' \in [Conn -> [Session -> 0 .. MaxInc]]
  BY <1>1, WritersSet DEF AttachWarm
<1> QED
  BY <1>5, <1>6 DEF AttachWarm, TypeOK

LEMMA NeedsSpawnType ==
  ASSUME TypeOK, NEW c \in Conn, NEW s \in Session, NEW op \in {"attach", "ensure"},
         NeedsSpawn(c, s, op)
  PROVE  TypeOK'
<1> DEFINE j == [Idle EXCEPT !.op = op, !.sid = s, !.stage = "meta"]
<1>1. j \in Job
  BY DEF Job, ActiveJob, Idle
<1>2. job' = [job EXCEPT ![c] = j]
  BY DEF NeedsSpawn
<1>3. job' \in [Conn -> Job]
  BY <1>1, <1>2 DEF TypeOK
<1>4. /\ pty' \in [Inc -> Pty]
      /\ \A k \in Inc : Len(pty'[k].queue) <= EventCap
  BY WithoutQueueType DEF NeedsSpawn
<1>5. sessions' \in [Session -> 0 .. MaxInc]
  BY NoneIsHandle DEF NeedsSpawn, TypeOK
<1> QED
  BY <1>3, <1>4, <1>5 DEF NeedsSpawn, TypeOK

LEMMA JobEnds ==
  ASSUME TypeOK, NEW c \in Conn, job' = [job EXCEPT ![c] = Idle]
  PROVE  job' \in [Conn -> Job]
BY DEF TypeOK, Job

LEMMA SpawnFailsType ==
  ASSUME TypeOK, NEW c \in Conn, SpawnFails(c)
  PROVE  TypeOK'
BY JobEnds DEF SpawnFails, TypeOK

\* What spawn_inner puts in place: the new incarnation and its directory.
LEMMA SpawnInnerType ==
  ASSUME TypeOK, NEW c \in Conn, NEW attach \in BOOLEAN,
         job[c].stage = "spawn", spawned < MaxInc, SpawnInner(c, attach)
  PROVE  /\ job[c].sid \in Session
         /\ spawned' \in Inc /\ spawned' = spawned + 1
         /\ job' \in [Conn -> Job]
         /\ sessions' \in [Session -> 0 .. MaxInc]
         /\ obj' \in [Inc -> Object]
         /\ pty' \in [Inc -> Pty]
         /\ \A k \in Inc : Len(pty'[k].queue) <= EventCap
         /\ disk' \in [Session -> Dir]
<1> DEFINE s == job[c].sid
           i == spawned + 1
           new == [sid |-> s, status |-> "Alive", clients |-> IF attach THEN {c} ELSE {},
                   killing |-> FALSE, linked |-> TRUE, shown |-> FALSE]
           fresh == [proc |-> "running", reader |-> "reading", writer |-> TRUE,
                     queue |-> <<>>]
           dOld == disk[s].dirOld /\ disk[s].hasFile /\ disk[s].meta # "absent"
           fOld == disk[s].fileOld /\ disk[s].hasFile
           d == [disk[s] EXCEPT !.meta = "Alive", !.hasFile = TRUE, !.dirOld = dOld,
                                !.fileOld = fOld]
<1>1. s \in Session
  BY JobActive DEF ActiveJob
<1>2. i \in Inc /\ spawned' = i
  <2>1. spawned \in 0 .. MaxInc
    BY DEF TypeOK
  <2>2. spawned' = i
    BY DEF SpawnInner
  <2> QED
    BY <2>1, <2>2, ConstAssumption DEF Inc
<1>3. job' \in [Conn -> Job]
  BY JobEnds DEF SpawnInner
<1>4. sessions' \in [Session -> 0 .. MaxInc]
  <2>1. i \in 0 .. MaxInc
    BY <1>2 DEF Inc
  <2>2. sessions' = [sessions EXCEPT ![s] = i]
    BY DEF SpawnInner
  <2> QED
    BY <2>1, <2>2 DEF TypeOK
<1>5. obj' \in [Inc -> Object]
  <2>1. new \in Object
    BY <1>1 DEF Object, Status
  <2>2. ASSUME NEW k \in Inc PROVE [obj[k] EXCEPT !.clients = {}] \in Object
    BY ZenonT(60) DEF TypeOK, Object
  <2>3. obj' = [k \in Inc |->
                 IF k = i THEN new
                 ELSE IF k = sessions[s] THEN [obj[k] EXCEPT !.clients = {}] ELSE obj[k]]
    BY DEF SpawnInner
  <2>4. \A k \in Inc : obj[k] \in Object
    BY DEF TypeOK
  <2> HIDE DEF new, i, s
  <2> QED
    BY <2>1, <2>2, <2>3, <2>4
<1>6. /\ pty' \in [Inc -> Pty]
      /\ \A k \in Inc : Len(pty'[k].queue) <= EventCap
  <2>1. fresh \in Pty /\ Len(fresh.queue) <= EventCap
    <3> DEFINE e == <<>>
    <3>1. e \in Seq(Event) /\ Len(e) <= EventCap
      BY ConstAssumption
    <3> HIDE DEF e
    <3>2. [proc |-> "running", reader |-> "reading", writer |-> TRUE, queue |-> e] \in Pty
      BY <3>1 DEF Pty
    <3> QED
      BY <3>1, <3>2 DEF e
  <2>2. pty' = [WithoutQueue(sessions[s]) EXCEPT ![i] = fresh]
    BY DEF SpawnInner
  <2> HIDE DEF fresh, s, i
  <2> QED
    BY <2>1, <2>2, WithoutQueueType
<1>7. disk' \in [Session -> Dir]
  <2>1. disk[s] \in Dir
    BY <1>1 DEF TypeOK
  <2>2. dOld \in BOOLEAN /\ fOld \in BOOLEAN
    BY <2>1 DEF Dir
  <2>3. disk' = [disk EXCEPT ![s] = d]
    BY Zenon DEF SpawnInner
  <2> HIDE DEF dOld, fOld
  <2>4. d \in Dir
    BY <2>1, <2>2 DEF Dir, Status
  <2> HIDE DEF d, s
  <2> QED
    BY <2>3, <2>4 DEF TypeOK
<1> QED
  BY <1>1, <1>2, <1>3, <1>4, <1>5, <1>6, <1>7

LEMMA SpawnType ==
  ASSUME TypeOK, NEW c \in Conn, SpawnAndAttach(c) \/ SpawnUnattached(c)
  PROVE  TypeOK'
<1>1. job[c].stage = "spawn" /\ spawned < MaxInc
  BY DEF SpawnAndAttach, SpawnUnattached
<1>2. PICK attach \in BOOLEAN : SpawnInner(c, attach)
  BY DEF SpawnAndAttach, SpawnUnattached
<1>3. /\ job[c].sid \in Session
      /\ spawned' \in 0 .. MaxInc /\ spawned' = spawned + 1
      /\ job' \in [Conn -> Job]
      /\ sessions' \in [Session -> 0 .. MaxInc]
      /\ obj' \in [Inc -> Object]
      /\ pty' \in [Inc -> Pty]
      /\ \A k \in Inc : Len(pty'[k].queue) <= EventCap
      /\ disk' \in [Session -> Dir]
  BY <1>1, <1>2, SpawnInnerType DEF Inc
<1>4. writers' \in [Conn -> [Session -> 0 .. MaxInc]]
  <2>1. CASE SpawnAndAttach(c)
    BY <1>3, <2>1, WritersSet DEF SpawnAndAttach
  <2>2. CASE SpawnUnattached(c)
    BY <2>2 DEF SpawnUnattached, TypeOK
  <2> QED
    BY <2>1, <2>2
<1>5. UNCHANGED <<conn, esc, phase, restarts, weeks>>
  BY DEF SpawnAndAttach, SpawnUnattached
<1> QED
  BY <1>3, <1>4, <1>5 DEF TypeOK

LEMMA WriteType ==
  ASSUME TypeOK, NEW c \in Conn, NEW s \in Session, Write(c, s)
  PROVE  TypeOK'
<1> DEFINE h == writers[c][s]
           target == IF h = None THEN sessions[s] ELSE h
<1>1. target \in 0 .. MaxInc
  BY DEF TypeOK
<1>2. CASE UNCHANGED pty /\ writers' = [writers EXCEPT ![c][s] = None]
  <2>1. writers' \in [Conn -> [Session -> 0 .. MaxInc]]
    BY <1>2, WritersSet, NoneIsHandle
  <2> QED
    BY <1>2, <2>1 DEF Write, TypeOK
<1>3. CASE /\ target # None
           /\ UNCHANGED writers
           /\ \E works \in BOOLEAN : pty' = [pty EXCEPT ![target].writer = @ /\ works]
  <2>1. PICK works \in BOOLEAN : pty' = [pty EXCEPT ![target].writer = @ /\ works]
    BY <1>3
  <2>2. target \in Inc
    BY <1>1, <1>3, ConstAssumption DEF Inc, None
  <2> HIDE DEF target
  <2> DEFINE w == pty[target].writer /\ works
             p == [pty[target] EXCEPT !.writer = w]
  <2>3. pty' = [pty EXCEPT ![target] = p]
    BY <2>1, Zenon
  <2>4. w \in BOOLEAN
    BY <2>2, PtyFields DEF Pty
  <2> HIDE DEF w
  <2>5. p \in Pty /\ p.queue = pty[target].queue
    BY <2>2, <2>4, PtyFields DEF Pty
  <2> HIDE DEF p
  <2>6. /\ pty' \in [Inc -> Pty]
        /\ \A k \in Inc : Len(pty'[k].queue) <= EventCap
    BY <2>2, <2>3, <2>5 DEF TypeOK
  <2> QED
    BY <1>3, <2>6 DEF Write, TypeOK
<1> QED
  BY <1>2, <1>3, Zenon DEF Write

LEMMA KillType ==
  ASSUME TypeOK, NEW c \in Conn, NEW s \in Session, Kill(c, s)
  PROVE  TypeOK'
<1> DEFINE i == sessions[s]
<1>1. writers' \in [Conn -> [Session -> 0 .. MaxInc]]
  BY WritersSet, NoneIsHandle DEF Kill
<1>2. disk[s] \in Dir
  BY DEF TypeOK
<1>3. ASSUME NEW m \in Status, disk' = [disk EXCEPT ![s].meta = m]
      PROVE  disk' \in [Session -> Dir]
  <2> DEFINE d == [disk[s] EXCEPT !.meta = m]
  <2>1. d \in Dir
    BY <1>2 DEF Dir
  <2>2. disk' = [disk EXCEPT ![s] = d]
    BY <1>3
  <2> HIDE DEF d
  <2> QED
    BY <2>1, <2>2 DEF TypeOK
<1>4. CASE /\ IsAlive(s)
           /\ esc[i].term + esc[i].kill < MaxKill
           /\ obj' = [obj EXCEPT ![i].killing = TRUE]
           /\ esc' = [esc EXCEPT ![i].term = @ + 1]
           /\ disk' = [disk EXCEPT ![s].meta = "Alive"]
  <2>1. i \in Inc
    BY <1>4, SessionInc DEF IsAlive
  <2> HIDE DEF i
  <2>2. disk' \in [Session -> Dir]
    BY <1>3, <1>4 DEF Status
  <2>3. obj' \in [Inc -> Object]
    <3> DEFINE o == [obj[i] EXCEPT !.killing = TRUE]
    <3>0. obj[i] \in Object
      BY <2>1 DEF TypeOK
    <3>1. o \in Object
      BY <3>0 DEF Object
    <3>2. obj' = [obj EXCEPT ![i] = o]
      BY <1>4
    <3> HIDE DEF o
    <3> QED
      BY <3>1, <3>2 DEF TypeOK
  <2>4. /\ esc' \in [Inc -> Tasks]
        /\ \A k \in Inc : esc'[k].term + esc'[k].kill <= MaxKill
    <3> DEFINE t == esc[i].term + 1
               e == [esc[i] EXCEPT !.term = t]
    <3>1. /\ esc \in [Inc -> Tasks]
          /\ \A k \in Inc : esc[k].term + esc[k].kill <= MaxKill
      BY DEF TypeOK, Tasks
    <3>2. esc[i].term \in 0 .. MaxKill /\ esc[i].kill \in 0 .. MaxKill
      BY <2>1, <3>1 DEF Tasks
    <3>3. t \in 0 .. MaxKill /\ t + esc[i].kill <= MaxKill
      BY <1>4, <3>2, ConstAssumption
    <3>4. esc' = [esc EXCEPT ![i] = e]
      BY <1>4
    <3> HIDE DEF t
    <3>5. e \in Tasks /\ e.term = t /\ e.kill = esc[i].kill
      BY <2>1, <3>1, <3>3 DEF Tasks
    <3> HIDE DEF e
    <3> QED
      BY <2>1, <3>1, <3>3, <3>4, <3>5
  <2> QED
    BY <1>1, <2>2, <2>3, <2>4 DEF Kill, TypeOK, Tasks
<1>5. CASE /\ i # None
           /\ disk' = [disk EXCEPT ![s].meta = obj[i].status]
           /\ UNCHANGED <<obj, esc>>
  <2>1. obj[i].status \in Status
    BY <1>5, SessionInc DEF TypeOK, Object
  <2>2. disk' \in [Session -> Dir]
    BY <1>3, <1>5, <2>1
  <2> QED
    BY <1>1, <1>5, <2>2 DEF Kill, TypeOK
<1>6. CASE UNCHANGED <<obj, esc, disk>>
  BY <1>1, <1>6 DEF Kill, TypeOK
<1> QED
  BY <1>4, <1>5, <1>6, Zenon DEF Kill

LEMMA DetachType ==
  ASSUME TypeOK, NEW c \in Conn, NEW s \in Session, Detach(c, s)
  PROVE  TypeOK'
<1> DEFINE i == sessions[s]
           l == obj[i].clients \ {c}
           o == [obj[i] EXCEPT !.clients = l]
<1>1. writers' \in [Conn -> [Session -> 0 .. MaxInc]]
  BY WritersSet, NoneIsHandle DEF Detach
<1>2. obj' \in [Inc -> Object]
  <2>1. CASE i = None
    BY <2>1 DEF Detach, TypeOK
  <2>2. CASE i # None
    <3>1. i \in Inc /\ obj[i] \in Object
      BY <2>2, SessionInc DEF TypeOK
    <3>2. l \in SUBSET Conn
      BY <3>1 DEF Object
    <3>3. obj' = [obj EXCEPT ![i] = o]
      BY <2>2 DEF Detach
    <3> HIDE DEF l, i
    <3>4. o \in Object
      BY <3>1, <3>2 DEF Object
    <3> QED
      BY <3>3, <3>4 DEF TypeOK
  <2> QED
    BY <2>1, <2>2
<1> QED
  BY <1>1, <1>2 DEF Detach, TypeOK

LEMMA WeekPassesType ==
  ASSUME TypeOK, WeekPasses
  PROVE  TypeOK'
<1>1. weeks' \in 0 .. MaxWeek
  <2>1. weeks \in 0 .. MaxWeek /\ weeks < MaxWeek /\ weeks' = weeks + 1
    BY DEF TypeOK, WeekPasses
  <2> QED
    BY <2>1, ConstAssumption
<1>2. ASSUME NEW s \in Session
      PROVE  [disk[s] EXCEPT !.dirOld = (disk[s].meta # "absent"),
                             !.fileOld = disk[s].hasFile] \in Dir
  BY DEF TypeOK, Dir
<1>3. disk' \in [Session -> Dir]
  BY <1>2 DEF WeekPasses
<1> QED
  BY <1>1, <1>3 DEF WeekPasses, TypeOK

LEMMA RestartType ==
  ASSUME TypeOK, Restart
  PROVE  TypeOK'
<1>1. restarts' \in 0 .. MaxRestart
  <2>1. restarts \in 0 .. MaxRestart /\ restarts < MaxRestart /\ restarts' = restarts + 1
    BY DEF TypeOK, Restart
  <2> QED
    BY <2>1, ConstAssumption
<1>2. job' \in [Conn -> Job]
  BY DEF Restart, Job
<1>3. writers' \in [Conn -> [Session -> 0 .. MaxInc]] /\ sessions' \in [Session -> 0 .. MaxInc]
  BY NoneIsHandle DEF Restart
<1>4. /\ pty' \in [Inc -> Pty]
      /\ \A k \in Inc : Len(pty'[k].queue) <= EventCap
  <2> DEFINE p(i) == IF pty[i].proc = "running" THEN "signalled" ELSE pty[i].proc
             r(i) == IF pty[i].reader = "none" THEN "none" ELSE "done"
             e == <<>>
  <2>1. e \in Seq(Event) /\ Len(e) <= EventCap
    BY ConstAssumption
  <2>2. pty' = [i \in Inc |-> [proc |-> p(i), reader |-> r(i), writer |-> FALSE, queue |-> e]]
    BY DEF Restart
  <2>3. \A i \in Inc : /\ p(i) \in {"none", "running", "exited", "signalled"}
                        /\ r(i) \in {"none", "reading", "done"}
    BY PtyFields DEF Pty
  <2> HIDE DEF p, r, e
  <2> QED
    BY <2>1, <2>2, <2>3 DEF Pty
<1>5. /\ esc' \in [Inc -> Tasks]
      /\ \A k \in Inc : esc'[k].term + esc'[k].kill <= MaxKill
  BY ConstAssumption DEF Restart, Tasks
<1> QED
  BY <1>1, <1>2, <1>3, <1>4, <1>5 DEF Restart, TypeOK, Tasks

\* A drain types the objects and the directories it touches (the maintenance
\* tick and the shutdown share it).
LEMMA DrainType ==
  ASSUME HostInv, NEW last \in [Session -> 0 .. EventCap], NEW st \in SUBSET Conn,
         LastExits(last)
  PROVE  /\ \A i \in Inc : Mapped(i) => ObjectAfter(i, last[obj[i].sid], st) \in Object
         /\ \A s \in Session : sessions[s] # None => DirAfter(s, last[s]) \in Dir
         /\ \A s \in Session : sessions[s] # None =>
              IsLastExit(pty[sessions[s]].queue, last[s])
<1>1. TypeOK /\ MapIsConsistent
  BY DEF HostInv
<1>2. ASSUME NEW s \in Session, sessions[s] # None
      PROVE  IsLastExit(pty[sessions[s]].queue, last[s])
  BY <1>2 DEF LastExits
<1>3. ASSUME NEW i \in Inc, Mapped(i)
      PROVE  ObjectAfter(i, last[obj[i].sid], st) \in Object
  <2>1. obj[i].sid \in Session /\ sessions[obj[i].sid] = i
    BY <1>1, <1>3, MappedSession
  <2>2. i # None
    BY DEF Inc, None
  <2>3. IsLastExit(pty[i].queue, last[obj[i].sid]) /\ last[obj[i].sid] \in 0 .. EventCap
    BY <1>2, <2>1, <2>2
  <2> QED
    BY <1>1, <2>3, ObjectAfterFields
<1>4. ASSUME NEW s \in Session, sessions[s] # None
      PROVE  DirAfter(s, last[s]) \in Dir
  BY <1>1, <1>2, <1>4, DirAfterFields
<1> QED
  BY <1>2, <1>3, <1>4

LEMMA TickType ==
  ASSUME HostInv, NEW reap \in BOOLEAN, NEW prune \in BOOLEAN, MaintenanceTick(reap, prune)
  PROVE  TypeOK'
<1>1. TypeOK
  BY DEF HostInv
<1>2. PICK last \in [Session -> 0 .. EventCap], st \in SUBSET Conn :
        /\ LastExits(last)
        /\ obj' = [i \in Inc |-> IF Mapped(i) THEN ObjectAfter(i, last[obj[i].sid], st)
                                 ELSE obj[i]]
        /\ sessions' = [s \in Session |->
             IF reap /\ sessions[s] # None /\ obj'[sessions[s]].status # "Alive"
             THEN None ELSE sessions[s]]
        /\ disk' = [s \in Session |->
             LET d == IF sessions[s] = None THEN disk[s] ELSE DirAfter(s, last[s])
             IN IF prune THEN Pruned(d, sessions'[s] # None) ELSE d]
  BY DEF MaintenanceTick
<1>3. obj' \in [Inc -> Object]
  BY <1>1, <1>2, DrainType DEF TypeOK
<1>4. sessions' \in [Session -> 0 .. MaxInc]
  BY <1>1, <1>2, NoneIsHandle DEF TypeOK
<1>5. disk' \in [Session -> Dir]
  <2>1. NoDir \in Dir
    BY DEF NoDir, Dir
  <2>2. \A s \in Session :
          (IF sessions[s] = None THEN disk[s] ELSE DirAfter(s, last[s])) \in Dir
    BY <1>1, <1>2, DrainType DEF TypeOK
  <2> QED
    BY <1>2, <2>1, <2>2 DEF Pruned
<1>6. /\ pty' \in [Inc -> Pty]
      /\ \A k \in Inc : Len(pty'[k].queue) <= EventCap
  BY <1>1, QueueAfterType DEF MaintenanceTick
<1> QED
  BY <1>1, <1>3, <1>4, <1>5, <1>6 DEF MaintenanceTick, TypeOK

LEMMA ForceKilledFields ==
  ASSUME NEW o \in Object
  PROVE  /\ ForceKilled(o) \in Object
         /\ ForceKilled(o).sid = o.sid /\ ForceKilled(o).killing = o.killing
         /\ ForceKilled(o).linked = o.linked /\ ForceKilled(o).shown = o.shown
         /\ ForceKilled(o).clients \subseteq o.clients
         /\ ForceKilled(o).status \in Exited
BY DEF ForceKilled, Object, Status, Exited

LEMMA ShutdownType ==
  ASSUME HostInv, GracefulShutdown
  PROVE  TypeOK'
<1>1. TypeOK
  BY DEF HostInv
<1>2. PICK last \in [Session -> 0 .. EventCap], st \in SUBSET Conn :
        LET After(i) == ObjectAfter(i, last[obj[i].sid], st) IN
        /\ LastExits(last)
        /\ obj' = [i \in Inc |-> IF Mapped(i) THEN ForceKilled(After(i)) ELSE obj[i]]
        /\ disk' = [s \in Session |->
             IF sessions[s] = None THEN disk[s]
             ELSE [DirAfter(s, last[s]) EXCEPT !.meta = After(sessions[s]).status]]
        /\ pty' = [i \in Inc |->
             IF Mapped(i) /\ After(i).status = "Alive" /\ pty[i].proc = "running"
             THEN [QueueAfter(i) EXCEPT !.proc = "signalled"] ELSE QueueAfter(i)]
  BY DEF GracefulShutdown
<1> DEFINE After(i) == ObjectAfter(i, last[obj[i].sid], st)
<1>3. \A i \in Inc : Mapped(i) => After(i) \in Object
  BY <1>2, DrainType
<1>4. obj' \in [Inc -> Object]
  BY <1>1, <1>2, <1>3, ForceKilledFields DEF TypeOK
<1>5. disk' \in [Session -> Dir]
  <2>1. ASSUME NEW s \in Session, sessions[s] # None
        PROVE  [DirAfter(s, last[s]) EXCEPT !.meta = After(sessions[s]).status] \in Dir
    <3>1. DirAfter(s, last[s]) \in Dir
      BY <1>2, <2>1, DrainType
    <3>2. After(sessions[s]).status \in Status
      BY <1>1, <1>3, <2>1, SessionInc DEF Object
    <3> HIDE DEF After
    <3> QED
      BY <3>1, <3>2 DEF Dir
  <2> QED
    BY <1>1, <1>2, <2>1 DEF TypeOK
<1>6. /\ pty' \in [Inc -> Pty]
      /\ \A k \in Inc : Len(pty'[k].queue) <= EventCap
  <2>1. \A i \in Inc : QueueAfter(i) \in Pty /\ Len(QueueAfter(i).queue) <= EventCap
    BY <1>1, QueueAfterType
  <2>2. ASSUME NEW p \in Pty
        PROVE  /\ [p EXCEPT !.proc = "signalled"] \in Pty
               /\ [p EXCEPT !.proc = "signalled"].queue = p.queue
    BY DEF Pty
  <2> HIDE DEF After
  <2> QED
    BY <1>2, <2>1, <2>2 DEF After
<1> QED
  BY <1>1, <1>4, <1>5, <1>6 DEF GracefulShutdown, TypeOK

-----------------------------------------------------------------------------
(* The invariant, session by session *)

\* What HostInv says, beyond the types, of one session of the map.
Over(i) == obj[i].killing /\ obj[i].status # "Alive"

Good(s) ==
  LET i == sessions[s] IN
  i # None =>
    /\ i <= spawned /\ obj[i].sid = s
    /\ \A c \in Conn : c \in obj[i].clients => writers[c][s] \in {None, i}
    /\ phase = "up" => disk[s].meta = obj[i].status
    /\ ~Over(i) => obj[i].linked
    /\ Over(i) /\ phase = "up" => ~obj[i].linked /\ disk[s].data = {}
    /\ obj[i].shown /\ ~Over(i) => i \in disk[s].data

LEMMA HostInvIsGood == HostInv <=> TypeOK /\ \A s \in Session : Good(s)
BY DEF HostInv, Good, Over, MapIsConsistent, TypesWhereItReads, MetaMirrorsHost,
       FileIsLinked, ShownIsOnDisk, KilledLeavesNoScrollback

LEMMA HostInvNext ==
  ASSUME TypeOK', \A s \in Session : Good(s)'
  PROVE  HostInv'
BY DEF HostInv, Good, Over, MapIsConsistent, TypesWhereItReads, MetaMirrorsHost,
       FileIsLinked, ShownIsOnDisk, KilledLeavesNoScrollback

\* Two sessions of the map are two objects.
LEMMA ObjectsApart ==
  ASSUME HostInv, NEW s \in Session, NEW t \in Session, s # t, sessions[s] # None
  PROVE  sessions[t] # sessions[s]
BY HostInvIsGood DEF Good

\* A session stays good when its entry stays, its object loses clients at most,
\* and its directory keeps its status and its scrollback.
LEMMA KeptGood ==
  ASSUME HostInv, spawned' >= spawned, spawned' \in Int,
         NEW s \in Session, sessions'[s] = sessions[s],
         LET i == sessions[s] IN
         i # None =>
           /\ obj'[i].sid = obj[i].sid /\ obj'[i].status = obj[i].status
           /\ obj'[i].killing = obj[i].killing /\ obj'[i].linked = obj[i].linked
           /\ obj'[i].shown = obj[i].shown
           /\ obj'[i].clients \subseteq obj[i].clients,
         \A c \in Conn : writers'[c][s] \in {None, writers[c][s]},
         disk'[s].meta = disk[s].meta, disk'[s].data = disk[s].data,
         phase' = phase
  PROVE  Good(s)'
<1>1. Good(s)
  BY HostInvIsGood
<1>2. spawned \in Int /\ (sessions[s] # None => sessions[s] \in Int)
  BY DEF HostInv, TypeOK
<1> QED
  BY <1>1, <1>2 DEF Good, Over

\* The steps that touch none of the state the invariant speaks of.
LEMMA FrameInv ==
  ASSUME HostInv, TypeOK', UNCHANGED <<sessions, spawned, obj, disk, writers, phase>>
  PROVE  HostInv'
BY DEF HostInv, MapIsConsistent, TypesWhereItReads,
   MetaMirrorsHost, FileIsLinked, ShownIsOnDisk, KilledLeavesNoScrollback

\* A write handle that is dropped, or an object untouched, keeps every session good.
LEMMA WritersDropInv ==
  ASSUME HostInv, TypeOK', UNCHANGED <<sessions, spawned, obj, disk, phase>>,
         \A s \in Session, c \in Conn : writers'[c][s] \in {None, writers[c][s]}
  PROVE  HostInv'
<1>1. spawned' >= spawned /\ spawned' \in Int
  BY DEF HostInv, TypeOK
<1>2. ASSUME NEW s \in Session PROVE Good(s)'
  BY <1>1, KeptGood
<1> QED
  BY <1>2, HostInvNext

LEMMA HandleDropped ==
  ASSUME TypeOK, NEW c \in Conn, NEW s \in Session,
         writers' = [writers EXCEPT ![c][s] = None]
  PROVE  \A t \in Session, d \in Conn : writers'[d][t] \in {None, writers[d][t]}
<1>1. writers \in [Conn -> [Session -> 0 .. MaxInc]]
  BY DEF TypeOK
<1> QED
  BY <1>1

LEMMA AttachWarmInv ==
  ASSUME HostInv, NEW c \in Conn, NEW s \in Session, AttachWarm(c, s)
  PROVE  HostInv'
<1>1. TypeOK /\ TypeOK'
  BY AttachWarmType DEF HostInv
<1>2. spawned' >= spawned /\ spawned' \in Int /\ sessions' = sessions
  BY <1>1 DEF AttachWarm, TypeOK
<1>3. sessions[s] \in Inc /\ sessions[s] # None
  BY <1>1, SessionInc DEF AttachWarm, IsAlive
<1>4. obj[sessions[s]] \in Object
  BY <1>1, <1>3 DEF TypeOK
<1> DEFINE i == sessions[s]
<1>5. /\ obj'[i] = [obj[i] EXCEPT !.clients = {c}]
      /\ \A k \in Inc : k # i => obj'[k] = obj[k]
      /\ writers'[c][s] = i
      /\ \A t \in Session, d \in Conn : t # s => writers'[d][t] = writers[d][t]
  BY <1>1, <1>3 DEF AttachWarm, TypeOK
<1>6. ASSUME NEW t \in Session PROVE Good(t)'
  <2>1. CASE t = s
    <3>1. Good(s)
      BY HostInvIsGood
    <3> QED
      BY <1>2, <1>3, <1>4, <1>5, <2>1, <3>1 DEF Good, Over, Object, AttachWarm
  <2>2. CASE t # s
    <3>1. sessions[t] # None => sessions[t] \in Inc /\ sessions[t] # sessions[s]
      BY <1>1, <1>3, <2>2, ObjectsApart, SessionInc
    <3> QED
      BY <1>2, <1>5, <2>2, <3>1, KeptGood DEF AttachWarm
  <2> QED
    BY <2>1, <2>2
<1> QED
  BY <1>1, <1>6, HostInvNext

LEMMA NeedsSpawnInv ==
  ASSUME HostInv, NEW c \in Conn, NEW s \in Session, NEW op \in {"attach", "ensure"},
         NeedsSpawn(c, s, op)
  PROVE  HostInv'
<1>1. TypeOK /\ TypeOK'
  BY NeedsSpawnType DEF HostInv
<1>2. spawned' >= spawned /\ spawned' \in Int
  BY <1>1 DEF NeedsSpawn, TypeOK
<1>3. sessions' = [sessions EXCEPT ![s] = None]
  BY DEF NeedsSpawn
<1>4. UNCHANGED <<writers, obj, disk, phase>>
  BY DEF NeedsSpawn
<1>5. ASSUME NEW t \in Session PROVE Good(t)'
  <2>1. CASE t = s
    BY <1>1, <1>3, <2>1 DEF Good, TypeOK
  <2>2. CASE t # s
    <3>1. sessions'[t] = sessions[t]
      BY <1>1, <1>3, <2>2 DEF TypeOK
    <3> QED
      BY <1>2, <1>4, <3>1, KeptGood
  <2> QED
    BY <2>1, <2>2
<1> QED
  BY <1>1, <1>5, HostInvNext

\* The insert of spawn_inner does not look at the map, and need not: whatever it
\* replaces, the new incarnation is good and no other session is touched.
LEMMA SpawnInv ==
  ASSUME HostInv, NEW c \in Conn, SpawnAndAttach(c) \/ SpawnUnattached(c)
  PROVE  HostInv'
<1> DEFINE s == job[c].sid
           i == spawned + 1
<1>1. TypeOK /\ TypeOK'
  BY SpawnType DEF HostInv
<1>2. PICK attach \in BOOLEAN : SpawnInner(c, attach)
  BY DEF SpawnAndAttach, SpawnUnattached
<1>3. job[c].stage = "spawn" /\ spawned < MaxInc
  BY DEF SpawnAndAttach, SpawnUnattached
<1>4. s \in Session /\ i \in Inc /\ spawned' = i /\ spawned \in Int /\ i \in Int
  <2>1. s \in Session /\ spawned' = i /\ spawned' \in Inc
    BY <1>1, <1>2, <1>3, SpawnInnerType
  <2>2. spawned \in Int
    BY <1>1 DEF TypeOK
  <2> QED
    BY <2>1, <2>2
<1>5. /\ sessions'[s] = i
      /\ \A t \in Session : t # s => sessions'[t] = sessions[t]
  BY <1>1, <1>2, <1>4 DEF SpawnInner, TypeOK
<1>6. /\ obj'[i] = [sid |-> s, status |-> "Alive", clients |-> IF attach THEN {c} ELSE {},
                    killing |-> FALSE, linked |-> TRUE, shown |-> FALSE]
      /\ \A k \in Inc : k # i /\ k # sessions[s] => obj'[k] = obj[k]
  BY <1>2, <1>4 DEF SpawnInner
<1>7. /\ disk'[s].meta = "Alive"
      /\ \A t \in Session : t # s => disk'[t] = disk[t]
  <2>1. disk[s] \in Dir /\ disk \in [Session -> Dir]
    BY <1>1, <1>4 DEF TypeOK
  <2> DEFINE dOld == disk[s].dirOld /\ disk[s].hasFile /\ disk[s].meta # "absent"
             fOld == disk[s].fileOld /\ disk[s].hasFile
             d == [disk[s] EXCEPT !.meta = "Alive", !.hasFile = TRUE, !.dirOld = dOld,
                                  !.fileOld = fOld]
  <2>2. disk' = [disk EXCEPT ![s] = d]
    BY <1>2, Zenon DEF SpawnInner
  <2> HIDE DEF dOld, fOld
  <2>3. d.meta = "Alive"
    BY <2>1 DEF Dir
  <2> HIDE DEF d, s
  <2> QED
    BY <1>4, <2>1, <2>2, <2>3
<1>8. /\ \A t \in Session, d \in Conn : t # s => writers'[d][t] = writers[d][t]
      /\ phase' = phase
  <2>1. CASE SpawnAndAttach(c)
    BY <1>1, <1>4, <2>1 DEF SpawnAndAttach, TypeOK
  <2>2. CASE SpawnUnattached(c)
    BY <2>2 DEF SpawnUnattached
  <2> QED
    BY <2>1, <2>2
<1>9. \A d \in Conn : d \in obj'[i].clients => writers'[d][s] \in {None, i}
  <2>1. CASE SpawnAndAttach(c)
    <3>1. writers'[c][s] = i
      BY <1>1, <1>4, <2>1 DEF SpawnAndAttach, TypeOK
    <3> QED
      BY <1>6, <3>1
  <2>2. CASE SpawnUnattached(c)
    <3>1. obj'[i].clients = {}
      BY <1>4, <2>2 DEF SpawnUnattached, SpawnInner
    <3> QED
      BY <3>1
  <2> QED
    BY <2>1, <2>2
<1>10. i # None /\ \A t \in Session : sessions[t] # None => sessions[t] # i
  BY <1>1, <1>4, HostInvIsGood DEF Good, Inc, None, TypeOK
<1>11. ASSUME NEW t \in Session PROVE Good(t)'
  <2>1. CASE t = s
    <3>1. spawned' = i /\ i <= i
      BY <1>4
    <3> HIDE DEF i, s
    <3> QED
      BY <1>4, <1>5, <1>6, <1>7, <1>9, <2>1, <3>1 DEF Good, Over
  <2>2. CASE t # s
    <3>1. sessions'[t] = sessions[t]
      BY <1>5, <2>2
    <3>2. sessions[t] # None => obj'[sessions[t]] = obj[sessions[t]]
      <4> SUFFICES ASSUME sessions[t] # None PROVE obj'[sessions[t]] = obj[sessions[t]]
        OBVIOUS
      <4>1. sessions[t] \in Inc /\ sessions[t] # i
        BY <1>1, <1>10, SessionInc
      <4>2. sessions[t] # sessions[s]
        BY <1>4, <2>2, ObjectsApart
      <4> QED
        BY <1>6, <4>1, <4>2
    <3>3. \A d \in Conn : writers'[d][t] = writers[d][t]
      BY <1>8, <2>2
    <3>4. disk'[t] = disk[t]
      BY <1>7, <2>2
    <3>5. spawned' >= spawned /\ spawned' \in Int
      BY <1>4
    <3> HIDE DEF i, s
    <3> QED
      BY <1>8, <3>1, <3>2, <3>3, <3>4, <3>5, KeptGood
  <2> QED
    BY <2>1, <2>2
<1> QED
  BY <1>1, <1>11, HostInvNext

LEMMA WriteInv ==
  ASSUME HostInv, NEW c \in Conn, NEW s \in Session, Write(c, s)
  PROVE  HostInv'
<1>1. TypeOK /\ TypeOK'
  BY WriteType DEF HostInv
<1>2. \A t \in Session, d \in Conn : writers'[d][t] \in {None, writers[d][t]}
  <2>1. CASE UNCHANGED writers
    BY <2>1
  <2>2. CASE writers' = [writers EXCEPT ![c][s] = None]
    BY <1>1, <2>2, HandleDropped
  <2> QED
    BY <2>1, <2>2, Zenon DEF Write
<1> QED
  BY <1>1, <1>2, WritersDropInv DEF Write

LEMMA ConnectionEndsInv ==
  ASSUME HostInv, NEW c \in Conn, ConnectionEnds(c)
  PROVE  HostInv'
<1>1. TypeOK /\ TypeOK'
  BY ConnectionEndsType DEF HostInv
<1>2. \A t \in Session, d \in Conn : writers'[d][t] \in {None, writers[d][t]}
  BY <1>1 DEF ConnectionEnds, TypeOK
<1> QED
  BY <1>1, <1>2, WritersDropInv DEF ConnectionEnds

\* start_kill writes a status that is the one in memory, so that nothing is said
\* on disk before the exit is known.
LEMMA KillInv ==
  ASSUME HostInv, NEW c \in Conn, NEW s \in Session, Kill(c, s)
  PROVE  HostInv'
<1> DEFINE i == sessions[s]
<1>1. TypeOK /\ TypeOK'
  BY KillType DEF HostInv
<1>2. \A t \in Session, d \in Conn : writers'[d][t] \in {None, writers[d][t]}
  BY <1>1, HandleDropped DEF Kill
<1>3. spawned' >= spawned /\ spawned' \in Int /\ UNCHANGED <<sessions, phase>>
  BY <1>1 DEF Kill, TypeOK
<1>4. CASE i = None
  <2>1. UNCHANGED <<obj, disk>>
    BY <1>4, Zenon DEF Kill, IsAlive
  <2> QED
    BY <1>1, <1>2, <1>3, <2>1, WritersDropInv DEF Kill
<1>5. CASE i # None
  <2>1. i \in Inc /\ obj[i] \in Object
    BY <1>1, <1>5, SessionInc DEF TypeOK
  <2>2. /\ disk' = [disk EXCEPT ![s].meta = obj[i].status]
        /\ obj' = obj \/ (obj[i].status = "Alive" /\ obj' = [obj EXCEPT ![i].killing = TRUE])
    <3>1. CASE IsAlive(s)
      BY <1>5, <3>1 DEF Kill, IsAlive
    <3>2. CASE ~IsAlive(s)
      BY <1>5, <3>2 DEF Kill
    <3> QED
      BY <3>1, <3>2
  <2>3. /\ disk'[s].meta = obj[i].status /\ disk'[s].data = disk[s].data
        /\ \A t \in Session : t # s => disk'[t] = disk[t]
    <3>1. disk[s] \in Dir /\ disk \in [Session -> Dir]
      BY <1>1 DEF TypeOK
    <3> QED
      BY <2>2, <3>1 DEF Dir
  <2>4. /\ \A k \in Inc : k # i => obj'[k] = obj[k]
        /\ obj'[i].sid = obj[i].sid /\ obj'[i].status = obj[i].status
        /\ obj'[i].clients = obj[i].clients /\ obj'[i].linked = obj[i].linked
        /\ obj'[i].shown = obj[i].shown
        /\ obj'[i].killing = obj[i].killing \/ obj[i].status = "Alive"
    <3>1. CASE obj' = obj
      BY <3>1
    <3>2. CASE obj[i].status = "Alive" /\ obj' = [obj EXCEPT ![i].killing = TRUE]
      BY <1>1, <2>1, <3>2 DEF TypeOK, Object
    <3> QED
      BY <2>2, <3>1, <3>2
  <2>5. ASSUME NEW t \in Session PROVE Good(t)'
    <3>1. CASE t = s
      <4>1. Good(s)
        BY HostInvIsGood
      <4> QED
        BY <1>2, <1>3, <2>3, <2>4, <3>1, <4>1 DEF Good, Over, Kill
    <3>2. CASE t # s
      <4>1. sessions[t] # None => sessions[t] \in Inc /\ sessions[t] # i
        BY <1>1, <1>5, <3>2, ObjectsApart, SessionInc
      <4> HIDE DEF i
      <4> QED
        BY <1>2, <1>3, <2>3, <2>4, <3>2, <4>1, KeptGood
    <3> QED
      BY <3>1, <3>2
  <2> QED
    BY <1>1, <2>5, HostInvNext
<1> QED
  BY <1>4, <1>5

LEMMA DetachInv ==
  ASSUME HostInv, NEW c \in Conn, NEW s \in Session, Detach(c, s)
  PROVE  HostInv'
<1> DEFINE i == sessions[s]
<1>1. TypeOK /\ TypeOK'
  BY DetachType DEF HostInv
<1>2. \A t \in Session, d \in Conn : writers'[d][t] \in {None, writers[d][t]}
  BY <1>1, HandleDropped DEF Detach
<1>3. spawned' >= spawned /\ spawned' \in Int
  BY <1>1 DEF Detach, TypeOK
<1>4. ASSUME NEW k \in Inc
      PROVE  /\ obj'[k].sid = obj[k].sid /\ obj'[k].status = obj[k].status
             /\ obj'[k].killing = obj[k].killing /\ obj'[k].linked = obj[k].linked
             /\ obj'[k].shown = obj[k].shown
             /\ obj'[k].clients \subseteq obj[k].clients
  <2>1. CASE i = None
    BY <2>1 DEF Detach
  <2>2. CASE i # None
    <3>1. i \in Inc /\ obj[i] \in Object /\ obj \in [Inc -> Object]
      BY <1>1, <2>2, SessionInc DEF TypeOK
    <3> DEFINE l == obj[i].clients \ {c}
    <3>2. obj' = [obj EXCEPT ![i].clients = l]
      BY <2>2 DEF Detach
    <3>3. l \subseteq obj[i].clients
      OBVIOUS
    <3> HIDE DEF l, i
    <3> QED
      BY <3>1, <3>2, <3>3 DEF Object
  <2> QED
    BY <2>1, <2>2
<1>5. ASSUME NEW t \in Session PROVE Good(t)'
  <2>1. sessions[t] # None => sessions[t] \in Inc
    BY <1>1, SessionInc
  <2> QED
    BY <1>2, <1>3, <1>4, <2>1, KeptGood DEF Detach
<1> QED
  BY <1>1, <1>5, HostInvNext

LEMMA WeekPassesInv ==
  ASSUME HostInv, WeekPasses
  PROVE  HostInv'
<1>1. TypeOK /\ TypeOK'
  BY WeekPassesType DEF HostInv
<1>2. spawned' >= spawned /\ spawned' \in Int
  <2>1. spawned \in Int
    BY <1>1 DEF TypeOK
  <2>2. spawned' = spawned
    BY Zenon DEF WeekPasses
  <2> QED
    BY <2>1, <2>2
<1>3. ASSUME NEW s \in Session
      PROVE  disk'[s].meta = disk[s].meta /\ disk'[s].data = disk[s].data
  <2>1. disk[s] \in Dir
    BY <1>1 DEF TypeOK
  <2>2. disk'[s] = [disk[s] EXCEPT !.dirOld = (disk[s].meta # "absent"),
                                   !.fileOld = disk[s].hasFile]
    BY DEF WeekPasses
  <2> QED
    BY <2>1, <2>2 DEF Dir
<1>4. ASSUME NEW s \in Session PROVE Good(s)'
  BY <1>2, <1>3, KeptGood DEF WeekPasses
<1> QED
  BY <1>1, <1>4, HostInvNext

\* A restart empties the map, so that nothing is left to be said of it.
LEMMA RestartInv ==
  ASSUME HostInv, Restart
  PROVE  HostInv'
<1>1. TypeOK'
  BY RestartType DEF HostInv
<1>2. ASSUME NEW s \in Session PROVE Good(s)'
  BY DEF Restart, Good
<1> QED
  BY <1>1, <1>2, HostInvNext

\* What Good says of s when its object has become o and its directory d.
GoodAfter(s, o, d) ==
  LET over == o.killing /\ o.status # "Alive" IN
  /\ o.sid = s
  /\ \A c \in Conn : c \in o.clients => writers[c][s] \in {None, sessions[s]}
  /\ phase = "up" => d.meta = o.status
  /\ ~over => o.linked
  /\ over /\ phase = "up" => ~o.linked /\ d.data = {}
  /\ o.shown /\ ~over => sessions[s] \in d.data

\* The heart of the argument: one drain keeps a session good, whatever order its
\* data and exit events come in, because the status that is saved is the status
\* of the last exit event and the scrollback goes away with its link only.
LEMMA DrainedGood ==
  ASSUME HostInv, NEW s \in Session, sessions[s] # None, NEW k \in 0 .. EventCap,
         NEW st \in SUBSET Conn, IsLastExit(pty[sessions[s]].queue, k)
  PROVE  GoodAfter(s, ObjectAfter(sessions[s], k, st), DirAfter(s, k))
<1> DEFINE i == sessions[s]
           q == pty[i].queue
           o == ObjectAfter(i, k, st)
           d == DirAfter(s, k)
<1>1. TypeOK /\ i \in Inc
  BY SessionInc DEF HostInv
<1>2. Good(s)
  BY HostInvIsGood
<1>3. /\ o.sid = obj[i].sid
      /\ o.killing = obj[i].killing
      /\ o.status = IF k > 0 THEN q[k] ELSE obj[i].status
      /\ k > 0 => o.status \in Exited
      /\ o.clients \subseteq obj[i].clients
      /\ o.linked = (obj[i].linked /\ ~(k > 0 /\ obj[i].killing))
      /\ o.shown = (obj[i].shown \/ HasData(q))
  BY <1>1, ObjectAfterFields
<1>4. /\ d.meta = IF k > 0 THEN q[k] ELSE disk[s].meta
      /\ d.data = IF k > 0 /\ obj[i].killing THEN {}
                  ELSE IF obj[i].linked /\ HasData(q) THEN disk[s].data \cup {i}
                  ELSE disk[s].data
  BY <1>1, DirAfterFields
<1>5. k > 0 \/ k = 0
  OBVIOUS
<1>6. k > 0 => o.status # "Alive"
  BY <1>3 DEF Exited
<1> HIDE DEF o, d, q
<1>7. k > 0 => GoodAfter(s, o, d)
  BY <1>2, <1>3, <1>4, <1>6 DEF GoodAfter, Good, Over
<1>8. k = 0 => GoodAfter(s, o, d)
  <2> SUFFICES ASSUME k = 0 PROVE GoodAfter(s, o, d)
    OBVIOUS
  <2>1. obj[i] \in Object
    BY <1>1 DEF TypeOK
  <2>2. /\ o.status = obj[i].status /\ o.linked = obj[i].linked
        /\ d.meta = disk[s].meta
    BY <1>3, <1>4, <2>1 DEF Object
  <2> QED
    BY <1>2, <1>3, <1>4, <2>2 DEF GoodAfter, Good, Over
<1> QED
  BY <1>5, <1>7, <1>8 DEF o, d

LEMMA TickInv ==
  ASSUME HostInv, NEW reap \in BOOLEAN, NEW prune \in BOOLEAN, MaintenanceTick(reap, prune)
  PROVE  HostInv'
<1>1. TypeOK /\ TypeOK'
  BY TickType DEF HostInv
<1>2. PICK last \in [Session -> 0 .. EventCap], st \in SUBSET Conn :
        /\ LastExits(last)
        /\ obj' = [i \in Inc |-> IF Mapped(i) THEN ObjectAfter(i, last[obj[i].sid], st)
                                 ELSE obj[i]]
        /\ sessions' = [s \in Session |->
             IF reap /\ sessions[s] # None /\ obj'[sessions[s]].status # "Alive"
             THEN None ELSE sessions[s]]
        /\ disk' = [s \in Session |->
             LET d == IF sessions[s] = None THEN disk[s] ELSE DirAfter(s, last[s])
             IN IF prune THEN Pruned(d, sessions'[s] # None) ELSE d]
  BY DEF MaintenanceTick
<1>3. UNCHANGED <<writers, spawned, phase>>
  BY DEF MaintenanceTick
<1>4. ASSUME NEW s \in Session PROVE Good(s)'
  <2> SUFFICES ASSUME sessions'[s] # None PROVE Good(s)'
    BY DEF Good
  <2> DEFINE i == sessions[s]
             o == ObjectAfter(i, last[s], st)
             d == DirAfter(s, last[s])
  <2>1. i # None /\ sessions'[s] = i
    BY <1>2
  <2>2. i \in Inc /\ Mapped(i) /\ obj[i].sid = s /\ i <= spawned
    BY <1>1, <2>1, SessionInc, HostInvIsGood DEF Good
  <2>3. IsLastExit(pty[i].queue, last[s])
    BY <1>2, <2>1, DrainType
  <2>4. obj'[i] = o
    BY <1>2, <2>2
  <2>5. disk'[s] = d
    BY <1>2, <2>1 DEF Pruned
  <2>6. GoodAfter(s, o, d)
    BY <2>1, <2>3, DrainedGood
  <2> HIDE DEF o, d
  <2> QED
    BY <1>3, <2>1, <2>2, <2>4, <2>5, <2>6 DEF GoodAfter, Good, Over
<1> QED
  BY <1>1, <1>4, HostInvNext

LEMMA ShutdownInv ==
  ASSUME HostInv, GracefulShutdown
  PROVE  HostInv'
<1>1. TypeOK /\ TypeOK'
  BY ShutdownType DEF HostInv
<1>2. PICK last \in [Session -> 0 .. EventCap], st \in SUBSET Conn :
        LET After(i) == ObjectAfter(i, last[obj[i].sid], st) IN
        /\ LastExits(last)
        /\ obj' = [i \in Inc |-> IF Mapped(i) THEN ForceKilled(After(i)) ELSE obj[i]]
        /\ disk' = [s \in Session |->
             IF sessions[s] = None THEN disk[s]
             ELSE [DirAfter(s, last[s]) EXCEPT !.meta = After(sessions[s]).status]]
  BY DEF GracefulShutdown
<1>3. UNCHANGED <<writers, spawned, sessions>> /\ phase' = "stopping"
  BY DEF GracefulShutdown
<1>4. ASSUME NEW s \in Session PROVE Good(s)'
  <2> SUFFICES ASSUME sessions[s] # None PROVE Good(s)'
    BY <1>3 DEF Good
  <2> DEFINE i == sessions[s]
             o == ObjectAfter(i, last[s], st)
             d == DirAfter(s, last[s])
  <2>1. i \in Inc /\ Mapped(i) /\ obj[i].sid = s /\ i <= spawned
    BY <1>1, SessionInc, HostInvIsGood DEF Good
  <2>2. IsLastExit(pty[i].queue, last[s])
    BY <1>2, DrainType
  <2>3. obj'[i] = ForceKilled(o) /\ o \in Object
    BY <1>2, <2>1, DrainType
  <2>4. disk'[s].data = d.data
    <3>1. d \in Dir
      BY <1>2, DrainType
    <3>2. disk'[s] = [d EXCEPT !.meta = ObjectAfter(i, last[obj[i].sid], st).status]
      BY <1>2
    <3> HIDE DEF d
    <3> QED
      BY <3>1, <3>2 DEF Dir
  <2>5. GoodAfter(s, o, d)
    BY <2>2, DrainedGood
  <2>6. /\ obj'[i].sid = o.sid /\ obj'[i].killing = o.killing
        /\ obj'[i].linked = o.linked /\ obj'[i].shown = o.shown
        /\ obj'[i].clients \subseteq o.clients
        /\ obj'[i].status # "Alive"
    BY <2>3, ForceKilledFields DEF Exited
  <2> HIDE DEF o, d
  <2> QED
    BY <1>3, <2>1, <2>4, <2>5, <2>6 DEF GoodAfter, Good, Over
<1> QED
  BY <1>1, <1>4, HostInvNext

-----------------------------------------------------------------------------
(* The theorems *)

LEMMA InitInv == Init => HostInv
<1> SUFFICES ASSUME Init PROVE HostInv
  OBVIOUS
<1>1. TypeOK
  BY InitType
<1>2. \A s \in Session : Good(s)
  BY DEF Init, Good
<1> QED
  BY <1>1, <1>2, HostInvIsGood

LEMMA RequestInv ==
  ASSUME HostInv, NEW c \in Conn, Request(c)
  PROVE  HostInv'
<1>0. TypeOK
  BY DEF HostInv
<1>1. CASE ConnectionEnds(c)
  BY <1>1, ConnectionEndsInv
<1>2. CASE LoadMeta(c)
  BY <1>0, <1>2, LoadMetaType, FrameInv DEF LoadMeta
<1>3. CASE LoadScrollback(c)
  BY <1>0, <1>3, LoadScrollbackType, FrameInv DEF LoadScrollback
<1>4. CASE SpawnAndAttach(c) \/ SpawnUnattached(c)
  BY <1>4, SpawnInv
<1>5. CASE SpawnFails(c)
  BY <1>0, <1>5, SpawnFailsType, FrameInv DEF SpawnFails
<1>6. CASE \E s \in Session :
             \/ AttachWarm(c, s) \/ EnsureWarm(c, s)
             \/ \E op \in {"attach", "ensure"} : NeedsSpawn(c, s, op)
             \/ Write(c, s) \/ Kill(c, s) \/ Detach(c, s)
  <2> PICK s \in Session :
             \/ AttachWarm(c, s) \/ EnsureWarm(c, s)
             \/ \E op \in {"attach", "ensure"} : NeedsSpawn(c, s, op)
             \/ Write(c, s) \/ Kill(c, s) \/ Detach(c, s)
    BY <1>6
  <2>1. CASE AttachWarm(c, s)
    BY <2>1, AttachWarmInv
  <2>2. CASE EnsureWarm(c, s)
    <3>1. UNCHANGED vars
      BY <2>2 DEF EnsureWarm
    <3>2. TypeOK'
      BY <1>0, <3>1 DEF vars, TypeOK, Mapped
    <3> QED
      BY <3>1, <3>2, FrameInv DEF vars
  <2>3. CASE \E op \in {"attach", "ensure"} : NeedsSpawn(c, s, op)
    BY <2>3, NeedsSpawnInv
  <2>4. CASE Write(c, s)
    BY <2>4, WriteInv
  <2>5. CASE Kill(c, s)
    BY <2>5, KillInv
  <2>6. CASE Detach(c, s)
    BY <2>6, DetachInv
  <2> QED
    BY <2>1, <2>2, <2>3, <2>4, <2>5, <2>6
<1> QED
  BY <1>1, <1>2, <1>3, <1>4, <1>5, <1>6 DEF Request

LEMMA ShellInv ==
  ASSUME HostInv, NEW i \in Inc, Shell(i)
  PROVE  HostInv'
<1>0. TypeOK
  BY DEF HostInv
<1>1. CASE ShellExits(i) \/ ShellSignalled(i) \/ Escalate(i)
  BY <1>0, <1>1, ShellType, FrameInv DEF ShellExits, ShellSignalled, Escalate
<1>2. CASE ReadData(i) \/ ReadEOF(i) \/ ReadFails(i)
  <2>1. PICK e \in Event : ReaderSends(i, e)
    BY <1>2 DEF ReadData, ReadEOF, ReadFails, Event, Exited
  <2> QED
    BY <1>0, <2>1, ReaderType, FrameInv DEF ReaderSends
<1>3. CASE ForceExit(i)
  BY <1>0, <1>3, ForceExitType, FrameInv DEF ForceExit
<1> QED
  BY <1>1, <1>2, <1>3 DEF Shell

\* HostInv is inductive: every request, shell event, tick, shutdown and restart
\* keeps it, for any number of connections and sessions.
THEOREM HostInvariance == Spec => []HostInv
<1>1. ASSUME HostInv, [Next]_vars PROVE HostInv'
  <2>1. CASE UNCHANGED vars
    <3>1. TypeOK'
      BY <1>1, <2>1 DEF HostInv, vars, TypeOK
    <3> QED
      BY <1>1, <2>1, <3>1, FrameInv DEF vars
  <2>2. CASE \E c \in Conn : Request(c)
    BY <1>1, <2>2, RequestInv
  <2>3. CASE \E i \in Inc : Shell(i)
    BY <1>1, <2>3, ShellInv
  <2>4. CASE Drain \/ Reap \/ Prune
    BY <1>1, <2>4, TickInv DEF Drain, Reap, Prune
  <2>5. CASE WeekPasses
    BY <1>1, <2>5, WeekPassesInv
  <2>6. CASE GracefulShutdown
    BY <1>1, <2>6, ShutdownInv
  <2>7. CASE Restart
    BY <1>1, <2>7, RestartInv
  <2> QED
    BY <1>1, <2>1, <2>2, <2>3, <2>4, <2>5, <2>6, <2>7 DEF Next
<1> QED
  BY <1>1, InitInv, PTL DEF Spec

\* An attached connection never types into another shell than the one it reads,
\* however the requests of the other connections fall between its own.
THEOREM TypingTheorem == Spec => []TypesWhereItReads
<1>1. HostInv => TypesWhereItReads
  BY DEF HostInv
<1> QED
  BY <1>1, HostInvariance, PTL

\* The saved status of every session of the map is the status in memory, at every
\* moment the daemon may crash.
THEOREM MetaTheorem == Spec => []MetaMirrorsHost
<1>1. HostInv => MetaMirrorsHost
  BY DEF HostInv
<1> QED
  BY <1>1, HostInvariance, PTL

\* Output that clients were shown is in the scrollback file until a kill is over.
THEOREM ShownTheorem == Spec => []ShownIsOnDisk
<1>1. HostInv => ShownIsOnDisk
  BY DEF HostInv
<1> QED
  BY <1>1, HostInvariance, PTL

\* A killed session that has exited leaves no scrollback behind.
THEOREM KilledTheorem == Spec => []KilledLeavesNoScrollback
<1>1. HostInv => KilledLeavesNoScrollback
  BY DEF HostInv
<1> QED
  BY <1>1, HostInvariance, PTL

-----------------------------------------------------------------------------
(* Who may take a living session from the map *)

\* With one connection no request has found its session dead and finds it alive in
\* the end: nobody else spawns one in between.
OneConnection == \A c, d \in Conn : c = d

SpawnsForTheDead ==
  \A c \in Conn : job[c].stage # "idle" => ~IsAlive(job[c].sid)

Displaces(s) ==
  /\ sessions[s] # None /\ sessions'[s] # sessions[s] /\ restarts' = restarts
  /\ obj'[sessions[s]].status = "Alive"

\* Nothing but the insert of spawn_inner, whatever is drained, reaped or requested.
LEMMA OnlyASpawnDisplaces ==
  ASSUME HostInv, Next, NEW s \in Session, Displaces(s)
  PROVE  \E c \in Conn : (SpawnAndAttach(c) \/ SpawnUnattached(c)) /\ job[c].sid = s
<1>0. TypeOK /\ sessions[s] # None /\ sessions'[s] # sessions[s] /\ restarts' = restarts
      /\ obj'[sessions[s]].status = "Alive"
  BY DEF HostInv, Displaces
<1>1. ASSUME NEW c \in Conn, SpawnAndAttach(c) \/ SpawnUnattached(c)
      PROVE  job[c].sid = s
  BY <1>0, <1>1 DEF SpawnAndAttach, SpawnUnattached, SpawnInner, TypeOK
<1>2. ASSUME NEW c \in Conn, NEW r \in Session, NEW op, NeedsSpawn(c, r, op) PROVE FALSE
  <2>1. /\ ~IsAlive(r) /\ sessions' = [sessions EXCEPT ![r] = None] /\ UNCHANGED obj
    BY <1>2 DEF NeedsSpawn
  <2>2. r = s
    BY <1>0, <2>1 DEF TypeOK
  <2> QED
    BY <1>0, <2>1, <2>2 DEF IsAlive
<1>3. ASSUME NEW reap \in BOOLEAN, NEW prune \in BOOLEAN, MaintenanceTick(reap, prune)
      PROVE  FALSE
  <2>1. sessions'[s] # sessions[s] => obj'[sessions[s]].status # "Alive"
    BY <1>0, <1>3 DEF MaintenanceTick, TypeOK
  <2> QED
    BY <1>0, <2>1
<1>4. CASE \E c \in Conn : Request(c)
  <2>1. PICK c \in Conn : Request(c)
    BY <1>4
  <2>2. \/ SpawnAndAttach(c) \/ SpawnUnattached(c)
        \/ \E r \in Session, op \in {"attach", "ensure"} : NeedsSpawn(c, r, op)
    BY <1>0, <2>1 DEF Request, ConnectionEnds, LoadMeta, LoadScrollback, SpawnFails,
       AttachWarm, EnsureWarm, Write, Kill, Detach, vars
  <2> QED
    BY <1>1, <1>2, <2>2
<1>5. ~\E i \in Inc : Shell(i)
  BY <1>0 DEF Shell, ShellExits, ShellSignalled, ReadData, ReadEOF, ReadFails, ReaderSends,
              Escalate, ForceExit
<1>6. ~(Drain \/ Reap \/ Prune)
  BY <1>3 DEF Drain, Reap, Prune
<1>7. ~(WeekPasses \/ GracefulShutdown)
  BY <1>0 DEF WeekPasses, GracefulShutdown
<1>8. ~Restart
  BY <1>0, ConstAssumption DEF Restart, TypeOK
<1> QED
  BY <1>4, <1>5, <1>6, <1>7, <1>8 DEF Next

\* A session that lives after a step was mapped and lived before it, but for the spawn.
LEMMA OnlyASpawnRevives ==
  ASSUME HostInv, HostInv', Next, NEW s \in Session, IsAlive(s)'
  PROVE  \/ IsAlive(s)
         \/ \E c \in Conn : SpawnAndAttach(c) \/ SpawnUnattached(c)
<1> SUFFICES ASSUME \A c \in Conn : ~SpawnAndAttach(c) /\ ~SpawnUnattached(c)
             PROVE  IsAlive(s)
  OBVIOUS
<1>0. TypeOK /\ TypeOK' /\ sessions'[s] # None /\ obj'[sessions'[s]].status = "Alive"
  BY DEF HostInv, IsAlive
<1>1. \A i \in Inc, k \in 0 .. EventCap, st \in SUBSET Conn :
        IsLastExit(pty[i].queue, k) /\ ObjectAfter(i, k, st).status = "Alive"
          => obj[i].status = "Alive"
  <2> SUFFICES ASSUME NEW i \in Inc, NEW k \in 0 .. EventCap, NEW st \in SUBSET Conn,
                      IsLastExit(pty[i].queue, k), ObjectAfter(i, k, st).status = "Alive"
               PROVE  obj[i].status = "Alive"
    OBVIOUS
  <2>1. /\ ObjectAfter(i, k, st).status = IF k > 0 THEN pty[i].queue[k] ELSE obj[i].status
        /\ k > 0 => ObjectAfter(i, k, st).status \in Exited
    BY <1>0, ObjectAfterFields
  <2> QED
    BY <2>1 DEF Exited
<1>2. ASSUME NEW reap \in BOOLEAN, NEW prune \in BOOLEAN, MaintenanceTick(reap, prune)
      PROVE  IsAlive(s)
  <2>1. PICK last \in [Session -> 0 .. EventCap], st \in SUBSET Conn :
        /\ LastExits(last)
        /\ obj' = [i \in Inc |-> IF Mapped(i) THEN ObjectAfter(i, last[obj[i].sid], st)
                                 ELSE obj[i]]
        /\ sessions' = [r \in Session |->
             IF reap /\ sessions[r] # None /\ obj'[sessions[r]].status # "Alive"
             THEN None ELSE sessions[r]]
    BY <1>2 DEF MaintenanceTick
  <2>2. sessions[s] # None /\ sessions'[s] = sessions[s]
    BY <1>0, <2>1
  <2>3. sessions[s] \in Inc /\ Mapped(sessions[s]) /\ obj[sessions[s]].sid = s
    BY <1>0, <2>2, SessionInc DEF HostInv, MapIsConsistent
  <2>4. IsLastExit(pty[sessions[s]].queue, last[s])
    BY <2>1, <2>2 DEF LastExits
  <2>5. ObjectAfter(sessions[s], last[s], st).status = "Alive"
    BY <1>0, <2>1, <2>2, <2>3
  <2> QED
    BY <1>1, <2>2, <2>3, <2>4, <2>5 DEF IsAlive
<1>3. CASE GracefulShutdown
  <2>1. PICK last \in [Session -> 0 .. EventCap], st \in SUBSET Conn :
        /\ LastExits(last)
        /\ obj' = [i \in Inc |-> IF Mapped(i)
                                 THEN ForceKilled(ObjectAfter(i, last[obj[i].sid], st))
                                 ELSE obj[i]]
    BY <1>3 DEF GracefulShutdown
  <2>2. sessions[s] # None /\ sessions'[s] = sessions[s]
    BY <1>0, <1>3 DEF GracefulShutdown
  <2>3. sessions[s] \in Inc /\ Mapped(sessions[s]) /\ obj[sessions[s]].sid = s
    BY <1>0, <2>2, SessionInc DEF HostInv, MapIsConsistent
  <2>4. obj'[sessions[s]] = ForceKilled(ObjectAfter(sessions[s], last[s], st))
    BY <2>1, <2>3
  <2>5. IsLastExit(pty[sessions[s]].queue, last[s])
    BY <2>1, <2>2 DEF LastExits
  <2>6. ObjectAfter(sessions[s], last[s], st) \in Object
    BY <1>0, <2>3, <2>5, ObjectAfterFields
  <2>7. ForceKilled(ObjectAfter(sessions[s], last[s], st)).status # "Alive"
    BY <2>6 DEF ForceKilled, Object
  <2> QED
    BY <1>0, <2>2, <2>4, <2>7
<1>4. CASE Restart
  BY <1>0, <1>4 DEF Restart
<1>5. CASE WeekPasses \/ \E i \in Inc : Shell(i)
  <2>1. UNCHANGED <<sessions, obj>>
    BY <1>5 DEF WeekPasses, Shell, ShellExits, ShellSignalled, ReadData, ReadEOF, ReadFails,
       ReaderSends, Escalate, ForceExit
  <2> QED
    BY <1>0, <2>1 DEF IsAlive
<1>6. CASE \E c \in Conn : Request(c)
  <2>1. PICK c \in Conn : Request(c)
    BY <1>6
  <2>2. CASE \/ ConnectionEnds(c) \/ LoadMeta(c) \/ LoadScrollback(c) \/ SpawnFails(c)
             \/ \E r \in Session : EnsureWarm(c, r) \/ Write(c, r)
    <3>1. UNCHANGED <<sessions, obj>>
      BY <2>2 DEF ConnectionEnds, LoadMeta, LoadScrollback, SpawnFails, EnsureWarm, Write, vars
    <3> QED
      BY <1>0, <3>1 DEF IsAlive
  <2>3. CASE \E r \in Session, op \in {"attach", "ensure"} : NeedsSpawn(c, r, op)
    BY <1>0, <2>3 DEF NeedsSpawn, IsAlive, TypeOK
  <2>4. CASE \E r \in Session : AttachWarm(c, r) \/ Kill(c, r) \/ Detach(c, r)
    <3>1. PICK r \in Session : AttachWarm(c, r) \/ Kill(c, r) \/ Detach(c, r)
      BY <2>4
    <3>2. UNCHANGED sessions
      BY <3>1 DEF AttachWarm, Kill, Detach
    <3>3. sessions[s] \in Inc
      BY <1>0, <3>2, SessionInc
    <3>4. \/ UNCHANGED obj
          \/ \E cl : obj' = [obj EXCEPT ![sessions[r]].clients = cl]
          \/ obj' = [obj EXCEPT ![sessions[r]].killing = TRUE]
      BY <3>1 DEF AttachWarm, Kill, Detach
    <3>5. obj'[sessions[s]].status = obj[sessions[s]].status
      <4>1. CASE UNCHANGED obj
        BY <4>1
      <4>2. ASSUME NEW cl, obj' = [obj EXCEPT ![sessions[r]].clients = cl]
            PROVE  obj'[sessions[s]].status = obj[sessions[s]].status
        BY <1>0, <3>3, <4>2 DEF TypeOK, Object
      <4>3. CASE obj' = [obj EXCEPT ![sessions[r]].killing = TRUE]
        BY <1>0, <3>3, <4>3 DEF TypeOK, Object
      <4> QED
        BY <3>4, <4>1, <4>2, <4>3
    <3> QED
      BY <1>0, <3>2, <3>5 DEF IsAlive
  <2> QED
    BY <2>1, <2>2, <2>3, <2>4 DEF Request
<1> QED
  BY <1>2, <1>3, <1>4, <1>5, <1>6 DEF Next, Drain, Reap, Prune

\* A request keeps its session until it is over.
LEMMA RequestKeepsItsSession ==
  ASSUME TypeOK, Next, NEW c \in Conn, job'[c].stage # "idle"
  PROVE  \/ job[c].stage # "idle" /\ job'[c].sid = job[c].sid
         \/ \E s \in Session, op \in {"attach", "ensure"} :
              NeedsSpawn(c, s, op) /\ job'[c].sid = s
<1>1. CASE UNCHANGED job
  BY <1>1
<1>2. CASE Restart
  BY <1>2 DEF Restart, Idle
<1>3. ASSUME NEW d \in Conn, LoadMeta(d) \/ LoadScrollback(d)
      PROVE  job[c].stage # "idle" /\ job'[c].sid = job[c].sid
  <2>1. job[d] \in ActiveJob
    BY <1>3, JobActive DEF LoadMeta, LoadScrollback
  <2>2. CASE LoadMeta(d)
    <3> DEFINE m == disk[job[d].sid].meta
               st == IF job[d].op = "attach" /\ ShouldColdRestore(m) THEN "scroll" ELSE "spawn"
    <3>1. job' = [job EXCEPT ![d].meta = m, ![d].stage = st]
      BY <2>2 DEF LoadMeta
    <3> HIDE DEF m, st
    <3>2. CASE c = d
      BY <2>1, <2>2, <3>1, <3>2 DEF LoadMeta, ActiveJob, TypeOK
    <3>3. CASE c # d
      BY <3>1, <3>3 DEF TypeOK
    <3> QED
      BY <3>2, <3>3
  <2>3. CASE LoadScrollback(d)
    <3> DEFINE x == disk[job[d].sid].data
    <3>1. job' = [job EXCEPT ![d].data = x, ![d].stage = "spawn"]
      BY <2>3 DEF LoadScrollback
    <3> HIDE DEF x
    <3>2. CASE c = d
      BY <2>1, <2>3, <3>1, <3>2 DEF LoadScrollback, ActiveJob, TypeOK
    <3>3. CASE c # d
      BY <3>1, <3>3 DEF TypeOK
    <3> QED
      BY <3>2, <3>3
  <2> QED
    BY <1>3, <2>2, <2>3
<1>4. ASSUME NEW d \in Conn, job' = [job EXCEPT ![d] = Idle]
      PROVE  job[c].stage # "idle" /\ job'[c].sid = job[c].sid
  BY <1>4 DEF TypeOK, Idle
<1>5. ASSUME NEW d \in Conn, NEW s \in Session, NEW op \in {"attach", "ensure"},
             NeedsSpawn(d, s, op)
      PROVE  \/ job[c].stage # "idle" /\ job'[c].sid = job[c].sid
             \/ c = d /\ job'[c].sid = s
  <2>1. job' = [job EXCEPT ![d] = [Idle EXCEPT !.op = op, !.sid = s, !.stage = "meta"]]
    BY <1>5 DEF NeedsSpawn
  <2> QED
    BY <2>1 DEF TypeOK, Idle
<1>6. CASE \E d \in Conn : Request(d)
  <2>1. PICK d \in Conn : Request(d)
    BY <1>6
  <2>2. CASE LoadMeta(d) \/ LoadScrollback(d)
    BY <1>3, <2>2
  <2>3. CASE SpawnAndAttach(d) \/ SpawnUnattached(d) \/ SpawnFails(d)
    BY <1>4, <2>3 DEF SpawnAndAttach, SpawnUnattached, SpawnFails, SpawnInner
  <2>4. CASE \E s \in Session, op \in {"attach", "ensure"} : NeedsSpawn(d, s, op)
    BY <1>5, <2>4
  <2>5. CASE \/ ConnectionEnds(d)
             \/ \E s \in Session : AttachWarm(d, s) \/ EnsureWarm(d, s) \/ Write(d, s)
                                   \/ Kill(d, s) \/ Detach(d, s)
    <3>1. UNCHANGED job
      BY <2>5 DEF ConnectionEnds, AttachWarm, EnsureWarm, Write, Kill, Detach, vars
    <3> QED
      BY <1>1, <3>1
  <2> QED
    BY <2>1, <2>2, <2>3, <2>4, <2>5 DEF Request
<1>7. CASE (\E i \in Inc : Shell(i)) \/ Drain \/ Reap \/ Prune \/ WeekPasses \/ GracefulShutdown
  <2>1. UNCHANGED job
    BY <1>7 DEF Shell, ShellExits, ShellSignalled, ReadData, ReadEOF, ReadFails, ReaderSends,
       Escalate, ForceExit, Drain, Reap, Prune, MaintenanceTick, WeekPasses, GracefulShutdown
  <2> QED
    BY <1>1, <2>1
<1> QED
  BY <1>2, <1>6, <1>7 DEF Next

LEMMA SpawnsForTheDeadKept ==
  ASSUME OneConnection, HostInv, HostInv', SpawnsForTheDead, Next
  PROVE  SpawnsForTheDead'
<1>0. TypeOK /\ TypeOK'
  BY DEF HostInv
<1> SUFFICES ASSUME NEW c \in Conn, job'[c].stage # "idle", NEW s \in Session,
                    s = job'[c].sid, IsAlive(s)'
             PROVE  FALSE
  <2>1. \A c \in Conn : job'[c].stage # "idle" => job'[c].sid \in Session
    BY <1>0 DEF TypeOK, Job, ActiveJob, Idle
  <2> QED
    BY <2>1 DEF SpawnsForTheDead, IsAlive
<1>1. CASE job[c].stage # "idle" /\ s = job[c].sid
  <2>1. ~IsAlive(s)
    BY <1>1 DEF SpawnsForTheDead
  <2>2. PICK d \in Conn : SpawnAndAttach(d) \/ SpawnUnattached(d)
    BY <2>1, OnlyASpawnRevives
  <2>3. d = c /\ job'[c] = Idle
    BY <1>0, <2>2 DEF OneConnection, SpawnAndAttach, SpawnUnattached, SpawnInner, TypeOK
  <2> QED
    BY <2>3 DEF Idle
<1>2. CASE \E op \in {"attach", "ensure"} : NeedsSpawn(c, s, op)
  BY <1>0, <1>2 DEF NeedsSpawn, IsAlive, TypeOK
<1> QED
  BY <1>0, <1>1, <1>2, RequestKeepsItsSession

LEMMA LivingStayMapped ==
  ASSUME HostInv, SpawnsForTheDead, Next, NEW s \in Session
  PROVE  ~Displaces(s)
<1> SUFFICES ASSUME Displaces(s) PROVE FALSE
  OBVIOUS
<1>0. TypeOK /\ sessions[s] # None /\ obj'[sessions[s]].status = "Alive"
  BY DEF HostInv, Displaces
<1>1. PICK c \in Conn : (SpawnAndAttach(c) \/ SpawnUnattached(c)) /\ job[c].sid = s
  BY OnlyASpawnDisplaces
<1>2. ~IsAlive(s)
  BY <1>1 DEF SpawnsForTheDead, SpawnAndAttach, SpawnUnattached
<1>3. sessions[s] \in Inc /\ sessions[s] # spawned + 1
  BY <1>0, SessionInc DEF HostInv, MapIsConsistent, TypeOK, Inc
<1>4. obj'[sessions[s]] = [obj[sessions[s]] EXCEPT !.clients = {}]
  BY <1>1, <1>3 DEF SpawnAndAttach, SpawnUnattached, SpawnInner
<1>5. obj'[sessions[s]].status = obj[sessions[s]].status
  BY <1>0, <1>3, <1>4 DEF TypeOK, Object
<1> QED
  BY <1>0, <1>2, <1>5 DEF IsAlive

\* AliveStaysMapped, while one connection is open at a time: host_respawn_race shows what
\* two may do between the two halves of a request (create_or_attach_fast, spawn_inner).
THEOREM OneConnectionKeepsItsSessions ==
  ASSUME OneConnection
  PROVE  Spec => AliveStaysMapped
<1>1. Init => SpawnsForTheDead
  BY DEF Init, SpawnsForTheDead, Idle
<1>2. HostInv /\ HostInv' /\ SpawnsForTheDead /\ [Next]_vars => SpawnsForTheDead'
  <2>1. UNCHANGED vars /\ SpawnsForTheDead => SpawnsForTheDead'
    BY DEF vars, SpawnsForTheDead, IsAlive
  <2> QED
    BY <2>1, SpawnsForTheDeadKept
<1>3. HostInv /\ SpawnsForTheDead /\ [Next]_vars
        => [\A s \in Session :
              LET i == sessions[s] IN
              i # None /\ sessions'[s] # i /\ restarts' = restarts
                => obj'[i].status # "Alive"]_vars
  BY LivingStayMapped DEF Displaces
<1> QED
  BY <1>1, <1>2, <1>3, HostInvariance, PTL DEF Spec, AliveStaysMapped
=============================================================================
