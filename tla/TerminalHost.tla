---------------------------- MODULE TerminalHost ----------------------------
(***************************************************************************)
(* The session registry of seoul-daemon: the connections' read loops       *)
(* (server.rs), the sessions map behind the host lock (host.rs), the PTY   *)
(* reader, the kill escalation and the exit path of a session (session.rs) *)
(* and what a session leaves on disk for a cold restore (scrollback.rs).   *)
(*                                                                         *)
(* Every DaemonSession that is ever spawned is an INCARNATION of its       *)
(* session id.  The map holds at most one incarnation per id; the others   *)
(* are dropped objects, whose shell and reader thread may still run.       *)
(*                                                                         *)
(* Terminal output is abstracted to which incarnation produced it: the     *)
(* scrollback file of a session is the set of the incarnations whose       *)
(* output it holds.  The host lock is held for the whole of an action that *)
(* takes it; the disk phase of a request, which runs without the lock, is  *)
(* split into actions of its own.                                          *)
(***************************************************************************)
EXTENDS Integers, Sequences, FiniteSets

CONSTANTS
  Conn,        \* client connections
  Session,     \* session ids
  MaxInc,      \* bound: incarnations spawned in a behaviour
  EventCap,    \* SESSION_EVENT_CHANNEL_CAPACITY, scaled down
  MaxKill,     \* bound: escalation tasks of one incarnation at a time
  MaxRestart,  \* bound: daemon restarts
  MaxWeek      \* bound: times seven days pass

ASSUME ConstAssumption ==
  /\ MaxInc \in Nat \ {0}
  /\ EventCap \in Nat \ {0}
  /\ MaxKill \in Nat \ {0}
  /\ MaxRestart \in Nat
  /\ MaxWeek \in Nat

Inc  == 1 .. MaxInc
None == 0

Exited  == {"Exit0", "ExitNeg"}   \* a code >= 0, or one < 0 (-1, -9)
Status  == {"Alive"} \cup Exited
Event   == {"data"} \cup Exited

VARIABLES
  conn,      \* is the read loop of a connection running
  job,       \* the request a connection's read loop is in the middle of
  writers,   \* session_writers of each connection: the incarnation written to
  sessions,  \* TerminalHost.sessions
  spawned,   \* number of incarnations so far
  obj,       \* the DaemonSession of each incarnation
  pty,       \* its shell process, reader thread, writer thread, event channel
  esc,       \* its kill escalation tasks, by stage
  disk,      \* ~/.seoul/terminal-history/<session>/
  phase,     \* is the daemon up, or past graceful_shutdown
  restarts, weeks

vars == <<conn, job, writers, sessions, spawned, obj, pty, esc, disk,
          phase, restarts, weeks>>

Idle == [op |-> "none", sid |-> None, stage |-> "idle", meta |-> "absent", data |-> {}]

ActiveJob == [op : {"attach", "ensure"}, sid : Session,
              stage : {"meta", "scroll", "spawn"},
              meta : Status \cup {"absent"}, data : SUBSET Inc]

Job == {Idle} \cup ActiveJob

\* killing: _kill_task is Some.  linked: the scrollback file this object holds
\* open is still the one at the path.  shown: some output went through
\* on_pty_data.  The record of a dropped object remembers how it ended.
Object == [sid : Session \cup {None}, status : Status, clients : SUBSET Conn,
           killing : BOOLEAN, linked : BOOLEAN, shown : BOOLEAN]

Pty == [proc : {"none", "running", "exited", "signalled"},
        reader : {"none", "reading", "done"},
        writer : BOOLEAN, queue : Seq(Event)]

\* dirOld, fileOld: the directory's (the scrollback file's) modification time
\* is more than seven days back.
Dir == [meta : Status \cup {"absent"}, hasFile : BOOLEAN, data : SUBSET Inc,
        dirOld : BOOLEAN, fileOld : BOOLEAN]

NoDir == [meta |-> "absent", hasFile |-> FALSE, data |-> {},
          dirOld |-> FALSE, fileOld |-> FALSE]

TypeOK ==
  /\ conn \in [Conn -> {"open", "closed"}]
  /\ job \in [Conn -> Job]
  /\ writers \in [Conn -> [Session -> 0 .. MaxInc]]
  /\ sessions \in [Session -> 0 .. MaxInc]
  /\ spawned \in 0 .. MaxInc
  /\ obj \in [Inc -> Object]
  /\ pty \in [Inc -> Pty]
  /\ \A i \in Inc : Len(pty[i].queue) <= EventCap
  /\ esc \in [Inc -> [term : 0 .. MaxKill, kill : 0 .. MaxKill]]
  /\ \A i \in Inc : esc[i].term + esc[i].kill <= MaxKill
  /\ disk \in [Session -> Dir]
  /\ phase \in {"up", "stopping"}
  /\ restarts \in 0 .. MaxRestart
  /\ weeks \in 0 .. MaxWeek

Init ==
  /\ conn = [c \in Conn |-> "open"]
  /\ job = [c \in Conn |-> Idle]
  /\ writers = [c \in Conn |-> [s \in Session |-> None]]
  /\ sessions = [s \in Session |-> None]
  /\ spawned = 0
  /\ obj = [i \in Inc |->
              [sid |-> None, status |-> "Alive", clients |-> {},
               killing |-> FALSE, linked |-> FALSE, shown |-> FALSE]]
  /\ pty = [i \in Inc |->
              [proc |-> "none", reader |-> "none", writer |-> FALSE, queue |-> <<>>]]
  /\ esc = [i \in Inc |-> [term |-> 0, kill |-> 0]]
  /\ disk = [s \in Session |-> NoDir]
  /\ phase = "up"
  /\ restarts = 0
  /\ weeks = 0

-----------------------------------------------------------------------------
Mapped(i)  == \E s \in Session : sessions[s] = i
\* Mutant: a session that is being killed is taken for one that has exited.
IsAliveUnlessKilled(s) ==
  sessions[s] # None /\ obj[sessions[s]].status = "Alive" /\ ~obj[sessions[s]].killing

IsAlive(s) == sessions[s] # None /\ obj[sessions[s]].status = "Alive"
Ready(c)   == conn[c] = "open" /\ job[c].stage = "idle"

\* A request that needs a spawn is taken up only when the bound leaves it an
\* incarnation, so that the bound never leaves a request half done.
RoomToSpawn ==
  spawned + Cardinality({c \in Conn : job[c].stage # "idle"}) < MaxInc

-----------------------------------------------------------------------------
(* Connections *)

\* The peer hangs up and the read loop returns, which it does only between two
\* requests: the writer task is aborted and the write handles are
\* dropped, but no session is told: its ClientHandle stays until a send fails.
ConnectionEnds(c) ==
  /\ Ready(c)
  /\ conn' = [conn EXCEPT ![c] = "closed"]
  /\ writers' = [writers EXCEPT ![c] = [s \in Session |-> None]]
  /\ UNCHANGED <<job, sessions, spawned, obj, pty, esc, disk, phase, restarts, weeks>>

-----------------------------------------------------------------------------
(* CreateOrAttach and EnsureSession *)

\* Mutant: the attach keeps whatever write handle the connection had.
AttachKeepsHandle(c, s) ==
  /\ Ready(c)
  /\ IsAlive(s)
  /\ obj' = [obj EXCEPT ![sessions[s]].clients = {c}]
  /\ UNCHANGED <<conn, writers, job, sessions, spawned, pty, esc, disk, phase, restarts, weeks>>

\* create_or_attach_fast on an Alive session: the previous client is dropped and
\* the write handle is taken under the same lock.
AttachWarm(c, s) ==
  /\ Ready(c)
  /\ IsAlive(s)
  /\ obj' = [obj EXCEPT ![sessions[s]].clients = {c}]
  /\ writers' = [writers EXCEPT ![c][s] = sessions[s]]
  /\ UNCHANGED <<conn, job, sessions, spawned, pty, esc, disk, phase, restarts, weeks>>

EnsureWarm(c, s) ==
  /\ Ready(c)
  /\ IsAlive(s)
  /\ UNCHANGED vars

\* Dropping a DaemonSession drops its event receiver with all that is queued.
WithoutQueue(i) == [k \in Inc |-> IF k = i THEN [pty[k] EXCEPT !.queue = <<>>] ELSE pty[k]]

\* The fast phase finds no Alive session: an exited one is removed, and the
\* request goes on to its disk phase without the lock.
NeedsSpawn(c, s, op) ==
  /\ Ready(c)
  /\ ~IsAlive(s)
  /\ RoomToSpawn
  /\ sessions' = [sessions EXCEPT ![s] = None]
  /\ pty' = WithoutQueue(sessions[s])
  /\ job' = [job EXCEPT ![c] = [Idle EXCEPT !.op = op, !.sid = s, !.stage = "meta"]]
  /\ UNCHANGED <<conn, writers, spawned, obj, esc, disk, phase, restarts, weeks>>

ShouldColdRestore(meta) == meta # "Exit0"

\* load_saved_meta_async.  An attach goes on to read the scrollback unless the
\* session exited normally; an ensure does not read it.
LoadMeta(c) ==
  /\ job[c].stage = "meta"
  /\ LET m == disk[job[c].sid].meta IN
     job' = [job EXCEPT ![c].meta = m,
                        ![c].stage = IF job[c].op = "attach" /\ ShouldColdRestore(m)
                                     THEN "scroll" ELSE "spawn"]
  /\ UNCHANGED <<conn, writers, sessions, spawned, obj, pty, esc, disk, phase,
                 restarts, weeks>>

LoadScrollback(c) ==
  /\ job[c].stage = "scroll"
  /\ job' = [job EXCEPT ![c].data = disk[job[c].sid].data, ![c].stage = "spawn"]
  /\ UNCHANGED <<conn, writers, sessions, spawned, obj, pty, esc, disk, phase,
                 restarts, weeks>>

\* DaemonSession::spawn and the insert of spawn_inner, which does not look again
\* at what the map holds by now.
SpawnInner(c, attach) ==
  LET s == job[c].sid
      i == spawned + 1
  IN
  /\ spawned' = i
  /\ sessions' = [sessions EXCEPT ![s] = i]
  /\ obj' = [k \in Inc |->
       IF k = i
       THEN [sid |-> s, status |-> "Alive", clients |-> IF attach THEN {c} ELSE {},
             killing |-> FALSE, linked |-> TRUE, shown |-> FALSE]
       ELSE IF k = sessions[s] THEN [obj[k] EXCEPT !.clients = {}] ELSE obj[k]]
  /\ pty' = [WithoutQueue(sessions[s]) EXCEPT
       ![i] = [proc |-> "running", reader |-> "reading", writer |-> TRUE, queue |-> <<>>]]
  /\ disk' = [disk EXCEPT
       ![s].meta = "Alive", ![s].hasFile = TRUE,
       ![s].dirOld = disk[s].dirOld /\ disk[s].hasFile /\ disk[s].meta # "absent",
       ![s].fileOld = disk[s].fileOld /\ disk[s].hasFile]
  /\ job' = [job EXCEPT ![c] = Idle]

SpawnAndAttach(c) ==
  /\ job[c].stage = "spawn" /\ job[c].op = "attach"
  /\ spawned < MaxInc
  /\ SpawnInner(c, TRUE)
  /\ writers' = [writers EXCEPT ![c][job[c].sid] = spawned + 1]
  /\ UNCHANGED <<conn, esc, phase, restarts, weeks>>

\* EnsureSession reads the saved metadata only (was_recovered, size and cwd come
\* from it), never the scrollback.
SpawnUnattached(c) ==
  /\ job[c].stage = "spawn" /\ job[c].op = "ensure"
  /\ spawned < MaxInc
  /\ SpawnInner(c, FALSE)
  /\ UNCHANGED <<conn, writers, esc, phase, restarts, weeks>>

\* DaemonSession::spawn returns Err: nothing is inserted, an Error is sent.
SpawnFails(c) ==
  /\ job[c].stage = "spawn"
  /\ job' = [job EXCEPT ![c] = Idle]
  /\ UNCHANGED <<conn, writers, sessions, spawned, obj, pty, esc, disk, phase,
                 restarts, weeks>>

-----------------------------------------------------------------------------
(* The other requests of a connection *)

\* Input for a shell that is gone makes the writer thread give up, unless a child
\* that outlives the shell keeps the PTY open.
Write(c, s) ==
  LET h == writers[c][s]
      stale == h # None /\ ~pty[h].writer
      target == IF h = None THEN sessions[s] ELSE h
  IN
  /\ Ready(c)
  /\ \/ /\ stale     \* the entry is dropped, and this input with it
        /\ writers' = [writers EXCEPT ![c][s] = None]
        /\ UNCHANGED pty
     \/ /\ ~stale
        /\ target # None
        /\ \E works \in BOOLEAN :
             /\ works \/ pty[target].proc # "running"
             /\ pty' = [pty EXCEPT ![target].writer = @ /\ works]
        /\ UNCHANGED writers
  /\ UNCHANGED <<conn, job, sessions, spawned, obj, esc, disk, phase, restarts, weeks>>

\* Kill: start_kill (SIGTERM and an escalation task, only when Alive), then
\* flush_scrollback, which saves the metadata.
Kill(c, s) ==
  /\ Ready(c)
  /\ writers' = [writers EXCEPT ![c][s] = None]
  /\ LET i == sessions[s] IN
     \/ /\ IsAlive(s)
        /\ esc[i].term + esc[i].kill < MaxKill
        /\ obj' = [obj EXCEPT ![i].killing = TRUE]
        /\ esc' = [esc EXCEPT ![i].term = @ + 1]
        /\ disk' = [disk EXCEPT ![s].meta = "Alive"]
     \/ /\ i # None /\ ~IsAlive(s)
        /\ disk' = [disk EXCEPT ![s].meta = obj[i].status]
        /\ UNCHANGED <<obj, esc>>
     \/ /\ i = None
        /\ UNCHANGED <<obj, esc, disk>>
  /\ UNCHANGED <<conn, job, sessions, spawned, pty, phase, restarts, weeks>>

Detach(c, s) ==
  /\ Ready(c)
  /\ writers' = [writers EXCEPT ![c][s] = None]
  /\ obj' = IF sessions[s] = None THEN obj
            ELSE [obj EXCEPT ![sessions[s]].clients = @ \ {c}]
  /\ UNCHANGED <<conn, job, sessions, spawned, pty, esc, disk, phase, restarts, weeks>>

-----------------------------------------------------------------------------
(* The shell process and the threads that serve it *)

ShellExits(i) ==  \* `exit`, or the end of its input
  /\ pty[i].proc = "running"
  /\ pty' = [pty EXCEPT ![i].proc = "exited"]
  /\ UNCHANGED <<conn, job, writers, sessions, spawned, obj, esc, disk, phase,
                 restarts, weeks>>

ShellSignalled(i) ==  \* a Signal request, SIGTERM, or a signal from outside
  /\ pty[i].proc = "running"
  /\ pty' = [pty EXCEPT ![i].proc = "signalled"]
  /\ UNCHANGED <<conn, job, writers, sessions, spawned, obj, esc, disk, phase,
                 restarts, weeks>>

\* Mutant: the event channel has no capacity to wait for.
ReaderNeverWaits(i, event) ==
  /\ pty[i].reader = "reading"
  /\ pty' = [pty EXCEPT
       ![i].queue = IF Mapped(i) THEN Append(@, event) ELSE @,
       ![i].reader = IF Mapped(i) /\ event = "data" THEN "reading" ELSE "done"]
  /\ UNCHANGED <<conn, job, writers, sessions, spawned, obj, esc, disk, phase,
                 restarts, weeks>>

\* pty_reader_loop.  blocking_send parks the thread while the channel is full;
\* once the object is dropped its receiver is gone and the send fails.
ReaderSends(i, event) ==
  /\ pty[i].reader = "reading"
  /\ Mapped(i) => Len(pty[i].queue) < EventCap
  /\ pty' = [pty EXCEPT
       ![i].queue = IF Mapped(i) THEN Append(@, event) ELSE @,
       ![i].reader = IF Mapped(i) /\ event = "data" THEN "reading" ELSE "done"]
  /\ UNCHANGED <<conn, job, writers, sessions, spawned, obj, esc, disk, phase,
                 restarts, weeks>>

ReadData(i) == ReaderSends(i, "data")

ReadEOF(i) ==  \* the reader cannot tell how the shell ended: always code 0
  /\ pty[i].proc \in {"exited", "signalled"}
  /\ ReaderSends(i, "Exit0")

ReadFails(i) == ReaderSends(i, "ExitNeg")

\* The escalation task polls kill(pid, 0), which keeps succeeding for a child
\* nobody waits for, so that every task runs to its end.
Escalate(i) ==
  /\ esc[i].term > 0
  /\ esc' = [esc EXCEPT ![i].term = @ - 1, ![i].kill = @ + 1]
  /\ \/ pty' = [pty EXCEPT ![i].proc = IF @ = "running" THEN "signalled" ELSE @]
     \/ UNCHANGED pty      \* uninterruptible, or the signal is still pending
  /\ UNCHANGED <<conn, job, writers, sessions, spawned, obj, disk, phase, restarts, weeks>>

\* Mutant: a forced exit that finds the channel full is lost.
ForceExitTries(i) ==
  /\ esc[i].kill > 0
  /\ esc' = [esc EXCEPT ![i].kill = @ - 1]
  /\ pty' = IF Mapped(i) /\ Len(pty[i].queue) < EventCap
            THEN [pty EXCEPT ![i].queue = Append(@, "ExitNeg")] ELSE pty
  /\ UNCHANGED <<conn, job, writers, sessions, spawned, obj, disk, phase, restarts, weeks>>

ForceExit(i) ==
  /\ esc[i].kill > 0
  /\ Mapped(i) => Len(pty[i].queue) < EventCap
  /\ esc' = [esc EXCEPT ![i].kill = @ - 1]
  /\ pty' = IF Mapped(i) THEN [pty EXCEPT ![i].queue = Append(@, "ExitNeg")] ELSE pty
  /\ UNCHANGED <<conn, job, writers, sessions, spawned, obj, disk, phase, restarts, weeks>>

-----------------------------------------------------------------------------
(* The maintenance task *)

\* k is the place of the last exit event of q, or 0 if it holds none.
IsLastExit(q, k) ==
  /\ k = 0 \/ (k \in DOMAIN q /\ q[k] # "data")
  /\ \A m \in DOMAIN q : m > k => q[m] = "data"

\* The choices of one drain: where each session's last exit event is.
LastExits(last) ==
  \A s \in Session :
    IF sessions[s] = None THEN last[s] = 0
    ELSE IsLastExit(pty[sessions[s]].queue, last[s])

HasData(q) == \E m \in DOMAIN q : q[m] = "data"

\* Mutant: the scrollback writer outlives the removal of its file.
ObjectKeepsLink(i, k, stalled) ==
  LET q == pty[i].queue IN
  [obj[i] EXCEPT
     !.status = IF k > 0 THEN q[k] ELSE @,
     !.clients = IF k > 0 THEN {}
                 ELSE {c \in @ : HasData(q) => conn[c] # "closed" /\ c \notin stalled},
     !.shown = @ \/ HasData(q)]

\* drain_broadcast takes every pending event of a session and handles them in
\* order.  on_pty_data loses a client whose channel is closed or that has dropped
\* too many chunks in a row (stalled); on_exit forgets every client.
ObjectAfter(i, k, stalled) ==
  LET q == pty[i].queue IN
  [obj[i] EXCEPT
     !.status = IF k > 0 THEN q[k] ELSE @,
     !.clients = IF k > 0 THEN {}
                 ELSE {c \in @ : HasData(q) => conn[c] # "closed" /\ c \notin stalled},
     !.linked = @ /\ ~(k > 0 /\ obj[i].killing),
     !.shown = @ \/ HasData(q)]

\* Mutant: on_exit saves the metadata of a killed session only.
DirUnsaved(s, k) ==
  LET i == sessions[s]
      d == disk[s]
      removed == k > 0 /\ obj[i].killing
      appended == obj[i].linked /\ HasData(pty[i].queue)
  IN [meta |-> IF removed THEN pty[i].queue[k] ELSE d.meta,
      hasFile |-> d.hasFile /\ ~removed,
      data |-> IF removed THEN {} ELSE IF appended THEN d.data \cup {i} ELSE d.data,
      dirOld |-> d.dirOld /\ ~(removed /\ d.hasFile),
      fileOld |-> d.fileOld /\ ~appended]

\* on_exit saves the metadata and, after a kill, removes the scrollback file;
\* what is written after that goes to a file that has no name any more.
DirAfter(s, k) ==
  LET i == sessions[s]
      d == disk[s]
      removed == k > 0 /\ obj[i].killing
      appended == obj[i].linked /\ HasData(pty[i].queue)
  IN [meta |-> IF k > 0 THEN pty[i].queue[k] ELSE d.meta,
      hasFile |-> d.hasFile /\ ~removed,
      data |-> IF removed THEN {} ELSE IF appended THEN d.data \cup {i} ELSE d.data,
      dirOld |-> d.dirOld /\ ~(removed /\ d.hasFile),
      fileOld |-> d.fileOld /\ ~appended]

QueueAfter(i) == IF Mapped(i) THEN [pty[i] EXCEPT !.queue = <<>>] ELSE pty[i]

\* Mutant: pruning forgets to leave out the sessions that are in the map.
PrunedAnyway(d, mapped) == IF d.dirOld THEN NoDir ELSE d

\* cleanup_old_scrollback goes by the age of the directory.
Pruned(d, mapped) == IF d.dirOld /\ ~mapped THEN NoDir ELSE d

\* One tick under one hold of the host lock: the drain; then every 30 seconds
\* (reap) cleanup_exited_sessions; then every 10 minutes (prune)
\* cleanup_old_scrollback.
MaintenanceTick(reap, prune) ==
  /\ \E last \in [Session -> 0 .. EventCap], stalled \in SUBSET Conn :
       /\ LastExits(last)
       /\ obj' = [i \in Inc |-> IF Mapped(i) THEN ObjectAfter(i, last[obj[i].sid], stalled)
                                ELSE obj[i]]
       /\ sessions' = [s \in Session |->
            IF reap /\ sessions[s] # None /\ obj'[sessions[s]].status # "Alive"
            THEN None ELSE sessions[s]]
       /\ disk' = [s \in Session |->
            LET d == IF sessions[s] = None THEN disk[s] ELSE DirAfter(s, last[s])
            IN IF prune THEN Pruned(d, sessions'[s] # None) ELSE d]
  /\ pty' = [i \in Inc |-> QueueAfter(i)]
  /\ UNCHANGED <<conn, job, writers, spawned, esc, phase, restarts, weeks>>

Drain == MaintenanceTick(FALSE, FALSE)
Reap  == MaintenanceTick(TRUE, FALSE)
Prune == MaintenanceTick(TRUE, TRUE)

WeekPasses ==
  /\ weeks < MaxWeek
  /\ weeks' = weeks + 1
  /\ disk' = [s \in Session |-> [disk[s] EXCEPT !.dirOld = (disk[s].meta # "absent"),
                                                !.fileOld = disk[s].hasFile]]
  /\ UNCHANGED <<conn, job, writers, sessions, spawned, obj, pty, esc, phase, restarts>>

-----------------------------------------------------------------------------
(* Shutdown, crash and restart of the daemon *)

\* force_kill: SIGKILL, and a status that is changed in memory only.
ForceKilled(o) ==
  IF o.status = "Alive" THEN [o EXCEPT !.status = "ExitNeg", !.clients = {}] ELSE o

\* graceful_shutdown: a drain, then for every session flush_scrollback, which
\* saves its metadata, and force_kill.  Until the process is gone the other tasks
\* still run.
GracefulShutdown ==
  /\ phase = "up"
  /\ restarts < MaxRestart      \* bound: a shutdown leads to a restart
  /\ phase' = "stopping"
  /\ \E last \in [Session -> 0 .. EventCap], stalled \in SUBSET Conn :
       LET After(i) == ObjectAfter(i, last[obj[i].sid], stalled) IN
       /\ LastExits(last)
       /\ obj' = [i \in Inc |-> IF Mapped(i) THEN ForceKilled(After(i)) ELSE obj[i]]
       /\ disk' = [s \in Session |->
            IF sessions[s] = None THEN disk[s]
            ELSE [DirAfter(s, last[s]) EXCEPT !.meta = After(sessions[s]).status]]
       /\ pty' = [i \in Inc |->
            IF Mapped(i) /\ After(i).status = "Alive" /\ pty[i].proc = "running"
            THEN [QueueAfter(i) EXCEPT !.proc = "signalled"] ELSE QueueAfter(i)]
  /\ UNCHANGED <<conn, job, writers, sessions, spawned, esc, restarts, weeks>>

\* The daemon process ends, by itself or by a crash, and the app starts another:
\* only the disk survives.  The shells lose their terminal.
Restart ==
  /\ restarts < MaxRestart
  /\ restarts' = restarts + 1
  /\ phase' = "up"
  /\ conn' = [c \in Conn |-> "open"]
  /\ job' = [c \in Conn |-> Idle]
  /\ writers' = [c \in Conn |-> [s \in Session |-> None]]
  /\ sessions' = [s \in Session |-> None]
  /\ pty' = [i \in Inc |->
               [proc |-> IF pty[i].proc = "running" THEN "signalled" ELSE pty[i].proc,
                reader |-> IF pty[i].reader = "none" THEN "none" ELSE "done",
                writer |-> FALSE, queue |-> <<>>]]
  /\ esc' = [i \in Inc |-> [term |-> 0, kill |-> 0]]
  /\ UNCHANGED <<spawned, obj, disk, weeks>>

-----------------------------------------------------------------------------
Request(c) ==
  \/ ConnectionEnds(c)
  \/ LoadMeta(c) \/ LoadScrollback(c)
  \/ SpawnAndAttach(c) \/ SpawnUnattached(c) \/ SpawnFails(c)
  \/ \E s \in Session :
       \/ AttachWarm(c, s) \/ EnsureWarm(c, s)
       \/ \E op \in {"attach", "ensure"} : NeedsSpawn(c, s, op)
       \/ Write(c, s) \/ Kill(c, s) \/ Detach(c, s)

Shell(i) ==
  \/ ShellExits(i) \/ ShellSignalled(i)
  \/ ReadData(i) \/ ReadEOF(i) \/ ReadFails(i)
  \/ Escalate(i) \/ ForceExit(i)

Next ==
  \/ \E c \in Conn : Request(c)
  \/ \E i \in Inc : Shell(i)
  \/ Drain \/ Reap \/ Prune
  \/ WeekPasses
  \/ GracefulShutdown \/ Restart

Spec == Init /\ [][Next]_vars

\* What the daemon's own scheduling gives: the maintenance interval keeps ticking
\* and finds the host lock free, timers fire, the disk phase of a request ends,
\* and a sender waiting on a full channel is served in turn (tokio's channel
\* semaphore is first come first served).  Shells, readers and clients owe nothing.
Fairness ==
  /\ WF_vars(Drain) /\ WF_vars(Reap)
  /\ \A i \in Inc : WF_vars(Escalate(i)) /\ SF_vars(ForceExit(i))
  /\ \A c \in Conn : WF_vars(LoadMeta(c) \/ LoadScrollback(c) \/ SpawnAndAttach(c)
                             \/ SpawnUnattached(c))

FairSpec == Spec /\ Fairness

-----------------------------------------------------------------------------
(* Properties *)

\* A connection that is attached to the shell the map holds types into that same
\* shell: session_writers never leads elsewhere, whatever other connections
\* attached, killed or respawned meanwhile (server.rs, Write arm).
TypesWhereItReads ==
  \A s \in Session, c \in Conn :
    sessions[s] # None /\ c \in obj[sessions[s]].clients
      => writers[c][s] \in {None, sessions[s]}

\* meta.json says of every session in the map what the map says, whichever of
\* kill, exit, respawn and prune came last, so that a crash at any moment leaves
\* the status a cold restore must decide from (save_meta calls in session.rs).
MetaMirrorsHost ==
  phase = "up" =>
    \A s \in Session :
      sessions[s] # None => disk[s].meta = obj[sessions[s]].status

\* Whatever output of a session went to its clients is in the scrollback file,
\* ready for a crash, until the session is killed and gone: pruning and the exits
\* and kills of earlier incarnations never take it away.
ShownIsOnDisk ==
  \A s \in Session :
    LET i == sessions[s] IN
    i # None /\ obj[i].shown /\ ~(obj[i].killing /\ obj[i].status # "Alive")
      => i \in disk[s].data

\* A session that exited after a Kill has no scrollback left to restore, even
\* when output is still drained after the exit (cleanup_on_kill).  A daemon that
\* is shutting down no longer removes it.
KilledLeavesNoScrollback ==
  phase = "up" =>
    \A s \in Session :
      LET i == sessions[s] IN
      i # None /\ obj[i].killing /\ obj[i].status # "Alive" => disk[s].data = {}

\* The strengthening that makes these inductive: the map points at the newest
\* incarnation of the right session, and the file a mapped object appends to is
\* the one at the path until the session was killed and is gone.
MapIsConsistent ==
  \A s \in Session :
    sessions[s] # None => sessions[s] <= spawned /\ obj[sessions[s]].sid = s

FileIsLinked ==
  \A s \in Session :
    LET i == sessions[s]
        over == obj[i].killing /\ obj[i].status # "Alive"
    IN i # None => /\ ~over => obj[i].linked
                   /\ over /\ phase = "up" => ~obj[i].linked

HostInv ==
  /\ TypeOK
  /\ MapIsConsistent
  /\ TypesWhereItReads
  /\ MetaMirrorsHost
  /\ FileIsLinked
  /\ ShownIsOnDisk
  /\ KilledLeavesNoScrollback

\* While the daemon runs, a session leaves the map only once it has exited: a
\* spawn is for a session that does not exist or has exited, and only an exit is
\* reaped (create_or_attach_fast, ensure_session_fast, cleanup_exited_sessions).
AliveStaysMapped ==
  [][\A s \in Session :
       LET i == sessions[s] IN
       i # None /\ sessions'[s] # i /\ restarts' = restarts
         => obj'[i].status # "Alive"]_vars

\* A Kill ends the session, even when the shell ignores every signal: sooner or
\* later the escalation forces an exit and the exited session is reaped.
KillEndsSession ==
  \A i \in Inc : Mapped(i) /\ obj[i].killing ~> ~Mapped(i)

\* What an attach that found no Alive session is about to replay.
Replays(c) == job[c].op = "attach" /\ job[c].stage = "spawn"

\* server.rs: a session that a signal killed keeps its scrollback, so that the
\* next attach replays it (unless the user killed it from the app).
SignalKilledIsRestored ==
  \A c \in Conn, j \in Inc :
    /\ Replays(c)
    /\ j = spawned /\ obj[j].sid = job[c].sid
    /\ pty[j].proc = "signalled" /\ obj[j].shown /\ ~obj[j].killing
    => j \in job[c].data

\* host.rs: cleanup_old_scrollback removes scrollback files older than seven
\* days, and only those.
PrunesOnlyOldScrollback ==
  [][\A s \in Session :
       disk[s].meta # "absent" /\ disk'[s].meta = "absent" /\ disk[s].hasFile
         => disk[s].fileOld]_vars
=============================================================================
