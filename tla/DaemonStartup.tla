---------------------------- MODULE DaemonStartup ----------------------------
(***************************************************************************)
(* Who is the daemon: the start and the end of seoul-daemon processes      *)
(* (main.rs, lock.rs) and how an app finds, starts, authenticates with,    *)
(* replaces and finds again its daemon (daemon_client.rs, the background   *)
(* connect and the health check of app_view.rs).                           *)
(*                                                                         *)
(* The processes meet in three files only: the lock file, whose inode      *)
(* carries the flock, the socket and the token.  Every step below is one   *)
(* system call on one of them.  The PID file is informational and left     *)
(* out.  A slot of Daemon is one process at a time, and is used again      *)
(* after that process is gone.                                             *)
(***************************************************************************)
EXTENDS Integers, FiniteSets

CONSTANTS
  App, Daemon,
  MaxCrash,     \* bound: daemons killed (SIGKILL) and system calls that fail
  MaxShutdown,  \* bound: SIGTERMs
  MaxSlow       \* bound: times a daemon is slower than an app waits

ASSUME StartupAssumption ==
  /\ IsFiniteSet(Daemon) /\ "absent" \notin Daemon /\ "empty" \notin Daemon
  /\ MaxCrash \in Nat /\ MaxShutdown \in Nat /\ MaxSlow \in Nat

\* Enough inodes for a fresh one at any time.
Inode == 1 .. Cardinality(Daemon) + 1

NoInode == 0
Absent  == "absent"   \* no file at the path, no process at the other end
Empty   == "empty"    \* the token file between its creation and the write

VARIABLES
  pc,        \* where a daemon process is
  fd,        \* the inode it opened as its lock file
  locked,    \* the daemons that hold the flock on theirs
  old,       \* the daemons of another build than the apps'
  lockFile,  \* the inode at lock_path()
  sockFile,  \* the daemon that bound the socket at socket_path()
  tokenFile, \* the daemon whose token is at token_path()
  app, crashes, shutdowns, slow

vars == <<pc, fd, locked, old, lockFile, sockFile, tokenFile, app, crashes, shutdowns,
          slow>>
files == <<lockFile, sockFile, tokenFile>>
bounds == <<crashes, shutdowns, slow>>

Starting == {"spawned", "opened", "locked", "cleared", "bare", "tokenless", "tokened"}
Stopping == {"stopping", "unsocketed", "unlinked", "flushing"}

AppState == {"off", "start", "waiting", "dialled", "hello", "respawn", "connected", "backoff",
             "gaveup"}

TypeOK ==
  /\ pc \in [Daemon -> {"none", "serving"} \cup Starting \cup Stopping]
  /\ fd \in [Daemon -> Inode \cup {NoInode}]
  /\ locked \subseteq Daemon /\ old \subseteq Daemon
  /\ \A d, e \in locked : fd[d] = fd[e] => d = e       \* a flock is exclusive
  /\ lockFile \in Inode \cup {NoInode}
  /\ sockFile \in Daemon \cup {Absent}
  /\ tokenFile \in Daemon \cup {Absent, Empty}
  /\ app \in [App -> [at : AppState, conn : Daemon \cup {Absent},
                      token : Daemon \cup {Absent, Empty},
                      client : BOOLEAN, respawned : BOOLEAN]]
  /\ crashes \in 0 .. MaxCrash /\ shutdowns \in 0 .. MaxShutdown /\ slow \in 0 .. MaxSlow

NewApp == [at |-> "start", conn |-> Absent, token |-> Absent,
           client |-> FALSE, respawned |-> FALSE]

\* No daemon runs, or one of another build that an earlier app left behind.  Any of
\* the apps are started, and any part of the bounds is used up.
Init ==
  /\ old \in {{}} \cup {{d} : d \in Daemon}
  /\ pc = [d \in Daemon |-> IF d \in old THEN "serving" ELSE "none"]
  /\ fd = [d \in Daemon |-> IF d \in old THEN 1 ELSE NoInode]
  /\ locked = old
  /\ lockFile = IF old = {} THEN NoInode ELSE 1
  /\ sockFile \in IF old = {} THEN {Absent} ELSE old
  /\ tokenFile = sockFile
  /\ app \in [App -> {NewApp, [NewApp EXCEPT !.at = "off"]}]
  /\ crashes = 0 /\ shutdowns \in 0 .. MaxShutdown /\ slow \in 0 .. MaxSlow

-----------------------------------------------------------------------------
(* A daemon process *)

\* A process is gone: its lock goes with its file descriptor, its connections
\* break, its files stay.
Gone(d) ==
  /\ pc' = [pc EXCEPT ![d] = "none"]
  /\ fd' = [fd EXCEPT ![d] = NoInode]
  /\ locked' = locked \ {d}
  /\ old' = old \ {d}
  /\ app' = [a \in App |-> IF app[a].conn = d THEN [app[a] EXCEPT !.conn = Absent]
                           ELSE app[a]]

Goes(d, from, to) == pc[d] = from /\ pc' = [pc EXCEPT ![d] = to]

\* lock.rs, acquire: open with create, then a flock that does not wait.
OpensLock(d) ==
  LET fresh == CHOOSE i \in Inode : i # lockFile /\ \A e \in Daemon : fd[e] # i
      inode == IF lockFile = NoInode THEN fresh ELSE lockFile
  IN
  /\ Goes(d, "spawned", "opened")
  /\ lockFile' = inode
  /\ fd' = [fd EXCEPT ![d] = inode]
  /\ UNCHANGED <<locked, old, sockFile, tokenFile, app, bounds>>

Flock(d) ==
  \/ /\ \A e \in locked : fd[e] # fd[d]
     /\ Goes(d, "opened", "locked")
     /\ locked' = locked \cup {d}
     /\ UNCHANGED <<fd, old, app, files, bounds>>
  \/ /\ \E e \in locked : fd[e] = fd[d]        \* daemon already running
     /\ pc[d] = "opened"
     /\ Gone(d)
     /\ UNCHANGED <<files, bounds>>

\* Mutant: what an earlier daemon left behind stays.
KeepsStaleSocket(d) ==
  /\ Goes(d, "locked", "cleared")
  /\ UNCHANGED <<fd, locked, old, app, files, bounds>>

\* remove_file(...).ok(): startup goes on when a removal fails.
RemovalFails ==
  /\ crashes < MaxCrash
  /\ crashes' = crashes + 1
  /\ UNCHANGED <<files, shutdowns, slow>>

RemovesStaleSocket(d) ==
  /\ Goes(d, "locked", "cleared")
  /\ \/ sockFile' = Absent /\ UNCHANGED <<lockFile, tokenFile, bounds>>
     \/ sockFile # Absent /\ RemovalFails
  /\ UNCHANGED <<fd, locked, old, app>>

RemovesStaleToken(d) ==
  /\ Goes(d, "cleared", "bare")
  /\ \/ tokenFile' = Absent /\ UNCHANGED <<lockFile, sockFile, bounds>>
     \/ tokenFile # Absent /\ RemovalFails
  /\ UNCHANGED <<fd, locked, old, app>>

\* write_token_atomic: create_new, which fails on a file that is there, ...
CreatesToken(d) ==
  \/ /\ tokenFile = Absent
     /\ Goes(d, "bare", "tokenless")
     /\ tokenFile' = Empty
     /\ UNCHANGED <<fd, locked, old, lockFile, sockFile, app, bounds>>
  \/ /\ tokenFile # Absent
     /\ pc[d] = "bare"
     /\ Gone(d)
     /\ UNCHANGED <<files, bounds>>

\* ... and the write, which only matters while the file is still at the path.
WritesToken(d) ==
  /\ Goes(d, "tokenless", "tokened")
  /\ tokenFile' = IF tokenFile = Empty THEN d ELSE tokenFile
  /\ UNCHANGED <<fd, locked, old, lockFile, sockFile, app, bounds>>

\* Mutant: the lock handle is dropped as soon as startup is over.
BindsUnlocked(d) ==
  /\ sockFile = Absent
  /\ Goes(d, "tokened", "serving")
  /\ sockFile' = d
  /\ locked' = locked \ {d}
  /\ UNCHANGED <<fd, old, lockFile, tokenFile, app, bounds>>

\* UnixListener::bind fails on a path that is there.
Binds(d) ==
  \/ /\ sockFile = Absent
     /\ Goes(d, "tokened", "serving")
     /\ sockFile' = d
     /\ UNCHANGED <<fd, locked, old, lockFile, tokenFile, app, bounds>>
  \/ /\ sockFile # Absent
     /\ pc[d] = "tokened"
     /\ Gone(d)
     /\ UNCHANGED <<files, bounds>>

\* SIGTERM or Ctrl-C.
Terminated(d) ==
  /\ shutdowns < MaxShutdown
  /\ Goes(d, "serving", "stopping")
  /\ shutdowns' = shutdowns + 1
  /\ UNCHANGED <<fd, locked, old, app, files, crashes, slow>>

\* The end of main: whatever is at the paths is removed, the lock is dropped, and
\* only then the sessions are flushed and killed.
RemovesSocket(d) ==
  /\ Goes(d, "stopping", "unsocketed")
  /\ sockFile' = Absent
  /\ UNCHANGED <<fd, locked, old, lockFile, tokenFile, app, bounds>>

RemovesLock(d) ==
  /\ Goes(d, "unsocketed", "unlinked")
  /\ lockFile' = NoInode
  /\ UNCHANGED <<fd, locked, old, sockFile, tokenFile, app, bounds>>

DropsLock(d) ==
  /\ Goes(d, "unlinked", "flushing")
  /\ locked' = locked \ {d}
  /\ fd' = [fd EXCEPT ![d] = NoInode]
  /\ UNCHANGED <<old, app, files, bounds>>

\* Mutant: the socket is removed last.
RemovesSocketLast(d) ==
  /\ pc[d] = "flushing"
  /\ Gone(d)
  /\ sockFile' = Absent
  /\ UNCHANGED <<lockFile, tokenFile, bounds>>

Exits(d) ==
  /\ pc[d] = "flushing"
  /\ Gone(d)
  /\ UNCHANGED <<files, bounds>>

Crashes(d) ==
  /\ pc[d] # "none"
  /\ crashes < MaxCrash
  /\ crashes' = crashes + 1
  /\ Gone(d)
  /\ UNCHANGED <<files, shutdowns, slow>>

DaemonRuns(d) ==
  \/ OpensLock(d) \/ Flock(d)
  \/ RemovesStaleSocket(d) \/ RemovesStaleToken(d)
  \/ CreatesToken(d) \/ WritesToken(d) \/ Binds(d)
  \/ RemovesSocket(d) \/ RemovesLock(d) \/ DropsLock(d) \/ Exits(d)

-----------------------------------------------------------------------------
(* An app *)

\* Somebody listens on the socket at the path: connect succeeds.
Connectable == sockFile # Absent /\ pc[sockFile] \in {"serving"} \cup Stopping

Moves(a, to) == app' = [app EXCEPT ![a].at = to]

\* connect_or_spawn returns Err.  The health check of an app that had a client
\* tries again after its backoff; the background connect logs the error.
Failed(r) == [NewApp EXCEPT !.client = r.client,
                            !.at = IF r.client THEN "backoff" ELSE "gaveup"]

Fails(a) == app' = [app EXCEPT ![a] = Failed(app[a])]

daemons == <<pc, fd, locked, old>>

\* UnixStream::connect, at first and then again and again for three seconds.
Dials(a) ==
  /\ app[a].at \in {"start", "waiting"}
  /\ Connectable
  /\ app' = [app EXCEPT ![a].at = "dialled", ![a].conn = sockFile]
  /\ UNCHANGED <<daemons, files, bounds>>

\* A daemon is in the middle of its startup, or of the removal of its files; both
\* take milliseconds.
Busy == {d \in Daemon : pc[d] \in Starting \cup {"stopping", "unsocketed", "unlinked"}}

\* The app's wait ends: after what the daemons were doing, or, rarely, before.
WaitEnds ==
  \/ Busy = {} /\ UNCHANGED slow
  \/ Busy # {} /\ slow < MaxSlow /\ slow' = slow + 1

\* spawn_daemon, because nobody listens ...
Spawns(a) ==
  /\ app[a].at = "start" /\ ~Connectable
  /\ \E d \in Daemon : Goes(d, "none", "spawned")
  /\ Moves(a, "waiting")
  /\ UNCHANGED <<fd, locked, old, files, bounds>>

\* ... or 200 ms after a daemon of another build was asked to shut down.
Respawns(a) ==
  /\ app[a].at = "respawn"
  /\ WaitEnds
  /\ \E d \in Daemon : Goes(d, "none", "spawned")
  /\ Moves(a, "waiting")
  /\ UNCHANGED <<fd, locked, old, files, crashes, shutdowns>>

\* wait_and_connect gives up after three seconds.
WaitTimesOut(a) ==
  /\ app[a].at = "waiting" /\ ~Connectable
  /\ WaitEnds
  /\ Fails(a)
  /\ UNCHANGED <<daemons, files, crashes, shutdowns>>

\* from_stream reads the token only once it is connected.
ReadsToken(a) ==
  /\ app[a].at = "dialled"
  /\ IF tokenFile = Absent THEN Fails(a)
     ELSE app' = [app EXCEPT ![a].at = "hello", ![a].token = tokenFile]
  /\ UNCHANGED <<daemons, files, bounds>>

HelloRefused(a) ==
  /\ app[a].at = "hello"
  /\ app[a].token # app[a].conn
  /\ Fails(a)
  /\ UNCHANGED <<daemons, files, bounds>>

HelloAcked(a) ==
  /\ app[a].at = "hello"
  /\ app[a].token = app[a].conn /\ app[a].conn \notin old
  /\ app' = [app EXCEPT ![a] = [NewApp EXCEPT !.at = "connected", !.client = TRUE,
                                              !.conn = app[a].conn]]
  /\ UNCHANGED <<daemons, files, bounds>>

\* The daemon is of another build: it is asked to shut down, and 200 ms later
\* another is spawned, once.
BuildMismatch(a) ==
  LET d == app[a].conn IN
  /\ app[a].at = "hello"
  /\ app[a].token = d /\ d \in old
  /\ pc' = [pc EXCEPT ![d] = IF @ = "serving" THEN "stopping" ELSE @]
  /\ app' = [app EXCEPT ![a] =
       IF app[a].respawned THEN Failed(app[a])
       ELSE [Failed(app[a]) EXCEPT !.at = "respawn", !.respawned = TRUE]]
  /\ UNCHANGED <<fd, locked, old, files, bounds>>

\* The health check finds the reader thread ended, or its backoff over.
Reconnects(a) ==
  /\ \/ app[a].at = "connected" /\ app[a].conn = Absent
     \/ app[a].at = "backoff"
  /\ Moves(a, "start")
  /\ UNCHANGED <<daemons, files, bounds>>

AppRuns(a) ==
  \/ Dials(a) \/ Spawns(a) \/ Respawns(a) \/ WaitTimesOut(a)
  \/ ReadsToken(a) \/ HelloRefused(a) \/ HelloAcked(a) \/ BuildMismatch(a)
  \/ Reconnects(a)

-----------------------------------------------------------------------------
Next ==
  \/ \E d \in Daemon : DaemonRuns(d) \/ Terminated(d) \/ Crashes(d)
  \/ \E a \in App : AppRuns(a)

Spec == Init /\ [][Next]_vars

\* Processes run; nobody has to kill one.
Fairness ==
  /\ \A d \in Daemon : WF_vars(DaemonRuns(d))
  /\ \A a \in App : WF_vars(AppRuns(a))

FairSpec == Spec /\ Fairness

-----------------------------------------------------------------------------
(* Properties *)

\* A daemon that serves can be reached: the socket and the token at the paths are its
\* own.  main.rs: the lock proves there is no live owner, so that whoever removes a
\* socket or a token at startup removes a stale one.
ServingIsReachable ==
  \A d \in Daemon : pc[d] = "serving" => sockFile = d /\ tokenFile = d

\* The lock works for the next daemon, too: nobody who starts gets past the lock
\* while another one serves.
StartsAlone ==
  \A d, e \in Daemon :
    pc[d] = "serving" /\ pc[e] \in Starting \ {"spawned", "opened"} => d = e

\* main.rs: a crashed daemon never wedges the next launch.  An app that had a daemon
\* and lost it, by a crash at any step or by a shutdown, has one again in the end.
LostIsFoundAgain ==
  \A a \in App : app[a].client ~> (app[a].at = "connected" /\ app[a].conn # Absent)

\* app_view.rs: the background connect handles the initial connection.  An app that
\* was started has a daemon in the end.
FirstConnects == \A a \in App : app[a].at = "start" ~> app[a].at = "connected"
=============================================================================
