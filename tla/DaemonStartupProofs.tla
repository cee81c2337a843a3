------------------------ MODULE DaemonStartupProofs --------------------------
(***************************************************************************)
(* ServingIsReachable and StartsAlone in the two situations that           *)
(* MCDaemonStartup names, for any number of apps and daemons, and why: a   *)
(* daemon that has got past the lock may do to the socket and the token    *)
(* what it likes as long as it is the only one.                            *)
(***************************************************************************)
EXTENDS MCDaemonStartup, FiniteSetTheorems, TLAPS

PastLock == {"locked", "cleared", "bare", "tokenless", "tokened", "serving", "stopping"}
Working  == Starting \cup {"serving", "stopping"}
Answers  == {"serving", "stopping"}   \* a daemon whose socket is at the path

Owns(d)  == pc[d] \in PastLock
Works(d) == pc[d] \in Working

\* At most one daemon is between the flock and the removal of its socket.
OwnersAreAlone == \A d, e \in Daemon : Owns(d) /\ Owns(e) => d = e

\* The flock is held from the flock to its drop.
HoldsTheLock(d) == pc[d] \in PastLock \cup {"unsocketed", "unlinked"}

LocksAreHeld == \A d \in Daemon : d \in locked <=> HoldsTheLock(d)

\* What an owner that is alone has made of the socket and the token.
FilesFollowTheOwner ==
  \A d \in Daemon :
    /\ pc[d] = "tokenless" => tokenFile = Empty
    /\ pc[d] \in {"tokened"} \cup Answers => tokenFile = d
    /\ pc[d] \in Answers => sockFile = d
    /\ pc[d] \in Stopping \ {"stopping"} => sockFile # d

\* Nobody shuts down: the lock file stays, so that all lock the same inode.
OneLockFile ==
  /\ NobodyShutsDown
  /\ \A d \in Daemon :
       /\ pc[d] \notin Stopping
       /\ pc[d] \notin {"none", "spawned"} => lockFile \in Inode /\ fd[d] = lockFile

\* One app in time: it spawns a daemon only when no other one is at work.
WorkersAreAlone == \A d, e \in Daemon : Works(d) /\ Works(e) => d = e

\* Where app a is, compared with the daemons at work.
SeesTheWorker(a) ==
  /\ app[a].at = "start" => \A d \in Daemon : Works(d) => pc[d] \in Answers
  /\ app[a].at \in {"dialled", "hello", "connected"} =>
       \A d \in Daemon : Works(d) => app[a].conn = d /\ pc[d] \in Answers
  /\ app[a].at = "respawn" => \A d \in Daemon : Works(d) => pc[d] = "stopping"
  /\ app[a].at = "backoff" => \A d \in Daemon : ~Works(d)

\* The token it reads is that of the daemon it has dialled, if that one lives.
HasTheToken(a) ==
  /\ app[a].at = "dialled" =>
       tokenFile # Absent /\ (app[a].conn # Absent => tokenFile = app[a].conn)
  /\ app[a].at = "hello" /\ app[a].conn # Absent => app[a].token = app[a].conn

\* It meets a daemon of another build once.
ReplacesOnce(a) ==
  /\ app[a].at = "respawn" => app[a].conn = Absent
  /\ app[a].respawned /\ app[a].at # "respawn" =>
       /\ app[a].conn \notin old
       /\ \A d \in old : pc[d] \notin Answers

OnlyApp(a) ==
  /\ \A b \in App \ {a} : app[b].at = "off"
  /\ SeesTheWorker(a) /\ HasTheToken(a) /\ ReplacesOnce(a)

OneAppWaits ==
  /\ slow = MaxSlow
  /\ \A d \in old : pc[d] \in {"serving"} \cup Stopping
  /\ WorkersAreAlone
  /\ \E a \in App : OnlyApp(a)

StartupInv ==
  /\ TypeOK /\ LocksAreHeld /\ FilesFollowTheOwner
  /\ OneLockFile \/ OneAppWaits

-----------------------------------------------------------------------------
(* Types *)

Apps == [at : AppState, conn : Daemon \cup {Absent}, token : Daemon \cup {Absent, Empty},
         client : BOOLEAN, respawned : BOOLEAN]

LEMMA ANewApp == NewApp \in Apps /\ [NewApp EXCEPT !.at = "off"] \in Apps
BY DEF NewApp, Apps, AppState

LEMMA AFailedApp == ASSUME NEW r \in Apps PROVE Failed(r) \in Apps
BY DEF Failed, NewApp, Apps, AppState

\* One inode more than daemons: one is free.
LEMMA FreshInode ==
  ASSUME NEW g \in [Daemon -> Inode \cup {NoInode}]
  PROVE  \E i \in Inode : \A e \in Daemon : g[e] # i
<1> SUFFICES ASSUME \A i \in Inode : \E e \in Daemon : g[e] = i PROVE FALSE
  OBVIOUS
<1> DEFINE f == [i \in Inode |-> CHOOSE e \in Daemon : g[e] = i]
<1>1. IsFiniteSet(Daemon) /\ Cardinality(Daemon) \in Nat
  BY StartupAssumption, FS_CardinalityType
<1>2. IsFiniteSet(Inode) /\ Cardinality(Inode) = Cardinality(Daemon) + 1
  <2>1. ASSUME NEW n \in Nat
        PROVE  IsFiniteSet(1 .. n + 1) /\ Cardinality(1 .. n + 1) = n + 1
    BY FS_Interval
  <2> QED
    BY <1>1, <2>1 DEF Inode
<1>3. f \in [Inode -> Daemon] /\ \A i \in Inode : g[f[i]] = i
  OBVIOUS
<1>4. \E i, j \in Inode : i # j /\ f[i] = f[j]
  <2> HIDE DEF f
  <2> QED
    BY <1>1, <1>2, <1>3, FS_PigeonHole
<1> QED
  BY <1>3, <1>4

LEMMA TypesInit == ASSUME Init PROVE TypeOK /\ LocksAreHeld
<1>1. Cardinality(Daemon) \in Nat /\ 1 \in Inode
  BY StartupAssumption, FS_CardinalityType DEF Inode
<1>2. app \in [App -> Apps]
  BY ANewApp DEF Init
<1>3. old \subseteq Daemon /\ locked = old /\ \A d, e \in locked : d = e
  BY DEF Init
<1>4. pc \in [Daemon -> {"none", "serving"} \cup Starting \cup Stopping]
  BY DEF Init
<1>5. fd \in [Daemon -> Inode \cup {NoInode}] /\ lockFile \in Inode \cup {NoInode}
  BY <1>1 DEF Init
<1>6. sockFile \in Daemon \cup {Absent} /\ tokenFile \in Daemon \cup {Absent, Empty}
  BY DEF Init
<1>7. crashes \in 0 .. MaxCrash /\ shutdowns \in 0 .. MaxShutdown /\ slow \in 0 .. MaxSlow
  BY StartupAssumption DEF Init
<1>8. LocksAreHeld
  BY <1>3 DEF Init, LocksAreHeld, HoldsTheLock, PastLock
<1> QED
  BY <1>2, <1>3, <1>4, <1>5, <1>6, <1>7, <1>8 DEF TypeOK, Apps

LEMMA GoneKeepsTypes ==
  ASSUME TypeOK, LocksAreHeld, NEW d \in Daemon, Gone(d)
  PROVE  /\ pc' \in [Daemon -> {"none", "serving"} \cup Starting \cup Stopping]
         /\ fd' \in [Daemon -> Inode \cup {NoInode}]
         /\ locked' \subseteq Daemon /\ old' \subseteq Daemon
         /\ \A e, f \in locked' : fd'[e] = fd'[f] => e = f
         /\ app' \in [App -> Apps]
         /\ LocksAreHeld'
<1>1. app' \in [App -> Apps]
  BY DEF Gone, TypeOK, Apps
<1>2. \A e, f \in locked' : fd'[e] = fd'[f] => e = f
  BY DEF Gone, TypeOK
<1>3. LocksAreHeld'
  BY DEF Gone, TypeOK, LocksAreHeld, HoldsTheLock, PastLock
<1> QED
  BY <1>1, <1>2, <1>3 DEF Gone, TypeOK

\* A step of d that has to do neither with its lock nor with its end.
LEMMA GoesKeepsTypes ==
  ASSUME TypeOK, LocksAreHeld, NEW d \in Daemon, NEW from, NEW to, Goes(d, from, to),
         to \in {"none", "serving"} \cup Starting \cup Stopping,
         HoldsTheLock(d) <=> to \in PastLock \cup {"unsocketed", "unlinked"},
         UNCHANGED locked
  PROVE  /\ pc' \in [Daemon -> {"none", "serving"} \cup Starting \cup Stopping]
         /\ LocksAreHeld'
BY DEF Goes, TypeOK, LocksAreHeld, HoldsTheLock

LEMMA OpensKeepsTypes ==
  ASSUME TypeOK, LocksAreHeld, NEW d \in Daemon, OpensLock(d)
  PROVE  /\ TypeOK' /\ LocksAreHeld'
         /\ lockFile' \in Inode /\ fd' = [fd EXCEPT ![d] = lockFile']
         /\ lockFile # NoInode => lockFile' = lockFile
<1> DEFINE fresh == CHOOSE i \in Inode : i # lockFile /\ \A e \in Daemon : fd[e] # i
<1>1. lockFile' \in Inode /\ (lockFile # NoInode => lockFile' = lockFile)
  <2>1. CASE lockFile = NoInode
    <3>1. NoInode \notin Inode
      BY StartupAssumption, FS_CardinalityType DEF Inode, NoInode
    <3>2. \E i \in Inode : i # lockFile /\ \A e \in Daemon : fd[e] # i
      BY <2>1, <3>1, FreshInode DEF TypeOK
    <3>3. fresh \in Inode
      BY <3>2
    <3> QED
      BY <2>1, <3>3 DEF OpensLock
  <2>2. CASE lockFile # NoInode
    BY <2>2 DEF OpensLock, TypeOK
  <2> QED
    BY <2>1, <2>2
<1>2. /\ Goes(d, "spawned", "opened") /\ fd' = [fd EXCEPT ![d] = lockFile']
      /\ UNCHANGED <<locked, old, sockFile, tokenFile, app, bounds>>
  BY DEF OpensLock
<1>3. ~HoldsTheLock(d) /\ d \notin locked
  BY <1>2 DEF Goes, HoldsTheLock, PastLock, LocksAreHeld
<1>4. pc' \in [Daemon -> {"none", "serving"} \cup Starting \cup Stopping] /\ LocksAreHeld'
  BY <1>2, <1>3, GoesKeepsTypes DEF Starting, PastLock
<1>5. /\ fd' \in [Daemon -> Inode \cup {NoInode}]
      /\ \A e, f \in locked' : fd'[e] = fd'[f] => e = f
  BY <1>1, <1>2, <1>3 DEF TypeOK
<1> QED
  BY <1>1, <1>2, <1>4, <1>5 DEF TypeOK, bounds

LEMMA FlockKeepsTypes ==
  ASSUME TypeOK, LocksAreHeld, NEW d \in Daemon, Flock(d)
  PROVE  TypeOK' /\ LocksAreHeld'
<1>1. CASE Gone(d)
  BY <1>1, GoneKeepsTypes DEF Flock, TypeOK, files, bounds, Apps, Goes, Gone
<1>2. CASE ~Gone(d)
  <2>1. /\ \A e \in locked : fd[e] # fd[d]
        /\ Goes(d, "opened", "locked") /\ locked' = locked \cup {d}
        /\ UNCHANGED <<fd, old, app, files, bounds>>
    BY <1>2 DEF Flock
  <2>2. LocksAreHeld'
    BY <2>1 DEF Goes, TypeOK, LocksAreHeld, HoldsTheLock, PastLock
  <2>3. pc' \in [Daemon -> {"none", "serving"} \cup Starting \cup Stopping]
    BY <2>1 DEF Goes, TypeOK, Starting
  <2>4. locked' \subseteq Daemon /\ \A e, f \in locked' : fd'[e] = fd'[f] => e = f
    BY <2>1 DEF TypeOK
  <2> QED
    BY <2>1, <2>2, <2>3, <2>4 DEF TypeOK, files, bounds
<1> QED
  BY <1>1, <1>2

LEMMA StartupKeepsTypes ==
  ASSUME TypeOK, LocksAreHeld, NEW d \in Daemon,
         \/ RemovesStaleSocket(d) \/ RemovesStaleToken(d)
         \/ CreatesToken(d) \/ WritesToken(d) \/ Binds(d)
  PROVE  TypeOK' /\ LocksAreHeld'
<1>1. CASE RemovesStaleSocket(d) \/ RemovesStaleToken(d)
  <2>1. /\ \E from \in {"locked", "cleared"}, to \in {"cleared", "bare"} : Goes(d, from, to)
        /\ UNCHANGED <<fd, locked, old, app, lockFile, shutdowns, slow>>
        /\ sockFile' \in {sockFile, Absent} /\ tokenFile' \in {tokenFile, Absent}
        /\ \/ UNCHANGED crashes
           \/ crashes < MaxCrash /\ crashes' = crashes + 1
    BY <1>1 DEF RemovesStaleSocket, RemovesStaleToken, RemovalFails, files, bounds
  <2>2. pc' \in [Daemon -> {"none", "serving"} \cup Starting \cup Stopping] /\ LocksAreHeld'
    BY <2>1, GoesKeepsTypes DEF Starting, PastLock, HoldsTheLock, Goes
  <2>3. crashes' \in 0 .. MaxCrash
    BY <2>1, StartupAssumption DEF TypeOK
  <2>4. sockFile' \in Daemon \cup {Absent} /\ tokenFile' \in Daemon \cup {Absent, Empty}
    BY <2>1 DEF TypeOK
  <2> QED
    BY <2>1, <2>2, <2>3, <2>4 DEF TypeOK
<1>2. CASE CreatesToken(d) \/ WritesToken(d) \/ Binds(d)
  <2>1. CASE Gone(d) /\ UNCHANGED <<files, bounds>>
    BY <2>1, GoneKeepsTypes DEF TypeOK, files, bounds, Apps
  <2>2. CASE ~(Gone(d) /\ UNCHANGED <<files, bounds>>)
    <3>1. /\ \/ Goes(d, "bare", "tokenless") \/ Goes(d, "tokenless", "tokened")
             \/ Goes(d, "tokened", "serving")
          /\ UNCHANGED <<fd, locked, old, app, lockFile, bounds>>
          /\ sockFile' \in {sockFile, d} /\ tokenFile' \in {tokenFile, Empty, d}
      BY <1>2, <2>2 DEF CreatesToken, WritesToken, Binds
    <3>2. /\ pc' \in [Daemon -> {"none", "serving"} \cup Starting \cup Stopping]
          /\ LocksAreHeld'
      <4>1. CASE Goes(d, "bare", "tokenless")
        BY <3>1, <4>1, GoesKeepsTypes DEF Starting, PastLock, HoldsTheLock, Goes
      <4>2. CASE Goes(d, "tokenless", "tokened")
        BY <3>1, <4>2, GoesKeepsTypes DEF Starting, PastLock, HoldsTheLock, Goes
      <4>3. CASE Goes(d, "tokened", "serving")
        BY <3>1, <4>3, GoesKeepsTypes DEF Starting, PastLock, HoldsTheLock, Goes
      <4> QED
        BY <3>1, <4>1, <4>2, <4>3
    <3>3. sockFile' \in Daemon \cup {Absent} /\ tokenFile' \in Daemon \cup {Absent, Empty}
      BY <3>1 DEF TypeOK
    <3> QED
      BY <3>1, <3>2, <3>3 DEF TypeOK, bounds
  <2> QED
    BY <2>1, <2>2
<1> QED
  BY <1>1, <1>2

LEMMA EndKeepsTypes ==
  ASSUME TypeOK, LocksAreHeld, NEW d \in Daemon,
         \/ Terminated(d) \/ RemovesSocket(d) \/ RemovesLock(d) \/ DropsLock(d)
         \/ Exits(d) \/ Crashes(d)
  PROVE  TypeOK' /\ LocksAreHeld'
<1>1. CASE Terminated(d)
  <2>1. pc' \in [Daemon -> {"none", "serving"} \cup Starting \cup Stopping] /\ LocksAreHeld'
    BY <1>1, GoesKeepsTypes DEF Terminated, Goes, Stopping, HoldsTheLock, PastLock
  <2>2. shutdowns' \in 0 .. MaxShutdown
    BY <1>1, StartupAssumption DEF Terminated, TypeOK
  <2> QED
    BY <1>1, <2>1, <2>2 DEF Terminated, TypeOK, files
<1>2. CASE RemovesSocket(d)
  <2>1. pc' \in [Daemon -> {"none", "serving"} \cup Starting \cup Stopping] /\ LocksAreHeld'
    BY <1>2, GoesKeepsTypes DEF RemovesSocket, Goes, Stopping, HoldsTheLock, PastLock
  <2> QED
    BY <1>2, <2>1 DEF RemovesSocket, TypeOK, bounds
<1>3. CASE RemovesLock(d)
  <2>1. pc' \in [Daemon -> {"none", "serving"} \cup Starting \cup Stopping] /\ LocksAreHeld'
    BY <1>3, GoesKeepsTypes DEF RemovesLock, Goes, Stopping, HoldsTheLock, PastLock
  <2> QED
    BY <1>3, <2>1 DEF RemovesLock, TypeOK, bounds
<1>4. CASE DropsLock(d)
  <2>1. pc' \in [Daemon -> {"none", "serving"} \cup Starting \cup Stopping]
    BY <1>4 DEF DropsLock, TypeOK, Goes, Stopping
  <2>2. LocksAreHeld'
    BY <1>4 DEF DropsLock, TypeOK, Goes, LocksAreHeld, HoldsTheLock, PastLock
  <2>3. locked' \subseteq Daemon /\ \A e, f \in locked' : fd'[e] = fd'[f] => e = f
    BY <1>4 DEF DropsLock, TypeOK
  <2> QED
    BY <1>4, <2>1, <2>2, <2>3 DEF DropsLock, TypeOK, files, bounds
<1>5. CASE Exits(d)
  BY <1>5, GoneKeepsTypes DEF Exits, TypeOK, files, bounds, Apps
<1>6. CASE Crashes(d)
  <2>1. crashes' \in 0 .. MaxCrash
    BY <1>6, StartupAssumption DEF Crashes, TypeOK
  <2> QED
    BY <1>6, <2>1, GoneKeepsTypes DEF Crashes, TypeOK, files, Apps
<1> QED
  BY <1>1, <1>2, <1>3, <1>4, <1>5, <1>6

LEMMA AppKeepsTypes ==
  ASSUME TypeOK, LocksAreHeld, NEW a \in App, AppRuns(a)
  PROVE  TypeOK' /\ LocksAreHeld'
<1>1. app \in [App -> Apps] /\ app[a] \in Apps /\ Failed(app[a]) \in Apps
  BY AFailedApp DEF TypeOK, Apps
<1>2. slow' \in 0 .. MaxSlow
  <2>1. UNCHANGED slow \/ WaitEnds
    BY DEF AppRuns, Dials, Spawns, Respawns, WaitTimesOut, ReadsToken, HelloRefused,
           HelloAcked, BuildMismatch, Reconnects, bounds
  <2> QED
    BY <2>1, StartupAssumption DEF WaitEnds, TypeOK
<1>3. UNCHANGED <<fd, locked, old, files, crashes, shutdowns>>
  BY DEF AppRuns, Dials, Spawns, Respawns, WaitTimesOut, ReadsToken, HelloRefused,
         HelloAcked, BuildMismatch, Reconnects, bounds, daemons
<1>4. /\ app' \in [App -> Apps]
      /\ pc' \in [Daemon -> {"none", "serving"} \cup Starting \cup Stopping]
      /\ LocksAreHeld'
  <2>1. CASE UNCHANGED daemons
    <3>1. LocksAreHeld'
      BY <2>1 DEF daemons, LocksAreHeld, HoldsTheLock
    <3>2. CASE Dials(a)
      BY <2>1, <3>1, <3>2, <1>1 DEF Dials, TypeOK, Apps, AppState, daemons, Connectable
    <3>3. CASE WaitTimesOut(a) \/ HelloRefused(a)
      BY <2>1, <3>1, <3>3, <1>1 DEF WaitTimesOut, HelloRefused, Fails, TypeOK, daemons
    <3>4. CASE ReadsToken(a)
      BY <2>1, <3>1, <3>4, <1>1 DEF ReadsToken, Fails, TypeOK, Apps, AppState, daemons
    <3>5. CASE HelloAcked(a)
      BY <2>1, <3>1, <3>5, <1>1 DEF HelloAcked, TypeOK, NewApp, Apps, AppState, daemons
    <3>6. CASE Reconnects(a)
      BY <2>1, <3>1, <3>6, <1>1 DEF Reconnects, Moves, TypeOK, Apps, AppState, daemons
    <3>7. CASE Spawns(a) \/ Respawns(a)
      BY <2>1, <3>1, <3>7, <1>1 DEF Spawns, Respawns, Moves, TypeOK, Apps, AppState, daemons
    <3>8. CASE BuildMismatch(a)
      <4>1. [Failed(app[a]) EXCEPT !.at = "respawn", !.respawned = TRUE] \in Apps
        BY <1>1 DEF Apps, AppState
      <4> QED
        BY <2>1, <3>1, <3>8, <4>1, <1>1 DEF BuildMismatch, TypeOK, daemons
    <3> QED
      BY <3>2, <3>3, <3>4, <3>5, <3>6, <3>7, <3>8 DEF AppRuns
  <2>2. CASE Spawns(a) \/ Respawns(a)
    <3>1. app' \in [App -> Apps]
      BY <2>2, <1>1 DEF Spawns, Respawns, Moves, Apps, AppState
    <3>2. PICK d \in Daemon : Goes(d, "none", "spawned")
      BY <2>2 DEF Spawns, Respawns
    <3>3. ~HoldsTheLock(d)
      BY <3>2 DEF Goes, HoldsTheLock, PastLock
    <3> QED
      BY <3>1, <3>2, <3>3, <1>3, GoesKeepsTypes DEF Starting, PastLock
  <2>3. CASE BuildMismatch(a)
    <3>1. app' \in [App -> Apps]
      <4>1. [Failed(app[a]) EXCEPT !.at = "respawn", !.respawned = TRUE] \in Apps
        BY <1>1 DEF Apps, AppState
      <4> QED
        BY <2>3, <4>1, <1>1 DEF BuildMismatch
    <3>2. pc' \in [Daemon -> {"none", "serving"} \cup Starting \cup Stopping]
      BY <2>3 DEF BuildMismatch, TypeOK, Stopping
    <3>3. LocksAreHeld'
      BY <2>3, <1>3 DEF BuildMismatch, TypeOK, LocksAreHeld, HoldsTheLock, PastLock
    <3> QED
      BY <3>1, <3>2, <3>3
  <2> QED
    BY <2>1, <2>2, <2>3 DEF AppRuns, Dials, WaitTimesOut, ReadsToken, HelloRefused,
       HelloAcked, Reconnects
<1> QED
  BY <1>2, <1>3, <1>4 DEF TypeOK, Apps, files

LEMMA TypesKept == ASSUME TypeOK, LocksAreHeld, Next PROVE TypeOK' /\ LocksAreHeld'
<1>1. CASE \E d \in Daemon : DaemonRuns(d) \/ Terminated(d) \/ Crashes(d)
  BY <1>1, OpensKeepsTypes, FlockKeepsTypes, StartupKeepsTypes, EndKeepsTypes DEF DaemonRuns
<1>2. CASE \E a \in App : AppRuns(a)
  BY <1>2, AppKeepsTypes
<1> QED
  BY <1>1, <1>2 DEF Next

-----------------------------------------------------------------------------
(* The socket and the token *)

\* The end of a process that did not get past the lock, or that has shut down.
LEMMA GoneKeepsFiles ==
  ASSUME TypeOK, FilesFollowTheOwner, NEW d \in Daemon, Gone(d), UNCHANGED files
  PROVE  FilesFollowTheOwner'
BY DEF TypeOK, FilesFollowTheOwner, Gone, files, Answers, Stopping

LEMMA StartupKeepsFiles ==
  ASSUME TypeOK, OwnersAreAlone, FilesFollowTheOwner, NEW d \in Daemon,
         \/ RemovesStaleSocket(d) \/ RemovesStaleToken(d)
         \/ CreatesToken(d) \/ WritesToken(d) \/ Binds(d)
  PROVE  FilesFollowTheOwner'
<1>0. ASSUME Owns(d), NEW e \in Daemon, e # d PROVE ~Owns(e)
  BY <1>0 DEF OwnersAreAlone
<1>1. CASE RemovesStaleSocket(d)
  <2>1. Owns(d)
    BY <1>1 DEF RemovesStaleSocket, Goes, Owns, PastLock
  <2>2. /\ pc' = [pc EXCEPT ![d] = "cleared"]
        /\ sockFile' \in {sockFile, Absent} /\ tokenFile' = tokenFile
    BY <1>1 DEF RemovesStaleSocket, Goes, RemovalFails, files
  <2> QED
    BY <1>0, <2>1, <2>2, StartupAssumption
       DEF TypeOK, FilesFollowTheOwner, Owns, PastLock, Answers, Stopping, Absent
<1>2. CASE RemovesStaleToken(d)
  <2>1. Owns(d)
    BY <1>2 DEF RemovesStaleToken, Goes, Owns, PastLock
  <2>2. /\ pc' = [pc EXCEPT ![d] = "bare"]
        /\ tokenFile' \in {tokenFile, Absent} /\ sockFile' = sockFile
    BY <1>2 DEF RemovesStaleToken, Goes, RemovalFails, files
  <2> QED
    BY <1>0, <2>1, <2>2 DEF TypeOK, FilesFollowTheOwner, Owns, PastLock, Answers, Stopping
<1>3. CASE (CreatesToken(d) \/ Binds(d)) /\ Gone(d) /\ UNCHANGED files
  BY <1>3, GoneKeepsFiles
<1>4. CASE CreatesToken(d) /\ ~(Gone(d) /\ UNCHANGED files)
  <2>1. /\ Owns(d) /\ pc' = [pc EXCEPT ![d] = "tokenless"]
        /\ tokenFile' = Empty /\ sockFile' = sockFile
    BY <1>4 DEF CreatesToken, Goes, Owns, PastLock
  <2> QED
    BY <1>0, <2>1 DEF TypeOK, FilesFollowTheOwner, Owns, PastLock, Answers, Stopping
<1>5. CASE WritesToken(d)
  <2>1. Owns(d) /\ pc[d] = "tokenless" /\ pc' = [pc EXCEPT ![d] = "tokened"]
    BY <1>5 DEF WritesToken, Goes, Owns, PastLock
  <2>2. tokenFile' = d /\ sockFile' = sockFile
    BY <1>5, <2>1 DEF WritesToken, FilesFollowTheOwner
  <2> QED
    BY <1>0, <2>1, <2>2 DEF TypeOK, FilesFollowTheOwner, Owns, PastLock, Answers, Stopping
<1>6. CASE Binds(d) /\ ~(Gone(d) /\ UNCHANGED files)
  <2>1. /\ Owns(d) /\ pc[d] = "tokened" /\ pc' = [pc EXCEPT ![d] = "serving"]
        /\ sockFile' = d /\ tokenFile' = tokenFile
    BY <1>6 DEF Binds, Goes, Owns, PastLock, files
  <2> QED
    BY <1>0, <2>1 DEF TypeOK, FilesFollowTheOwner, Owns, PastLock, Answers, Stopping
<1> QED
  BY <1>1, <1>2, <1>3, <1>4, <1>5, <1>6

LEMMA DaemonKeepsFiles ==
  ASSUME TypeOK, LocksAreHeld, OwnersAreAlone, FilesFollowTheOwner, NEW d \in Daemon,
         DaemonRuns(d) \/ Terminated(d) \/ Crashes(d)
  PROVE  FilesFollowTheOwner'
<1>1. CASE OpensLock(d)
  <2>1. pc' = [pc EXCEPT ![d] = "opened"] /\ UNCHANGED <<sockFile, tokenFile>>
    BY <1>1 DEF OpensLock, Goes
  <2> QED
    BY <2>1 DEF TypeOK, FilesFollowTheOwner, Answers, Stopping
<1>2. CASE Flock(d)
  <2>1. CASE Gone(d)
    BY <1>2, <2>1, GoneKeepsFiles DEF Flock
  <2>2. CASE ~Gone(d)
    <3>1. pc' = [pc EXCEPT ![d] = "locked"] /\ UNCHANGED files
      BY <1>2, <2>2 DEF Flock, Goes
    <3> QED
      BY <3>1 DEF TypeOK, FilesFollowTheOwner, Answers, Stopping, files
  <2> QED
    BY <2>1, <2>2
<1>3. CASE Terminated(d)
  BY <1>3 DEF Terminated, Goes, TypeOK, FilesFollowTheOwner, Answers, Stopping, files
<1>4. CASE RemovesSocket(d)
  <2>1. \A e \in Daemon \ {d} : pc[e] \notin Answers
    BY <1>4 DEF RemovesSocket, Goes, OwnersAreAlone, Owns, PastLock, Answers
  <2>2. /\ pc' = [pc EXCEPT ![d] = "unsocketed"]
        /\ sockFile' = Absent /\ tokenFile' = tokenFile
    BY <1>4 DEF RemovesSocket, Goes
  <2> QED
    BY <2>1, <2>2, StartupAssumption
       DEF TypeOK, FilesFollowTheOwner, Answers, Stopping, Absent
<1>5. CASE RemovesLock(d)
  BY <1>5 DEF RemovesLock, Goes, TypeOK, FilesFollowTheOwner, Answers, Stopping
<1>6. CASE DropsLock(d)
  BY <1>6 DEF DropsLock, Goes, TypeOK, FilesFollowTheOwner, Answers, Stopping, files
<1>7. CASE Exits(d) \/ Crashes(d)
  BY <1>7, GoneKeepsFiles DEF Exits, Crashes
<1> QED
  BY <1>1, <1>2, <1>3, <1>4, <1>5, <1>6, <1>7, StartupKeepsFiles DEF DaemonRuns

\* What an app does to the processes: it starts one, or asks one to shut down.
LEMMA AppTouchesDaemons ==
  ASSUME TypeOK, NEW a \in App, AppRuns(a)
  PROVE  /\ \/ UNCHANGED pc
            \/ \E d \in Daemon : pc[d] = "none" /\ pc' = [pc EXCEPT ![d] = "spawned"]
            \/ \E d \in old : pc[d] = "serving" /\ pc' = [pc EXCEPT ![d] = "stopping"]
         /\ UNCHANGED <<fd, locked, old, files, crashes, shutdowns>>
<1>1. CASE BuildMismatch(a)
  BY <1>1 DEF BuildMismatch, TypeOK, bounds
<1>2. CASE Spawns(a) \/ Respawns(a)
  BY <1>2 DEF Spawns, Respawns, Goes, bounds
<1>3. CASE \/ Dials(a) \/ WaitTimesOut(a) \/ ReadsToken(a) \/ HelloRefused(a)
           \/ HelloAcked(a) \/ Reconnects(a)
  BY <1>3 DEF Dials, WaitTimesOut, ReadsToken, HelloRefused, HelloAcked, Reconnects,
              daemons, bounds
<1> QED
  BY <1>1, <1>2, <1>3 DEF AppRuns

LEMMA FilesKept ==
  ASSUME TypeOK, LocksAreHeld, OwnersAreAlone, FilesFollowTheOwner, Next
  PROVE  FilesFollowTheOwner'
<1>1. CASE \E d \in Daemon : DaemonRuns(d) \/ Terminated(d) \/ Crashes(d)
  BY <1>1, DaemonKeepsFiles
<1>2. ASSUME NEW a \in App, AppRuns(a) PROVE FilesFollowTheOwner'
  BY <1>2, AppTouchesDaemons
     DEF TypeOK, FilesFollowTheOwner, Answers, Stopping, Starting, files
<1> QED
  BY <1>1, <1>2 DEF Next

-----------------------------------------------------------------------------
(* Nobody shuts down *)

LEMMA OneLockFileIsEnough ==
  ASSUME TypeOK, LocksAreHeld, OneLockFile
  PROVE  OwnersAreAlone
<1> SUFFICES ASSUME NEW d \in Daemon, NEW e \in Daemon, Owns(d), Owns(e) PROVE d = e
  BY DEF OwnersAreAlone
<1>1. d \in locked /\ e \in locked
  BY DEF LocksAreHeld, HoldsTheLock, Owns
<1>2. fd[d] = fd[e]
  BY DEF OneLockFile, Owns, PastLock
<1> QED
  BY <1>1, <1>2 DEF TypeOK

LEMMA OneLockFileKept ==
  ASSUME TypeOK, LocksAreHeld, OneLockFile, Next
  PROVE  OneLockFile'
<1>0. \A d \in Daemon : pc[d] \notin Stopping
  BY DEF OneLockFile
<1>1. ASSUME NEW d \in Daemon, Gone(d), UNCHANGED <<files, shutdowns>> PROVE OneLockFile'
  BY <1>1, StartupAssumption DEF Gone, OneLockFile, NobodyShutsDown, TypeOK, files, Stopping
<1>2. ASSUME NEW d \in Daemon, NEW from, NEW to, Goes(d, from, to),
             from \notin {"none", "spawned"}, to \notin Stopping,
             UNCHANGED <<fd, old, lockFile, shutdowns>>
      PROVE  OneLockFile'
  BY <1>2 DEF Goes, OneLockFile, NobodyShutsDown, TypeOK
<1>3. ASSUME NEW d \in Daemon, DaemonRuns(d) \/ Terminated(d) \/ Crashes(d)
      PROVE  OneLockFile'
  <2>1. CASE OpensLock(d)
    <3>1. /\ lockFile' \in Inode /\ fd' = [fd EXCEPT ![d] = lockFile']
          /\ lockFile # NoInode => lockFile' = lockFile
      BY <2>1, OpensKeepsTypes
    <3>2. pc' = [pc EXCEPT ![d] = "opened"] /\ UNCHANGED <<old, shutdowns>>
      BY <2>1 DEF OpensLock, Goes, bounds
    <3>3. NoInode \notin Inode
      BY StartupAssumption, FS_CardinalityType DEF Inode, NoInode
    <3> QED
      BY <3>1, <3>2, <3>3 DEF OneLockFile, NobodyShutsDown, TypeOK, Stopping
  <2>2. CASE Flock(d)
    BY <2>2, <1>1, <1>2 DEF Flock, files, bounds, Stopping
  <2>3. CASE RemovesStaleSocket(d)
    <3>1. Goes(d, "locked", "cleared") /\ UNCHANGED <<fd, old, lockFile, shutdowns>>
      BY <2>3 DEF RemovesStaleSocket, RemovalFails, files, bounds
    <3> QED
      BY <3>1, <1>2 DEF Stopping
  <2>4. CASE RemovesStaleToken(d)
    <3>1. Goes(d, "cleared", "bare") /\ UNCHANGED <<fd, old, lockFile, shutdowns>>
      BY <2>4 DEF RemovesStaleToken, RemovalFails, files, bounds
    <3> QED
      BY <3>1, <1>2 DEF Stopping
  <2>5. CASE CreatesToken(d)
    BY <2>5, <1>1, <1>2 DEF CreatesToken, files, bounds, Stopping
  <2>6. CASE WritesToken(d)
    BY <2>6, <1>2 DEF WritesToken, bounds, Stopping
  <2>7. CASE Binds(d)
    BY <2>7, <1>1, <1>2 DEF Binds, files, bounds, Stopping
  <2>8. ~Terminated(d)
    BY StartupAssumption DEF OneLockFile, NobodyShutsDown, Terminated
  <2>9. ~(RemovesSocket(d) \/ RemovesLock(d) \/ DropsLock(d) \/ Exits(d))
    BY <1>0 DEF RemovesSocket, RemovesLock, DropsLock, Exits, Goes, Stopping
  <2>10. CASE Crashes(d)
    BY <2>10, <1>1 DEF Crashes
  <2> QED
    BY <1>3, <2>1, <2>2, <2>3, <2>4, <2>5, <2>6, <2>7, <2>8, <2>9, <2>10 DEF DaemonRuns
<1>4. ASSUME NEW a \in App, AppRuns(a) PROVE OneLockFile'
  <2>1. old = {}
    BY DEF OneLockFile, NobodyShutsDown
  <2>2. /\ \/ UNCHANGED pc
           \/ \E d \in Daemon : pc[d] = "none" /\ pc' = [pc EXCEPT ![d] = "spawned"]
        /\ UNCHANGED <<fd, old, lockFile, shutdowns>>
    BY <1>4, <2>1, AppTouchesDaemons DEF files
  <2> QED
    BY <2>2 DEF OneLockFile, NobodyShutsDown, TypeOK, Stopping
<1> QED
  BY <1>3, <1>4 DEF Next

-----------------------------------------------------------------------------
(* One app in time *)

LEMMA WorkersAloneOwnAlone == ASSUME WorkersAreAlone PROVE OwnersAreAlone
BY DEF WorkersAreAlone, OwnersAreAlone, Works, Owns, Working, PastLock, Starting

\* A daemon's own step only ends its work, and changes the token only at its start.
LEMMA DaemonStep ==
  ASSUME TypeOK, NEW d \in Daemon, DaemonRuns(d) \/ Terminated(d) \/ Crashes(d)
  PROVE  /\ \A e \in Daemon \ {d} : pc'[e] = pc[e]
         /\ pc'[d] \in Working => pc[d] \in Working
         /\ pc[d] \in {"serving"} \cup Stopping => pc'[d] \in {"none"} \cup Stopping
         /\ pc[d] \in {"stopping", "none"} => pc'[d] \notin Working \ {"stopping"}
         /\ pc[d] \in Stopping \ {"stopping"} => pc'[d] \notin Working
         /\ pc'[d] = "none" => Gone(d)
         /\ pc[d] \in Starting \/ UNCHANGED tokenFile
         /\ UNCHANGED <<app, old>> \/ Gone(d)
         /\ UNCHANGED slow
<1>0. ASSUME Gone(d) PROVE pc' = [pc EXCEPT ![d] = "none"]
  BY <1>0 DEF Gone
<1>1. CASE OpensLock(d) \/ Flock(d)
  BY <1>0, <1>1 DEF OpensLock, Flock, Goes, TypeOK, Working, Starting, Stopping, files, bounds
<1>2. CASE RemovesStaleSocket(d) \/ RemovesStaleToken(d)
  BY <1>2 DEF RemovesStaleSocket, RemovesStaleToken, RemovalFails, Goes, TypeOK,
              Working, Starting, Stopping, files, bounds
<1>3. CASE CreatesToken(d) \/ WritesToken(d) \/ Binds(d)
  BY <1>0, <1>3 DEF CreatesToken, WritesToken, Binds, Goes, TypeOK,
              Working, Starting, Stopping, files, bounds
<1>4. CASE Terminated(d) \/ RemovesSocket(d) \/ RemovesLock(d) \/ DropsLock(d)
  BY <1>4 DEF Terminated, RemovesSocket, RemovesLock, DropsLock, Goes, TypeOK,
              Working, Starting, Stopping, files, bounds
<1>5. CASE Exits(d) \/ Crashes(d)
  BY <1>0, <1>5 DEF Exits, Crashes, TypeOK, Working, Starting, Stopping, files, bounds
<1> QED
  BY <1>1, <1>2, <1>3, <1>4, <1>5 DEF DaemonRuns

LEMMA DaemonKeepsOneApp ==
  ASSUME TypeOK, OneAppWaits, NEW d \in Daemon,
         DaemonRuns(d) \/ Terminated(d) \/ Crashes(d)
  PROVE  OneAppWaits'
<1>1. /\ \A e \in Daemon \ {d} : pc'[e] = pc[e]
      /\ pc'[d] \in Working => pc[d] \in Working
      /\ pc[d] \in {"serving"} \cup Stopping => pc'[d] \in {"none"} \cup Stopping
      /\ pc[d] \in {"stopping", "none"} => pc'[d] \notin Working \ {"stopping"}
      /\ pc[d] \in Stopping \ {"stopping"} => pc'[d] \notin Working
      /\ pc'[d] = "none" => Gone(d)
      /\ pc[d] \in Starting \/ UNCHANGED tokenFile
      /\ UNCHANGED <<app, old>> \/ Gone(d)
      /\ UNCHANGED slow
  BY DaemonStep
<1>2. /\ old' \subseteq old /\ (Gone(d) => d \notin old')
      /\ \A b \in App : /\ app'[b].at = app[b].at /\ app'[b].token = app[b].token
                        /\ app'[b].respawned = app[b].respawned
                        /\ \/ app'[b].conn = app[b].conn
                           \/ Gone(d) /\ app[b].conn = d /\ app'[b].conn = Absent
  BY <1>1 DEF Gone, TypeOK
<1>3. slow' = MaxSlow /\ \A e \in old' : pc'[e] \in {"serving"} \cup Stopping
  BY <1>1, <1>2 DEF OneAppWaits, TypeOK
<1>4. WorkersAreAlone'
  BY <1>1 DEF OneAppWaits, WorkersAreAlone, Works
<1>5. PICK a \in App : OnlyApp(a)
  BY DEF OneAppWaits
<1>6. \A e \in Daemon : /\ Works(e)' => Works(e)
                        /\ Works(e)' /\ pc[e] \in Answers => pc'[e] \in Answers
                        /\ Works(e)' /\ pc[e] = "stopping" => pc'[e] = "stopping"
                        /\ Works(e)' => e # d \/ ~Gone(d)
  <2>1. Gone(d) => pc'[d] = "none"
    BY DEF Gone, TypeOK
  <2>2. ASSUME NEW e \in Daemon \ {d} PROVE pc'[e] = pc[e]
    BY <1>1
  <2>3. "none" \notin Working /\ ({"none"} \cup Stopping) \cap Working = {"stopping"}
    BY DEF Working, Starting, Stopping
  <2>4. pc'[d] \in Working /\ pc[d] \in Answers => pc'[d] = "stopping"
    BY <1>1, <2>3 DEF Answers, Stopping
  <2>5. pc'[d] \in Working /\ pc[d] = "stopping" => pc'[d] = "stopping"
    BY <1>1
  <2> QED
    BY <1>1, <2>1, <2>2, <2>3, <2>4, <2>5 DEF Works, Answers
<1>7. SeesTheWorker(a)'
  <2>1. app[a].at = "start" => \A e \in Daemon : Works(e)' => pc'[e] \in Answers
    BY <1>5, <1>6 DEF OnlyApp, SeesTheWorker
  <2>2. app[a].at \in {"dialled", "hello", "connected"} =>
          \A e \in Daemon : Works(e)' => app'[a].conn = e /\ pc'[e] \in Answers
    BY <1>2, <1>5, <1>6 DEF OnlyApp, SeesTheWorker
  <2>3. app[a].at = "respawn" => \A e \in Daemon : Works(e)' => pc'[e] = "stopping"
    BY <1>5, <1>6 DEF OnlyApp, SeesTheWorker
  <2>4. app[a].at = "backoff" => \A e \in Daemon : ~Works(e)'
    BY <1>5, <1>6 DEF OnlyApp, SeesTheWorker
  <2> QED
    BY <1>2, <2>1, <2>2, <2>3, <2>4 DEF SeesTheWorker
<1>8. HasTheToken(a)'
  <2>1. app[a].at = "dialled" => UNCHANGED tokenFile
    BY <1>1, <1>5 DEF OnlyApp, SeesTheWorker, Works, Working, Answers, Starting
  <2> QED
    BY <1>2, <1>5, <2>1 DEF OnlyApp, HasTheToken
<1>9. ReplacesOnce(a)'
  <2>1. Absent \notin old'
    BY <1>2, StartupAssumption DEF TypeOK, Absent
  <2>2. \A e \in old' : pc[e] \notin Answers => pc'[e] \notin Answers
    BY <1>1, <1>2 DEF OneAppWaits, TypeOK, Answers, Stopping, Working
  <2> QED
    BY <1>2, <1>5, <2>1, <2>2 DEF OnlyApp, ReplacesOnce
<1>10. OnlyApp(a)'
  BY <1>2, <1>5, <1>7, <1>8, <1>9 DEF OnlyApp
<1> QED
  BY <1>3, <1>4, <1>10 DEF OneAppWaits

\* An app whose call has failed has nothing to do with any daemon.
LEMMA FailedForgets ==
  ASSUME NEW r \in Apps
  PROVE  /\ Failed(r).at \in {"backoff", "gaveup"} /\ Failed(r).conn = Absent
         /\ ~Failed(r).respawned
BY DEF Failed, NewApp, Apps

LEMMA FailureKeepsOneApp ==
  ASSUME TypeOK, OneAppWaits, NEW a \in App, OnlyApp(a), Fails(a), UNCHANGED daemons,
         UNCHANGED slow, \A d \in Daemon : ~Works(d)
  PROVE  OneAppWaits'
<1>1. /\ app'[a] = Failed(app[a]) /\ \A b \in App \ {a} : app'[b] = app[b]
      /\ app'[a].at \in {"backoff", "gaveup"} /\ ~app'[a].respawned
  BY FailedForgets DEF Fails, TypeOK, Apps
<1>2. SeesTheWorker(a)'
  BY <1>1 DEF SeesTheWorker, Works, daemons
<1>3. OnlyApp(a)'
  BY <1>1, <1>2 DEF OnlyApp, HasTheToken, ReplacesOnce
<1> QED
  BY <1>3 DEF OneAppWaits, WorkersAreAlone, Works, daemons

\* A worker with the socket can be connected to.
LEMMA AnswersAreConnectable ==
  ASSUME TypeOK, FilesFollowTheOwner, NEW d \in Daemon, pc[d] \in Answers
  PROVE  Connectable /\ sockFile = d /\ tokenFile = d /\ d # Absent
BY StartupAssumption DEF FilesFollowTheOwner, Connectable, Answers, Stopping, Absent

LEMMA ConnectableAnswers ==
  ASSUME TypeOK, FilesFollowTheOwner, Connectable
  PROVE  sockFile \in Daemon /\ pc[sockFile] \in Answers
BY DEF TypeOK, FilesFollowTheOwner, Connectable, Answers, Stopping

\* The one app spawns a daemon when no other one works.
LEMMA SpawnKeepsOneApp ==
  ASSUME TypeOK, OneAppWaits, NEW a \in App, OnlyApp(a), NEW d \in Daemon,
         Goes(d, "none", "spawned"), Moves(a, "waiting"), UNCHANGED old, UNCHANGED slow,
         \A e \in Daemon : ~Works(e),
         app[a].respawned => app[a].conn \notin old
  PROVE  OneAppWaits'
<1>1. pc' = [pc EXCEPT ![d] = "spawned"] /\ d \notin old
  BY DEF Goes, OneAppWaits, Stopping
<1>2. WorkersAreAlone' /\ \A e \in old' : pc'[e] \in {"serving"} \cup Stopping
  BY <1>1 DEF OneAppWaits, WorkersAreAlone, Works, TypeOK
<1>3. /\ \A b \in App \ {a} : app'[b] = app[b]
      /\ app'[a].at = "waiting" /\ app'[a].conn = app[a].conn
      /\ app'[a].respawned = app[a].respawned
  BY DEF Moves, TypeOK
<1>4. \A e \in old : pc'[e] = pc[e] /\ pc[e] \notin Answers
  BY <1>1 DEF TypeOK, Works, Working, Answers
<1>5. ReplacesOnce(a)'
  BY <1>3, <1>4 DEF ReplacesOnce
<1>6. OnlyApp(a)'
  BY <1>3, <1>5 DEF OnlyApp, SeesTheWorker, HasTheToken
<1> QED
  BY <1>2, <1>6 DEF OneAppWaits

LEMMA AppKeepsOneApp ==
  ASSUME TypeOK, FilesFollowTheOwner, OneAppWaits, NEW b \in App, AppRuns(b)
  PROVE  OneAppWaits'
<1>1. PICK a \in App : OnlyApp(a)
  BY DEF OneAppWaits
<1>2. b = a
  BY <1>1 DEF OnlyApp, AppRuns, Dials, Spawns, Respawns, WaitTimesOut, ReadsToken,
              HelloRefused, HelloAcked, BuildMismatch, Reconnects
<1>3. app[a] \in Apps /\ app \in [App -> Apps]
  BY DEF TypeOK, Apps
<1>4. WaitEnds => Busy = {} /\ UNCHANGED slow
  BY StartupAssumption DEF WaitEnds, OneAppWaits
<1>5. \A d \in Daemon : pc[d] \in Answers => Connectable /\ sockFile = d /\ tokenFile = d
                                             /\ d # Absent
  BY AnswersAreConnectable
<1>6. Absent \notin Daemon
  BY StartupAssumption DEF Absent
<1>7. CASE Dials(a)
  <2>1. sockFile \in Daemon /\ pc[sockFile] \in Answers
    BY <1>7, ConnectableAnswers DEF Dials
  <2>2. /\ app' = [app EXCEPT ![a].at = "dialled", ![a].conn = sockFile]
        /\ UNCHANGED <<daemons, files, bounds>> /\ app[a].at \in {"start", "waiting"}
    BY <1>7 DEF Dials
  <2>3. /\ app'[a].at = "dialled" /\ app'[a].conn = sockFile
        /\ app'[a].respawned = app[a].respawned
        /\ \A c \in App \ {a} : app'[c] = app[c]
    BY <2>2, <1>3 DEF Apps
  <2>4. \A d \in Daemon : Works(d) => d = sockFile
    BY <2>1 DEF OneAppWaits, WorkersAreAlone, Works, Working, Answers
  <2>5. SeesTheWorker(a)'
    BY <2>1, <2>2, <2>3, <2>4 DEF SeesTheWorker, Works, daemons
  <2>6. HasTheToken(a)'
    BY <2>1, <2>2, <2>3, <1>5 DEF HasTheToken, files
  <2>7. ReplacesOnce(a)'
    BY <2>1, <2>2, <2>3, <1>1 DEF OnlyApp, ReplacesOnce, daemons
  <2>8. OnlyApp(a)'
    BY <2>3, <2>5, <2>6, <2>7, <1>1 DEF OnlyApp
  <2> QED
    BY <2>2, <2>8 DEF OneAppWaits, WorkersAreAlone, Works, daemons, bounds
<1>8. CASE Spawns(a)
  <2>1. \A e \in Daemon : ~Works(e)
    BY <1>1, <1>5, <1>8 DEF Spawns, OnlyApp, SeesTheWorker
  <2>2. PICK d \in Daemon : Goes(d, "none", "spawned")
    BY <1>8 DEF Spawns
  <2>3. Moves(a, "waiting") /\ UNCHANGED <<old, slow>> /\ app[a].at = "start"
    BY <1>8 DEF Spawns, bounds
  <2>4. app[a].respawned => app[a].conn \notin old
    BY <1>1, <2>3 DEF OnlyApp, ReplacesOnce
  <2> QED
    BY <1>1, <2>1, <2>2, <2>3, <2>4, SpawnKeepsOneApp
<1>9. CASE Respawns(a)
  <2>1. Busy = {} /\ UNCHANGED slow
    BY <1>4, <1>9 DEF Respawns
  <2>2. \A e \in Daemon : ~Works(e)
    BY <1>1, <1>9, <2>1 DEF Respawns, OnlyApp, SeesTheWorker, Busy
  <2>3. app[a].conn \notin old
    BY <1>1, <1>6, <1>9 DEF Respawns, OnlyApp, ReplacesOnce, TypeOK
  <2>4. PICK d \in Daemon : Goes(d, "none", "spawned")
    BY <1>9 DEF Respawns
  <2>5. Moves(a, "waiting") /\ UNCHANGED old
    BY <1>9 DEF Respawns
  <2> QED
    BY <1>1, <2>1, <2>2, <2>3, <2>4, <2>5, SpawnKeepsOneApp
<1>10. CASE WaitTimesOut(a)
  <2>1. Busy = {} /\ UNCHANGED slow
    BY <1>4, <1>10 DEF WaitTimesOut
  <2>2. \A e \in Daemon : ~Works(e)
    BY <1>5, <1>10, <2>1 DEF WaitTimesOut, Busy, Works, Working, Answers
  <2> QED
    BY <1>1, <1>10, <2>1, <2>2, FailureKeepsOneApp DEF WaitTimesOut
<1>11. CASE ReadsToken(a)
  <2>1. tokenFile # Absent /\ (app[a].conn # Absent => tokenFile = app[a].conn)
    BY <1>1, <1>11 DEF ReadsToken, OnlyApp, HasTheToken
  <2>2. /\ app' = [app EXCEPT ![a].at = "hello", ![a].token = tokenFile]
        /\ UNCHANGED <<daemons, files, bounds>> /\ app[a].at = "dialled"
    BY <1>11, <2>1 DEF ReadsToken
  <2>3. /\ app'[a].at = "hello" /\ app'[a].conn = app[a].conn /\ app'[a].token = tokenFile
        /\ app'[a].respawned = app[a].respawned
        /\ \A c \in App \ {a} : app'[c] = app[c]
    BY <2>2, <1>3 DEF Apps
  <2>4. SeesTheWorker(a)'
    BY <2>2, <2>3, <1>1 DEF OnlyApp, SeesTheWorker, Works, daemons
  <2>5. HasTheToken(a)'
    BY <2>1, <2>3 DEF HasTheToken
  <2>6. ReplacesOnce(a)'
    BY <2>2, <2>3, <1>1 DEF OnlyApp, ReplacesOnce, daemons
  <2>7. OnlyApp(a)'
    BY <2>3, <2>4, <2>5, <2>6, <1>1 DEF OnlyApp
  <2> QED
    BY <2>2, <2>7 DEF OneAppWaits, WorkersAreAlone, Works, daemons, bounds
<1>12. CASE HelloRefused(a)
  <2>1. app[a].conn = Absent
    BY <1>1, <1>12 DEF HelloRefused, OnlyApp, HasTheToken
  <2>2. \A e \in Daemon : ~Works(e)
    BY <1>1, <1>6, <1>12, <2>1 DEF HelloRefused, OnlyApp, SeesTheWorker
  <2> QED
    BY <1>1, <1>12, <2>2, FailureKeepsOneApp DEF HelloRefused, bounds
<1>13. CASE HelloAcked(a)
  <2>1. /\ app'[a].at = "connected" /\ app'[a].conn = app[a].conn /\ ~app'[a].respawned
        /\ \A c \in App \ {a} : app'[c] = app[c]
        /\ UNCHANGED <<daemons, files, bounds>> /\ app[a].at = "hello"
    BY <1>13, <1>3 DEF HelloAcked, NewApp
  <2>2. SeesTheWorker(a)'
    BY <2>1, <1>1 DEF OnlyApp, SeesTheWorker, Works, daemons
  <2>3. OnlyApp(a)'
    BY <2>1, <2>2, <1>1 DEF OnlyApp, HasTheToken, ReplacesOnce
  <2> QED
    BY <2>1, <2>3 DEF OneAppWaits, WorkersAreAlone, Works, daemons, bounds
<1>14. CASE BuildMismatch(a)
  <2> DEFINE d == app[a].conn
  <2>1. app[a].at = "hello" /\ d \in old /\ UNCHANGED <<fd, locked, old, files, bounds>>
    BY <1>14 DEF BuildMismatch
  <2>2. d \in Daemon /\ pc' = [pc EXCEPT ![d] = IF @ = "serving" THEN "stopping" ELSE @]
    BY <1>14, <2>1 DEF BuildMismatch, TypeOK
  <2>3. ~app[a].respawned
    BY <1>1, <2>1 DEF OnlyApp, ReplacesOnce
  <2>4. app' = [app EXCEPT ![a] = [Failed(app[a]) EXCEPT !.at = "respawn", !.respawned = TRUE]]
    BY <1>14, <2>3 DEF BuildMismatch
  <2>5. /\ app'[a].at = "respawn" /\ app'[a].conn = Absent
        /\ \A c \in App \ {a} : app'[c] = app[c]
    BY <2>4, <1>3, FailedForgets, AFailedApp DEF Apps
  <2>6. \A e \in Daemon : Works(e)' => Works(e)
    BY <2>2 DEF Works, Working, TypeOK
  <2>7. \A e \in Daemon : Works(e)' => e = d /\ pc'[e] = "stopping"
    BY <1>1, <2>1, <2>2, <2>6 DEF OnlyApp, SeesTheWorker, Answers, TypeOK
  <2>8. OnlyApp(a)'
    BY <1>1, <2>5, <2>7 DEF OnlyApp, SeesTheWorker, HasTheToken, ReplacesOnce
  <2>9. \A e \in old' : pc'[e] \in {"serving"} \cup Stopping
    BY <2>1, <2>2 DEF OneAppWaits, Stopping, TypeOK
  <2>10. WorkersAreAlone'
    BY <2>6 DEF OneAppWaits, WorkersAreAlone
  <2> QED
    BY <2>1, <2>8, <2>9, <2>10 DEF OneAppWaits, bounds
<1>15. CASE Reconnects(a)
  <2>0. /\ app' = [app EXCEPT ![a].at = "start"] /\ UNCHANGED <<daemons, files, bounds>>
        /\ \/ app[a].at = "backoff"
           \/ app[a].at = "connected" /\ app[a].conn = Absent
    BY <1>15 DEF Reconnects, Moves
  <2>1. /\ app'[a].at = "start" /\ app'[a].conn = app[a].conn
        /\ app'[a].respawned = app[a].respawned
        /\ \A c \in App \ {a} : app'[c] = app[c]
    BY <2>0, <1>3 DEF Apps
  <2>2. \A e \in Daemon : ~Works(e)
    BY <1>1, <1>6, <2>0 DEF OnlyApp, SeesTheWorker
  <2>3. SeesTheWorker(a)' /\ HasTheToken(a)'
    BY <2>0, <2>1, <2>2 DEF SeesTheWorker, HasTheToken, Works, daemons
  <2>4. OnlyApp(a)'
    BY <2>0, <2>1, <2>3, <1>1 DEF OnlyApp, ReplacesOnce, daemons
  <2> QED
    BY <2>0, <2>4 DEF OneAppWaits, WorkersAreAlone, Works, daemons, bounds
<1> QED
  BY <1>2, <1>7, <1>8, <1>9, <1>10, <1>11, <1>12, <1>13, <1>14, <1>15 DEF AppRuns

-----------------------------------------------------------------------------
LEMMA StartupInvInit == StartupInit => StartupInv
<1> SUFFICES ASSUME StartupInit PROVE StartupInv
  OBVIOUS
<1>1. TypeOK /\ LocksAreHeld
  BY TypesInit DEF StartupInit
<1>2. /\ \A d, e \in old : d = e
      /\ \A d \in Daemon : pc[d] = IF d \in old THEN "serving" ELSE "none"
      /\ sockFile \in (IF old = {} THEN {Absent} ELSE old) /\ tokenFile = sockFile
  BY DEF StartupInit, Init
<1>3. FilesFollowTheOwner
  BY <1>2 DEF FilesFollowTheOwner, Answers, Stopping
<1>4. CASE NobodyShutsDown
  BY <1>1, <1>2, <1>3, <1>4 DEF StartupInv, OneLockFile, NobodyShutsDown, Stopping
<1>5. CASE OneAppInTime
  <2>1. PICK a \in App : Started = {a}
    BY <1>5 DEF OneAppInTime
  <2>2. /\ app[a].at = "start" /\ ~app[a].respawned
        /\ \A b \in App \ {a} : app[b].at = "off"
    BY <2>1 DEF Started, StartupInit, Init, NewApp
  <2>3. \A d \in Daemon : Works(d) => d \in old /\ pc[d] \in Answers
    BY <1>2 DEF Works, Working, Starting, Answers
  <2>4. OnlyApp(a)
    BY <2>2, <2>3 DEF OnlyApp, SeesTheWorker, HasTheToken, ReplacesOnce
  <2>5. WorkersAreAlone /\ \A d \in old : pc[d] \in {"serving"} \cup Stopping
    BY <1>1, <1>2, <2>3 DEF WorkersAreAlone, TypeOK
  <2>6. OneAppWaits
    BY <1>5, <2>4, <2>5 DEF OneAppInTime, OneAppWaits
  <2> QED
    BY <1>1, <1>3, <2>6 DEF StartupInv
<1> QED
  BY <1>4, <1>5 DEF StartupInit

LEMMA StartupOwnersAreAlone == StartupInv => OwnersAreAlone
BY OneLockFileIsEnough, WorkersAloneOwnAlone DEF StartupInv, OneAppWaits

LEMMA StartupInvKept == StartupInv /\ [Next]_vars => StartupInv'
<1> SUFFICES ASSUME StartupInv, [Next]_vars PROVE StartupInv'
  OBVIOUS
<1>1. CASE Next
  <2>1. TypeOK' /\ LocksAreHeld' /\ FilesFollowTheOwner'
    BY <1>1, TypesKept, FilesKept, StartupOwnersAreAlone DEF StartupInv
  <2>2. CASE OneLockFile
    BY <1>1, <2>1, <2>2, OneLockFileKept DEF StartupInv
  <2>3. CASE OneAppWaits
    BY <1>1, <2>1, <2>3, DaemonKeepsOneApp, AppKeepsOneApp DEF StartupInv, Next
  <2> QED
    BY <2>2, <2>3 DEF StartupInv
<1>2. CASE UNCHANGED vars
  <2>1. TypeOK'
    BY <1>2 DEF vars, StartupInv, TypeOK
  <2>2. LocksAreHeld' /\ FilesFollowTheOwner'
    BY <1>2 DEF vars, StartupInv, LocksAreHeld, HoldsTheLock, FilesFollowTheOwner
  <2>3. OneLockFile => OneLockFile'
    BY <1>2 DEF vars, OneLockFile, NobodyShutsDown
  <2>4. OneAppWaits => OneAppWaits'
    BY <1>2 DEF vars, OneAppWaits, WorkersAreAlone, Works, OnlyApp, SeesTheWorker,
                HasTheToken, ReplacesOnce
  <2> QED
    BY <2>1, <2>2, <2>3, <2>4 DEF StartupInv
<1> QED
  BY <1>1, <1>2

\* ServingIsReachable: whoever serves has its own socket and its own token at the paths,
\* with any number of apps that start, lose and restart daemons at once and any crashes
\* as long as nobody is shut down; and with one app that waits as long as it takes,
\* whoever is shut down or replaced (main.rs, lock.rs, daemon_client.rs).
THEOREM ServingDaemonsAreReachable == StartupSpec => []ServingIsReachable
<1>1. StartupInv => ServingIsReachable
  BY DEF StartupInv, FilesFollowTheOwner, Answers, ServingIsReachable
<1> QED
  BY <1>1, StartupInvInit, StartupInvKept, PTL DEF StartupSpec

\* StartsAlone, in the same two situations: nobody who starts is past the flock of lock.rs
\* while another daemon serves.
THEOREM DaemonsStartAlone == StartupSpec => []StartsAlone
<1>1. StartupInv => StartsAlone
  BY StartupOwnersAreAlone
     DEF OwnersAreAlone, Owns, PastLock, Starting, StartsAlone
<1> QED
  BY <1>1, StartupInvInit, StartupInvKept, PTL DEF StartupSpec
=============================================================================
