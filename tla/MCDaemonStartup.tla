-------------------------- MODULE MCDaemonStartup --------------------------
(***************************************************************************)
(* The two situations in which the startup of DaemonStartup is sound:      *)
(* several apps that start, lose and restart their daemon at the same time *)
(* while no daemon is shut down, slow ones included, and a single app      *)
(* whose daemons are shut down or replaced while it waits for them as long *)
(* as it takes.  startup_two_apps.cfg checks what happens beyond.          *)
(***************************************************************************)
EXTENDS DaemonStartup

Started == {a \in App : app[a].at = "start"}

NobodyShutsDown == old = {} /\ shutdowns = MaxShutdown
OneAppInTime    == (\E a \in App : Started = {a}) /\ slow = MaxSlow

StartupInit == Init /\ (NobodyShutsDown \/ OneAppInTime)
StartupSpec == StartupInit /\ [][Next]_vars /\ Fairness
=============================================================================
