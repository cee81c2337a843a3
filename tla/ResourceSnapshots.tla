-------------------------- MODULE ResourceSnapshots --------------------------
(* What the sessions use: the daemon collects it when asked and keeps the      *)
(* answer for a while (resource_monitor.rs); the client's indicator            *)
(* (resource_indicator.rs) asks on one channel that carries every answer, waits *)
(* for at most two seconds, and keeps the last answers for its graphs.          *)
EXTENDS Naturals, Sequences

CONSTANTS
    Sessions,
    MaxHistory,   \* MAX_HISTORY
    MaxAsked,     \* requests (bound of the model)
    Nothing

ASSUME MonitorAssumption == MaxHistory \in Nat \ {0} /\ MaxAsked \in Nat

VARIABLES
    alive,        \* the sessions that are alive
    cache,        \* cached_snapshot: the sessions it lists, or Nothing
    fresh,        \* the cache is younger than its time to live
    asked,        \* requests that were sent
    pending,      \* requests that the daemon has not read
    answers,      \* the resource channel
    waiting,      \* the poll task waits for an answer
    history       \* the answers the indicator holds, the last is shown

resourceVars == <<alive, cache, fresh, asked, pending, answers, waiting, history>>

MonitorInit ==
    /\ alive = {} /\ cache = Nothing /\ fresh = FALSE
    /\ asked = 0 /\ pending = <<>> /\ answers = <<>> /\ waiting = FALSE /\ history = <<>>

(* spawn_inner forgets the cache; a kill and an exit leave it.                  *)
LeftByASpawn == cache  \* (a slip: an answer without the new session stays)
AfterASpawn == Nothing
SpawnInner(s) ==
    /\ s \notin alive /\ alive' = alive \cup {s}
    /\ cache' = AfterASpawn
    /\ UNCHANGED <<fresh, asked, pending, answers, waiting, history>>

Ends(s) ==
    /\ s \in alive /\ alive' = alive \ {s}
    /\ UNCHANGED <<cache, fresh, asked, pending, answers, waiting, history>>

CacheAges ==
    /\ fresh /\ fresh' = FALSE
    /\ UNCHANGED <<alive, cache, asked, pending, answers, waiting, history>>

Snapshot == IF cache # Nothing /\ fresh THEN cache ELSE alive

GetResourceSnapshot ==
    /\ pending # <<>>
    /\ cache' = Snapshot
    /\ fresh' = TRUE
    /\ answers' = Append(answers, [no |-> Head(pending), lists |-> Snapshot])
    /\ pending' = Tail(pending)
    /\ UNCHANGED <<alive, asked, waiting, history>>

(* The poll of the indicator.                                                   *)
RequestSnapshot ==
    /\ ~waiting /\ asked < MaxAsked
    /\ asked' = asked + 1 /\ pending' = Append(pending, asked + 1) /\ waiting' = TRUE
    /\ UNCHANGED <<alive, cache, fresh, answers, history>>

Kept(h) == IF Len(h) >= MaxHistory THEN Tail(h) ELSE h
Receives ==
    /\ waiting /\ answers # <<>>
    /\ history' = Append(Kept(history), Head(answers))
    /\ answers' = Tail(answers) /\ waiting' = FALSE
    /\ UNCHANGED <<alive, cache, fresh, asked, pending>>

TimesOut ==
    /\ waiting /\ answers = <<>> /\ waiting' = FALSE
    /\ UNCHANGED <<alive, cache, fresh, asked, pending, answers, history>>

MonitorNext ==
    \/ \E s \in Sessions : SpawnInner(s) \/ Ends(s)
    \/ CacheAges \/ GetResourceSnapshot
    \/ RequestSnapshot \/ Receives \/ TimesOut

MonitorSpec == MonitorInit /\ [][MonitorNext]_resourceVars

------------------------------------------------------------------------------
(* An answer lists every session that is alive when the daemon gives it: a      *)
(* session that has just started is never missing because an earlier answer was *)
(* kept.                                                                        *)
ListsTheLiving ==
    [][GetResourceSnapshot => alive \subseteq answers'[Len(answers')].lists]_resourceVars

(* resource_monitor.rs:46, "Invalidate the cache (call on session               *)
(* create/kill)": an answer lists no session that has ended.                    *)
ListsOnlyTheLiving ==
    [][GetResourceSnapshot => answers'[Len(answers')].lists \subseteq alive]_resourceVars

(* daemon_client.rs:584, "Request a resource usage snapshot from the daemon":   *)
(* what a request returns is the answer to it, not to one that timed out.       *)
AnswersTheRequest == [][Receives => Head(answers).no = asked]_resourceVars
==============================================================================
