----------------------------- MODULE InputOrder -----------------------------
(* What the app's side of a connection promises about the commands it sends   *)
(* for its sessions: each session's commands arrive in the order they were    *)
(* given and once each, but that a resize may be left out when a later resize *)
(* of the same session was already given. Nothing is said of commands of      *)
(* different sessions among themselves.                                       *)
EXTENDS Naturals, Sequences

CONSTANTS
    Sessions,
    Commands    \* records with the fields session, op and id

VARIABLES
    given,      \* session -> its commands that are not yet delivered
    delivered   \* session -> its commands that the daemon has seen

orderVars == <<given, delivered>>

Init ==
    /\ given = [s \in Sessions |-> <<>>]
    /\ delivered = [s \in Sessions |-> <<>>]

Give(c) ==
    /\ given' = [given EXCEPT ![c.session] = Append(@, c)]
    /\ UNCHANGED delivered

Superseded(q, i) == q[i].op = "Resize" /\ \E j \in (i + 1)..Len(q) : q[j].op = "Resize"

(* The first n commands of a session are dealt with: those at the places "at" *)
(* arrive, the others are left out.                                           *)
Deliver(s) ==
    \E n \in 1..Len(given[s]) : \E k \in 0..n : \E at \in [1..k -> 1..n] :
        /\ \A i, j \in 1..k : i < j => at[i] < at[j]
        /\ \A i \in 1..n : Superseded(given[s], i) \/ \E j \in 1..k : at[j] = i
        /\ delivered' = [delivered EXCEPT ![s] = @ \o [j \in 1..k |-> given[s][at[j]]]]
        /\ given' = [given EXCEPT ![s] = SubSeq(@, n + 1, Len(@))]

Next ==
    \/ \E c \in Commands : Give(c)
    \/ \E s \in Sessions : Deliver(s)

Spec == Init /\ [][Next]_orderVars
==============================================================================
