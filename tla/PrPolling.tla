----------------------------- MODULE PrPolling -----------------------------
(* Pull request status, from the daemon's poller (pr_poller.rs) over the      *)
(* broadcast to the app's cards (app_view.rs). The poller is one task: it     *)
(* handles the commands of the clients, and at a tick polls every workspace   *)
(* that is due, one after the other. All workspaces belong to one project     *)
(* whose settings turn the feature on and off.                                *)
EXTENDS Naturals, Sequences, FiniteSets

CONSTANTS
    Workspaces,
    MaxCmds,     \* capacity of the command channel: try_send drops beyond it
    MaxEvents,   \* events on the way to the app (bound of the model)
    MaxSteps     \* actions of the user (bound of the model)

None == "none"
Prs == {"pr"}
Failures == {"Network"}
(* What a poll finds: git does not answer, the default branch is checked out, *)
(* the provider's answer, or its failure.                                     *)
Outcomes == {"gitFails", "default", None} \cup Prs \cup Failures

VARIABLES
    cmds,      \* the poller's command channel
    entries,   \* state: workspace -> WorkspaceState, or "absent"
    active,    \* the focused workspace
    due,       \* due_ids that this tick has still to poll
    events,    \* broadcast, socket and the app's event channel
    cards,     \* pr_status_by_workspace and pr_unavailable_by_workspace
    enabled,   \* the project's pr.enabled
    lastPoll,  \* what the last poll of a workspace found (history)
    steps      \* what the user did so far

prVars == <<cmds, entries, active, due, events, cards, enabled, lastPoll, steps>>

Absent == [there |-> FALSE, lastPr |-> None, polled |-> "never", backoff |-> FALSE,
           kind |-> None, provider |-> FALSE]
(* WorkspaceState::new, with the provider that origin's host has or not.      *)
NewEntry(provider) == [Absent EXCEPT !.there = TRUE, !.provider = provider]

Init ==
    /\ cmds = <<>> /\ due = {} /\ events = <<>> /\ active = None
    /\ entries = [w \in Workspaces |-> Absent]
    /\ cards = [w \in Workspaces |-> None]
    /\ enabled = FALSE
    /\ lastPoll = [w \in Workspaces |-> None]
    /\ steps = 0

------------------------------------------------------------------------------
(* PollerHandle: a command that finds the channel full is dropped.            *)
Sent(msgs) == LET all == cmds \o msgs IN
              SubSeq(all, 1, IF Len(all) > MaxCmds THEN MaxCmds ELSE Len(all))

Register(w) == [cmd |-> "Register", w |-> w]
Unregister(w) == [cmd |-> "Unregister", w |-> w]
AllWorkspaces == CHOOSE s \in [1..Cardinality(Workspaces) -> Workspaces] :
                     \A i, j \in DOMAIN s : i # j => s[i] # s[j]

UserSteps == steps < MaxSteps /\ steps' = steps + 1

(* register_all_workspaces_with_daemon and clear_disabled_project_pr_state,   *)
(* when the settings change (the second) or change nothing of interest.       *)
ClearsDisabled(on) == [w \in Workspaces |-> IF on THEN cards[w] ELSE None]
OnSettingsChanged(on) ==
    /\ UserSteps
    /\ enabled' = on
    /\ cmds' = Sent([i \in DOMAIN AllWorkspaces |->
                       IF on THEN Register(AllWorkspaces[i]) ELSE Unregister(AllWorkspaces[i])])
    /\ cards' = ClearsDisabled(on)
    /\ UNCHANGED <<entries, active, due, events, lastPoll>>

(* send_active_workspace_focus, and refresh_pr of the workspace shown.        *)
Focus(w) ==
    /\ UserSteps
    /\ \E cmd \in {"Focus", "Refresh"} : cmds' = Sent(<<[cmd |-> cmd, w |-> w]>>)
    /\ UNCHANGED <<entries, active, due, events, cards, enabled, lastPoll>>

------------------------------------------------------------------------------
(* handle_cmd; the loop prefers a command to a tick, and polls in between.    *)
Wakes(entry) == IF entry.there THEN [entry EXCEPT !.polled = "never", !.backoff = FALSE] ELSE entry

HandleCmd ==
    /\ due = {} /\ cmds # <<>>
    /\ LET cmd == Head(cmds).cmd
           w == Head(cmds).w
       IN \/ /\ cmd = "Register"
             /\ \E provider \in BOOLEAN : entries' = [entries EXCEPT ![w] = NewEntry(provider)]
             /\ lastPoll' = [lastPoll EXCEPT ![w] = None]
             /\ UNCHANGED active
          \/ /\ cmd = "Unregister"
             /\ entries' = [entries EXCEPT ![w] = Absent]
             /\ active' = IF active = w THEN None ELSE active
             /\ UNCHANGED lastPoll
          \/ /\ cmd = "Focus"
             /\ active' = w
             /\ entries' = [entries EXCEPT ![w] = Wakes(@)]
             /\ UNCHANGED lastPoll
          \/ /\ cmd = "Refresh"
             /\ entries' = [entries EXCEPT ![w] = Wakes(@)]
             /\ UNCHANGED <<active, lastPoll>>
    /\ cmds' = Tail(cmds)
    /\ UNCHANGED <<due, events, cards, enabled, steps>>

(* A poll's age passes the interval of an active (10 s), then of an idle      *)
(* workspace (120 s); a backoff (300 s or an hour) ends.                      *)
Age(w) ==
    /\ entries[w].there
    /\ \/ /\ entries[w].polled \in {"now", "10s"}
          /\ entries' = [entries EXCEPT ![w].polled = IF @ = "now" THEN "10s" ELSE "120s"]
       \/ /\ entries[w].backoff /\ entries[w].polled = "120s"
          /\ entries' = [entries EXCEPT ![w].backoff = FALSE]
    /\ UNCHANGED <<cmds, active, due, events, cards, enabled, lastPoll, steps>>

(* poll_due, its first half: who is due at this tick.                         *)
IsDueOnceOrActive(w) ==  \* (a slip: an idle workspace is polled once)
    /\ entries[w].there /\ ~entries[w].backoff
    /\ entries[w].polled = "never" \/ (w = active /\ entries[w].polled \in {"10s", "120s"})
IsDue(w) ==
    /\ entries[w].there /\ ~entries[w].backoff
    /\ entries[w].polled \in {"never", "120s"} \cup (IF w = active THEN {"10s"} ELSE {})

Tick ==
    /\ cmds = <<>> /\ due = {}
    /\ due' = {w \in Workspaces : IsDue(w)}
    /\ due' # {}
    /\ UNCHANGED <<cmds, entries, active, events, cards, enabled, lastPoll, steps>>

(* What a poll leaves of the entry, and the event it broadcasts, if any.      *)
NoEvent == "no event"
Told(entry, event) == [entry |-> [entry EXCEPT !.polled = "now"], event |-> event]

PollUnsupported(entry) ==
    Told([entry EXCEPT !.backoff = TRUE, !.kind = "Unsupported"],
         IF entry.kind = "Unsupported" THEN NoEvent ELSE "Unsupported")

PollDefaultBranch(entry) ==
    Told([entry EXCEPT !.backoff = FALSE, !.kind = None, !.lastPr = None],
         IF entry.lastPr = None THEN NoEvent ELSE None)

PollOk(entry, pr) ==
    Told([entry EXCEPT !.backoff = FALSE, !.kind = None, !.lastPr = pr],
         IF entry.lastPr = pr THEN NoEvent ELSE pr)

(* An error is told when its class changes, so that a condition that lasts    *)
(* shows one toast and not one every five minutes.                            *)
PollErr(entry, kind) ==
    Told([entry EXCEPT !.backoff = TRUE, !.kind = kind],
         IF entry.kind = kind THEN NoEvent ELSE kind)

PollResult(entry, outcome) ==
    CASE ~entry.provider       -> PollUnsupported(entry)
      [] outcome = "gitFails"  -> Told(entry, NoEvent)
      [] outcome = "default"   -> PollDefaultBranch(entry)
      [] outcome \in Failures  -> PollErr(entry, outcome)
      [] OTHER                 -> PollOk(entry, outcome)

(* What a card should show after a poll; git's failure tells nothing.         *)
Shows(entry, outcome, before) ==
    CASE ~entry.provider      -> "Unsupported"
      [] outcome = "gitFails" -> before
      [] outcome = "default"  -> None
      [] OTHER                -> outcome

PollOne(w, outcome) ==
    /\ w \in due
    /\ due' = due \ {w}
    /\ LET result == PollResult(entries[w], outcome) IN
       /\ entries' = [entries EXCEPT ![w] = result.entry]
       /\ \/ result.event = NoEvent /\ UNCHANGED events
          \/ /\ result.event # NoEvent /\ Len(events) < MaxEvents
             /\ events' = Append(events, [w |-> w, shows |-> result.event])
    /\ lastPoll' = [lastPoll EXCEPT ![w] = Shows(entries[w], outcome, @)]
    /\ UNCHANGED <<cmds, active, cards, enabled, steps>>

------------------------------------------------------------------------------
(* drain_pr_events and apply_pr_event: the newest event takes the card.       *)
ApplyPrEvent ==
    /\ events # <<>>
    /\ cards' = [cards EXCEPT ![Head(events).w] = Head(events).shows]
    /\ events' = Tail(events)
    /\ UNCHANGED <<cmds, entries, active, due, enabled, lastPoll, steps>>

Next ==
    \/ \E on \in BOOLEAN : OnSettingsChanged(on)
    \/ \E w \in Workspaces : Focus(w)
    \/ HandleCmd
    \/ \E w \in Workspaces : Age(w)
    \/ Tick
    \/ \E w \in Workspaces, outcome \in Outcomes : PollOne(w, outcome)
    \/ ApplyPrEvent

(* The poller is one task of the runtime and its timers run; the app drains   *)
(* its queue every 50 ms.                                                     *)
Fairness ==
    /\ WF_prVars(HandleCmd) /\ WF_prVars(Tick) /\ WF_prVars(ApplyPrEvent)
    /\ \A w \in Workspaces : WF_prVars(Age(w))
    /\ \A w \in Workspaces : WF_prVars(\E outcome \in Outcomes : PollOne(w, outcome))

Spec == Init /\ [][Next]_prVars /\ Fairness

------------------------------------------------------------------------------
(* No workspace starves, behind the active one, behind an error's backoff or  *)
(* behind an unsupported host: one that stays registered is polled again.     *)
RegisteredIsPolled ==
    \A w \in Workspaces :
        entries[w].there ~> (~entries[w].there \/ entries[w].polled = "now")

(* The badge follows the poller ("Reset error tracking on success"): once no  *)
(* event and no command is on its way, the pull request that the last poll    *)
(* found is the one that is shown.                                            *)
CardFollowsPoll ==
    cmds = <<>> /\ events = <<>> /\ enabled =>
        \A w \in Workspaces : lastPoll[w] \in Prs => cards[w] = lastPoll[w]

==============================================================================
