--------------------------- MODULE ShellReadiness ---------------------------
(* The readiness tracker of one session (shell_readiness.rs) and the two      *)
(* paths of the session that go through it: the shell's output, scanned for   *)
(* the marker until the shell is ready, and the user's input, from which      *)
(* stale answers of the terminal are dropped until then.                      *)
(*                                                                            *)
(* A byte is one of Bytes. "esc" "tag" "bel" stand for the marker             *)
(* ESC ]777;seoul-shell-ready BEL, "esc" "osc" for the start of one of the    *)
(* shell integration sequences (OSC 7, 133, 1337), "x" for any other byte.    *)
EXTENDS Naturals, Sequences

CONSTANTS
    MaxWritten,  \* bytes the shell writes (bound of the model)
    MaxRead,     \* bytes of one read of the PTY
    MaxInput     \* messages the user's terminal sends (bound of the model)

ASSUME ReadinessAssumption == {MaxWritten, MaxRead, MaxInput} \subseteq Nat

Bytes == {"esc", "tag", "bel", "osc", "x"}
SHELL_READY_MARKER == <<"esc", "tag", "bel">>
Chunks == UNION {[1..n -> Bytes] : n \in 1..MaxRead}

VARIABLES
    readyState,  \* "none" before the session is spawned, then ReadyState
    held,        \* held_bytes; marker_match_pos is its length
    filter,      \* filter_stale_responses
    written,     \* what the shell has written so far (history)
    forwarded,   \* what went on to the scrollback and the clients
    typed,       \* messages of the user's terminal (history)
    shellInput   \* what went on to the PTY writer

readinessVars == <<readyState, held, filter, written, forwarded, typed, shellInput>>

ReadinessTypes ==
    /\ readyState \in {"none", "Pending", "Ready", "TimedOut", "Unsupported"}
    /\ \E n \in 0..(Len(SHELL_READY_MARKER) - 1) : held = SubSeq(SHELL_READY_MARKER, 1, n)
    /\ filter \in BOOLEAN
    /\ written \in Seq(Bytes) /\ forwarded \in Seq(Bytes)
    /\ typed \in Seq({"key", "answer"}) /\ shellInput \in Seq({"key", "answer"})

ReadinessInit ==
    /\ readyState = "none"
    /\ held = <<>> /\ filter = TRUE
    /\ written = <<>> /\ forwarded = <<>>
    /\ typed = <<>> /\ shellInput = <<>>

(* ShellReadinessTracker::new; a recovered session keeps every answer.        *)
NewTracker(supported, recovered) ==
    /\ readyState = "none"
    /\ readyState' = IF supported THEN "Pending" ELSE "Unsupported"
    /\ filter' = ~recovered
    /\ UNCHANGED <<held, written, forwarded, typed, shellInput>>

ContainsShellIntegrationOsc(data) ==
    \E i \in 1..(Len(data) - 1) : data[i] = "esc" /\ data[i + 1] = "osc"

(* What has gone on when a match breaks off: the held bytes first.            *)
FlushedWithoutHeld(acc) == acc.forward  \* (a slip)
Flushed(acc) == acc.forward \o acc.held

(* One byte of the scan: acc is what is held, what goes on, and whether the   *)
(* marker was seen in this chunk.                                             *)
ScanByte(acc, byte) ==
    IF acc.ready THEN [acc EXCEPT !.forward = Append(@, byte)]
    ELSE IF byte = SHELL_READY_MARKER[Len(acc.held) + 1]
    THEN IF Len(acc.held) + 1 = Len(SHELL_READY_MARKER)
         THEN [acc EXCEPT !.held = <<>>, !.ready = TRUE]
         ELSE [acc EXCEPT !.held = Append(@, byte)]
    ELSE IF byte = SHELL_READY_MARKER[1]
    THEN [acc EXCEPT !.forward = Flushed(acc), !.held = <<byte>>]
    ELSE [acc EXCEPT !.forward = Append(Flushed(acc), byte), !.held = <<>>]

ScanOutput(data) ==
    IF ContainsShellIntegrationOsc(data)
    THEN [held |-> <<>>, forward |-> data, ready |-> TRUE]
    ELSE LET scan[i \in 0..Len(data)] ==
                 IF i = 0 THEN [held |-> held, forward |-> <<>>, ready |-> FALSE]
                 ELSE ScanByte(scan[i - 1], data[i])
         IN  scan[Len(data)]

(* on_pty_data: the scan runs only while the tracker is active.               *)
OnPtyData(data) ==
    /\ readyState # "none"
    /\ Len(written) + Len(data) <= MaxWritten
    /\ written' = written \o data
    /\ IF readyState = "Pending"
       THEN LET scan == ScanOutput(data) IN
            /\ held' = scan.held
            /\ forwarded' = forwarded \o scan.forward
            /\ readyState' = IF scan.ready THEN "Ready" ELSE readyState
       ELSE /\ forwarded' = forwarded \o data
            /\ UNCHANGED <<held, readyState>>
    /\ UNCHANGED <<filter, typed, shellInput>>

(* check_timeout, three seconds after the spawn.                              *)
CheckTimeout ==
    /\ readyState = "Pending"
    /\ readyState' = "TimedOut"
    /\ held' = <<>>
    /\ UNCHANGED <<filter, written, forwarded, typed, shellInput>>

(* buffer_input, as session.write calls it: only an answer to a query of the  *)
(* terminal is dropped, and only while the shell is not ready.                *)
Drops(data) == readyState = "Pending" /\ filter /\ data = "answer"

BufferInput(data) ==
    /\ readyState # "none"
    /\ Len(typed) < MaxInput
    /\ typed' = Append(typed, data)
    /\ shellInput' = IF Drops(data) THEN shellInput ELSE Append(shellInput, data)
    /\ UNCHANGED <<readyState, held, filter, written, forwarded>>

ReadinessNext ==
    \/ \E supported, recovered \in BOOLEAN : NewTracker(supported, recovered)
    \/ \E data \in Chunks : OnPtyData(data)
    \/ CheckTimeout
    \/ \E data \in {"key", "answer"} : BufferInput(data)

ReadinessSpec == ReadinessInit /\ [][ReadinessNext]_readinessVars

------------------------------------------------------------------------------
(* s with the segment i+1..j taken out, the rest followed by tail.            *)
WithoutSegment(s, i, j) == SubSeq(s, 1, i) \o SubSeq(s, j + 1, Len(s))

(* However the output is cut into reads, and however the pending phase ends,  *)
(* at most one piece of it is withheld for good and that piece begins the     *)
(* marker: no read boundary makes the scan lose, repeat or reorder a byte.    *)
LosesOnlyMarkerPrefix ==
    \E i \in 0..Len(written), k \in 0..Len(SHELL_READY_MARKER) :
        /\ i + k <= Len(written)
        /\ SubSeq(written, i + 1, i + k) = SubSeq(SHELL_READY_MARKER, 1, k)
        /\ forwarded \o held = WithoutSegment(written, i, i + k)

(* ScanResult's doc: what is forwarded is the output with the marker's bytes  *)
(* stripped. So nothing is missing but the whole marker.                      *)
StripsOnlyTheMarker ==
    \/ forwarded \o held = written
    \/ \E i \in 0..(Len(written) - Len(SHELL_READY_MARKER)) :
        /\ SubSeq(written, i + 1, i + Len(SHELL_READY_MARKER)) = SHELL_READY_MARKER
        /\ forwarded \o held =
               WithoutSegment(written, i, i + Len(SHELL_READY_MARKER))
==============================================================================
