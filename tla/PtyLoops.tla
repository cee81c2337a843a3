------------------------------ MODULE PtyLoops ------------------------------
(* The two threads of a session at its terminal (session.rs): one reads what   *)
(* comes out and sends it as events, the other writes what is typed. Each goes  *)
(* on after a transient error (transient_errors.rs) until there are too many    *)
(* within a window of time.                                                     *)
EXTENDS Naturals, Sequences, FiniteSets

CONSTANTS
    Window,       \* WINDOW_DURATION
    MaxErrors,    \* MAX_TRANSIENT_ERRORS
    MaxTime,      \* ticks (bound of the model)
    MaxTyped      \* chunks of input, and reads (bound of the model)

ASSUME PtyAssumption == {Window, MaxErrors, MaxTime, MaxTyped} \subseteq Nat

VARIABLES
    now,
    errors,       \* the times of the reader's transient errors, all of them
    timestamps,   \* the reader's TransientErrorWindow
    reads,        \* chunks read
    events,       \* what the reader sent: numbers of chunks, 0 for the exit
    sent,        \* chunks of input that were sent to the writer
    queue,        \* the writer's channel
    writing,      \* the writer thread lives
    unflushed,    \* the writer is in a batch
    failures,     \* the writer's window
    delivered       \* what reached the terminal: <<chunk, whether all of it>>

readerVars == <<errors, timestamps, reads, events>>
writerVars == <<sent, queue, writing, unflushed, failures, delivered>>
ptyVars == <<now, readerVars, writerVars>>

Exit == 0
Reading == \A i \in 1..Len(events) : events[i] # Exit

PtyInit ==
    /\ now = 0
    /\ errors = <<>> /\ timestamps = <<>> /\ reads = 0 /\ events = <<>>
    /\ sent = 0 /\ queue = <<>> /\ writing = TRUE /\ unflushed = FALSE
    /\ failures = <<>> /\ delivered = <<>>

Tick == now < MaxTime /\ now' = now + 1 /\ UNCHANGED <<readerVars, writerVars>>

(* record: what is older than the window goes from the front, up to the first  *)
(* that is not, and the new error counts.                                       *)
KeepsAll(times) == times  \* (a slip: errors of long ago count)
OldOnes(times) ==
    CHOOSE k \in 0..Len(times) :
        /\ \A i \in 1..k : times[i] + Window < now
        /\ k < Len(times) => times[k + 1] + Window >= now
Pruned(times) == SubSeq(times, OldOnes(times) + 1, Len(times))
Recorded(times) == Append(Pruned(times), now)
TooMany(times) == Len(Recorded(times)) > MaxErrors

(****************************** the reader **********************************)
ReadsChunk ==
    /\ Reading /\ reads < MaxTyped
    /\ reads' = reads + 1 /\ events' = Append(events, reads + 1)
    /\ UNCHANGED <<now, errors, timestamps, writerVars>>

(* The end of the terminal, and an error that is not transient.                 *)
ReadEnds ==
    /\ Reading /\ events' = Append(events, Exit)
    /\ UNCHANGED <<now, errors, timestamps, reads, writerVars>>

ReadFails ==
    /\ Reading /\ Len(errors) < MaxTime
    /\ errors' = Append(errors, now)
    /\ timestamps' = Recorded(timestamps)
    /\ events' = IF TooMany(timestamps) THEN Append(events, Exit) ELSE events
    /\ UNCHANGED <<now, reads, writerVars>>

(****************************** the writer **********************************)
TypesInput ==
    /\ sent < MaxTyped /\ writing
    /\ sent' = sent + 1 /\ queue' = Append(queue, sent + 1)
    /\ UNCHANGED <<now, writing, unflushed, failures, delivered, readerVars>>

(* write_all of the next chunk, of a batch or the first of one.                 *)
WritesChunk ==
    /\ writing /\ queue # <<>>
    /\ queue' = Tail(queue) /\ unflushed' = TRUE
    /\ delivered' = Append(delivered, <<Head(queue), TRUE>>)
    /\ UNCHANGED <<now, sent, writing, failures, readerVars>>

(* A part of the chunk may be out; the rest of it is not delivered again.         *)
ChunkFails(transient) ==
    /\ writing /\ queue # <<>>
    /\ queue' = Tail(queue)
    /\ \/ delivered' = Append(delivered, <<Head(queue), FALSE>>)
       \/ UNCHANGED delivered
    /\ failures' = IF transient THEN Recorded(failures) ELSE failures
    /\ writing' = (transient /\ ~TooMany(failures))
    /\ UNCHANGED <<now, sent, unflushed, readerVars>>

Flushes ==
    /\ writing /\ unflushed /\ queue = <<>> /\ unflushed' = FALSE
    /\ UNCHANGED <<now, sent, queue, writing, failures, delivered, readerVars>>

FlushFails(transient) ==
    /\ writing /\ unflushed /\ queue = <<>> /\ unflushed' = FALSE
    /\ failures' = IF transient THEN Recorded(failures) ELSE failures
    /\ writing' = (transient /\ ~TooMany(failures))
    /\ UNCHANGED <<now, sent, queue, delivered, readerVars>>

PtyNext ==
    \/ Tick \/ ReadsChunk \/ ReadEnds \/ ReadFails
    \/ TypesInput \/ WritesChunk \/ Flushes
    \/ \E transient \in BOOLEAN : ChunkFails(transient) \/ FlushFails(transient)

PtySpec == PtyInit /\ [][PtyNext]_ptyVars

------------------------------------------------------------------------------
(* The errors of all time that are not older than the window.                   *)
InWindow == {i \in 1..Len(errors) : errors[i] + Window >= now}

(* A transient error ends the session when, and only when, more than the limit  *)
(* fell within one window: errors that are spread out never do.                 *)
EndsOnlyInABurst ==
    [][ReadFails => (events' # events <=> Cardinality(InWindow') > MaxErrors)]_ptyVars

(* transient_errors.rs:7, an error after which "the daemon should keep          *)
(* running": no chunk that was typed before one that is written is missing.     *)
NothingIsLeftOut ==
    \A i \in 1..Len(delivered) : delivered[i] = <<i, TRUE>>
==============================================================================
