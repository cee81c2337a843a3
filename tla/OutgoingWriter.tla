--------------------------- MODULE OutgoingWriter ---------------------------
(* The central writer thread of the app's daemon client (daemon_client.rs):   *)
(* every command goes through one channel; the thread takes all that is       *)
(* there, coalesces the batch and writes it out frame by frame.               *)
EXTENDS Naturals, Sequences

CONSTANTS
    Sessions,
    MaxGiven    \* commands given (bound of the model)

ASSUME WriterAssumption == MaxGiven \in Nat

Ops == {"Write", "Resize", "Kill"}
Commands == [session : Sessions, op : Ops, id : 1..MaxGiven]

VARIABLES
    channel,    \* writer_tx: the commands not yet taken
    coalesced,  \* the frames of the batch still to be written
    count,      \* commands given
    unwritten,  \* session -> its commands given and not yet written (history)
    arrived     \* session -> its commands in the frames written

writerVars == <<channel, coalesced, count, unwritten, arrived>>

WriterInit ==
    /\ channel = <<>> /\ coalesced = <<>> /\ count = 0
    /\ unwritten = [s \in Sessions |-> <<>>]
    /\ arrived = [s \in Sessions |-> <<>>]

(* DaemonWriter::write, resize and kill of the handles: they never wait.      *)
Send(s, op) ==
    LET c == [session |-> s, op |-> op, id |-> count + 1] IN
    /\ count < MaxGiven
    /\ count' = count + 1
    /\ channel' = Append(channel, c)
    /\ unwritten' = [unwritten EXCEPT ![s] = Append(@, c)]
    /\ UNCHANGED <<coalesced, arrived>>

(* A frame carries the ids of the commands it stands for, in their order.     *)
FrameOf(c) == [session |-> c.session, op |-> c.op, ids |-> <<c.id>>]

LastResize(b, i) ==
    \A j \in (i + 1)..Len(b) : ~(b[j].op = "Resize" /\ b[j].session = b[i].session)
Kept(b, i) == b[i].op = "Resize" => LastResize(b, i)

(* Whether a write joins the last frame that is out.                          *)
JoinsAnyWrite(out, c) ==  \* (a slip: an earlier frame will do)
    c.op = "Write" /\ \E i \in 1..Len(out) : out[i].op = "Write" /\ out[i].session = c.session
Joins(out, c) ==
    /\ c.op = "Write" /\ out # <<>>
    /\ out[Len(out)].op = "Write" /\ out[Len(out)].session = c.session

(* The newest write of the session takes the command's data.                  *)
Joined(out, c) ==
    LET at == CHOOSE i \in 1..Len(out) :
                  /\ out[i].op = "Write" /\ out[i].session = c.session
                  /\ \A j \in (i + 1)..Len(out) :
                         ~(out[j].op = "Write" /\ out[j].session = c.session)
    IN [out EXCEPT ![at].ids = Append(@, c.id)]

(* The frames out so far, with the batch's command at i.                      *)
WithCommand(out, b, i) ==
    IF ~Kept(b, i) THEN out
    ELSE IF Joins(out, b[i]) THEN Joined(out, b[i])
    ELSE Append(out, FrameOf(b[i]))

CoalesceOutgoing(b) ==
    LET out[i \in 0..Len(b)] == IF i = 0 THEN <<>> ELSE WithCommand(out[i - 1], b, i)
    IN out[Len(b)]

(* writer_loop: the batch is all that is in the channel at that moment.       *)
TakeBatch ==
    /\ coalesced = <<>> /\ channel # <<>>
    /\ coalesced' = CoalesceOutgoing(channel)
    /\ channel' = <<>>
    /\ UNCHANGED <<count, unwritten, arrived>>

(* The commands of a frame arrive; so are those before its last one done with *)
(* that are of its session.                                                   *)
Carried(f) == [i \in 1..Len(f.ids) |-> [session |-> f.session, op |-> f.op, id |-> f.ids[i]]]
PlaceOf(f) == CHOOSE n \in 1..Len(unwritten[f.session]) :
                  unwritten[f.session][n].id = f.ids[Len(f.ids)]

WriteFrame ==
    LET f == Head(coalesced) IN
    /\ coalesced # <<>>
    /\ coalesced' = Tail(coalesced)
    /\ arrived' = [arrived EXCEPT ![f.session] = @ \o Carried(f)]
    /\ unwritten' = [unwritten EXCEPT ![f.session] = SubSeq(@, PlaceOf(f) + 1, Len(@))]
    /\ UNCHANGED <<channel, count>>

WriterNext ==
    \/ \E s \in Sessions, op \in Ops : Send(s, op)
    \/ TakeBatch
    \/ WriteFrame

WriterSpec == WriterInit /\ [][WriterNext]_writerVars

------------------------------------------------------------------------------
Promise == INSTANCE InputOrder WITH given <- unwritten, delivered <- arrived

(* The writer keeps the promise of InputOrder: coalescing never moves input   *)
(* past a resize or a kill of its session, never repeats or loses a keystroke *)
(* and drops a resize only for a newer one (coalesce_outgoing).               *)
KeepsOrder == Promise!Spec
==============================================================================
