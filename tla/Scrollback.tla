----------------------------- MODULE Scrollback -----------------------------
(* The scrollback of one session (scrollback.rs): what its terminal put out, in *)
(* a file that is cut to its younger half when it grows too long, and in a ring *)
(* in memory; both are read from a place where no escape sequence is in         *)
(* progress, the start of a line. A byte is its number in the output and        *)
(* whether it is a line feed.                                                   *)
EXTENDS Naturals, Sequences

CONSTANTS
    MaxFile,    \* MAX_SCROLLBACK_SIZE
    MaxSend,    \* MAX_SCROLLBACK_SEND_SIZE
    Scan,       \* bytes that are searched for a line feed
    MaxChunk,   \* bytes of one read of the terminal
    MaxOutput   \* bytes of output (bound of the model)

(* 5 MiB, 500 KiB, 4 KiB and 4 KiB in the code.                                 *)
ASSUME ScrollbackAssumption ==
    /\ {MaxFile, MaxSend, Scan, MaxChunk, MaxOutput} \subseteq Nat
    /\ 2 * Scan <= MaxFile /\ MaxChunk <= MaxFile

VARIABLES
    output,     \* all that the terminal put out
    file,
    counted,    \* bytes_written
    ring        \* ring_buffer

scrollbackVars == <<output, file, counted, ring>>

Least(a, b) == IF a < b THEN a ELSE b
IsBreak(b) == b[2]
From(s, k) == SubSeq(s, k + 1, Len(s))
Tailing(s, n) == From(s, Len(s) - Least(n, Len(s)))

Breaks(d) == {i \in 1..Least(Len(d), Scan) : IsBreak(d[i])}
First(breaks) == CHOOSE i \in breaks : \A j \in breaks : i <= j
SafeStartAtBreak(d) == \* (a slip: the line feed itself is kept)
    IF Breaks(d) = {} THEN 0 ELSE First(Breaks(d)) - 1
FindSafeStart(d) == IF Breaks(d) = {} THEN 0 ELSE First(Breaks(d))
Safe(d) == From(d, FindSafeStart(d))

CutToTail(d) == Safe(From(d, Len(d) \div 2))

GetRecentScrollback == Safe(ring)
ReadScrollbackWithLimit(limit) ==
    LET size == Least(limit, MaxSend)
    IN  IF Len(file) <= size THEN file ELSE Safe(Tailing(file, size))

ScrollbackInit == output = <<>> /\ file = <<>> /\ counted = 0 /\ ring = <<>>

(* A writer for a session that has a file counts what is there.                 *)
CountsFromZero == 0  \* (a slip: only what it writes itself)
CountsTheFile == Len(file)
New == counted' = CountsTheFile /\ ring' = <<>> /\ UNCHANGED <<output, file>>

Chunk(kinds) == [i \in 1..Len(kinds) |-> <<Len(output) + i, kinds[i]>>]
PutsOut(data) == Len(output) + Len(data) <= MaxOutput /\ output' = output \o data

Write(data) ==
    LET cut == counted + Len(data) > MaxFile
    IN  /\ PutsOut(data)
        /\ file' = IF cut THEN CutToTail(file \o data) ELSE file \o data
        /\ counted' = IF cut THEN Len(file') ELSE counted + Len(data)
        /\ ring' = Tailing(ring \o data, MaxSend)

(* The disk is full: a part of the chunk is in the file, none is counted, and   *)
(* the ring does not get it.                                                    *)
WriteFails(data) ==
    /\ PutsOut(data)
    /\ \E n \in 0..(Len(data) - 1) : file' = file \o SubSeq(data, 1, n)
    /\ UNCHANGED <<counted, ring>>

(* The daemon dies while the file is cut: it was emptied, and the tail is not   *)
(* all there yet.                                                               *)
DiesInTheCut(data) ==
    /\ counted + Len(data) > MaxFile /\ PutsOut(data)
    /\ \E n \in 0..(Len(CutToTail(file \o data)) - 1) :
          /\ file' = SubSeq(CutToTail(file \o data), 1, n) /\ counted' = n
    /\ ring' = <<>>

Kinds == UNION {[1..n -> BOOLEAN] : n \in 1..MaxChunk}

ScrollbackNext == New \/ \E kinds \in Kinds : Write(Chunk(kinds))

ScrollbackSpec == ScrollbackInit /\ [][ScrollbackNext]_scrollbackVars

FaultyNext ==
    \/ ScrollbackNext
    \/ \E kinds \in Kinds : WriteFails(Chunk(kinds)) \/ DiesInTheCut(Chunk(kinds))
FaultySpec == ScrollbackInit /\ [][FaultyNext]_scrollbackVars

------------------------------------------------------------------------------
IsTail(d) == d = Tailing(output, Len(d))
StartsALine(d) ==
    \/ d = <<>> \/ d[1][1] = 1 \/ IsBreak(output[d[1][1] - 1])
    \/ Breaks(d) = {}

(* What a client is given is the youngest output, whole lines of it unless a    *)
(* line is longer than what is searched, and no more than it asked for: from    *)
(* the ring and from the file, across cuts of it and restarts of the daemon.    *)
ReplayIsTheTail ==
    /\ IsTail(file) /\ IsTail(ring)
    /\ \A limit \in 0..MaxOutput :
          LET d == ReadScrollbackWithLimit(limit)
          IN  StartsALine(d) /\ IsTail(d) /\ Len(d) <= limit /\ Len(d) <= MaxSend
    /\ GetRecentScrollback # <<>> /\ Len(ring) = MaxSend => StartsALine(GetRecentScrollback)

(* The file stays within its limit.                                             *)
FileIsBounded == Len(file) <= MaxFile

(* scrollback.rs:72, "Skips any partial ANSI escape sequence at the start       *)
(* caused by ring buffer truncation": nothing is skipped when nothing was cut.  *)
SkipsOnlyWhatWasCut == Len(output) <= MaxSend /\ ring = output => GetRecentScrollback = output
==============================================================================
