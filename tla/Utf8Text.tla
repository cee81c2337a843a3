------------------------------ MODULE Utf8Text ------------------------------
(* Texts as the editor's buffer (editor_buffer.rs) and a text input            *)
(* (text_input.rs) hold them: a text is the sequence of its characters' widths *)
(* in UTF-8, and a place in it is a number of bytes. 0 stands for a line feed, *)
(* which is one byte. Every character is a grapheme of its own.                *)
EXTENDS Integers, FiniteSets, Sequences

LF == 0
Least(a, b) == IF a < b THEN a ELSE b

Width(c) == IF c = LF THEN 1 ELSE c
Bytes(t) ==
    LET upTo[n \in 0..Len(t)] == IF n = 0 THEN 0 ELSE upTo[n - 1] + Width(t[n])
    IN  upTo[Len(t)]
Prefix(t, n) == SubSeq(t, 1, n)
LineBreaks(t) == {i \in 1..Len(t) : t[i] = LF}

(* The places between two characters.                                          *)
Boundaries(t) == {Bytes(Prefix(t, n)) : n \in 0..Len(t)}

(* The characters before a byte: a place within one is rounded down.           *)
ByteToChar(t, b) ==
    CHOOSE n \in 0..Len(t) :
        Bytes(Prefix(t, n)) <= b /\ \A m \in (n + 1)..Len(t) : Bytes(Prefix(t, m)) > b

(* UTF-16, in which input methods count: one unit, or two of a character of    *)
(* four bytes. A place within such a pair is rounded up.                       *)
Units(t) ==
    LET upTo[n \in 0..Len(t)] ==
            IF n = 0 THEN 0 ELSE upTo[n - 1] + (IF Width(t[n]) = 4 THEN 2 ELSE 1)
    IN  upTo[Len(t)]
UnitsForBytes(t, u) == Least(u, Bytes(t))  \* (a slip: a unit taken for a byte)
Utf16ToByte(t, u) ==
    LET reaches(i) == i = Len(t) \/ Units(Prefix(t, i)) >= u
        n == CHOOSE i \in 0..Len(t) : reaches(i) /\ \A j \in 0..(i - 1) : ~reaches(j)
    IN  Bytes(Prefix(t, n))

Replaced(t, from, to, new) ==
    Prefix(t, ByteToChar(t, from)) \o new \o SubSeq(t, ByteToChar(t, to) + 1, Len(t))
==============================================================================
