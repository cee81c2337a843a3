------------------------------ MODULE TextInput ------------------------------
(* A text input (text_input.rs) of the settings, the git panel and the dialog  *)
(* that names a branch: a text of one line or of several, edited at a cursor   *)
(* that counts bytes, with a selection and with the text that an input method  *)
(* is composing.                                                               *)
EXTENDS Integers, FiniteSets, Sequences, Utf8Text

CONSTANTS
    Letters,    \* the widths of the letters that are typed
    MaxText     \* characters of the text (bound of the model)

ASSUME FieldAssumption == Letters \subseteq 1..4 /\ MaxText \in Nat

VARIABLES
    multiLine,  \* the input's mode
    text, cursor,
    anchor,     \* selection_anchor, or -1
    marked,     \* marked_range, or <<>>
    isSelecting, \* is_selecting
    laidOut      \* the text of the last paint (last_layouts)

fieldVars == <<multiLine, text, cursor, anchor, marked, isSelecting, laidOut>>

NoAnchor == -1
Unmarked == <<>>

Most(a, b) == IF a < b THEN b ELSE a
Selected == IF anchor = NoAnchor THEN <<cursor, cursor>>
            ELSE <<Least(anchor, cursor), Most(anchor, cursor)>>
HasSelection == Selected[1] # Selected[2]
MarkedOrSelected == IF marked # Unmarked THEN marked ELSE Selected

(* A line feed that is put into a single line becomes a space.                 *)
Normalize(new) ==
    IF multiLine THEN new ELSE [i \in 1..Len(new) |-> IF new[i] = LF THEN 1 ELSE new[i]]

PreviousBoundary(b) ==
    IF b = 0 THEN 0
    ELSE CHOOSE p \in Boundaries(text) :
            p < b /\ \A q \in Boundaries(text) : q < b => q <= p
NextBoundary(b) ==
    IF b >= Bytes(text) THEN Bytes(text)
    ELSE CHOOSE p \in Boundaries(text) :
            p > b /\ \A q \in Boundaries(text) : q > b => q >= p

ClampToBoundary(b) == Bytes(Prefix(text, ByteToChar(text, Least(b, Bytes(text)))))

(* The lines, as <<start, end>> in bytes; a break is one byte.                 *)
StartsLine(b) == b = 0 \/ \E i \in LineBreaks(text) : b = Bytes(Prefix(text, i))
EndsLine(b) == b = Bytes(text) \/ \E i \in LineBreaks(text) : b = Bytes(Prefix(text, i - 1))
LineSpans ==
    {l \in Boundaries(text) \X Boundaries(text) :
        /\ l[1] <= l[2] /\ StartsLine(l[1]) /\ EndsLine(l[2])
        /\ \A b \in Boundaries(text) : l[1] <= b /\ b < l[2] => ~EndsLine(b)}
LineOf(b) == CHOOSE l \in LineSpans : l[1] <= b /\ b <= l[2]
LineBefore(l) == CHOOSE k \in LineSpans : k[2] = l[1] - 1
LineAfter(l) == CHOOSE k \in LineSpans : k[1] = l[2] + 1
OffsetForPoint(l, col) == l[1] + Least(col, l[2] - l[1])

(***************************** replacing **********************************)
ReplaceRange(r, new) ==
    /\ Len(text) + Len(new) <= MaxText + Len(SubSeq(text, ByteToChar(text, r[1]) + 1, ByteToChar(text, r[2])))
    /\ text' = Replaced(text, r[1], r[2], Normalize(new))
    /\ cursor' = r[1] + Bytes(Normalize(new))
    /\ anchor' = NoAnchor /\ marked' = Unmarked
    /\ UNCHANGED <<multiLine, isSelecting, laidOut>>

InsertText(new) == ReplaceRange(MarkedOrSelected, new)
Cut == HasSelection /\ InsertText(<<>>)
Backspace ==
    IF HasSelection \/ marked # Unmarked THEN InsertText(<<>>)
    ELSE cursor # 0 /\ ReplaceRange(<<PreviousBoundary(cursor), cursor>>, <<>>)
Delete ==
    IF HasSelection \/ marked # Unmarked THEN InsertText(<<>>)
    ELSE cursor # Bytes(text) /\ ReplaceRange(<<cursor, NextBoundary(cursor)>>, <<>>)
Clear ==
    /\ text' = <<>> /\ cursor' = 0 /\ anchor' = NoAnchor /\ marked' = Unmarked
    /\ UNCHANGED <<multiLine, isSelecting, laidOut>>

(* The input method may name the range, and a selection of what is composed,   *)
(* both in units of UTF-16; a range it names may be of an earlier text.        *)
UnitPlaces(t) == {Utf16ToByte(t, u) : u \in 0..(Units(t) + 1)}
RangesFromUtf16(t) == {r \in UnitPlaces(t) \X UnitPlaces(t) : r[1] <= r[2]}
Ranges == {MarkedOrSelected} \cup RangesFromUtf16(text)
ReplaceAndMark(r, new, selection) ==  \* selection in bytes of the new text
    LET put == Normalize(new)
    IN  /\ Len(text) + Len(new) <= MaxText + Len(SubSeq(text, ByteToChar(text, r[1]) + 1, ByteToChar(text, r[2])))
        /\ text' = Replaced(text, r[1], r[2], put)
        /\ cursor' = r[1] + selection[2]
        /\ marked' = IF put = <<>> THEN Unmarked ELSE <<r[1], r[1] + Bytes(put)>>
        /\ anchor' = IF selection[1] # selection[2] THEN r[1] + selection[1] ELSE NoAnchor
        /\ UNCHANGED <<multiLine, isSelecting, laidOut>>
SelectionsIn(put) ==
    IF put = <<>> THEN {<<0, 0>>}
    ELSE {<<Bytes(put), Bytes(put)>>} \cup RangesFromUtf16(put)
UnmarkInput ==
    /\ marked # Unmarked /\ marked' = Unmarked
    /\ UNCHANGED <<multiLine, text, cursor, anchor, isSelecting, laidOut>>

(****************************** moving ************************************)
MoveTo(b, extend) ==
    /\ cursor' = ClampToBoundary(b)
    /\ anchor' = IF ~extend THEN NoAnchor ELSE IF anchor = NoAnchor THEN cursor ELSE anchor
    /\ marked' = Unmarked
    /\ UNCHANGED <<multiLine, text, laidOut>>
Moves(b, extend) == MoveTo(b, extend) /\ UNCHANGED isSelecting

MoveLeft(extend) ==
    Moves(IF ~extend /\ HasSelection THEN Selected[1] ELSE PreviousBoundary(cursor), extend)
MoveRight(extend) ==
    Moves(IF ~extend /\ HasSelection THEN Selected[2] ELSE NextBoundary(cursor), extend)
MoveUp(extend) ==
    LET l == LineOf(cursor)
    IN  Moves(IF l[1] = 0 THEN 0 ELSE OffsetForPoint(LineBefore(l), cursor - l[1]), extend)
MoveDown(extend) ==
    LET l == LineOf(cursor)
    IN  Moves(IF l[2] = Bytes(text) THEN l[2] ELSE OffsetForPoint(LineAfter(l), cursor - l[1]), extend)
MoveToStart == Moves(IF multiLine THEN LineOf(cursor)[1] ELSE 0, FALSE)
MoveToEnd == Moves(IF multiLine THEN LineOf(cursor)[2] ELSE Bytes(text), FALSE)
SelectAll ==
    /\ cursor' = Bytes(text) /\ anchor' = 0 /\ marked' = Unmarked
    /\ UNCHANGED <<multiLine, text, isSelecting, laidOut>>

(* index_for_point asks the layout of the last paint, which may be that of a   *)
(* text that has changed since.                                                *)
LaysOut == laidOut' = text /\ UNCHANGED <<multiLine, text, cursor, anchor, marked, isSelecting>>
Pointed == Boundaries(laidOut)
OnMouseDown(b, shift) == MoveTo(b, shift) /\ isSelecting' = TRUE
OnMouseMove(b) == isSelecting /\ Moves(b, TRUE)
OnMouseUp == isSelecting /\ isSelecting' = FALSE /\ UNCHANGED <<multiLine, text, cursor, anchor, marked, laidOut>>

Typed == {<<c>> : c \in Letters \cup {LF}}
Composed == {<<>>} \cup Typed \cup (Letters \X Letters)

FieldInit ==
    /\ multiLine \in BOOLEAN
    /\ text = <<>> /\ cursor = 0 /\ anchor = NoAnchor /\ marked = Unmarked /\ isSelecting = FALSE
    /\ laidOut = <<>>

FieldNext ==
    \/ \E new \in Typed : InsertText(new)
    \/ Cut \/ Backspace \/ Delete \/ Clear
    \/ \E r \in Ranges, new \in Composed :
          \/ ReplaceRange(r, new)
          \/ \E selection \in SelectionsIn(Normalize(new)) : ReplaceAndMark(r, new, selection)
    \/ UnmarkInput \/ LaysOut
    \/ \E extend \in BOOLEAN :
          MoveLeft(extend) \/ MoveRight(extend) \/ MoveUp(extend) \/ MoveDown(extend)
    \/ MoveToStart \/ MoveToEnd \/ SelectAll
    \/ \E b \in Pointed : OnMouseMove(b) \/ \E shift \in BOOLEAN : OnMouseDown(b, shift)
    \/ OnMouseUp

FieldSpec == FieldInit /\ [][FieldNext]_fieldVars

------------------------------------------------------------------------------
(* The cursor, the anchor and the ends of the composed text are between two    *)
(* characters of the text, whatever was typed, composed, moved over or pointed *)
(* at, whatever part of it the input method selects, in UTF-16, and whatever   *)
(* was painted last: the buffer slices its text there (TextInputBuffer), and a *)
(* slice within a character panics.                                            *)
SlicesBetweenCharacters ==
    /\ cursor \in Boundaries(text)
    /\ anchor # NoAnchor => anchor \in Boundaries(text)
    /\ marked # Unmarked => marked[1] \in Boundaries(text) /\ marked[2] \in Boundaries(text)
                            /\ marked[1] < marked[2]

(* Disproved: so is the place that the input method asks for a point, at which *)
(* the text is sliced as well (character_index_for_point).                     *)
PointsBetweenCharacters == \A b \in Pointed : Least(b, Bytes(text)) \in Boundaries(text)
==============================================================================
