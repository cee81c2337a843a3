----------------------------- MODULE EditorView -----------------------------
(* An editor tab (editor_view.rs) and its buffer (editor_buffer.rs): the file  *)
(* is read off the user interface's thread, edited at a cursor that counts     *)
(* bytes within a line, and saved.                                             *)
EXTENDS Integers, FiniteSets, Sequences, Utf8Text

CONSTANTS
    Files,          \* what the file may hold when it is opened
    EditorLetters,  \* the widths of the letters that are typed
    MaxBuffer       \* characters of the buffer (bound of the model)

ASSUME EditorAssumption ==
    EditorLetters \subseteq 1..4 /\ Files \subseteq Seq(0..4) /\ MaxBuffer \in Nat

VARIABLES
    file,
    loading,       \* the file has not been read yet
    buffer, dirty,
    caret,         \* cursor: <<row, byte within the row>>, from 0
    selAnchor,     \* selection_anchor, or <<>>
    desired,       \* desired_col, or -1
    mouseSelects,  \* is_selecting_with_mouse
    imePreedit     \* ime_preedit: the text being composed, which is in the buffer

editorVars == <<file, loading, buffer, dirty, caret, selAnchor, desired, mouseSelects, imePreedit>>

NoSelection == <<>>
Zero == <<0, 0>>

(*************************** EditorBuffer **********************************)
LineCount(t) == Cardinality(LineBreaks(t)) + 1
StartOf(t, r) ==
    IF r = 0 THEN 0
    ELSE CHOOSE i \in LineBreaks(t) : Cardinality({j \in LineBreaks(t) : j <= i}) = r
Line(t, r) ==
    SubSeq(t, StartOf(t, r) + 1, IF r + 1 < LineCount(t) THEN StartOf(t, r + 1) - 1 ELSE Len(t))
LineLen(t, r) == IF r >= LineCount(t) THEN 0 ELSE Bytes(Line(t, r))
CursorToByte(t, p) ==
    IF p[1] >= LineCount(t) THEN Bytes(t)
    ELSE Bytes(Prefix(t, StartOf(t, p[1]))) + Least(p[2], LineLen(t, p[1]))
ByteToCursor(t, b) ==
    LET at == Least(b, Bytes(t))
        row == Cardinality({i \in LineBreaks(t) : Bytes(Prefix(t, i)) <= at})
    IN  <<row, at - Bytes(Prefix(t, StartOf(t, row)))>>
ClampCursor(t, p) ==
    LET row == Least(p[1], LineCount(t) - 1) IN <<row, Least(p[2], LineLen(t, row))>>
(*************************** the view's helpers ****************************)
Less(p, q) == p[1] < q[1] \/ (p[1] = q[1] /\ p[2] < q[2])
HasSelectedText == selAnchor # NoSelection /\ selAnchor # caret
SelectionStart == IF Less(selAnchor, caret) THEN selAnchor ELSE caret
SelectionEnd == IF Less(selAnchor, caret) THEN caret ELSE selAnchor
SelectionBytes ==
    IF HasSelectedText
    THEN <<CursorToByte(buffer, SelectionStart), CursorToByte(buffer, SelectionEnd)>>
    ELSE <<CursorToByte(buffer, caret), CursorToByte(buffer, caret)>>

(* A letter is a grapheme of its own.                                         *)
NextGrapheme(p) ==
    IF p[2] >= LineLen(buffer, p[1])
    THEN IF p[1] + 1 < LineCount(buffer) THEN <<p[1] + 1, 0>> ELSE p
    ELSE <<p[1], p[2] + Line(buffer, p[1])[ByteToChar(Line(buffer, p[1]), p[2]) + 1]>>
PrevGrapheme(p) ==
    IF p[2] = 0
    THEN IF p[1] > 0 THEN <<p[1] - 1, LineLen(buffer, p[1] - 1)>> ELSE p
    ELSE <<p[1], p[2] - Line(buffer, p[1])[ByteToChar(Line(buffer, p[1]), p[2])]>>
(* A line of letters is one word.                                             *)
NextWord(p) ==
    IF p[2] >= LineLen(buffer, p[1]) THEN NextGrapheme(p) ELSE <<p[1], LineLen(buffer, p[1])>>
PrevWord(p) == IF p[2] = 0 THEN PrevGrapheme(p) ELSE <<p[1], 0>>

(* &line_text[..col] panics when col is within a character.                   *)
IsSplit(p) ==
    LET line == Line(buffer, p[1])
    IN  p[1] < LineCount(buffer)
        /\ \A n \in 0..Len(line) : Bytes(Prefix(line, n)) # p[2]

Unsaved == dirty' = TRUE

(* While the file is read, render shows a placeholder without handlers.       *)
Ready == ~loading

(* delete_selection_if_any: without a selection the anchor goes too.          *)
LeavesAnchor == selAnchor  \* (a slip: the anchor stays when nothing is selected)
ClearsAnchor == NoSelection
DeleteSelection ==
    /\ buffer' = Replaced(buffer, SelectionBytes[1], SelectionBytes[2], <<>>)
    /\ caret' = SelectionStart /\ selAnchor' = NoSelection
    /\ UNCHANGED desired

(****************************** the file ***********************************)
EditorInit ==
    /\ file \in Files /\ loading = TRUE
    /\ buffer = <<>> /\ dirty = FALSE
    /\ caret = Zero /\ selAnchor = NoSelection /\ desired = -1 /\ mouseSelects = FALSE /\ imePreedit = <<>>

(* read.unwrap_or_default(): a file that is not text is an empty one.         *)
Loads(content) ==
    /\ loading /\ loading' = FALSE
    /\ buffer' = content
    /\ UNCHANGED <<file, dirty, caret, selAnchor, desired, mouseSelects, imePreedit>>
ReadsFile == Loads(file)

(* A write that fails may have emptied the file; the tab stays as it was.      *)
SaveFile ==
    /\ Ready
    /\ \/ file' = buffer /\ dirty' = FALSE
       \/ file' \in {file, <<>>} /\ UNCHANGED dirty
    /\ UNCHANGED <<loading, buffer, caret, selAnchor, desired, mouseSelects, imePreedit>>

(****************************** editing ************************************)
EditorInsertText(new) ==
    LET at == SelectionBytes[1]
        rest == Replaced(buffer, at, SelectionBytes[2], <<>>)
    IN  /\ Ready /\ Len(rest) + Len(new) <= MaxBuffer
        /\ buffer' = Replaced(rest, at, at, new)
        /\ caret' = ByteToCursor(buffer', at + Bytes(new))
        /\ selAnchor' = NoSelection /\ desired' = -1
        /\ Unsaved
        /\ UNCHANGED <<file, loading, mouseSelects, imePreedit>>

EditorCut ==
    /\ Ready /\ HasSelectedText
    /\ DeleteSelection /\ Unsaved
    /\ UNCHANGED <<file, loading, mouseSelects, imePreedit>>

(* backspace and delete: the selection, or what is between two boundaries.    *)
Removes(from, to) ==
    /\ Ready
    /\ IF HasSelectedText THEN DeleteSelection /\ Unsaved
       ELSE /\ selAnchor' = ClearsAnchor
            /\ IF from = to THEN UNCHANGED <<buffer, dirty, caret, desired>>
               ELSE /\ buffer' = Replaced(buffer, CursorToByte(buffer, from),
                                          CursorToByte(buffer, to), <<>>)
                    /\ caret' = from /\ desired' = -1 /\ Unsaved
    /\ UNCHANGED <<file, loading, mouseSelects, imePreedit>>
EditorBackspace == Removes(PrevGrapheme(caret), caret)
EditorDelete == Removes(caret, NextGrapheme(caret))

(****************************** movement ***********************************)
MoveCursor(p, extend) ==
    /\ Ready
    /\ caret' = ClampCursor(buffer, p)
    /\ selAnchor' = IF ~extend THEN NoSelection ELSE IF selAnchor = NoSelection THEN caret ELSE selAnchor
    /\ UNCHANGED <<file, loading, buffer, dirty, mouseSelects, imePreedit>>
MovesTo(p, extend) == MoveCursor(p, extend) /\ desired' = -1

EditorMoveLeft == MovesTo(IF HasSelectedText THEN SelectionStart ELSE PrevGrapheme(caret), FALSE)
EditorMoveRight == MovesTo(IF HasSelectedText THEN SelectionEnd ELSE NextGrapheme(caret), FALSE)
EditorSelectLeft == MovesTo(PrevGrapheme(caret), TRUE)
EditorSelectRight == MovesTo(NextGrapheme(caret), TRUE)
EditorMoveWordLeft == MovesTo(PrevWord(caret), FALSE)
EditorMoveWordRight == MovesTo(NextWord(caret), FALSE)
EditorMoveToLineStart == MovesTo(<<caret[1], 0>>, FALSE)
EditorMoveToLineEnd == MovesTo(<<caret[1], LineLen(buffer, caret[1])>>, FALSE)

VerticalMove(dir, extend) ==
    LET row == caret[1] + dir
        col == IF desired = -1 THEN caret[2] ELSE desired
    IN  IF row \in 0..(LineCount(buffer) - 1)
        THEN /\ desired' = col
             /\ MoveCursor(<<row, Least(col, LineLen(buffer, row))>>, extend)
        ELSE /\ ~extend
             /\ MovesTo(IF dir < 0 THEN Zero ELSE <<caret[1], LineLen(buffer, caret[1])>>, FALSE)

EditorSelectAll ==
    LET last == LineCount(buffer) - 1
    IN  /\ Ready /\ selAnchor' = Zero /\ caret' = <<last, LineLen(buffer, last)>>
        /\ UNCHANGED <<file, loading, buffer, dirty, desired, mouseSelects, imePreedit>>

(* cursor_for_pixel: a character boundary of a line.                          *)
PlacesToPoint == {ByteToCursor(buffer, Bytes(Prefix(buffer, n))) : n \in 0..Len(buffer)}
EditorMouseDown(p, shift) ==
    /\ Ready /\ mouseSelects' = TRUE /\ desired' = -1
    /\ caret' = p
    /\ selAnchor' = IF ~shift THEN NoSelection ELSE IF selAnchor = NoSelection THEN caret ELSE selAnchor
    /\ UNCHANGED <<file, loading, buffer, dirty, imePreedit>>
EditorMouseMove(p) == mouseSelects /\ MoveCursor(p, TRUE) /\ UNCHANGED desired
EditorMouseUp ==
    /\ mouseSelects /\ mouseSelects' = FALSE
    /\ UNCHANGED <<file, loading, buffer, dirty, caret, selAnchor, desired, imePreedit>>

(**************************** composed input *******************************)
(* The range that the input method's text replaces when it names none.        *)
MarkedByteRange ==
    LET at == CursorToByte(buffer, caret)
    IN  IF imePreedit # <<>> THEN <<at, at + Bytes(imePreedit)>> ELSE SelectionBytes

EditorReplaceAndMark(new) ==
    LET r == MarkedByteRange
    IN  /\ Ready /\ r[2] <= Bytes(buffer) /\ Len(buffer) + Len(new) <= MaxBuffer + Len(imePreedit)
        /\ buffer' = Replaced(buffer, r[1], r[2], new)
        /\ imePreedit' = new /\ selAnchor' = NoSelection
        /\ UNCHANGED <<file, loading, dirty, caret, desired, mouseSelects>>

EditorReplaceText(new) ==
    LET r == MarkedByteRange
    IN  /\ Ready /\ r[2] <= Bytes(buffer) /\ Len(buffer) + Len(new) <= MaxBuffer + Len(imePreedit)
        /\ buffer' = Replaced(buffer, r[1], r[2], new)
        /\ caret' = ByteToCursor(buffer', r[1] + Bytes(new))
        /\ imePreedit' = <<>> /\ selAnchor' = NoSelection /\ desired' = -1
        /\ dirty' = (dirty \/ new # <<>> \/ r[1] # r[2])
        /\ UNCHANGED <<file, loading, mouseSelects>>

EditorUnmark ==
    /\ Ready /\ imePreedit # <<>> /\ imePreedit' = <<>>
    /\ LET at == CursorToByte(buffer, caret)
       IN  /\ buffer' = Replaced(buffer, at, at, imePreedit)
           /\ caret' = ByteToCursor(buffer', at + Bytes(imePreedit))
    /\ selAnchor' = NoSelection /\ desired' = -1 /\ Unsaved
    /\ UNCHANGED <<file, loading, mouseSelects>>

TypedText == {<<c>> : c \in EditorLetters \cup {LF}}

EditorNext ==
    \/ ReadsFile \/ SaveFile
    \/ \E new \in TypedText : EditorInsertText(new)
    \/ EditorCut \/ EditorBackspace \/ EditorDelete
    \/ EditorMoveLeft \/ EditorMoveRight \/ EditorSelectLeft \/ EditorSelectRight
    \/ EditorMoveWordLeft \/ EditorMoveWordRight \/ EditorMoveToLineStart \/ EditorMoveToLineEnd
    \/ \E dir \in {-1, 1}, extend \in BOOLEAN : VerticalMove(dir, extend)
    \/ EditorSelectAll \/ EditorMouseUp
    \/ \E p \in PlacesToPoint : EditorMouseMove(p) \/ \E shift \in BOOLEAN : EditorMouseDown(p, shift)

EditorSpec == EditorInit /\ [][EditorNext]_editorVars

(* The same with an input method that composes a letter.                      *)
Composes ==
    \/ \E new \in {<<c>> : c \in EditorLetters} \cup {<<>>} : EditorReplaceAndMark(new)
    \/ \E c \in EditorLetters : EditorReplaceText(<<c>>)
    \/ EditorUnmark
ComposingSpec == EditorInit /\ [][EditorNext \/ Composes]_editorVars

(* And with a file that cannot be read as text.                               *)
UnreadableSpec == EditorInit /\ [][EditorNext \/ Loads(<<>>)]_editorVars

------------------------------------------------------------------------------
IsPosition(p) == p[1] < LineCount(buffer) /\ p[2] <= LineLen(buffer, p[1])

(* The cursor and the anchor of the selection are places of the buffer, so     *)
(* that an edit never removes what a selection of an earlier text covered.     *)
SelectionIsInTheText == IsPosition(caret) /\ (selAnchor # NoSelection => IsPosition(selAnchor))

(* item.rs:18, "Whether this item has unsaved changes": a tab without the mark *)
(* shows what the file holds.                                                  *)
CleanIsOnDisk == ~loading /\ ~dirty => buffer = file

(* The cursor never stands within a character, where the next move of it       *)
(* panics (editor_view.rs:489, the slice up to the cursor's byte).             *)
CursorIsBetweenCharacters == ~IsSplit(caret)

(* editor_view.rs:1053, "Remove old preedit/selection": the text being         *)
(* composed is the text at the cursor.                                         *)
ComposesAtTheCursor ==
    LET at == CursorToByte(buffer, caret)
    IN  imePreedit # <<>> =>
            \E n \in 0..(Len(buffer) - Len(imePreedit)) :
                /\ Bytes(Prefix(buffer, n)) = at /\ caret = ByteToCursor(buffer, at)
                /\ SubSeq(buffer, n + 1, n + Len(imePreedit)) = imePreedit
==============================================================================
