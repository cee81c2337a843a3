--------------------------- MODULE TerminalScreen ---------------------------
(* What the terminal's content (seoul-vt terminal.rs, selection.rs) keeps of  *)
(* the emulator's screen, row by row as rows get dirty; the links found in    *)
(* it, of URLs and of OSC 8 texts; what a selection copies; and the runs that *)
(* the view paints from (terminal_render_cache.rs). A token of the output is  *)
(* a character, a line feed "nl", a charset sequence "(B", the opening of a   *)
(* hyperlink (its target) or "end". "w" is two columns wide, "U" is a URL's   *)
(* scheme, "." is what is cut off at the end of a URL. Columns count from 0.  *)
EXTENDS Integers, SequencesExt

CONSTANTS
    MaxCols, Heights,  \* a resize may give 2 to MaxCols columns, and these heights
    Chunks,          \* the batches of output, "B" no character (bounds of the model)
    LinkTargets,     \* the targets of hyperlinks
    MaxCandidates,   \* hyperlinks that the tracker remembers, 2048
    MaxReads, MaxScrolls  \* bounds of the model

ASSUME ScreenAssumption ==
    /\ MaxCols \in Nat /\ MaxCols > 1 /\ Heights \subseteq Nat \ {0}
    /\ \A chunk \in Chunks : chunk \in Seq(STRING) /\ {"tail", "head", "B"} \cap Range(chunk) = {}
    /\ {MaxCandidates, MaxReads, MaxScrolls} \subseteq Nat

VARIABLES
    printed,   \* every character and line feed, in order
    inks,      \* of each the hyperlink it was printed with
    lines,     \* the emulator's lines, of each its cells, whether it wraps, and
               \* the number of the line feed that ended it (history), 0: none
    pen,       \* the hyperlink of the next cell, <<>> is none
    pin,       \* the line on top of a viewport scrolled up; 0: at the bottom
    cols, rows,  \* the size of the emulator, and of last_content's terminal_bounds
    moved,     \* the viewport moved, or was resized, since the last sync
    tracker,   \* TerminalHyperlinkTracker: the open link and the finished ones
    content,   \* last_content: rows of cells, which of them wrap, and links
    generation, dirtyRows,  \* last_content's, for the render cache
    painted,   \* the rows of the render cache, and the generation they are of
    synced,    \* the emulator's lines and columns at the last sync (history)
    reads, scrolls  \* counters, for the bounds

emulatorVars == <<printed, inks, lines, pen, pin, cols, rows, moved, tracker>>
contentVars == <<content, generation, dirtyRows, synced>>
screenVars == <<emulatorVars, contentVars, painted, reads, scrolls>>

(* A cell has its character, its link and its number among the printed; a     *)
(* blank cell and the column a wide character leaves or takes have none.      *)
Blank == [ch |-> " ", link |-> <<>>, nr |-> 0]
SpacerTail == [Blank EXCEPT !.ch = "tail"]
SpacerHead == [Blank EXCEPT !.ch = "head"]
CellWidth(cell) == IF cell.ch = "w" THEN 2 ELSE 1
NewLine == [cells |-> <<>>, wraps |-> FALSE, ended |-> 0]

ScreenInit ==
    /\ printed = <<>> /\ inks = <<>> /\ lines = <<NewLine>> /\ pen = <<>>
    /\ pin = 0 /\ cols \in 2..MaxCols /\ rows \in Heights /\ moved = TRUE
    /\ tracker = [active |-> <<>>, candidates |-> <<>>]
    /\ content = [rows |-> <<>>, wraps |-> <<>>, links |-> <<>>]
    /\ generation = 0 /\ dirtyRows = {} /\ synced = [lines |-> lines, cols |-> cols]
    /\ painted = [rows |-> <<>>, generation |-> 0] /\ reads = 0 /\ scrolls = 0

-----------------------------------------------------------------------------
(* The tracker reads the output on its own, byte by byte: of "ESC ( B" it     *)
(* takes the B for text.                                                      *)
AppendActive(t, ch) ==
    IF t.active = <<>> THEN t ELSE [t EXCEPT !.active[1].text = Append(@, ch)]

FinishActive(t) ==
    LET full == Len(t.candidates) = MaxCandidates IN
    IF t.active = <<>> \/ t.active[1].text = <<>> THEN [t EXCEPT !.active = <<>>]
    ELSE [active |-> <<>>,
          candidates |-> Append(IF full THEN Tail(t.candidates) ELSE t.candidates, t.active[1])]

Observe(t, token) ==
    CASE token = "end"      -> FinishActive(t)
      [] token \in LinkTargets  -> [FinishActive(t) EXCEPT !.active = <<[uri |-> <<token>>, text |-> <<>>]>>]
      [] token = "(B"       -> AppendActive(t, "B")
      [] OTHER              -> AppendActive(t, token)

(* The emulator: a character goes to the next column, or wraps to a new line. *)
LineFeed(s) ==
    LET n == Len(s.lines) IN
    [s EXCEPT !.printed = Append(@, "nl"), !.inks = Append(@, <<>>),
              !.lines = Append([@ EXCEPT ![n].ended = Len(s.printed) + 1], NewLine)]

CellsFor(s, token) ==
    LET cell == [ch |-> token, link |-> s.pen, nr |-> Len(s.printed) + 1]
    IN IF token = "w" THEN <<cell, SpacerTail>> ELSE <<cell>>

Prints(s, token) ==
    LET n == Len(s.lines)
        full == s.lines[n].cells
        new == CellsFor(s, token)
        left == IF Len(full) < s.cols THEN <<SpacerHead>> ELSE <<>>
        fits == Len(full) + Len(new) <= s.cols
    IN [s EXCEPT !.printed = Append(@, token), !.inks = Append(@, s.pen),
                 !.dirty = @ \cup IF fits THEN {n} ELSE {n, n + 1},
                 !.lines = IF fits THEN [@ EXCEPT ![n].cells = full \o new]
                           ELSE Append([@ EXCEPT ![n] = [NewLine EXCEPT !.cells = full \o left,
                                                                        !.wraps = TRUE]],
                                       [NewLine EXCEPT !.cells = new])]

VtWrite(s, token) ==
    CASE token = "end"     -> [s EXCEPT !.pen = <<>>]
      [] token \in LinkTargets -> [s EXCEPT !.pen = <<token>>]
      [] token = "(B"      -> s
      [] token = "nl"      -> LineFeed(s)
      [] OTHER             -> Prints(s, token)

BottomTop(ls, height) == IF Len(ls) > height THEN Len(ls) - height + 1 ELSE 1
Top(ls, top, height) == IF top = 0 THEN BottomTop(ls, height) ELSE top

-----------------------------------------------------------------------------
(* Points in reading order.                                                   *)
Before(p, q) == p[1] < q[1] \/ (p[1] = q[1] /\ p[2] < q[2])
NoLater(p, q) == p = q \/ Before(p, q)
InOrder(points) ==
    LET before == [p \in points |-> Cardinality({q \in points : Before(q, p)})]
    IN  [i \in 1..Cardinality(points) |-> CHOOSE p \in points : before[p] = i - 1]

(* The cells of a content, without the spacers. A row is as wide as when it   *)
(* was copied (line_end_col).                                                 *)
LineEndCol(c, r) == Len(c.rows[r])
CellAt(c, p) == c.rows[p[1]][p[2] + 1]
Cells(c) ==
    {p \in (DOMAIN c.rows) \X (0..(MaxCols - 1)) :
         p[2] < LineEndCol(c, p[1]) /\ CellAt(c, p).ch \notin {"tail", "head"}}
CellsOf(c) == InOrder(Cells(c))
EndOf(c, p) == <<p[1], p[2] + CellWidth(CellAt(c, p))>>
TextOf(c, ps) == [i \in DOMAIN ps |-> CellAt(c, ps[i]).ch]

(* The maximal runs of neighbours: a run starts at a cell and goes on to the  *)
(* next one as long as that joins.                                            *)
Runs(ps, Starts(_), Joins(_, _)) ==
    FoldLeft(LAMBDA runs, i :
                 IF /\ runs # <<>> /\ i > 1 /\ Last(Last(runs)) = ps[i - 1]
                    /\ Joins(ps[i - 1], ps[i])
                 THEN Append(Front(runs), Append(Last(runs), ps[i]))
                 ELSE IF Starts(ps[i]) THEN Append(runs, <<ps[i]>>) ELSE runs,
             <<>>, [i \in DOMAIN ps |-> i])

(* detect_osc8_cell_groups: cells that have a link, whatever link it is.      *)
Osc8CellGroups(c) ==
    LET HasLink(p) == CellAt(c, p).link # <<>>
        CanExtend(p, q) ==
            /\ HasLink(q)
            /\ p[1] = q[1] \/ (EndOf(c, p)[2] = cols /\ c.wraps[p[1]])
    IN Runs(CellsOf(c), HasLink, CanExtend)

(* The links of one text are those that were printed last.                    *)
FirstPrinted(n, k) == 0  \* (a slip: those that were printed first)
LastPrinted(n, k) == IF n > k THEN n - k ELSE 0

Osc8Links(c, candidates) ==
    LET groups == Osc8CellGroups(c)
        Named(g) == SelectSeq(candidates, LAMBDA d : d.text = TextOf(c, groups[g]))
        Same(g) == {h \in DOMAIN groups : TextOf(c, groups[h]) = TextOf(c, groups[g])}
        Uri(g) ==  \* of each round of as many groups as there are candidates
            LET n == Len(Named(g))
                before == Cardinality({h \in Same(g) : h < g})
                round == (before \div n) * n
            IN Named(g)[before - round + 1 + LastPrinted(n, Cardinality(Same(g)) - round)].uri
        found == SelectSeq([g \in DOMAIN groups |-> g], LAMBDA g : Named(g) # <<>>)
    IN [i \in DOMAIN found |-> [uri |-> Uri(found[i]), cells |-> groups[found[i]]]]

(* detect_plain_links, in the text of rows that wrap into one another.        *)
PlainLinks(c) ==
    LET Scheme(p) == CellAt(c, p).ch = "U"
        GoesOn(p, q) == CellAt(c, q).ch # " " /\ (p[1] = q[1] \/ c.wraps[p[1]])
        matched == SelectSeq(Runs(CellsOf(c), Scheme, GoesOn), LAMBDA run : Len(run) > 1)
        Kept(run) == {i \in DOMAIN run : \E j \in i..Len(run) : CellAt(c, run[j]).ch # "."}
    IN [i \in DOMAIN matched |->
          LET kept == SubSeq(matched[i], 1, Cardinality(Kept(matched[i])))
          IN [uri |-> TextOf(c, kept), cells |-> kept]]

LinksOf(c, candidates) ==
    LET hidden == Osc8Links(c, candidates)
        Taken == UNION {Range(hidden[i].cells) : i \in DOMAIN hidden}
    IN hidden \o SelectSeq(PlainLinks(c), LAMBDA l : Range(l.cells) \cap Taken = {})

-----------------------------------------------------------------------------
(* sync copies the rows that are dirty, or all if the screen moved or has     *)
(* another height, and looks for links unless nothing is dirty at all.        *)
LineAt(ls, n) == IF n <= Len(ls) THEN ls[n] ELSE NewLine
Viewport(ls, n, width) ==
    [i \in 1..width |-> IF i <= Len(LineAt(ls, n).cells) THEN LineAt(ls, n).cells[i] ELSE Blank]

GeometryChanged == Len(content.rows) # rows'

(* The emulator has its new lines, pin and height; these lines were written.  *)
Sync(written, all) ==
    LET top     == Top(lines', pin', rows')
        full    == all \/ moved \/ GeometryChanged
        touched == {r \in 1..rows' : full \/ top + r - 1 \in written}
        copied  == [content EXCEPT
            !.rows  = [r \in 1..rows' |-> IF r \in touched THEN Viewport(lines', top + r - 1, cols) ELSE @[r]],
            !.wraps = [r \in 1..rows' |-> IF r \in touched THEN LineAt(lines', top + r - 1).wraps ELSE @[r]]]
    IN /\ content' = IF written = {} /\ ~full THEN content
                     ELSE [copied EXCEPT !.links = LinksOf(copied, tracker'.candidates)]
       /\ dirtyRows' = touched
       /\ generation' = IF touched # {} THEN generation + 1 ELSE generation
       /\ moved' = FALSE /\ synced' = [lines |-> lines', cols |-> cols]
       /\ UNCHANGED <<cols, painted>>

(* The drain task feeds a batch to the terminal and syncs.                    *)
Written(chunk) ==
    LET state[i \in 0..Len(chunk)] ==
            IF i = 0 THEN [printed |-> printed, inks |-> inks, lines |-> lines, pen |-> pen,
                           cols |-> cols, dirty |-> {}]
            ELSE VtWrite(state[i - 1], chunk[i])
    IN  state[Len(chunk)]

FeedPtyData(chunk) ==
    LET s == Written(chunk) IN
    /\ reads < MaxReads /\ reads' = reads + 1
    /\ printed' = s.printed /\ inks' = s.inks /\ lines' = s.lines /\ pen' = s.pen
    /\ tracker' = FoldLeft(Observe, tracker, chunk)
    /\ UNCHANGED <<pin, rows, scrolls>>
    /\ Sync(s.dirty, Top(s.lines, pin, rows) # Top(lines, pin, rows))

(* The wheel moves the viewport by a line and syncs. Typing brings it to the  *)
(* bottom, which the echo's sync shows.                                       *)
UserMoves ==
    /\ scrolls < MaxScrolls /\ scrolls' = scrolls + 1
    /\ UNCHANGED <<printed, inks, pen, tracker, reads>>

ScrollLine ==
    LET top == Top(lines, pin, rows)
        bottom == BottomTop(lines, rows) IN
    \E t \in {top - 1, top + 1} \cap 1..bottom :
        /\ UserMoves /\ pin' = (IF t = bottom THEN 0 ELSE t) /\ UNCHANGED <<lines, rows>>
        /\ Sync({}, TRUE)

ScrollDown ==
    /\ pin # 0 /\ UserMoves /\ pin' = 0 /\ moved' = TRUE
    /\ UNCHANGED <<lines, cols, rows, contentVars, painted>>

(* The emulator wraps its lines anew for another width: they are as if all    *)
(* had been printed at that width.                                            *)
Reflowed(width) ==
    LET state[i \in 0..Len(printed)] ==
            IF i = 0 THEN [printed |-> <<>>, inks |-> <<>>, lines |-> <<NewLine>>, pen |-> <<>>,
                           cols |-> width, dirty |-> {}]
            ELSE LET s == [state[i - 1] EXCEPT !.pen = inks[i]]
                 IN  IF printed[i] = "nl" THEN LineFeed(s) ELSE Prints(s, printed[i])
    IN  state[Len(printed)].lines

(* A resize sets terminal_bounds and the emulator's size, and does not sync:  *)
(* the rows copied before are shown until the next output or the wheel. The   *)
(* emulator keeps a viewport that is scrolled up near its text.               *)
ResizeScreen(width, height) ==
    /\ <<width, height>> # <<cols, rows>> /\ UserMoves /\ cols' = width /\ rows' = height
    /\ lines' = Reflowed(width) /\ moved' = TRUE
    /\ pin' \in {0} \cup IF pin = 0 THEN {} ELSE 1..(BottomTop(lines', height) - 1)
    /\ UNCHANGED <<contentVars, painted>>

(* render_terminal: the cache rebuilds the rows that the last sync found.     *)
Rebuilt ==
    LET other == Len(painted.rows) # Len(content.rows)
        skipped == painted.generation # generation /\ dirtyRows = {}
    IN {r \in DOMAIN content.rows : other \/ skipped \/ r \in dirtyRows}

Paint ==
    /\ painted' = [rows |-> [r \in DOMAIN content.rows |-> IF r \in Rebuilt THEN content.rows[r]
                                                           ELSE painted.rows[r]],
                   generation |-> generation]
    /\ UNCHANGED <<emulatorVars, contentVars, reads, scrolls>>

ScreenNext ==
    \/ \E chunk \in Chunks : FeedPtyData(chunk)
    \/ ScrollLine
    \/ ScrollDown
    \/ \E width \in 2..MaxCols, height \in Heights : ResizeScreen(width, height)
    \/ Paint

ScreenSpec == ScreenInit /\ [][ScreenNext]_screenVars

-----------------------------------------------------------------------------
(* A selection is of the points from its start to its end, its end excluded;  *)
(* of the rows before the last it has the columns of terminal_bounds.         *)
RowEnd(range, r) == IF r = range.end[1] THEN range.end[2] ELSE cols
RowStart(range, r) == IF r = range.start[1] THEN range.start[2] ELSE 0

(* collect_row_segment: the cells that meet the selected columns of a row.    *)
SelectedCells(c, range) ==
    {p \in Cells(c) : /\ p[1] \in range.start[1]..range.end[1]
                      /\ p[2] < RowEnd(range, p[1]) /\ RowStart(range, p[1]) < EndOf(c, p)[2]}

(* A row that wraps goes on in the next one.                                  *)
EndsNothing(c, r) == FALSE  \* (a slip: a row that wraps ends with a break)
GoesOn(c, r) == c.wraps[r]
EndedRows(c, range) == {r \in range.start[1]..(range.end[1] - 1) : ~GoesOn(c, r)}

(* The cells that are copied, without the blanks at the end of a row that     *)
(* ends, and a break for that end.                                            *)
Copied(c, range) ==
    LET cells == SelectedCells(c, range)
        ended == EndedRows(c, range)
        Trimmed(p) ==
            /\ p[1] \in ended
            /\ \A q \in cells : q[1] = p[1] /\ ~Before(q, p) => CellAt(c, q).ch = " "
    IN {p \in cells : ~Trimmed(p)} \cup {<<r, MaxCols>> : r \in ended}
SelectedText(c, range) ==
    LET ps == InOrder(Copied(c, range))
    IN [i \in DOMAIN ps |-> IF ps[i][2] = MaxCols THEN "nl" ELSE CellAt(c, ps[i]).ch]

(* word_range_at: the cells around a point up to the blanks of its row.       *)
WordAt(c, p) ==
    LET inRow == {q \in Cells(c) : q[1] = p[1]}
        under == {q \in inRow : q[2] <= p[2] /\ p[2] < EndOf(c, q)[2]}
        Solid(q, u) == \A k \in inRow : NoLater(q, k) /\ NoLater(k, u) => CellAt(c, k).ch # " "
        joined == {q \in inRow : \E u \in under : Solid(q, u) /\ Solid(u, q)}
        taken == IF \E u \in under : ~Solid(u, u) THEN under ELSE joined
    IN [start |-> CHOOSE q \in taken : \A k \in taken : NoLater(q, k),
        end |-> EndOf(c, CHOOSE q \in taken : \A k \in taken : NoLater(k, q)),
        found |-> under # {}]

Expanded(c, range, mode) ==
    LET active == IF range.end[2] > 0 THEN <<range.end[1], range.end[2] - 1>>
                  ELSE <<range.end[1] - 1, LineEndCol(c, range.end[1] - 1) - 1>>
        endRow == IF range.end[2] = 0 THEN range.end[1] - 1 ELSE range.end[1]
    IN CASE mode = "cell" -> range
         [] mode = "line" -> [start |-> <<range.start[1], 0>>, end |-> <<endRow, LineEndCol(c, endRow)>>]
         [] mode = "word" ->
              LET first == WordAt(c, range.start)
                  last  == WordAt(c, active)
              IN  [start |-> IF first.found THEN first.start ELSE range.start,
                   end |-> IF last.found THEN last.end ELSE range.end]

-----------------------------------------------------------------------------
(* What a copy from one printed character to another has to be.               *)
EndsALine(n) ==
    \E line \in Range(synced.lines) : \E k \in DOMAIN line.cells :
        /\ ~line.wraps /\ line.cells[k].nr = n
        /\ \A j \in k..Len(line.cells) : line.cells[j].ch = " "
Copyable(from, to) == {n \in from..to : ~EndsALine(n) \/ \A m \in n..to : printed[m] # "nl"}
WasPrinted(from, to) ==
    LET kept == InOrder({<<0, n>> : n \in Copyable(from, to)})
    IN [i \in DOMAIN kept |-> printed[kept[i][2]]]

Characters(c) == {p \in Cells(c) : CellAt(c, p).nr # 0}
CopiedAsPrinted(p, q) ==
    LET range == [start |-> p, end |-> EndOf(content, q)]
    IN  /\ SelectedText(content, range) = WasPrinted(CellAt(content, p).nr, CellAt(content, q).nr)
        /\ \A mode \in {"word", "line"} :
              LET wider == Expanded(content, range, mode)
              IN  NoLater(wider.start, p) /\ NoLater(range.end, wider.end)

(* Whatever is selected between two characters that are shown is copied as it *)
(* was printed: rows that only wrapped are joined, lines are not, a wide      *)
(* character comes once, and only the blanks that end the last row of a line  *)
(* are lost, with the line feed selected too; a selection of words or of      *)
(* lines contains it                                                          *)
(* (selected_text_for_selection over rows that sync copied one by one). It    *)
(* holds after a resize that no sync has followed, unless that made the       *)
(* screen narrower than the rows still shown and several are selected.        *)
CopiesWhatWasPrinted ==
    \A p, q \in Characters(content) :
        NoLater(p, q) /\ (p[1] = q[1] \/ synced.cols <= cols) => CopiedAsPrinted(p, q)

(* Disproved: so it is after every resize, the content being a "snapshot for  *)
(* rendering. Produced by Terminal::sync()" (TerminalContent). resize writes  *)
(* the new columns into it, and the copy loses those beyond them.             *)
CopiesWhatIsShown ==
    \A p, q \in Characters(content) : NoLater(p, q) => CopiedAsPrinted(p, q)

(* The tracker and the screen agree on the links on the screen: their texts   *)
(* are those of the last candidates. (No cell has a "B", so that a text with  *)
(* what the tracker took of a charset sequence is no text of the screen.)     *)
ReadsTheSame(c, t) ==
    LET groups == Osc8CellGroups(c)
        texts == [g \in DOMAIN groups |-> TextOf(c, groups[g])]
    IN IsSuffix(texts, [i \in DOMAIN t.candidates |-> t.candidates[i].text])

(* Links are found again whenever a row changes. At the bottom of the screen, *)
(* with every link finished and its text read alike by the tracker and the    *)
(* emulator, each opens the target it was printed with, even when one text    *)
(* was printed with several targets (detect_osc8_links tells them apart only  *)
(* by their order).                                                           *)
OpensItsTarget ==
    [][\/ generation' = generation
       \/ pin' # 0 \/ tracker'.active # <<>> \/ ~ReadsTheSame(content', tracker')
       \/ \A i \in DOMAIN content'.links :
             LET link == content'.links[i] IN
             CellAt(content', link.cells[1]).link \in {<<>>, link.uri}]_screenVars

(* Disproved: what is painted is the content, the cache having rebuilt the    *)
(* rows that changed (render_terminal's comment).                             *)
PaintsTheContent == [][Paint => painted'.rows = content.rows]_screenVars
=============================================================================
