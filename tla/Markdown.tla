------------------------------- MODULE Markdown -------------------------------
(***************************************************************************)
(* How a reply is shown (ui/markdown.c).                                   *)
(*                                                                         *)
(* md4c reads the reply and calls back for every block and span it enters  *)
(* and leaves and for every piece of text.  Which calls it makes is free,  *)
(* but they nest as CommonMark's blocks do: `open' is what is open.  The   *)
(* renderer prints text at once, or gathers it until an image, a code      *)
(* block or a table is left.  A piece of text is its number, one column    *)
(* wide; `out' is what has been printed of them.  Colours, frames, blank   *)
(* lines and the targets of links are left out; the markers of list items  *)
(* are not.                                                                *)
(***************************************************************************)
EXTENDS Integers, Sequences, SequencesExt, FiniteSets

CONSTANTS
  MaxLists,    \* how deep lists are numbered: 16
  MaxRows,     \* MD_TABLE_MAX_ROWS
  MaxCols,     \* MD_TABLE_MAX_COLS
  CellMax,     \* what a cell holds: MD_TABLE_CELL_MAX
  CodeMax,     \* what a code block holds: MD_CODE_TEXT_MAX
  AltMax,      \* what image_alt holds
  CodeWidths,  \* the least and the greatest inner width of a code box: 24, 96
  TableLeast,  \* the least width of a table: 24
  ColLeast,    \* a column is made at least this wide: 3
  ColFloor,    \* and not made narrower than this to fit: 8
  Columns,     \* terminal_columns()
  MaxEnters,   \* bound: blocks and spans entered
  MaxTexts     \* bound: pieces of text

ASSUME MarkdownAssumption ==
  /\ {MaxLists, MaxRows, MaxCols, CellMax, CodeMax, AltMax, TableLeast, ColLeast, ColFloor,
      Columns, MaxEnters, MaxTexts} \subseteq Nat
  /\ CodeWidths \in Nat \X Nat
  /\ ColLeast > 0 /\ MaxRows > 0 /\ MaxCols > 0

VARIABLES
  open,     \* md4c: the blocks and spans it is in, each with which it is of its kind
  entered,  \* md4c: how many it has entered
  fed,      \* md4c: pieces of text handed over
  excused,  \* pieces there is no room for: in the arrays, or the width of a box or table
  tangled,  \* an image's text has held a link or an image
  r,        \* MdRender
  out,      \* the pieces printed
  marks     \* the markers printed: for which list and item, and with which number

replyVars == <<open, entered, fed, excused, tangled, r, out, marks>>

Lists == {"UL", "OL"}
Cells == {"TH", "TD"}
Spans == {"EM", "CODESPAN", "A", "IMG"}   \* STRONG and DEL are as EM.

\* What md4c may enter inside what.  A tight item holds text without a paragraph.
Blocks == {"QUOTE", "UL", "OL", "P", "H", "HR", "CODE", "TABLE"}
Inside(t) ==
  CASE t \in {"DOC", "QUOTE", "LI"}         -> Blocks
    [] t \in Lists                          -> {"LI"}
    [] t = "TABLE"                          -> {"THEAD", "TBODY"}
    [] t = "THEAD" \/ t = "TBODY"           -> {"TR"}
    [] t = "TR"                             -> Cells
    [] t \in {"P", "H", "TH", "TD"}         -> Spans
    [] t \in Spans \ {"CODESPAN"}           -> Spans
    [] OTHER                                -> {}

\* A newline in a code block, or what is put into a cell beside its text.
Filler == 0
------------------------------------------------------------------------------
(***************************************************************************)
(* Faults, each standing in for the operator named in its comment.         *)
(***************************************************************************)
\* RowEntered, without starting at the first cell.
RowContinued(m) == [m EXCEPT !.rowIsHeader = m.inHead]

\* ListEntered, where only the first list starts the count.
ListContinued(m, ordered, start) ==
  [m EXCEPT !.ordered[m.listDepth + 1] = ordered, !.listDepth = @ + 1]
------------------------------------------------------------------------------
(***************************************************************************)
(* What md4c is in.                                                        *)
(***************************************************************************)
In(types) == \E i \in DOMAIN open : open[i].type \in types
Innermost(types) ==
  open[CHOOSE i \in DOMAIN open :
         open[i].type \in types /\ \A j \in DOMAIN open : j > i => open[j].type \notin types]
Top == Last(open)

(***************************************************************************)
(* The renderer: each operator gives the renderer after the call.          *)
(***************************************************************************)
NoCells == [row \in 1..MaxRows |-> [col \in 1..MaxCols |-> <<>>]]

FreshRender ==
  [quoteDepth |-> 0, listDepth |-> 0,
   ordered |-> [d \in 1..MaxLists |-> FALSE], item |-> [d \in 1..MaxLists |-> 0],
   pending |-> FALSE, gap |-> FALSE, atStart |-> TRUE,
   inCode |-> FALSE, code |-> <<>>,
   inTable |-> FALSE, inHead |-> FALSE, inCell |-> FALSE, rowIsHeader |-> FALSE,
   row |-> 0, cell |-> 0, cols |-> 0, cells |-> NoCells,
   mode |-> "none", alt |-> <<>>]

Newline(m) == [m EXCEPT !.atStart = TRUE]

EnsureLineStart(m) == IF m.atStart THEN m ELSE Newline(m)

MaybeBlockGap(m) == IF m.gap THEN [Newline(m) EXCEPT !.gap = FALSE] ELSE m

\* start_line prints a marker.
Marks(m) == m.atStart /\ m.pending

Numbered(m) == m.listDepth <= MaxLists /\ m.ordered[m.listDepth]

StartLine(m) ==
  IF ~m.atStart THEN m
  ELSE IF Marks(m) /\ Numbered(m)
    THEN [m EXCEPT !.item[m.listDepth] = @ + 1, !.pending = FALSE, !.atStart = FALSE]
    ELSE [m EXCEPT !.pending = FALSE, !.atStart = FALSE]

\* The marker for the item md4c is in, if a line that starts now gets one.
MarkOf(m) ==
  IF Marks(m)
    THEN <<[list |-> Innermost(Lists).nth, item |-> Innermost({"LI"}).nth,
            start |-> Innermost(Lists).start,
            number |-> IF Numbered(m) THEN m.item[m.listDepth] ELSE 0]>>
    ELSE <<>>

AtMost(a, b) == IF a < b THEN a ELSE b
AtLeast(a, b) == IF a > b THEN a ELSE b

\* table_append: as much of the text as the cell still holds.
CellTaken(m) == m.row < MaxRows /\ m.cell < MaxCols
TableAppend(m, s) ==
  IF CellTaken(m)
    THEN [m EXCEPT !.cells[m.row + 1][m.cell + 1] =
                     SubSeq(@ \o s, 1, AtMost(CellMax, Len(@) + Len(s)))]
    ELSE m

\* Where print_render_text puts text.
Gathered(m) ==
  CASE m.mode = "alt"            -> "alt"
    [] m.mode # "alt" /\ m.inCode -> "code"
    [] m.mode # "alt" /\ ~m.inCode /\ m.inTable /\ m.inCell -> "cell"
    [] OTHER                     -> "line"

\* print_render_text.
PrintText(m, p) ==
  CASE Gathered(m) = "alt"  -> IF Len(m.alt) < AltMax THEN [m EXCEPT !.alt = Append(@, p)] ELSE m
    [] Gathered(m) = "code" -> IF Len(m.code) < CodeMax THEN [m EXCEPT !.code = Append(@, p)] ELSE m
    [] Gathered(m) = "cell" -> TableAppend(m, <<p>>)
    [] Gathered(m) = "line" -> StartLine(m)

Pieces(s) ==
  LET kept[i \in 0..Len(s)] ==
        IF i = 0 THEN <<>>
        ELSE IF s[i] = Filler THEN kept[i - 1] ELSE Append(kept[i - 1], s[i])
  IN  kept[Len(s)]

\* current_indent_width, code_inner_width.
Indent(m) == 2 * m.quoteDepth + 2 * m.listDepth
CodeWidth(m) == AtMost(AtLeast(Columns - Indent(m) - 4, CodeWidths[1]), CodeWidths[2])

\* The pieces of the code that its box has room for: the first of each line.
InBox(m) ==
  LET column[i \in DOMAIN m.code] ==
        IF m.code[i] = Filler THEN 0 ELSE 1 + IF i = 1 THEN 0 ELSE column[i - 1]
      kept == {i \in DOMAIN m.code : column[i] <= CodeWidth(m)}
  IN  Pieces([i \in DOMAIN m.code |-> IF i \in kept THEN m.code[i] ELSE Filler])

\* The columns' widths in render_table: those of their longest cells, the widest
\* made narrower until the table fits.
Widths(m) ==
  LET need == [c \in 1..m.cols |->
                 LET longest[row \in 0..m.row] ==
                       IF row = 0 THEN ColLeast
                       ELSE AtLeast(longest[row - 1], Len(m.cells[row][c]))
                 IN  longest[m.row]]
      total(w) == 1 + FoldFunction(LAMBDA a, b : a + 3 + b, 0, w)
      limit == AtLeast(Columns - Indent(m), TableLeast)
      widest(w) == CHOOSE c \in 1..m.cols :
                     /\ \A d \in 1..m.cols : w[d] <= w[c]
                     /\ \A d \in 1..(c - 1) : w[d] < w[c]
      shrink[n \in 0..(MaxCols * CellMax)] ==
        IF n = 0 THEN need
        ELSE LET w == shrink[n - 1]
             IN  IF total(w) > limit /\ w[widest(w)] > ColFloor
                   THEN [w EXCEPT ![widest(w)] = @ - 1] ELSE w
  IN  shrink[MaxCols * CellMax]

\* What render_table shows: row by row, each cell cut to its column.
InTable(m) ==
  LET w == Widths(m)
      shown(row) == FlattenSeq([c \in 1..m.cols |->
                      SubSeq(m.cells[row][c], 1, AtMost(w[c], Len(m.cells[row][c])))])
  IN  IF m.row = 0 \/ m.cols = 0 THEN <<>>
      ELSE Pieces(FlattenSeq([row \in 1..m.row |-> shown(row)]))

\* The pieces in the rows and columns of the table, and in its cells.
TableText(m) == UNION {ToSet(Pieces(m.cells[row][col])) : row \in 1..m.row, col \in 1..m.cols}
CellText(m) == UNION {ToSet(m.cells[row][col]) : row \in 1..MaxRows, col \in 1..MaxCols}

\* enter_block, by the block's kind.
ListEntered(m, ordered, start) ==
  IF m.listDepth < MaxLists
    THEN [m EXCEPT !.ordered[m.listDepth + 1] = ordered, !.item[m.listDepth + 1] = AtLeast(start, 1),
                   !.listDepth = @ + 1]
    ELSE [m EXCEPT !.listDepth = @ + 1]

RowEntered(m) == [m EXCEPT !.cell = 0, !.rowIsHeader = m.inHead]

BlockEntered(m, type, start) ==
  LET g == MaybeBlockGap(m)
  IN  CASE type = "QUOTE"  -> [g EXCEPT !.quoteDepth = @ + 1]
        [] type \in Lists  -> ListEntered(g, type = "OL", start)
        [] type = "LI"     -> [EnsureLineStart(m) EXCEPT !.pending = TRUE]
        [] type = "H"      -> [g EXCEPT !.atStart = FALSE]
        [] type = "HR"     -> [Newline(g) EXCEPT !.gap = TRUE]
        [] type = "CODE"   -> [g EXCEPT !.inCode = TRUE, !.code = <<>>]
        [] type = "TABLE"  -> [g EXCEPT !.cells = NoCells, !.inTable = TRUE, !.row = 0,
                                        !.cell = 0, !.cols = 0]
        [] type = "THEAD"  -> [m EXCEPT !.inHead = TRUE]
        [] type = "TR"     -> RowEntered(m)
        [] type \in Cells  -> [m EXCEPT !.inCell = TRUE]
        [] type = "P"      -> g
        [] OTHER           -> m

\* leave_block.  A table or a code block is drawn as it is left.
Drawn(m, type) ==
  IF type = "CODE" \/ (type = "TABLE" /\ m.row > 0 /\ m.cols > 0)
    THEN Newline(StartLine(m)) ELSE m

BlockLeft(m, type) ==
  CASE type = "DOC"   -> EnsureLineStart(m)
    [] type = "QUOTE" -> [m EXCEPT !.quoteDepth = @ - 1, !.gap = TRUE]
    [] type \in Lists -> [m EXCEPT !.listDepth = @ - 1, !.gap = m.listDepth = 1]
    [] type = "LI"    -> [EnsureLineStart(m) EXCEPT !.pending = FALSE]
    [] type = "H"     -> [Newline(m) EXCEPT !.gap = TRUE]
    [] type = "CODE"  -> [Drawn(m, type) EXCEPT !.code = <<>>, !.inCode = FALSE, !.gap = TRUE]
    [] type = "P"     -> [EnsureLineStart(m) EXCEPT !.gap = m.listDepth = 0 /\ m.quoteDepth = 0]
    [] type = "TABLE" -> [Drawn(m, type) EXCEPT !.inTable = FALSE, !.inHead = FALSE,
                                                !.inCell = FALSE, !.gap = TRUE]
    [] type = "TR"    -> IF m.row < MaxRows
                           THEN [m EXCEPT !.cols = AtLeast(@, m.cell), !.row = @ + 1] ELSE m
    [] type \in Cells -> [m EXCEPT !.inCell = FALSE, !.cell = AtMost(@ + 1, MaxCols)]
    [] type = "THEAD" -> [m EXCEPT !.inHead = FALSE]
    [] OTHER          -> m

\* enter_span and leave_span.  Code in a cell is put between back quotes.
SpanEntered(m, type) ==
  CASE type = "A"   -> [m EXCEPT !.mode = "link"]
    [] type = "IMG" -> [m EXCEPT !.mode = "alt", !.alt = <<>>]
    [] type = "CODESPAN" /\ m.inTable /\ m.inCell -> TableAppend(m, <<Filler>>)
    [] OTHER        -> m

SpanLeft(m, type) ==
  LET inCell == m.inTable /\ m.inCell
  IN  CASE type = "A"   -> [IF inCell THEN TableAppend(m, <<Filler>>) ELSE m EXCEPT !.mode = "none"]
        [] type = "IMG" -> [IF inCell THEN TableAppend(m, <<Filler>> \o m.alt) ELSE StartLine(m)
                              EXCEPT !.mode = "none", !.alt = <<>>]
        [] type = "CODESPAN" /\ inCell -> TableAppend(m, <<Filler>>)
        [] OTHER        -> m
------------------------------------------------------------------------------
(***************************************************************************)
(* The callbacks, as md4c makes them.                                      *)
(***************************************************************************)
\* No reply is being shown: everything is as it is before ui_print_markdown.
Idle == open = <<>>

ReplyInit ==
  /\ open = <<>> /\ entered = 0 /\ fed = 0 /\ excused = {} /\ tangled = FALSE
  /\ r = FreshRender /\ out = <<>> /\ marks = <<>>

Node(type, tight, start) ==
  [type |-> type, tight |-> tight, start |-> start, nth |-> entered, rows |-> 0]

\* ui_print_markdown and the document's first callback.
Begin ==
  /\ Idle /\ entered = 0
  /\ open' = <<Node("DOC", FALSE, 0)>> /\ entered' = 1
  /\ UNCHANGED <<fed, excused, tangled, r, out, marks>>

\* The n-th row of its table, the n-th cell of its row: counted in what holds it.
Counted(type) ==
  CASE type = "TR"    -> [i \in DOMAIN open |-> IF open[i].type = "TABLE"
                                                THEN [open[i] EXCEPT !.rows = @ + 1] ELSE open[i]]
    [] type \in Cells -> [open EXCEPT ![Len(open)].rows = @ + 1]
    [] OTHER          -> open

EnterBlock(type, tight, start) ==
  /\ ~Idle /\ entered < MaxEnters
  /\ type \in Inside(Top.type) \ Spans
  /\ type = "P" => ~Top.tight
  /\ type = "THEAD" => Top.rows = 0
  /\ type \in Cells => (type = "TH") = In({"THEAD"})
  /\ tight => type \in Lists \/ (type = "LI" /\ Top.tight)
  /\ type = "LI" => tight = Top.tight
  /\ start # 0 => type = "OL"
  /\ entered' = entered + 1
  /\ open' = Append(Counted(type), Node(type, tight, start))
  /\ r' = BlockEntered(r, type, start)
  /\ UNCHANGED <<fed, excused, tangled, out, marks>>

\* The code is boxed, or shown as it is if it draws a box itself.
LeaveBlock(art) ==
  LET type == Top.type
      lost == IF type = "CODE" /\ ~art THEN ToSet(Pieces(r.code)) \ ToSet(InBox(r))
              ELSE IF type = "TABLE" THEN TableText(r) \ ToSet(InTable(r)) ELSE {}
  IN  /\ ~Idle /\ type \notin Spans
      /\ art => type = "CODE" /\ Pieces(r.code) # <<>>
      /\ out' = out \o CASE type = "CODE"  -> IF art THEN Pieces(r.code) ELSE InBox(r)
                         [] type = "TABLE" -> InTable(r)
                         [] OTHER          -> <<>>
      /\ marks' = marks \o IF Drawn(r, type) # r THEN MarkOf(r) ELSE <<>>
      /\ excused' = excused \cup lost
      /\ r' = BlockLeft(r, type)
      /\ open' = Front(open)
      /\ UNCHANGED <<entered, fed, tangled>>

\* Spans are where text is: in a paragraph, a heading, a cell or a tight item.
HoldsText == Spans \subseteq Inside(Top.type) \/ (Top.type = "LI" /\ Top.tight)

EnterSpan(type) ==
  /\ ~Idle /\ entered < MaxEnters
  /\ HoldsText
  /\ type = "A" => ~In({"A"})
  /\ entered' = entered + 1
  /\ open' = Append(open, Node(type, FALSE, 0))
  /\ tangled' = (tangled \/ (In({"IMG"}) /\ type \in {"A", "IMG"}))
  /\ r' = SpanEntered(r, type)
  /\ UNCHANGED <<fed, excused, out, marks>>

LeaveSpan ==
  LET image == Top.type = "IMG" /\ ~(r.inTable /\ r.inCell)
  IN  /\ ~Idle /\ Top.type \in Spans
      /\ r' = SpanLeft(r, Top.type)
      /\ open' = Front(open)
      /\ out' = out \o IF image THEN r.alt ELSE <<>>
      /\ marks' = marks \o IF image THEN MarkOf(r) ELSE <<>>
      /\ excused' = excused \cup
           IF Top.type = "IMG" /\ ~image THEN ToSet(r.alt) \ CellText(r') ELSE {}
      /\ UNCHANGED <<entered, fed, tangled>>

\* Beyond the limits on the rows, the columns and the text held.
NoRoom ==
  CASE Gathered(r) = "alt"  -> Len(r.alt) >= AltMax
    [] Gathered(r) = "code" -> Len(r.code) >= CodeMax
    [] Gathered(r) = "cell" -> \/ Innermost({"TABLE"}).rows > MaxRows
                               \/ Innermost({"TR"}).rows > MaxCols
                               \/ CellTaken(r) /\ Len(r.cells[r.row + 1][r.cell + 1]) >= CellMax
    [] Gathered(r) = "line" -> FALSE

Text ==
  /\ ~Idle /\ fed < MaxTexts
  /\ (HoldsText \/ Top.type \in {"CODE", "CODESPAN"})
  /\ fed' = fed + 1
  /\ r' = PrintText(r, fed')
  /\ out' = IF Gathered(r) = "line" THEN Append(out, fed') ELSE out
  /\ marks' = marks \o IF Gathered(r) = "line" THEN MarkOf(r) ELSE <<>>
  /\ excused' = IF NoRoom THEN excused \cup {fed'} ELSE excused
  /\ UNCHANGED <<open, entered, tangled>>

\* A line break, soft or hard, or a newline of a code block.
Break ==
  /\ ~Idle /\ (HoldsText \/ Top.type = "CODE")
  /\ r' = IF Top.type = "CODE" THEN PrintText(r, Filler)
          ELSE IF r.inTable /\ r.inCell THEN TableAppend(r, <<Filler>>)
          ELSE Newline(r)
  /\ r' # r
  /\ UNCHANGED <<open, entered, fed, excused, tangled, out, marks>>

ReplyNext ==
  \/ Begin
  \/ \E type \in Blocks \cup {"LI", "THEAD", "TBODY", "TR", "TH", "TD"}, tight \in BOOLEAN,
        start \in {0, 4} : EnterBlock(type, tight, start)
  \/ \E art \in BOOLEAN : LeaveBlock(art)
  \/ \E type \in Spans : EnterSpan(type)
  \/ LeaveSpan \/ Text \/ Break

ReplySpec == ReplyInit /\ [][ReplyNext]_replyVars
------------------------------------------------------------------------------
(***************************************************************************)
(* Properties.                                                             *)
(***************************************************************************)
ReplyShown == Idle /\ entered > 0

\* When a reply has been shown, every piece of its text has been printed once,
\* in the order it has in the reply, wherever it was gathered in between - but
\* for what exceeds the rows, columns, cells, code and alternative texts the
\* renderer has room for, what the width of a box or table cuts, and for images
\* whose text holds links or images (markdown.c:235-258, 268-276,
\* 349-397, 512-538, 620-703, 872-886).
NothingLost ==
  ReplyShown /\ ~tangled =>
    /\ \A i, j \in DOMAIN out : i < j => out[i] < out[j]
    /\ ToSet(out) \cup excused = 1..fed

\* However lists are nested, and whatever else stands between their items, an item
\* has at most one marker, and those of an ordered list count up one by one from
\* its start (from 1 where it starts at 0), as long as lists are nested no deeper
\* than the renderer counts (markdown.c:489-510, 549-570, 651-661).
ItemsCounted ==
  \A i \in DOMAIN marks :
    LET same == {j \in DOMAIN marks : j < i /\ marks[j].list = marks[i].list}
    IN  /\ \A j \in same : marks[j].item # marks[i].item
        /\ marks[i].number # 0 => marks[i].number = AtLeast(marks[i].start, 1) + Cardinality(same)
==============================================================================
