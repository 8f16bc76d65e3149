--------------------------------- MODULE Vga ---------------------------------
(***************************************************************************)
(* The text screen (devices/vga.c): cx, cy is the cursor, fb the rows of   *)
(* the frame buffer.  A written character is represented by its number in  *)
(* the text, a control character by its name.  A bell turns interrupts     *)
(* on for the beep and leaves the screen alone.  The position of the       *)
(* cursor the hardware shows is cx + COL_CNT * cy (move_cursor).           *)
(***************************************************************************)
EXTENDS Integers, SequencesExt, FiniteSetsExt

CONSTANTS COL_CNT, ROW_CNT,
          TAB          \* distance of the tab stops

BLANK == 0
BlankRow == [x \in 0..COL_CNT - 1 |-> BLANK]

(* init and find_cursor: the screen as the machine left it.                 *)
init(fb, cp) == [fb |-> fb, cx |-> cp % COL_CNT, cy |-> cp \div COL_CNT]

clear_row(fb, y) == [fb EXCEPT ![y] = BlankRow]

cls(s) == [fb |-> FoldLeft(clear_row, s.fb, [i \in 1..ROW_CNT |-> i - 1]), cx |-> 0, cy |-> 0]

newline(s) ==
  IF s.cy + 1 < ROW_CNT THEN [s EXCEPT !.cx = 0, !.cy = @ + 1]
  ELSE [cx |-> 0, cy |-> ROW_CNT - 1,
        fb |-> clear_row([y \in 0..ROW_CNT - 1 |-> s.fb[Min({y + 1, ROW_CNT - 1})]], ROW_CNT - 1)]

ROUND_UP(x, step) == ((x + step - 1) \div step) * step

Wrap(s) == IF s.cx >= COL_CNT THEN newline(s) ELSE s

vga_putc(s, c) ==
  CASE c[1] = "LF" -> newline(s)
    [] c[1] = "FF" -> cls(s)
    [] c[1] = "BS" -> IF s.cx > 0 THEN [s EXCEPT !.cx = @ - 1] ELSE s
    [] c[1] = "CR" -> [s EXCEPT !.cx = 0]
    [] c[1] = "HT" -> Wrap([s EXCEPT !.cx = ROUND_UP(@ + 1, TAB)])
    [] c[1] = "BEL" -> s
    [] OTHER -> Wrap([s EXCEPT !.fb[s.cy][s.cx] = c[2], !.cx = @ + 1])

-----------------------------------------------------------------------------
(* The same text on a page without end.                                     *)
PageLine(p) == [p EXCEPT !.row = @ + 1, !.col = 0]
PageCol(p, x) == IF x < COL_CNT THEN [p EXCEPT !.col = x] ELSE PageLine(p)
PagePut(p, c) ==
  CASE c[1] = "LF" -> PageLine(p)
    [] c[1] = "FF" -> [row |-> 0, col |-> 0, cells |-> {}]
    [] c[1] = "BS" -> [p EXCEPT !.col = Max({@ - 1, 0})]
    [] c[1] = "CR" -> [p EXCEPT !.col = 0]
    [] c[1] = "HT" -> PageCol(p, CHOOSE x \in p.col + 1 .. p.col + TAB : x % TAB = 0)
    [] c[1] = "BEL" -> p
    [] OTHER ->
         LET here == {q \in p.cells : q[1] = p.row /\ q[2] = p.col}
         IN  PageCol([p EXCEPT !.cells = (@ \ here) \cup {<<p.row, p.col, c[2]>>}], p.col + 1)

(* The screen shows the last ROW_CNT rows of the text, with every character *)
(* where it belongs: wrapping, tabs and the scrolling of newline keep the   *)
(* cursor on the screen.                                                    *)
ScreenRight(fb, cp, text) ==
  LET s == FoldLeft(vga_putc, init(fb, cp), text)
      old == {<<y, x, fb[y][x]>> : y \in 0..ROW_CNT - 1, x \in 0..COL_CNT - 1}
      p == FoldLeft(PagePut, [row |-> cp \div COL_CNT, col |-> cp % COL_CNT, cells |-> old], text)
      top == Max({p.row - ROW_CNT + 1, 0})
      shown == {q \in p.cells : q[1] >= top}
  IN  /\ s.cx = p.col /\ s.cx < COL_CNT
      /\ top + s.cy = p.row /\ s.cy < ROW_CNT
      /\ \A y \in 0..ROW_CNT - 1, x \in 0..COL_CNT - 1 :
           s.fb[y][x] = IF \E q \in shown : q[1] = top + y /\ q[2] = x
                        THEN (CHOOSE q \in shown : q[1] = top + y /\ q[2] = x)[3] ELSE BLANK
=============================================================================
