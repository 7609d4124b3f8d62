------------------------------- MODULE Screen -------------------------------
(***************************************************************************)
(* The text screen of one terminal: putc, backspace, clear, reset_screen   *)
(* and the scrolling of lib.c, driven by the keys of getScancode           *)
(* (keyboard.c) and by the characters of terminal_write (terminal.c).      *)
(* putc_non_displayed is the same algorithm on the page of a terminal that *)
(* is not displayed.  Every step runs with interrupts disabled.            *)
(*                                                                         *)
(* The history variables hold what the user should see: an endless paper,  *)
(* of which the screen shows the last rows.                                *)
(***************************************************************************)
EXTENDS Integers, Sequences

CONSTANTS
  NUM_COLS, NUM_ROWS,   \* size of the screen
  KEYBOARD_BUF_SIZE,    \* size of the line buffer
  Chars,                \* printing characters
  Blank,                \* the space that clear and scrolling write
  MaxRows               \* bound: rows of paper before the screen is cleared

ASSUME ScreenAssumption ==
  /\ NUM_COLS \in Nat \ {0} /\ NUM_ROWS \in Nat \ {0}
  /\ KEYBOARD_BUF_SIZE \in Nat /\ KEYBOARD_BUF_SIZE >= 2
  /\ MaxRows \in Nat
  /\ Blank \notin Chars

\* A full line is shorter than the screen less one row.
ASSUME LineFitsAssumption == KEYBOARD_BUF_SIZE - 1 <= (NUM_ROWS - 1) * NUM_COLS

CellNums == 0 .. NUM_ROWS * NUM_COLS - 1
Cells == [CellNums -> Chars \cup {Blank}]

VARIABLES
  screen_x, screen_y,   \* the cursor
  video_mem,            \* the characters of the page
  cur_buf_size,         \* characters in the line buffer
  paper, at, top,       \* history: the paper, the place on it where the next
                        \* character goes, the row at the top of the screen
  line_start            \* history: where the echo of the line began, or NONE
                        \* when other output or Ctrl+L came after that

vars == <<screen_x, screen_y, video_mem, cur_buf_size, paper, at, top,
          line_start>>
NONE == -1

Init ==
  /\ screen_x = 0 /\ screen_y = 0
  /\ video_mem = [i \in CellNums |-> Blank]
  /\ cur_buf_size = 0
  /\ paper = <<>> /\ at = 0 /\ top = 0
  /\ line_start = 0

(***************************************************************************)
(* lib.c.                                                                  *)
(***************************************************************************)
Cursor == NUM_COLS * screen_y + screen_x

\* check_for_vertical_scroll: all rows move up, the last becomes blank.
KeepLastRow(m) ==
  [i \in CellNums |-> IF i + NUM_COLS \in CellNums THEN m[i + NUM_COLS]
                      ELSE m[i]]
Scrolled(m) ==
  [i \in CellNums |-> IF i + NUM_COLS \in CellNums THEN m[i + NUM_COLS]
                      ELSE Blank]

\* The cursor goes to the next row, and the page m scrolls under it when
\* that is past the last one.
PastLastRow == screen_y >= NUM_ROWS
LastRow == screen_y + 1 >= NUM_ROWS

NextRow(m) ==
  /\ screen_x' = 0
  /\ screen_y' = IF LastRow THEN NUM_ROWS - 1 ELSE screen_y + 1
  /\ video_mem' = IF LastRow THEN Scrolled(m) ELSE m

RowFull == screen_x + 1 >= NUM_COLS

putc(c) ==
  LET m == [video_mem EXCEPT ![Cursor] = c] IN
  IF RowFull THEN NextRow(m)
  ELSE /\ screen_x' = screen_x + 1
       /\ video_mem' = m
       /\ UNCHANGED screen_y

\* At the start of a row the last column of the row above is cleared.
LastColumn == NUM_COLS - 1

backspace ==
  IF screen_x = 0 /\ screen_y = 0
    THEN UNCHANGED <<screen_x, screen_y, video_mem>>
    ELSE /\ screen_x' = IF screen_x = 0 THEN LastColumn ELSE screen_x - 1
         /\ screen_y' = IF screen_x = 0 THEN screen_y - 1 ELSE screen_y
         /\ video_mem' = [video_mem EXCEPT ![NUM_COLS * screen_y' + screen_x'] =
                                             Blank]

(***************************************************************************)
(* The same on paper.                                                      *)
(***************************************************************************)
PaperAt(i) == IF i < Len(paper) THEN paper[i + 1] ELSE Blank

Write(i, c) ==
  paper' = [j \in 1 .. IF i < Len(paper) THEN Len(paper) ELSE i + 1 |->
              IF j = i + 1 THEN c ELSE PaperAt(j - 1)]

MoveTo(i) ==
  /\ i \div NUM_COLS < MaxRows
  /\ at' = i
  /\ top' = IF i \div NUM_COLS - top >= NUM_ROWS
              THEN i \div NUM_COLS - (NUM_ROWS - 1) ELSE top

PutOnPaper(c) == Write(at, c) /\ MoveTo(at + 1)
NewRowOnPaper == MoveTo((at \div NUM_COLS + 1) * NUM_COLS) /\ UNCHANGED paper

\* What is off the screen cannot be erased.
EraseOnPaper ==
  IF at = top * NUM_COLS THEN UNCHANGED <<paper, at, top>>
  ELSE Write(at - 1, Blank) /\ at' = at - 1 /\ UNCHANGED top

(***************************************************************************)
(* Keys and output.                                                        *)
(***************************************************************************)
\* store_in_buffer and out_key.
TypeChar(c) ==
  /\ cur_buf_size <= KEYBOARD_BUF_SIZE - 2
  /\ putc(c)
  /\ cur_buf_size' = cur_buf_size + 1
  /\ PutOnPaper(c)
  /\ UNCHANGED line_start

EraseAnyway == TRUE
LineNotEmpty == cur_buf_size # 0

Erase ==
  /\ LineNotEmpty
  /\ backspace
  /\ cur_buf_size' = cur_buf_size - 1
  /\ EraseOnPaper
  /\ UNCHANGED line_start

Enter ==
  /\ NextRow(video_mem)
  /\ cur_buf_size' = 0
  /\ NewRowOnPaper
  /\ line_start' = at'

\* Ctrl+L: clear and reset_screen.  The line buffer is kept, its echo not.
CtrlL ==
  /\ video_mem' = [i \in CellNums |-> Blank]
  /\ screen_x' = 0 /\ screen_y' = 0
  /\ paper' = <<>> /\ at' = 0 /\ top' = 0
  /\ line_start' = IF cur_buf_size = 0 THEN 0 ELSE NONE
  /\ UNCHANGED cur_buf_size

\* One character of terminal_write.
Output(c) ==
  /\ putc(c)
  /\ PutOnPaper(c)
  /\ line_start' = IF cur_buf_size = 0 THEN at' ELSE NONE
  /\ UNCHANGED cur_buf_size

OutputNewline ==
  /\ NextRow(video_mem)
  /\ NewRowOnPaper
  /\ line_start' = IF cur_buf_size = 0 THEN at' ELSE NONE
  /\ UNCHANGED cur_buf_size

Next ==
  \/ \E c \in Chars : TypeChar(c) \/ Output(c)
  \/ Erase \/ Enter \/ CtrlL \/ OutputNewline

Spec == Init /\ [][Next]_vars

(***************************************************************************)
(* Properties.                                                             *)
(***************************************************************************)
\* The cursor never leaves the screen, so putc and backspace never write
\* outside the page; and the line buffer has room for a newline.
CursorOnScreen ==
  /\ screen_x \in 0 .. NUM_COLS - 1
  /\ screen_y \in 0 .. NUM_ROWS - 1
  /\ cur_buf_size \in 0 .. KEYBOARD_BUF_SIZE - 1

TypeOK == CursorOnScreen /\ video_mem \in Cells

\* The screen shows the paper from its top row on, and the cursor is where
\* the next character goes: neither wrapping, scrolling nor erasing loses or
\* misplaces a character that should be visible.
ShowsPaper ==
  /\ Cursor = at - top * NUM_COLS
  /\ \A i \in CellNums : video_mem[i] = PaperAt(top * NUM_COLS + i)

\* As long as nothing else was printed, the echo of the line being typed is
\* as long as the line in the buffer: the backspace key erases on the screen
\* exactly what it takes out of the line, across rows and after scrolling.
EchoIsLine ==
  line_start # NONE => top * NUM_COLS + Cursor = line_start + cur_buf_size
=============================================================================
