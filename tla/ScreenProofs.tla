---------------------------- MODULE ScreenProofs ----------------------------
(***************************************************************************)
(* Proofs about Screen, for a screen and a line buffer of any size: the    *)
(* cursor stays on the page (TypeCorrect, WritesInPage), the screen is the *)
(* end of what was printed (PaperShown), and the echo is as long as the    *)
(* line (EchoCorrect).                                                     *)
(***************************************************************************)
EXTENDS Screen, TLAPS

USE ScreenAssumption

LEMMA CursorInPage == CursorOnScreen => Cursor \in CellNums
<1> SUFFICES ASSUME CursorOnScreen PROVE Cursor \in CellNums
  OBVIOUS
<1>1. /\ screen_x \in Int /\ 0 <= screen_x /\ screen_x <= NUM_COLS - 1
      /\ screen_y \in Int /\ 0 <= screen_y /\ screen_y <= NUM_ROWS - 1
  BY DEF CursorOnScreen
<1>2. NUM_COLS * screen_y <= NUM_COLS * (NUM_ROWS - 1)
  BY <1>1
<1>3. NUM_COLS * (NUM_ROWS - 1) = NUM_ROWS * NUM_COLS - NUM_COLS
  OBVIOUS
<1>4. NUM_COLS * screen_y \in Int /\ NUM_ROWS * NUM_COLS \in Int
      /\ 0 <= NUM_COLS * screen_y
  BY <1>1
<1> QED
  BY <1>1, <1>2, <1>3, <1>4 DEF Cursor, CellNums

LEMMA ScrolledIsPage == ASSUME NEW m \in Cells PROVE Scrolled(m) \in Cells
BY DEF Scrolled, Cells

LEMMA NextRowTypes ==
  ASSUME TypeOK, NEW m \in Cells, NextRow(m)
  PROVE  /\ screen_x' \in 0 .. NUM_COLS - 1
         /\ screen_y' \in 0 .. NUM_ROWS - 1
         /\ video_mem' \in Cells
BY ScrolledIsPage DEF TypeOK, CursorOnScreen, NextRow, LastRow

LEMMA PutcTypes ==
  ASSUME TypeOK, NEW c \in Chars, putc(c)
  PROVE  /\ screen_x' \in 0 .. NUM_COLS - 1
         /\ screen_y' \in 0 .. NUM_ROWS - 1
         /\ video_mem' \in Cells
<1> DEFINE m == [video_mem EXCEPT ![Cursor] = c]
<1>1. m \in Cells
  BY DEF TypeOK, Cells
<1>2. CASE RowFull
  <2>1. NextRow(m)
    BY <1>2 DEF putc
  <2> HIDE DEF m
  <2> QED
    BY <1>1, <2>1, NextRowTypes
<1>3. CASE ~RowFull
  <2>1. /\ screen_x' = screen_x + 1 /\ screen_y' = screen_y
        /\ video_mem' = m
    BY <1>3 DEF putc
  <2> HIDE DEF m
  <2> QED
    BY <1>1, <1>3, <2>1 DEF RowFull, TypeOK, CursorOnScreen
<1> QED
  BY <1>2, <1>3

LEMMA BackspaceTypes ==
  ASSUME TypeOK, backspace
  PROVE  /\ screen_x' \in 0 .. NUM_COLS - 1
         /\ screen_y' \in 0 .. NUM_ROWS - 1
         /\ video_mem' \in Cells
BY DEF TypeOK, CursorOnScreen, backspace, LastColumn, Cells

LEMMA StepTypes == TypeOK /\ [Next]_vars => TypeOK'
<1> SUFFICES ASSUME TypeOK, [Next]_vars PROVE TypeOK'
  OBVIOUS
<1>1. cur_buf_size \in 0 .. KEYBOARD_BUF_SIZE - 1 /\ video_mem \in Cells
  BY DEF TypeOK, CursorOnScreen
<1>2. ASSUME NEW c \in Chars, TypeChar(c) PROVE TypeOK'
  BY <1>1, <1>2, PutcTypes DEF TypeChar, TypeOK, CursorOnScreen
<1>3. ASSUME NEW c \in Chars, Output(c) PROVE TypeOK'
  BY <1>1, <1>3, PutcTypes DEF Output, TypeOK, CursorOnScreen
<1>4. CASE Erase
  BY <1>1, <1>4, BackspaceTypes DEF Erase, LineNotEmpty, TypeOK, CursorOnScreen
<1>5. CASE Enter
  BY <1>1, <1>5, NextRowTypes DEF Enter, TypeOK, CursorOnScreen
<1>6. CASE CtrlL
  BY <1>1, <1>6 DEF CtrlL, TypeOK, CursorOnScreen, Cells
<1>7. CASE OutputNewline
  BY <1>1, <1>7, NextRowTypes DEF OutputNewline, TypeOK, CursorOnScreen
<1>8. CASE UNCHANGED vars
  BY <1>8 DEF vars, TypeOK, CursorOnScreen
<1> QED
  BY <1>2, <1>3, <1>4, <1>5, <1>6, <1>7, <1>8 DEF Next

LEMMA InitTypes == Init => TypeOK
BY DEF Init, TypeOK, CursorOnScreen, Cells

\* The cursor stays on the screen and the line buffer keeps room for a
\* newline, for a screen of any size.
THEOREM TypeCorrect == Spec => []TypeOK
BY InitTypes, StepTypes, PTL DEF Spec

\* putc always writes inside the video page.
THEOREM WritesInPage == Spec => [](Cursor \in CellNums)
<1>1. TypeOK => Cursor \in CellNums
  BY CursorInPage DEF TypeOK
<1> QED
  BY <1>1, TypeCorrect, PTL
(***************************************************************************)
(* Rows and columns.                                                       *)
(***************************************************************************)
\* What integer division is.
LEMMA DivBounds ==
  ASSUME NEW n \in Int, NEW c \in Nat \ {0}
  PROVE  n \div c \in Int /\ (n \div c) * c <= n /\ n < (n \div c) * c + c
OBVIOUS

\* A row that begins before the end of row q is not below it.
LEMMA Between ==
  ASSUME NEW c \in Nat \ {0}, NEW d \in Int, NEW q \in Int, d * c < q * c + c
  PROVE  d <= q
<1> SUFFICES ASSUME d >= q + 1 PROVE FALSE
  OBVIOUS
<1>1. (d - (q + 1)) * c >= 0
  OBVIOUS
<1> QED
  BY <1>1

\* The row of a place on the paper.
LEMMA RowOf ==
  ASSUME NEW c \in Nat \ {0}, NEW q \in Int, NEW r \in 0 .. c - 1
  PROVE  (q * c + r) \div c = q
<1> DEFINE n == q * c + r
           d == n \div c
<1>1. n \in Int /\ d \in Int /\ d * c <= n /\ n < d * c + c
  BY DivBounds
<1>2. d * c < q * c + c /\ q * c < d * c + c
  BY <1>1
<1> HIDE DEF d
<1>3. d <= q /\ q <= d
  BY <1>1, <1>2, Between
<1> QED
  BY <1>1, <1>3 DEF d

\* MoveTo the place in column r of row q.
LEMMA MovedTo ==
  ASSUME NEW q \in Int, NEW r \in 0 .. NUM_COLS - 1,
         MoveTo(q * NUM_COLS + r)
  PROVE  /\ at' = q * NUM_COLS + r
         /\ top' = IF q - top >= NUM_ROWS THEN q - (NUM_ROWS - 1) ELSE top
<1>1. (q * NUM_COLS + r) \div NUM_COLS = q
  BY RowOf
<1> QED
  BY <1>1 DEF MoveTo

\* MoveTo the start of row q.
LEMMA MovedToRow ==
  ASSUME NEW q \in Int, MoveTo(q * NUM_COLS)
  PROVE  /\ at' = q * NUM_COLS
         /\ top' = IF q - top >= NUM_ROWS THEN q - (NUM_ROWS - 1) ELSE top
<1>1. (q * NUM_COLS + 0) \div NUM_COLS = q
  BY RowOf
<1>2. q * NUM_COLS + 0 = q * NUM_COLS
  OBVIOUS
<1> QED
  BY <1>1, <1>2 DEF MoveTo

\* The places of rows a and b.
LEMMA Distributes ==
  ASSUME NEW a \in Int, NEW b \in Int
  PROVE  /\ (a + b) * NUM_COLS = a * NUM_COLS + b * NUM_COLS
         /\ a * NUM_COLS \in Int /\ b * NUM_COLS \in Int
         /\ NUM_COLS * b = b * NUM_COLS
         /\ b >= 0 => b * NUM_COLS >= 0
OBVIOUS

\* A place on the screen is not before the corner of its top row.
LEMMA FromCorner ==
  ASSUME NEW t \in Nat, NEW y \in Nat, NEW x \in Nat
  PROVE  /\ (t + y) * NUM_COLS + x \in Nat
         /\ (t + y) * NUM_COLS + x >= t * NUM_COLS
<1> DEFINE n == t * NUM_COLS
           k == y * NUM_COLS
<1>1. n \in Nat /\ k \in Nat /\ (t + y) * NUM_COLS = n + k
  BY Distributes
<1>2. (t + y) * NUM_COLS + x = n + k + x
  BY <1>1
<1>3. n \in Nat /\ k \in Nat
  BY <1>1
<1> HIDE DEF n, k
<1>4. n + k + x \in Nat /\ n + k + x >= n
  BY <1>3
<1> QED
  BY <1>2, <1>4 DEF n

(***************************************************************************)
(* The paper.                                                              *)
(***************************************************************************)
Marks == Chars \cup {Blank}
Sheet(p, i) == IF i < Len(p) THEN p[i + 1] ELSE Blank
Bottom == (top + NUM_ROWS) * NUM_COLS

\* Write changes one place of the paper and fills up to it with blanks.
LEMMA Written ==
  ASSUME NEW i \in Nat, NEW c \in Marks, paper \in Seq(Marks), Write(i, c)
  PROVE  /\ paper' \in Seq(Marks)
         /\ Len(paper') <= IF i < Len(paper) THEN Len(paper) ELSE i + 1
         /\ \A k \in Nat : Sheet(paper', k) = IF k = i THEN c
                                              ELSE Sheet(paper, k)
<1> DEFINE n == IF i < Len(paper) THEN Len(paper) ELSE i + 1
<1>1. n \in Nat /\ Len(paper) \in Nat
  OBVIOUS
<1>2. paper' = [j \in 1 .. n |-> IF j = i + 1 THEN c ELSE PaperAt(j - 1)]
  BY DEF Write
<1>3. ASSUME NEW j \in 1 .. n
      PROVE  (IF j = i + 1 THEN c ELSE PaperAt(j - 1)) \in Marks
  BY <1>1, <1>3 DEF PaperAt, Marks
<1>4. paper' \in Seq(Marks) /\ Len(paper') = n
  <2> HIDE DEF n
  <2> QED
    BY <1>1, <1>2, <1>3
<1>5. ASSUME NEW k \in Nat
      PROVE  Sheet(paper', k) = IF k = i THEN c ELSE Sheet(paper, k)
  <2>1. CASE k < n
    <3>1. paper'[k + 1] = IF k + 1 = i + 1 THEN c ELSE PaperAt(k + 1 - 1)
      BY <1>1, <1>2, <2>1
    <3> QED
      BY <1>4, <2>1, <3>1 DEF Sheet, PaperAt
  <2>2. CASE ~(k < n)
    BY <1>1, <1>4, <2>2 DEF Sheet
  <2> QED
    BY <2>1, <2>2
<1> QED
  BY <1>1, <1>4, <1>5

(***************************************************************************)
(* The screen and the paper.  Below the screen nothing is written, so that *)
(* the row that scrolling adds is blank on the paper, too.                 *)
(***************************************************************************)
Shown(m, p, t) == \A i \in CellNums : m[i] = Sheet(p, t * NUM_COLS + i)

OnPaper ==
  /\ top \in Nat
  /\ at = (top + screen_y) * NUM_COLS + screen_x
  /\ paper \in Seq(Marks) /\ Len(paper) <= Bottom
  /\ Shown(video_mem, paper, top)

\* The cursor is on the screen, and so is its place on the paper.
LEMMA Geometry ==
  ASSUME TypeOK, OnPaper
  PROVE  /\ screen_x \in Int /\ 0 <= screen_x /\ screen_x <= NUM_COLS - 1
         /\ screen_y \in Int /\ 0 <= screen_y /\ screen_y <= NUM_ROWS - 1
         /\ at \in Nat /\ top * NUM_COLS \in Nat
         /\ at = top * NUM_COLS + Cursor
         /\ Cursor \in CellNums
         /\ at < Bottom /\ Bottom \in Int
         /\ Bottom = top * NUM_COLS + NUM_ROWS * NUM_COLS
<1>1. /\ screen_x \in Int /\ 0 <= screen_x /\ screen_x <= NUM_COLS - 1
      /\ screen_y \in Int /\ 0 <= screen_y /\ screen_y <= NUM_ROWS - 1
  BY DEF TypeOK, CursorOnScreen
<1>2. Cursor \in CellNums
  BY CursorInPage DEF TypeOK
<1>3. top \in Nat /\ top * NUM_COLS \in Nat
  BY DEF OnPaper
<1>4. at = top * NUM_COLS + Cursor
  BY <1>1, <1>3 DEF OnPaper, Cursor
<1>5. Cursor \in Int /\ 0 <= Cursor /\ Cursor < NUM_ROWS * NUM_COLS
  BY <1>2 DEF CellNums
<1>6. Bottom = top * NUM_COLS + NUM_ROWS * NUM_COLS /\ Bottom \in Int
  BY <1>3 DEF Bottom
<1> QED
  BY <1>1, <1>2, <1>3, <1>4, <1>5, <1>6

\* What is carried along says what ShowsPaper does.
LEMMA OnPaperShows == TypeOK /\ OnPaper => ShowsPaper
<1> SUFFICES ASSUME TypeOK, OnPaper PROVE ShowsPaper
  OBVIOUS
<1>1. Cursor = at - top * NUM_COLS
  BY Geometry DEF CellNums
<1>2. \A i : PaperAt(i) = Sheet(paper, i)
  BY DEF PaperAt, Sheet
<1> QED
  BY <1>1, <1>2 DEF OnPaper, Shown, ShowsPaper

\* Writing on the paper where the cursor is.
LEMMA WrittenAt ==
  ASSUME TypeOK, OnPaper, NEW c \in Marks, NEW k \in CellNums,
         Write(top * NUM_COLS + k, c)
  PROVE  /\ paper' \in Seq(Marks) /\ Len(paper') <= Bottom
         /\ Shown([video_mem EXCEPT ![k] = c], paper', top)
<1>1. /\ top * NUM_COLS \in Nat /\ k \in Nat /\ k < NUM_ROWS * NUM_COLS
      /\ Bottom = top * NUM_COLS + NUM_ROWS * NUM_COLS
  BY Geometry DEF CellNums
<1>2. paper \in Seq(Marks) /\ Len(paper) <= Bottom
  BY DEF OnPaper
<1> DEFINE n == top * NUM_COLS + k
<1>3. n \in Nat /\ n + 1 <= Bottom
  BY <1>1, Geometry
<1>4. /\ paper' \in Seq(Marks)
      /\ Len(paper') <= IF n < Len(paper) THEN Len(paper) ELSE n + 1
      /\ \A j \in Nat : Sheet(paper', j) = IF j = n THEN c ELSE Sheet(paper, j)
  BY <1>2, <1>3, Written
<1>5. Len(paper') <= Bottom
  <2>1. Len(paper') \in Nat /\ Len(paper) \in Nat
    BY <1>2, <1>4
  <2> HIDE DEF n
  <2> QED
    BY <1>2, <1>3, <1>4, <2>1, Geometry
<1>6. ASSUME NEW i \in CellNums
      PROVE  [video_mem EXCEPT ![k] = c][i] = Sheet(paper', top * NUM_COLS + i)
  <2>1. top * NUM_COLS + i \in Nat /\ (top * NUM_COLS + i = n <=> i = k)
    BY <1>1 DEF CellNums
  <2>2. video_mem \in [CellNums -> Marks]
    BY DEF TypeOK, Cells, Marks
  <2> HIDE DEF n
  <2> QED
    BY <1>4, <2>1, <2>2 DEF OnPaper, Shown
<1> QED
  BY <1>4, <1>5, <1>6 DEF Shown

\* The cursor goes to the next row, on the screen and on the paper.
LEMMA NextRowShows ==
  ASSUME TypeOK, OnPaper, NEW m,
         paper' \in Seq(Marks), Len(paper') <= Bottom, Shown(m, paper', top),
         NextRow(m), MoveTo((top + screen_y + 1) * NUM_COLS)
  PROVE  OnPaper' /\ at' >= at /\ top' >= top
         /\ (top' = top \/ at' = (top' + NUM_ROWS - 1) * NUM_COLS)
<1> DEFINE q == top + screen_y + 1
<1>1. /\ top \in Nat /\ q \in Int
      /\ at = (top + screen_y) * NUM_COLS + screen_x
  BY Geometry DEF OnPaper
<1>2. at' = q * NUM_COLS /\ (top + screen_y) * NUM_COLS \in Int
      /\ at' = (top + screen_y) * NUM_COLS + NUM_COLS
  <2>1. at' = q * NUM_COLS
    BY <1>1, MovedToRow
  <2>2. top + screen_y \in Int /\ q = (top + screen_y) + 1
    BY <1>1, Geometry
  <2> QED
    BY <2>1, <2>2, Distributes
<1>3. /\ at' = q * NUM_COLS
      /\ top' = IF q - top >= NUM_ROWS THEN q - (NUM_ROWS - 1) ELSE top
  <2>1. MoveTo(q * NUM_COLS)
    OBVIOUS
  <2> HIDE DEF q
  <2> QED
    BY <1>1, <2>1, MovedToRow
<1>4. at' >= at
  <2> DEFINE n == (top + screen_y) * NUM_COLS
  <2>1. /\ screen_x \in Int /\ screen_x <= NUM_COLS - 1
        /\ n \in Int /\ at = n + screen_x /\ at' = n + NUM_COLS
    BY <1>1, <1>2, Geometry
  <2> HIDE DEF n
  <2> QED
    BY <2>1
<1>5. CASE LastRow
  <2>1. screen_y = NUM_ROWS - 1 /\ top' = top + 1
    <3>1. screen_y = NUM_ROWS - 1
      BY <1>5, Geometry DEF LastRow
    <3>2. q - top = NUM_ROWS
      BY <1>1, <3>1
    <3> HIDE DEF q
    <3>3. top' = q - (NUM_ROWS - 1)
      BY <1>3, <3>2
    <3> QED
      BY <1>1, <3>1, <3>2, <3>3
  <2>2. screen_x' = 0 /\ screen_y' = NUM_ROWS - 1 /\ video_mem' = Scrolled(m)
    BY <1>5 DEF NextRow
  <2>3. at' = (top' + screen_y') * NUM_COLS + screen_x'
    BY <1>1, <1>3, <2>1, <2>2
  <2>4. Len(paper') <= Bottom'
    <3>1. Len(paper') \in Nat
      OBVIOUS
    <3>2. Bottom' = Bottom + NUM_COLS
      BY <1>1, <2>1 DEF Bottom
    <3> QED
      BY <3>1, <3>2, Geometry
  <2>5. ASSUME NEW i \in CellNums
        PROVE  Scrolled(m)[i] = Sheet(paper', top' * NUM_COLS + i)
    <3>1. top' * NUM_COLS + i = top * NUM_COLS + (i + NUM_COLS)
      BY <1>1, <2>1 DEF CellNums
    <3>2. CASE i + NUM_COLS \in CellNums
      BY <3>1, <3>2 DEF Scrolled, Shown
    <3>3. CASE i + NUM_COLS \notin CellNums
      <4>1. top * NUM_COLS + (i + NUM_COLS) >= Bottom
        BY <3>3, Geometry DEF CellNums
      <4>2. Len(paper') \in Nat /\ top * NUM_COLS + (i + NUM_COLS) \in Int
        BY Geometry DEF CellNums
      <4>3. ~(top * NUM_COLS + (i + NUM_COLS) < Len(paper'))
        BY <4>1, <4>2, Geometry
      <4> QED
        BY <3>1, <3>3, <4>3 DEF Scrolled, Sheet
    <3> QED
      BY <3>2, <3>3
  <2> QED
    <3>1. top' \in Nat /\ top' >= top
      BY <1>1, <2>1
    <3>2. Shown(video_mem', paper', top')
      BY <2>2, <2>5 DEF Shown
    <3>3. OnPaper'
      BY <2>3, <2>4, <3>1, <3>2, Zenon DEF OnPaper, Shown
    <3>4. at' = (top' + NUM_ROWS - 1) * NUM_COLS
      <4>1. top' + NUM_ROWS - 1 = q
        BY <1>1, <2>1
      <4> QED
        BY <1>3, <4>1, Zenon
    <3> QED
      BY <1>4, <3>1, <3>3, <3>4
<1>6. CASE ~LastRow
  <2>1. top' = top
    <3>1. screen_y \in Int /\ screen_y + 1 < NUM_ROWS
      BY <1>6, Geometry DEF LastRow
    <3>2. ~(q - top >= NUM_ROWS)
      BY <1>1, <3>1
    <3> QED
      BY <1>3, <3>2, Zenon
  <2>2. screen_x' = 0 /\ screen_y' = screen_y + 1 /\ video_mem' = m
    BY <1>6 DEF NextRow
  <2>3. at' = (top' + screen_y') * NUM_COLS + screen_x'
    <3>1. top + (screen_y + 1) = q
      BY <1>1, Geometry
    <3>2. q * NUM_COLS \in Int
      BY <1>1, Distributes
    <3> QED
      BY <1>3, <2>1, <2>2, <3>1, <3>2
  <2>4. Bottom' = Bottom
    BY <2>1 DEF Bottom
  <2> QED
    BY <1>1, <1>4, <2>1, <2>2, <2>3, <2>4 DEF OnPaper, Shown
<1> QED
  BY <1>5, <1>6

\* putc, on the screen and on the paper.
LEMMA PutcShows ==
  ASSUME TypeOK, OnPaper, NEW c \in Chars, putc(c), PutOnPaper(c)
  PROVE  OnPaper' /\ at' = at + 1 /\ top' >= top
         /\ (top' = top \/ at' = (top' + NUM_ROWS - 1) * NUM_COLS)
<1> DEFINE m == [video_mem EXCEPT ![Cursor] = c]
<1>1. /\ paper' \in Seq(Marks) /\ Len(paper') <= Bottom
      /\ Shown(m, paper', top)
  <2>1. Write(top * NUM_COLS + Cursor, c) /\ Cursor \in CellNums
    BY Geometry DEF PutOnPaper
  <2>2. c \in Marks
    BY DEF Marks
  <2> QED
    BY <2>1, <2>2, WrittenAt
<1>2. /\ top \in Nat /\ MoveTo(at + 1) /\ at' = at + 1
      /\ at = (top + screen_y) * NUM_COLS + screen_x
  BY DEF PutOnPaper, OnPaper, MoveTo
<1>3. CASE RowFull
  <2>1. NextRow(m)
    BY <1>3 DEF putc
  <2>2. at + 1 = (top + screen_y + 1) * NUM_COLS
    <3>1. screen_x = NUM_COLS - 1
      BY <1>3, Geometry DEF RowFull
    <3>2. top + screen_y \in Int
      BY <1>2, Geometry
    <3>3. (top + screen_y + 1) * NUM_COLS
            = (top + screen_y) * NUM_COLS + NUM_COLS
      BY <3>2, Distributes
    <3> QED
      BY <1>2, <3>1, <3>2, <3>3, Distributes
  <2>3. MoveTo((top + screen_y + 1) * NUM_COLS)
    BY <1>2, <2>2
  <2> HIDE DEF m
  <2> QED
    BY <1>1, <1>2, <2>1, <2>3, NextRowShows
<1>4. CASE ~RowFull
  <2>1. screen_x' = screen_x + 1 /\ screen_y' = screen_y /\ video_mem' = m
    BY <1>4 DEF putc
  <2> DEFINE q == top + screen_y
  <2>2. /\ q \in Int /\ screen_x + 1 \in 0 .. NUM_COLS - 1
        /\ at + 1 = q * NUM_COLS + (screen_x + 1)
    BY <1>2, <1>4, Geometry DEF RowFull
  <2>3. top' = IF q - top >= NUM_ROWS THEN q - (NUM_ROWS - 1) ELSE top
    <3> HIDE DEF q
    <3> QED
      BY <1>2, <2>2, MovedTo
  <2>4. top' = top
    BY <1>2, <2>3, Geometry
  <2>5. at' = (top' + screen_y') * NUM_COLS + screen_x'
    BY <1>2, <2>1, <2>2, <2>4
  <2>6. Bottom' = Bottom
    BY <2>4 DEF Bottom
  <2> HIDE DEF m
  <2> QED
    BY <1>1, <1>2, <2>1, <2>4, <2>5, <2>6 DEF OnPaper, Shown
<1> QED
  BY <1>3, <1>4

\* backspace, on the screen and on the paper.
LEMMA BackspaceShows ==
  ASSUME TypeOK, OnPaper, backspace, EraseOnPaper
  PROVE  /\ OnPaper' /\ top' = top
         /\ at' = IF at = top * NUM_COLS THEN at ELSE at - 1
<1>1. /\ top \in Nat /\ at = top * NUM_COLS + Cursor
      /\ at = (top + screen_y) * NUM_COLS + screen_x
  BY Geometry DEF OnPaper
<1>2. Cursor = 0 <=> screen_x = 0 /\ screen_y = 0
  <2>1. NUM_COLS * screen_y >= 0 /\ (NUM_COLS * screen_y = 0 => screen_y = 0)
        /\ NUM_COLS * screen_y \in Int
    BY Geometry
  <2> QED
    BY <2>1, Geometry DEF Cursor
<1>3. CASE Cursor = 0
  <2>1. at = top * NUM_COLS
    BY <1>1, <1>3
  <2>2. UNCHANGED <<screen_x, screen_y, video_mem, paper, at, top>>
    BY <1>2, <1>3, <2>1 DEF backspace, EraseOnPaper
  <2> QED
    BY <2>1, <2>2 DEF OnPaper, Bottom, Shown
<1>4. CASE Cursor # 0
  <2>1. at # top * NUM_COLS
    <3>1. Cursor \in Int /\ top * NUM_COLS \in Int
      BY Geometry DEF CellNums
    <3> QED
      BY <1>1, <1>4, <3>1
  <2> DEFINE k == Cursor - 1
  <2>2. k \in CellNums
    BY <1>4, Geometry DEF CellNums
  <2>3. /\ Write(top * NUM_COLS + k, Blank) /\ at' = at - 1 /\ top' = top
    <3>1. at - 1 = top * NUM_COLS + k
      BY <1>1, Geometry DEF CellNums
    <3> QED
      BY <2>1, <3>1 DEF EraseOnPaper
  <2>4. /\ screen_x' = IF screen_x = 0 THEN NUM_COLS - 1 ELSE screen_x - 1
        /\ screen_y' = IF screen_x = 0 THEN screen_y - 1 ELSE screen_y
        /\ video_mem' = [video_mem EXCEPT ![NUM_COLS * screen_y' + screen_x'] =
                                            Blank]
    BY <1>2, <1>4 DEF backspace, LastColumn
  <2>5. NUM_COLS * screen_y' + screen_x' = k
    BY <2>4, Geometry DEF Cursor
  <2>6. video_mem' = [video_mem EXCEPT ![k] = Blank]
    BY <2>4, <2>5
  <2>7. /\ paper' \in Seq(Marks) /\ Len(paper') <= Bottom
        /\ Shown([video_mem EXCEPT ![k] = Blank], paper', top)
    <3>1. Blank \in Marks
      BY DEF Marks
    <3> HIDE DEF k
    <3> QED
      BY <2>2, <2>3, <3>1, WrittenAt
  <2>8. at' = (top' + screen_y') * NUM_COLS + screen_x'
    BY <1>1, <2>3, <2>4, Geometry
  <2>9. Bottom' = Bottom
    BY <2>3 DEF Bottom
  <2> HIDE DEF k
  <2> QED
    BY <1>1, <2>1, <2>3, <2>6, <2>7, <2>8, <2>9 DEF OnPaper, Shown
<1> QED
  BY <1>3, <1>4

(***************************************************************************)
(* The echo of the line.  A line that is being typed begins on the screen: *)
(* when the page scrolls under it, it is shorter than what is left, by     *)
(* LineFitsAssumption.  So erasing never finds the cursor in the corner.   *)
(***************************************************************************)
EchoInv ==
  /\ line_start \in Int
  /\ line_start # NONE => /\ line_start >= top * NUM_COLS
                          /\ at = line_start + cur_buf_size

PaperInv == TypeOK /\ OnPaper /\ EchoInv

\* An empty screen shows an empty paper.
LEMMA InitPaper == Init => PaperInv
<1> SUFFICES ASSUME Init PROVE PaperInv
  OBVIOUS
<1>1. top = 0 /\ at = 0 /\ screen_x = 0 /\ screen_y = 0 /\ paper = <<>>
  BY DEF Init
<1>2. paper \in Seq(Marks) /\ Len(paper) = 0
  BY <1>1
<1>3. \A i \in CellNums : Sheet(paper, top * NUM_COLS + i) = Blank
  BY <1>1, <1>2 DEF Sheet, CellNums
<1>4. Len(paper) <= Bottom
  BY <1>1, <1>2 DEF Bottom
<1>5. OnPaper
  BY <1>1, <1>2, <1>3, <1>4 DEF Init, OnPaper, Shown
<1> QED
  BY <1>1, <1>5, InitTypes DEF Init, PaperInv, EchoInv, NONE

\* Where the line starts after a step that prints behind it.
LEMMA EchoAfter ==
  ASSUME PaperInv, TypeOK', OnPaper',
         top' = top \/ at' = (top' + NUM_ROWS - 1) * NUM_COLS,
         line_start' = line_start,
         at' = at + 1, cur_buf_size' = cur_buf_size + 1
  PROVE  EchoInv'
<1>1. /\ cur_buf_size' \in Int /\ cur_buf_size' <= KEYBOARD_BUF_SIZE - 1
      /\ cur_buf_size \in Int /\ line_start \in Int /\ at \in Int
  BY Geometry DEF PaperInv, TypeOK, CursorOnScreen, EchoInv
<1> SUFFICES ASSUME line_start # NONE
             PROVE  /\ line_start >= top' * NUM_COLS
                    /\ at' = line_start + cur_buf_size'
  BY <1>1 DEF EchoInv
<1>2. at = line_start + cur_buf_size /\ line_start >= top * NUM_COLS
  BY DEF PaperInv, EchoInv
<1>3. at' = line_start + cur_buf_size'
  BY <1>1, <1>2
<1>4. CASE top' = top
  BY <1>2, <1>3, <1>4
<1>5. CASE at' = (top' + NUM_ROWS - 1) * NUM_COLS
  <2>1. top' \in Nat
    BY DEF OnPaper
  <2>2. at' = top' * NUM_COLS + (NUM_ROWS - 1) * NUM_COLS
    <3>1. /\ top' + NUM_ROWS - 1 = top' + (NUM_ROWS - 1)
          /\ top' \in Int /\ NUM_ROWS - 1 \in Int
      BY <2>1
    <3>2. (top' + (NUM_ROWS - 1)) * NUM_COLS
            = top' * NUM_COLS + (NUM_ROWS - 1) * NUM_COLS
      BY <3>1, Distributes, Zenon
    <3> QED
      BY <1>5, <3>1, <3>2, Zenon
  <2>3. (NUM_ROWS - 1) * NUM_COLS \in Int /\ top' * NUM_COLS \in Int
    BY <2>1, Distributes
  <2> QED
    BY <1>1, <1>3, <2>2, <2>3, LineFitsAssumption
<1> QED
  BY <1>4, <1>5

\* After output or enter the line starts at the cursor or nowhere.
LEMMA EchoAtCursor ==
  ASSUME TypeOK', OnPaper',
         line_start' = IF cur_buf_size' = 0 THEN at' ELSE NONE
  PROVE  EchoInv'
<1>1. top' \in Nat /\ at' = (top' + screen_y') * NUM_COLS + screen_x'
  BY DEF OnPaper
<1>2. screen_x' \in Nat /\ screen_y' \in Nat /\ cur_buf_size' \in Nat
  BY DEF TypeOK, CursorOnScreen
<1>3. at' \in Nat /\ at' >= top' * NUM_COLS
  BY <1>1, <1>2, FromCorner, Zenon
<1>4. CASE cur_buf_size' = 0
  <2>1. line_start' = at'
    BY <1>4
  <2>2. at' \in Int
    BY <1>3
  <2>3. ASSUME NEW n \in Int PROVE n = n + 0
    OBVIOUS
  <2> QED
    BY <1>3, <1>4, <2>1, <2>2, <2>3, Zenon DEF EchoInv
<1>5. CASE cur_buf_size' # 0
  BY <1>5 DEF EchoInv, NONE
<1> QED
  BY <1>4, <1>5

\* Each key and each character printed keeps screen and paper together.
LEMMA StepPaper == PaperInv /\ [Next]_vars => PaperInv'
<1> SUFFICES ASSUME PaperInv, [Next]_vars PROVE PaperInv'
  OBVIOUS
<1> USE DEF PaperInv
<1>1. TypeOK'
  BY StepTypes
<1>2. ASSUME NEW c \in Chars, TypeChar(c) PROVE PaperInv'
  <2>1. /\ putc(c) /\ PutOnPaper(c) /\ cur_buf_size' = cur_buf_size + 1
        /\ line_start' = line_start
    BY <1>2 DEF TypeChar
  <2>2. /\ OnPaper' /\ at' = at + 1
        /\ (top' = top \/ at' = (top' + NUM_ROWS - 1) * NUM_COLS)
    BY <2>1, PutcShows
  <2> QED
    BY <1>1, <2>1, <2>2, EchoAfter
<1>3. ASSUME NEW c \in Chars, Output(c) PROVE PaperInv'
  <2>1. /\ putc(c) /\ PutOnPaper(c) /\ cur_buf_size' = cur_buf_size
        /\ line_start' = IF cur_buf_size = 0 THEN at' ELSE NONE
    BY <1>3 DEF Output
  <2>2. OnPaper'
    BY <2>1, PutcShows
  <2> QED
    BY <1>1, <2>1, <2>2, EchoAtCursor
<1>4. ASSUME NextRow(video_mem), NewRowOnPaper PROVE OnPaper'
  <2>1. at \div NUM_COLS = top + screen_y
    <3>1. at = (top + screen_y) * NUM_COLS + screen_x /\ top + screen_y \in Int
          /\ screen_x \in 0 .. NUM_COLS - 1
      BY Geometry DEF OnPaper
    <3> QED
      BY <3>1, RowOf
  <2>2. MoveTo((top + screen_y + 1) * NUM_COLS) /\ paper' = paper
    BY <1>4, <2>1 DEF NewRowOnPaper
  <2>3. /\ paper' \in Seq(Marks) /\ Len(paper') <= Bottom
        /\ Shown(video_mem, paper', top)
    BY <2>2 DEF OnPaper
  <2> QED
    BY <1>4, <2>2, <2>3, NextRowShows
<1>5. CASE Erase
  <2>1. /\ backspace /\ EraseOnPaper /\ cur_buf_size # 0
        /\ cur_buf_size' = cur_buf_size - 1 /\ line_start' = line_start
    BY <1>5 DEF Erase, LineNotEmpty
  <2>2. /\ OnPaper' /\ top' = top
        /\ at' = IF at = top * NUM_COLS THEN at ELSE at - 1
    BY <2>1, BackspaceShows
  <2>3. EchoInv'
    <3>1. cur_buf_size \in Nat /\ at \in Int /\ top * NUM_COLS \in Int
      BY Geometry DEF TypeOK, CursorOnScreen
    <3> QED
      BY <2>1, <2>2, <3>1 DEF EchoInv
  <2> QED
    BY <1>1, <2>2, <2>3
<1>6. CASE Enter
  <2>1. OnPaper'
    BY <1>4, <1>6 DEF Enter
  <2> QED
    BY <1>1, <1>6, <2>1, EchoAtCursor DEF Enter
<1>7. CASE OutputNewline
  <2>1. OnPaper'
    BY <1>4, <1>7 DEF OutputNewline
  <2> QED
    BY <1>1, <1>7, <2>1, EchoAtCursor DEF OutputNewline
<1>8. CASE CtrlL
  <2>1. /\ top' = 0 /\ at' = 0 /\ screen_x' = 0 /\ screen_y' = 0
        /\ paper' = <<>> /\ video_mem' = [i \in CellNums |-> Blank]
    BY <1>8 DEF CtrlL
  <2>2. paper' \in Seq(Marks) /\ Len(paper') = 0
    BY <2>1
  <2>3. \A i \in CellNums : Sheet(paper', top' * NUM_COLS + i) = Blank
    BY <2>1, <2>2 DEF Sheet, CellNums
  <2>4. Len(paper') <= Bottom'
    BY <2>1, <2>2 DEF Bottom
  <2>5. OnPaper'
    BY <2>1, <2>2, <2>3, <2>4 DEF OnPaper, Shown
  <2> QED
    BY <1>1, <1>8, <2>1, <2>5, EchoAtCursor DEF CtrlL
<1>9. CASE UNCHANGED vars
  BY <1>1, <1>9 DEF vars, OnPaper, Bottom, Shown, EchoInv
<1> QED
  BY <1>2, <1>3, <1>5, <1>6, <1>7, <1>8, <1>9 DEF Next

\* The screen is always the last rows of what was printed: putc, backspace,
\* the scroll functions and clear lose and misplace nothing, on a screen of
\* any size.
THEOREM PaperShown == Spec => []ShowsPaper
<1>1. PaperInv => ShowsPaper
  BY OnPaperShows DEF PaperInv
<1> QED
  BY <1>1, InitPaper, StepPaper, PTL DEF Spec

\* Backspace erases on the screen what it takes out of the line, for every
\* line that is shorter than the screen less a row.
THEOREM EchoCorrect == Spec => []EchoIsLine
<1>1. PaperInv => EchoIsLine
  <2> SUFFICES ASSUME PaperInv PROVE EchoIsLine
    OBVIOUS
  <2>1. top * NUM_COLS + Cursor = at
    BY Geometry DEF PaperInv
  <2> QED
    BY <2>1 DEF PaperInv, EchoInv, EchoIsLine
<1> QED
  BY <1>1, InitPaper, StepPaper, PTL DEF Spec
=============================================================================
