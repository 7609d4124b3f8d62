CONSTANTS
  TERM_NUM = 3
  Cells = {c1}
  Chars = {a, b}
  Blank = blank
SPECIFICATION Spec
INVARIANTS TypeOK OwnPicture PointerFollows
