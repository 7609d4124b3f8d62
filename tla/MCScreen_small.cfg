CONSTANTS
  NUM_COLS = 2
  NUM_ROWS = 3
  KEYBOARD_BUF_SIZE = 5
  Chars = {a, b}
  Blank = blank
  MaxRows = 5
SPECIFICATION Spec
INVARIANTS TypeOK ShowsPaper EchoIsLine
