CONSTANTS
  TERM_NUM = 2
  KEYBOARD_BUF_SIZE = 3
  Chars = {a}
  Newline = nl
  ReadSizes <- Sizes
SPECIFICATION Spec
INVARIANT ReadsFromOneLine
