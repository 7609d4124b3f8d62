CONSTANTS
  TERM_NUM = 2
  MaxDepth = 3
SPECIFICATION Spec
INVARIANT ReadsRegisterC
