CONSTANTS
  TERM_NUM = 2
  MaxDepth = 4
SPECIFICATION FairSpec
INVARIANTS TypeOK ServiceHeld TimerKept RtcNotLost
PROPERTIES TimerGoesOn RtcReadEnds
