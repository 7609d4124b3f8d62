CONSTANTS
  L = L
  C = C
  Letters = {L, C, a}
  Symbols = {one}
SPECIFICATION Spec
INVARIANTS TypeOK ModeFollowsKeys DoesAsAsked
