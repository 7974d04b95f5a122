SPECIFICATION Spec
CONSTANTS
  EscapeDigits = 1
  Leading <- MCLeading
  Trailing <- MCTrailing
  Keywords <- MCKeywords
  LeadWidth = 2
  WellFormed <- MCWellFormed
  MinSize = 2
  MaxLost = 1
  Within <- MCWithin
CHECK_DEADLOCK FALSE
INVARIANTS
  PositionsAgree
  TokensAreLexemes
  RejectsOnlyNonLexemes
