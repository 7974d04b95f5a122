SPECIFICATION Spec
CONSTANTS
  MaxStarved = 1
  MaxOdd = 2
  PackFormats <- MCPackFormats
  RootFormats <- MCRootFormats
  UnpackFormats <- MCUnpackFormats
  FlagSets <- MCFlagSets
INVARIANTS
  PackOwns
  PackKeepsPromise
  ArgumentsAgree
  UnpackKeepsPromise
  LentIsWritten
PROPERTIES
  CallsReturn
CHECK_DEADLOCK FALSE
