SPECIFICATION Spec
CONSTANTS
  Strings = {"a", "b", "z"}
  NulStrings = {"z"}
  MaxDepth = 2
  InitialRoom = 2
  MaxTokens = 9
  FlagSets <- MCFlagSets
  NoKey = "no key"
  NoValue = NoValue
CHECK_DEADLOCK FALSE
INVARIANTS
  NothingLeaks
  Accepts
  Rejects
  ErrorNamesCause
PROPERTY
  Terminates
