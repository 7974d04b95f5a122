CONSTANTS
  Threads = {t1, t2, t3}
  Main = t1
  SeedSpace = 3
  MaxArg = 3
SPECIFICATION FairSeedSpec
INVARIANTS
  OneInitialiser
  ReturnsSeeded
PROPERTIES
  AutoseedFreezesSeed
  EnsureSeedReturns
CHECK_DEADLOCK TRUE
