CONSTANTS
  Threads = {t1, t2}
  Values = {a, b, true}
  Containers = {a, b}
  Immortal = {true}
  Refs = {r1, r2, r3, r4}
  MaxWay = 1
  Null = Null
SPECIFICATION FairSpec
INVARIANTS
  CountExact
  NoUseAfterFree
  DeletedOnce
  ContainerSurvives
PROPERTY DeletionCompletes
CHECK_DEADLOCK FALSE
