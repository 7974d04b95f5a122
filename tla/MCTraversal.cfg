SPECIFICATION Spec
CONSTANTS
  c1 = c1
  c2 = c2
  c3 = c3
  Nothing = Nothing
  Containers <- MCContainers
  Objects = {c2}
  Graphs <- MCGraphs
  Namings <- MCNamings
CHECK_DEADLOCK FALSE
INVARIANTS
  ParentsAreStack
  StopsAtKnots
  CopyIsTree
  DumpIsText
PROPERTY
  Terminates
