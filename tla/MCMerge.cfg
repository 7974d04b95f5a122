SPECIFICATION Spec
CONSTANTS
  c1 = c1
  c2 = c2
  c3 = c3
  c4 = c4
  c5 = c5
  k1 = k1
  k2 = k2
  kNul = kNul
  x = x
  y = y
  Null = Null
  Containers = {c1, c2, c3, c4, c5}
  Copied = c5
  Leaves = {x, y}
  Keys = {k1, k2, kNul}
  CString <- MCCString
  Slots <- MCSlots
  Graphs <- MCGraphs
  Arguments <- MCArguments
  MaxDepth = 7
INVARIANTS
  CallKeepsPromise
  OtherIsKept
CHECK_DEADLOCK FALSE
