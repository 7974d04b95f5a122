SPECIFICATION Spec
CONSTANTS
  v1 = v1
  v2 = v2
  Null = Null
  Garbage = Garbage
  Values = {v1, v2}
  Others <- MCOthers
  InitialCapacity = 2
  PointerSize = 2
  MaxSize = 25
INVARIANTS
  SlotsInUseHoldValues
  TableAddressable
PROPERTIES
  RefinesSequence
  EachCallRefines
