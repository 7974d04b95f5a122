SPECIFICATION Spec
CONSTANTS
  k1 = k1
  k2 = k2
  k3 = k3
  kNul = kNul
  v1 = v1
  v2 = v2
  Null = Null
  Keys <- MCKeys
  Values = {v1, v2}
  NewValues = {v1}
  Hash <- MCHash
  CString <- MCCString
  Others <- MCOthers
  InitialOrder = 1
INVARIANTS
  BucketsAreRuns
  ListsAgree
  WalkLinksLive
  UpdateMergesPrefix
PROPERTIES
  WalkVisitsAll
  RefinesMap
