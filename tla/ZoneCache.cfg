CONSTANTS
  c1 = c1
  c2 = c2
  Nil = Nil
  Item <- MCItem
  Caller <- MCCaller
  ZoneFilter = {""}
  NameOf <- MCNameOf
  Cloud <- MCItem
  Matching = {"a.example", "b.example"}
  Blank = ""
  PageLimit = 1
  CacheTTL = 2
  MaxCall = 1
  MaxDrops = 2
SPECIFICATION Spec
INVARIANTS
  IInv
  ReadSoFar
  Unrepeated
PROPERTIES
  InvalidationHolds
  Recent
  CachesEverything
  EveryCallEnds
