CONSTANTS
  RRset = {"addr", "cname", "other"}
  SetID = {"none", "one", "two"}
  Target = {"t1", "t2"}
  TTL = {0, 60}
  Worlds <- MCWorlds
  Exclusive <- MCExclusive
  NotLive = NotLive
SPECIFICATION Spec
INVARIANTS IInv ReachesDesired NoTransientConflict NoGap EachOpEffective
CHECK_DEADLOCK FALSE
