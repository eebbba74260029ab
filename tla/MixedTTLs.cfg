CONSTANTS
  SetID = {""}
  NoSetID = ""
  DefaultTTL = 0
  RRset = {"a"}
  Target = {"t1", "t2"}
  TTL = {0, 60, 120}
  Zone = {"z"}
  Handler = {h1}
  ZonesOf <- MCZonesOf
  Depth <- MCDepth
  Managed = {"z"}
  InDomain = {"a"}
  Supported = {"a"}
  Invalid = {}
  DryRun = FALSE
  Batches = {}
  Failures <- AllFailures
  PagesShift = FALSE
  InitialZones = {"z"}
  MaxID = 3
  None = None
  Scenarios <- TTLScenarios
  MaxWishes = 1
SPECIFICATION FairLoopSpec
PROPERTIES TTLsConverge
