CONSTANTS
  SetID = {""}
  NoSetID = ""
  DefaultTTL = 60
  RRset = {"a"}
  Target = {"t1", "t2"}
  TTL = {0, 60, 120}
  Zone = {"z"}
  Handler = {h1, h2}
  ZonesOf <- MCZonesOf
  Depth <- MCDepth
  Managed = {"z"}
  InDomain = {"a"}
  Supported = {"a"}
  Invalid = {}
  DryRun = FALSE
  Batches = {}
  Failures <- AllFailures
  PagesShift = TRUE
  InitialZones = {"z"}
  MaxID = 4
  None = None
  Scenarios <- MCScenarios
  MaxWishes = 1
SPECIFICATION FairLoopSpec
INVARIANTS LoopTypeOK PlanMeetsWish SuccessMeansDone
PROPERTIES RecordsConverge WritesCease
