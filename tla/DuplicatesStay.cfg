CONSTANTS
  SetID = {""}
  NoSetID = ""
  DefaultTTL = 60
  RRset = {"a"}
  Target = {"t1"}
  TTL = {0, 60}
  Zone = {"z"}
  Handler = {h1, h2}
  ZonesOf <- MCZonesOf
  Depth <- MCDepth
  Managed = {"z"}
  InDomain = {"a"}
  Supported = {"a"}
  Invalid = {}
  DryRun = FALSE
  Batches = {}
  Failures <- AllFailures
  PagesShift = FALSE
  InitialZones = {"z"}
  MaxID = 4
  None = None
  Scenarios <- DuplicateScenarios
  MaxWishes = 0
SPECIFICATION FairLoopSpec
PROPERTIES OneRecordPerTarget
