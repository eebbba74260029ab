CONSTANTS
  SetID = {""}
  NoSetID = ""
  DefaultTTL = 0
  RRset = {"inParent", "inOther", "unsupported"}
  Target = {"t1", "bad"}
  TTL = {0, 60}
  Zone = {"parent", "other"}
  Handler = {h1}
  ZonesOf <- NestedZonesOf
  Depth <- FQDNLength
  Managed = {"parent"}
  InDomain = {"inParent", "inOther", "unsupported"}
  Supported = {"inParent", "inOther"}
  Invalid <- InvalidKeys
  DryRun = FALSE
  Batches <- MixedBatches
  Failures <- AllFailures
  PagesShift = TRUE
  InitialZones = {"parent", "other"}
  MaxID = 3
  None = None
SPECIFICATION SoleWriterSpec
INVARIANTS AppliedIInv AppliedIsLive
PROPERTIES WritesInsideZoneFilter ImplementsPlanStore
