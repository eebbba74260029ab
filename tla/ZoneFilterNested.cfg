CONSTANTS
  SetID = {""}
  NoSetID = ""
  DefaultTTL = 0
  RRset = {"inChild", "inOther"}
  Target = {"t1", "t2"}
  TTL = {0}
  Zone = {"parent", "child", "other"}
  Handler = {h1}
  ZonesOf <- NestedZonesOf
  Depth <- FQDNLength
  Managed = {"parent"}
  InDomain = {"inChild", "inOther"}
  Supported = {"inChild", "inOther"}
  Invalid = {}
  DryRun = FALSE
  Batches <- ZoneBatches
  Failures = {}
  PagesShift = FALSE
  InitialZones = {"parent", "child", "other"}
  MaxID = 3
  None = None
SPECIFICATION Spec
PROPERTIES WritesInsideZoneFilter
