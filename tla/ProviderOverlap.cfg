CONSTANTS
  SetID = {""}
  NoSetID = ""
  DefaultTTL = 0
  RRset = {"inParent"}
  Target = {"t1", "t2"}
  TTL = {60}
  Zone = {"parent"}
  Handler = {h1, h2}
  ZonesOf <- NestedZonesOf
  Depth <- FQDNLength
  Managed = {"parent"}
  InDomain = {"inParent"}
  Supported = {"inParent"}
  Invalid = {}
  DryRun = FALSE
  Batches <- OneNameBatches
  Failures = {}
  PagesShift = FALSE
  InitialZones = {"parent"}
  MaxID = 2
  None = None
SPECIFICATION Spec
SYMMETRY HandlerSymmetry
INVARIANTS IInv IndexSound
PROPERTIES PlannedWritesOnly
