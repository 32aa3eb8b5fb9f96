SPECIFICATION ReadSpec
CONSTANTS
  t1 = t1 t2 = t2 s1 = s1
  Worker = Worker NoActor = NoActor NoStream = NoStream Bad = Bad
  Threads = {t1}
  Readers = {t1}
  Streams = {s1}
  MaxStreams = 1
  IngestBlocks = 1
  Capacity = 2
  OpenCountMax = 2
  SegmentRecords = 1
  MaxSegments = 2
  BatchSizes = {1}
  SoloOpen = TRUE
  Deinits = {TRUE, FALSE}
  CursorBlocks = 1
  Calls <- SoloCalls
  Modes = {"feed"}
  Windows <- Everything
  Descends = {FALSE}
  LiveViews = {TRUE, FALSE}
  MaxAggPoints = 1
  Faults = {"mark", "rot", "submit"}
  MaxSamples = 3
  MaxBoots = 1
  MaxFails = 2
INVARIANTS ConsumerSkipsNothing WalkServesStored CountExact
