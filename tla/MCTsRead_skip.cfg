SPECIFICATION ReadSpec
CONSTANTS
  t1 = t1 t2 = t2 s1 = s1
  Worker = Worker NoActor = NoActor NoStream = NoStream Bad = Bad
  Threads = {t1}
  Readers = {t1}
  Streams = {s1}
  MaxStreams = 1
  IngestBlocks = 1
  Capacity = 2
  OpenCountMax = 2
  SegmentRecords = 2
  MaxSegments = 2
  BatchSizes = {1}
  SoloOpen = TRUE
  Deinits = {}
  CursorBlocks = 1
  Calls <- SoloCalls
  Modes = {"feed"}
  Windows <- Everything
  Descends = {FALSE}
  LiveViews = {TRUE}
  MaxAggPoints = 1
  Faults = {}
  MaxSamples = 4
  MaxBoots = 0
  MaxFails = 1
INVARIANTS ConsumerNeverSkips
