SPECIFICATION Spec
CONSTANTS
  t1 = t1 t2 = t2 s1 = s1
  Worker = Worker NoActor = NoActor NoStream = NoStream Bad = Bad
  Threads = {t1, t2}
  Streams = {s1}
  MaxStreams = 1
  IngestBlocks = 1
  Capacity = 2
  OpenCountMax = 2
  SegmentRecords = 2
  MaxSegments = 2
  BatchSizes = {1, 3}
  Calls <- LogCalls
  Faults = {"rot", "timeout"}
  SoloOpen = TRUE
  Deinits = {FALSE}
  MaxSamples = 5
  MaxBoots = 2
  MaxFails = 1
INVARIANTS SamplesKept SlotsMatchHandles FlushSyncCovers
PROPERTIES RolloverRetains ImplementsLog
