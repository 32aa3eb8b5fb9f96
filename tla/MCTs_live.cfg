SPECIFICATION FairSpec
CONSTANTS
  t1 = t1 t2 = t2 s1 = s1
  Worker = Worker NoActor = NoActor NoStream = NoStream Bad = Bad
  Threads = {t1, t2}
  Streams = {s1}
  MaxStreams = 1
  IngestBlocks = 1
  Capacity = 1
  OpenCountMax = 2
  SegmentRecords = 1
  MaxSegments = 2
  BatchSizes = {1, 2}
  Calls <- SyncCalls
  Faults = {"write", "header", "unlink", "submit", "timeout"}
  SoloOpen = TRUE
  Deinits = {}
  MaxSamples = 3
  MaxBoots = 0
  MaxFails = 1
INVARIANTS TypeOK EventAccounting
PROPERTIES SyncReturns FlushHappens
