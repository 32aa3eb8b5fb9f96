SPECIFICATION Spec
CONSTANTS
  t1 = t1 t2 = t2 d1 = d1 d2 = d2 f1 = f1 f2 = f2 n1 = n1 b1 = b1
  NoThread = NoThread NoDoc = NoDoc NoVal = NoVal Hollow = Hollow Absent = Absent Partial = Partial
  Threads = {t1, t2}
  Docs = {d1, d2}
  Fields = {f1, f2}
  Scalars = {}
  Blobs = {b1}
  MaxFields = 1
  FileSystems = {"littlefs", "fat"}
  Faults <- CrashFaults
  MaxBoots <- OnceEach
  FilterSets <- QueryFilters
  Limits = {0, 1}
  Capacities = {0, 1, 2}
SYMMETRY DocSymmetry
INVARIANTS TypeOK StoredIntact StagingTransient QueryFindsStored QueryCounts
