SPECIFICATION Spec
CONSTANTS
  t1 = t1 t2 = t2 k1 = k1 k2 = k2 k3 = k3 k4 = k4 n1 = n1 n2 = n2 v1 = v1 v2 = v2
  NoThread = NoThread NoKey = NoKey NoVal = NoVal NoReq = NoReq
  Threads = {t1, t2}
  Keys = {k1, k2, k3, k4}
  NsOf <- KvNsOf
  Ids = {1, 2, 3}
  IdOf <- KvIdOf
  Values = {v1, v2}
  Defaults <- KvDefaults
  ForeignIds = {2}
  MaxEntries = 2
  SlabBlocks = 3
  Calls <- IndexCalls
  Faults = {}
  SoloFirstUse = TRUE
  MaxBoots = 1
INVARIANTS StoredKeysListed IndexExact IterationExact ResetClears
