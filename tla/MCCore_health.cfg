SPECIFICATION FairSpec
CONSTANTS
  t1 = t1 t2 = t2 t3 = t3
  NoThread = NoThread None = None
  Threads = {t1, t2, t3}
  MaxFaults = 3
  MaxResets = 1
  MaxBoots = 1
CHECK_DEADLOCK FALSE
INVARIANTS TypeOK NoSilentFault ListenersOutsideLock ReportedOnce
PROPERTIES FaultReported
