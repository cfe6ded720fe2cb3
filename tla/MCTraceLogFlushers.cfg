SPECIFICATION Spec
CONSTANTS
  Threads = {t1, t2}
  Controllers = {t1, t2}
  NoThread = NoThread
  BUFFER_SZ = 2
  BATCH_SZ = 1
  PlainPhases = {"BEGIN"}
  BeginIds = {0}
  Thresholds = {1}
  MaxEvents = 2
  MaxTime = 0
  MaxMarkers = 0
INVARIANTS
  FlushDeliversAll
