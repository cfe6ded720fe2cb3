SPECIFICATION Spec
CONSTANTS
  Threads = {t1, t2}
  Controllers = {t1}
  NoThread = NoThread
  BUFFER_SZ = 1
  BATCH_SZ = 1
  PlainPhases = {}
  BeginIds = {0, 1}
  Thresholds = {1}
  MaxEvents = 3
  MaxTime = 1
  MaxMarkers = 1
INVARIANTS
  TypeOK
  LockOwned
  CapacityBound
  ThreadsSeen
  StreamInTimeOrder
  NothingLost
PROPERTIES
  FlushBufferStable
  ImplementsChannel
