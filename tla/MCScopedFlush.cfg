SPECIFICATION ScopedSpec
CONSTANTS
  Threads = {t1, t2}
  Controllers = {t1}
  NoThread = NoThread
  BUFFER_SZ = 4
  BATCH_SZ = 2
  PlainPhases = {"BEGIN", "END", "INSTANT"}
  BeginIds = {0, 1, 2, 3}
  Thresholds = {1}
  MaxEvents = 4
  MaxTime = 1
  MaxMarkers = 0
  MaxScopes = 2
  MaxSwitches = 0
PROPERTIES
  ErasesOwnBegin
