SPECIFICATION ToppingSpec
CONSTANTS
  Threads = {main, worker, handler}
  Controllers = {main, handler}
  Main = main
  Handler = handler
  NoThread = NoThread
  BUFFER_SZ = 2
  BATCH_SZ = 1
  PlainPhases = {"INSTANT"}
  BeginIds = {}
  Thresholds = {}
  MaxEvents = 2
  MaxTime = 0
  MaxMarkers = 2
  Interruptible = {main}
  InterruptiblePlaces = {"idle", "add_wait", "add_body", "flush_wait", "flush_clear", "flush_loop", "header"}
  MaxSignals = 1
  MaxInits = 1
INVARIANTS
  HandlerNotBlockedByHost
