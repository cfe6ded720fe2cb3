SPECIFICATION ToppingFairSpec
CONSTANTS
  Threads = {main, worker, handler}
  Controllers = {main, handler}
  Main = main
  Handler = handler
  NoThread = NoThread
  BUFFER_SZ = 2
  BATCH_SZ = 2
  PlainPhases = {"INSTANT"}
  BeginIds = {}
  Thresholds = {}
  MaxEvents = 3
  MaxTime = 0
  MaxMarkers = 3
  Interruptible = {main}
  InterruptiblePlaces = {"idle", "add_wait", "flush_wait", "header"}
  MaxSignals = 2
  MaxInits = 2
INVARIANTS
  ToppingTypeOK
  FooterClosesTrace
  FilesHoldOutput
PROPERTIES
  HandlerReturns
  FlushReturns
  TraceGetsFooter
