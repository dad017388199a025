CONSTANTS
  Ids = {pin, backtrack}
  BacktrackId = backtrack
  Vals = {0, 1}
  Block = 3
  Threshold = 1
  MaxTrace = 6
  MaxBacktracks = 1
  Byte = {1, 2}
  MaxBytes = 4
  Signals = {0, 1}
  MaxFiles = 2
  MaxRecorded = 2
  MaxTime = 2
  MaxIdle = 3
  Margin = 2
  MaxSlots = 2
SPECIFICATION RecSpec
INVARIANTS TraceTrue NoTxByteLost FilesTrue
PROPERTIES ImplementsTrace ImplementsRxLog
CHECK_DEADLOCK FALSE
