SPECIFICATION Spec
CONSTANTS
  Top = 7
  Limits = {3, 7}
  Others = {1, 2}
  Ccr = {3, 4}
  Ticks = {1, 2}
  MaxWrites = 1
  MaxNest = 1
  W = 4
  Operands = {0, 1, 7, 8, 127, 128, 255}
  MemTop = 40
  Stack = 30
  TextAt = 4
  Values = {0, 1, 128, 255}
  RamTop = 112
  Ramend = 111
  Data = 96
  ByteTime = 3
  MaxTx = 3
  MaxRx = 2
  Block = 2
  MaxSets = 2
  Channels = 2
  AdcTicks = {1, 3}
  Sht = 2
  Conv = 1
  MaxStarts = 2
  Systems = {"basic", "plus", "fll", "ucs"}
  Period <- MCPeriod
  Confs <- MCConfs
  Fraction = 3
  Cycles = {1, 3}
  MaxTurns = 4
  MaxConfs = 2
  Pins = {1, 2}
  PortKinds = {"port1", "port3", "avr"}
  MaxSettings = 2
  Factors = {1, 127, 128, 255}
  Times <- MCTimes
  Dividers = {3, 4}
  Intervals <- MCIntervals
  MaxFlashOps = 2
  MaxSystem = 2
  MaxAge = 15
  Program <- MCProgram
  Monitors <- MCMonitors
  NewValue = 3
  MaxOps = 2
  MaxBreaks = 1
  MaxBacktracks = 1
  MaxDeaths = 1
INVARIANTS InterruptKept MatchEachPeriod DataKept TicksKept Computes
PROPERTIES Wakes
