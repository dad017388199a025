SPECIFICATION Spec
CONSTANTS
  BoardNames = {"senslab13", "senslab14", "telosb", "wsn430", "wisenode", "iclbsn", "wasp", "mosar", "waspx", "powwow", "otsetre", "ot2006", "ez430", "ez430rf", "chronos", "test1", "test2", "test3"}
  MaxBytes = 3
  Ids <- MCIds
  Wirings = {"follows", "port"}
  Kinds = {"hd44780", "gdm1602a", "ds1722", "cma3000", "scp1000", "spidev_master", "spidev_dsp"}
  Texts <- MCTexts
  MaxOps <- MCMaxOps
  Confs = {3, 2, 19, 18, 9, 8}
  Transfers <- MCTransfers
  Values = {1, 2}
  Slack = 2
  MaxUpsets = 1
  Base = 2
  MaxFrame = 6
  MaxWrites = 1
  Pages = 2
  PageSize = 2
  Field = 3
  MaxPrograms = 2
  FifoLen = 9
  Threshold = 5
  Setups <- MCSetups
  Frames <- MCFrames
  Chips = {"m25p80", "at45db", "cc2420", "cc1100", "board", "ds2411", "peripheral"}
  Fifo1100 = 8
  Threshold1100 = 4
  Setups1100 <- MCSetups1100
  Frames1100 <- MCFrames1100
INVARIANTS Reads Writes Announces
CHECK_DEADLOCK FALSE
