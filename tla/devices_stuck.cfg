SPECIFICATION FairSpec
CONSTANTS
  BoardNames = {}
  MaxBytes = 0
  Ids <- MCIds
  Wirings = {}
  Kinds = {}
  Texts <- MCTexts
  MaxOps <- MCMaxOps
  Confs = {3, 2, 19, 18, 9, 8}
  Transfers <- MCTransfers
  Values = {1, 2}
  Slack = 2
  MaxUpsets = 1
  Base = 2
  MaxFrame = 6
  MaxWrites = 1
  Pages = 2
  PageSize = 2
  Field = 3
  MaxPrograms = 2
  FifoLen = 9
  Threshold = 5
  Setups <- MCSetups
  Frames <- MCFrames
  Chips = {"cc1100"}
  Fifo1100 = 8
  Threshold1100 = 4
  Setups1100 <- MCInterrupted
  Frames1100 <- MCFrames1100
PROPERTIES EndsReception
CHECK_DEADLOCK FALSE
