SPECIFICATION Spec
CONSTANTS
 n1 = n1
 n2 = n2
 n3 = n3
 Nodes <- Two
 Loss = TRUE
 MaxNodes = 3
 SYNCH_PERIOD = 5
 MAGIC = 1
 CharMax = 127
 Programs <- Early2
 ByteTime <- Long1
 Quantum <- Ones
 RunTime <- Run5
 Radio <- CC1100
 RxTime = 2
 QuietStart = FALSE
 CanQuit = {n1}
 CanStop = {n1}
INVARIANTS RxInOrder
CHECK_DEADLOCK FALSE
