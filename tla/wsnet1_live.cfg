SPECIFICATION FairSpec
CONSTANTS
 n1 = n1
 n2 = n2
 n3 = n3
 Nodes <- Three
 Loss = FALSE
 MaxNodes = 2
 SYNCH_PERIOD = 6
 MAGIC = 1
 CharMax = 127
 Programs <- Some3
 ByteTime <- Long1
 Quantum <- Slow2
 RunTime <- Run8
 Radio <- Mixed
 RxTime = 2
 QuietStart = TRUE
 CanQuit = {}
 CanStop = {}
PROPERTIES Terminates
CHECK_DEADLOCK FALSE
