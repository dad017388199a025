SPECIFICATION Spec
CONSTANTS
 n1 = n1
 n2 = n2
 n3 = n3
 Nodes <- Two
 Loss = FALSE
 MaxNodes = 3
 SYNCH_PERIOD = 10
 MAGIC = 3
 CharMax = 127
 Programs <- Torn2
 ByteTime <- Long24
 Quantum <- Ones
 RunTime <- Run26
 Radio <- CC1100
 RxTime = 2
 QuietStart = TRUE
 CanQuit = {}
 CanStop = {}
INVARIANTS DeliveredOnce
