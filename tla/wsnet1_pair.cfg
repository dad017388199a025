SPECIFICATION Spec
CONSTANTS
 n1 = n1
 n2 = n2
 n3 = n3
 Nodes <- Two
 Loss = FALSE
 MaxNodes = 3
 SYNCH_PERIOD = 5
 MAGIC = 2
 CharMax = 127
 Programs <- Late2
 ByteTime <- Long1
 Quantum <- Slow2
 RunTime <- Run12
 Radio <- Mixed
 RxTime = 2
 QuietStart = TRUE
 CanQuit = {}
 CanStop = {}
INVARIANTS ViewAgrees BarrierExact NearRendezVous NoTxLost OnceUnlessTorn RxComplete RxNotEarly
