SPECIFICATION FairSpec
CONSTANTS
 n1 = n1
 n2 = n2
 Nodes <- Two
 Antennas <- Omni
 Models <- Orders
 Programs <- Progs
 Quantum <- Speed
 RunTime <- Run10
 Period = 4
 Killed <- One
INVARIANTS Agrees NoProtocolError HeardOnce
PROPERTIES EveryoneLeaves
CHECK_DEADLOCK FALSE
