SPECIFICATION Spec
CONSTANTS
 PKTLIST_MAX = 3
 PKTSIZE_MAX = 5
 Lengths = {2, 3, 5}
 MaxSent = 5
INVARIANTS CutLikePrevious
PROPERTIES ImplementsFifo Drained
CHECK_DEADLOCK FALSE
