SPECIFICATION Spec
CONSTANTS
 Nodes = {n1, n2}
 Loss = FALSE
 MaxNodes = 2
 SYNCH_PERIOD = 3
 MAGIC = 1
 CharMax = 3
 Datagrams <- FewDatagrams
INVARIANTS NoDesync NoDanglingEvent ScheduledOnce NodesCounted DeliveredInOrder
PROPERTIES RendezVousAhead ImplementsMedium
CHECK_DEADLOCK FALSE
