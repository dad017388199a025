SPECIFICATION Spec
CONSTANTS
 FIFO_SIZE = 3
 BUFFER_MAX = 3
 MaxIn = 5
 MaxOut = 4
INVARIANTS OnlyKeptIsSeen RestIsPending
PROPERTIES ImplementsReplay
