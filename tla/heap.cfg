SPECIFICATION FairSpec
CONSTANTS
  HEAP_START = 64
  HEAP_SIZE = 84
  HDR = 12
  WORD = 176
  Requests <- HeapRequests
INVARIANTS TypeOK BlocksTile LiveBlocks NoneSkipped
PROPERTIES CallsReturn ImplementsAllocator
