SPECIFICATION Spec
CONSTANTS
  PAGE_SIZE = 5
  MEM_PAGE_SIZE = 10
  HeapHeader = 3
  MemSizes = {35}
  DataSections <- PlainData
  StackSizes = {0}
  BlockSizes = {1, 2}
  GrowPages = {}
  MaxFrames = 0
  MaxBlocks = 2
  MaxPages = 3
INVARIANT RegionsKept
CHECK_DEADLOCK FALSE
