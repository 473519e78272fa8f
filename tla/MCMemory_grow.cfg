SPECIFICATION Spec
CONSTANTS
  PAGE_SIZE = 5
  MEM_PAGE_SIZE = 10
  HeapHeader = 3
  MemSizes = {30}
  DataSections <- PlainData
  StackSizes = {0}
  BlockSizes = {1}
  GrowPages = {2}
  MaxFrames = 1
  MaxBlocks = 1
  MaxPages = 5
PROPERTY GrowReturnsOldPages
CHECK_DEADLOCK FALSE
