SPECIFICATION Spec
CONSTANTS
  PAGE_SIZE = 5
  MEM_PAGE_SIZE = 10
  HeapHeader = 3
  MemSizes = {0, 3, 5, 7, 10, 13, 30}
  DataSections <- AllData
  StackSizes = {0, 4}
  BlockSizes = {3, 5}
  GrowPages = {0, 1}
  MaxFrames = 2
  MaxBlocks = 2
  MaxPages = 4
INVARIANTS
  TypeOK
  LayoutFits
  PointersDecode
  HeldAreLiveAtZero
CHECK_DEADLOCK FALSE
