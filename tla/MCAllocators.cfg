SPECIFICATION MCSpec
CONSTANTS
  HeapSize = 20
  Layouts <- MCLayouts
  BlockSizes <- MCBlockSizes
  MinHole = 4
  HoleAlign = 2
  NodeSize = 4
  NodeAlign = 2
INVARIANTS BlockMemoryAccounted ListRegionsSound
PROPERTIES ImplementsAllocator ListLosesOnlyPadding
