\* More heap pages than a page table has entries: map_to takes a frame out of the region.
SPECIFICATION Spec
CONSTANTS
  Regions <- MCOneRegion
  Fanout = 2
CHECK_DEADLOCK FALSE
INVARIANTS AllocatesUnusedFrame
