\* The fifth heap page needs a second level 1 table, out of the middle of a region.
SPECIFICATION Spec
CONSTANTS
  Regions <- MCRegions
  Fanout = 4
CHECK_DEADLOCK FALSE
INVARIANTS TypeOK MemoryAccounted OneOwner
