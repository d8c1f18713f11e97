\* A program with a segment on two pages; stacks of two or three pages; overflow is a panic.
SPECIFICATION Spec
CONSTANTS
  Tasks = {1, 2}
  PageSize = 2
  Canonical = 16
  Top = 128
  OverflowChecks = TRUE
  PhysTop = 28
  Fanout = 4
  Depth = 2
  Frames = {1, 2, 3, 4, 5, 6, 7, 8, 9}
  Astray = {8}
  StackPage = 4
  StackPages = 2
  MaxMixed = 2
  Programs <- MCTwoPages
  RamCap = {1}
  PhysCap <- MCPhysCap
  Addrs = {0, 1, 16, 40, 70}
  Lens = {0, 2, 3, 4, 18, 126}
  Physs = {5, 6, 26, 32}
INVARIANTS ImageIsTheProgram
