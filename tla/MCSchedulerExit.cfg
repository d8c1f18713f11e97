\* The kernel as it boots: one task, no capability.
SPECIFICATION KernelSpec
CONSTANTS
  NInit = 1
  Spawners = {}
PROPERTIES DyingIsKilled
