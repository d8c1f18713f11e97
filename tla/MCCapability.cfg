SPECIFICATION Spec
CONSTANTS
  Tasks = {1, 2, 3, 4}
  NoTask = 0
  Parent <- MCParent
  Empty = {1, 4}
  BootCaps <- MCBootCaps
  PhysLimit = 2
  Arguments = {0, 1, 3}
  MaxHandle = 2
INVARIANTS TypeOK FreshHandles NoAmplification
PROPERTIES HandlesStable LinearNeverCopied FailureLosesAtMostTheTransferred
