\* Queues so small that each of them fills up.
SPECIFICATION Spec
CONSTANTS
  Boot = 2
  NTasks = 5
  QueueCap = 4
  SpawnCap = 2
  CodeCap = 2
  MaxKeys = 6
INVARIANTS NoTaskForgotten SleepsOnlyWhenIdle
PROPERTIES EventuallyServed
