SPECIFICATION KernelSpec
CONSTANTS
  NInit = 6
  Spawners = {3, 6}
INVARIANTS TypeOK LockDiscipline HangsOnlyOnOwnLock OneHome ContextsValid NoPanic
PROPERTIES NoOvertaking ImplementsRoundRobin OnlyProgramsStarve
