SPECIFICATION Spec
CONSTANTS
  Processors <- MCProcessors
INVARIANTS OwnArguments PageOutlivesUse OwnThreadData PageTableExclusive
PROPERTIES BootCompletes
