SPECIFICATION SpecLegacy
CONSTANTS
  NTasks = 2
  NFds = 2
  NObjs = 3
  NPipes = 1
  PipeBuf = 1
  MaxIO = 1
  MaxRefs = 4
  MaxLeaked = 0
  LegacyFds = {0, 1}
INVARIANTS
  PipeCountsMatchEndpoints
