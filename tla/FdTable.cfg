SPECIFICATION Spec
CONSTANTS
  NTasks = 2
  NFds = 2
  NObjs = 3
  NPipes = 2
  PipeBuf = 0
  MaxIO = 0
  MaxRefs = 3
  MaxLeaked = 1
  LegacyFds = {}
INVARIANTS
  RefcountExact
  NoDanglingDescriptor
  CloexecOnlyOnOpen
PROPERTIES
  DescriptorKeepsMeaning
  FailedPipeLeavesNoTrace
  ExecClosesExactlyCloexec
