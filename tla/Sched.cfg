SPECIFICATION FairSpec
CONSTANTS
  NTasks = 8
  Policies = {"RR", "CFS"}
INVARIANTS
  RunnableIsSwitchable
  CpuRunsCurrent
PROPERTIES
  NoStarvation
\* A processor sent on from a bare stack does nothing the model knows.
CHECK_DEADLOCK FALSE
