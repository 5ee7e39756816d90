SPECIFICATION TableSpec
CONSTANTS
  NTasks = 4
  MaxStacks = 4
  MaxPid = 5
  TaskCallers = {k1, k2}
INVARIANTS
  PidsUnique
  CurrentStaysLive
  StacksAccounted
