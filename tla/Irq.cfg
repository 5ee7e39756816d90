SPECIFICATION IrqFairSpec
CONSTANTS
  Irqs = {i1, i2}
  Handlers = {h1, h2}
  NoBh = NoBh
  Unused = Unused
  Cap = 3
PROPERTIES
  ImplementsFifo
  OldestRunsOrStuck
\* An ISR that spins on the lock of the thread it interrupted stays there.
CHECK_DEADLOCK FALSE
