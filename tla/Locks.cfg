SPECIFICATION LocksSpec
CONSTANTS
  Callers = {k1, k2, k3}
INVARIANTS
  NoCircularWait
