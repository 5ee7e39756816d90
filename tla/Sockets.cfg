SPECIFICATION Spec
CONSTANTS
  NConns = 3
  Ports = {1}
  MaxId = 5
  NSocks = 2
  Callers = {k1, k2}
  FirstEph = 1
  PortSpace = 2
SYMMETRY Symmetry
VIEW View
INVARIANTS
  OneOwner
  OwnedConnExists
  WaitingIsUnowned
  IdsUnique
  PeersMutual
  RxFromPeer
CHECK_DEADLOCK FALSE
