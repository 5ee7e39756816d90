SPECIFICATION DgramSpec
CONSTANTS
  NPorts = 2
  QueueCap = 1
  UdpPorts = {1}
  MaxMsgs = 100
  MaxBinds = 100
  NSocks = 2
  Callers = {k1, k2}
  FirstEph = 2
  PortSpace = 4
SYMMETRY Symmetry
VIEW View
INVARIANTS
  PortsUnique
  NoStaleDatagrams
  ServedIsBound
CHECK_DEADLOCK FALSE
