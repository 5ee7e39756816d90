SPECIFICATION Spec
CONSTANTS
  Callers = {k1, k2}
  Names = {a}
  NFds = 2
  MaxNodes = 2
  FirstCap = 1
  Bytes = {x, y}
  MaxSize = 2
  MaxLen = 2
SYMMETRY Symmetry
INVARIANT HandlesSound
PROPERTY ImplementsFileStore
