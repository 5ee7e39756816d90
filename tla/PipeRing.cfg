SPECIFICATION FairSpec
CONSTANTS
  Bytes = {b1, b2}
  PipeBuf = 3
  MaxLen = 4
  MaxBytes = 8
PROPERTIES
  ImplementsStream
  CallReturns
