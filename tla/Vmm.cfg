SPECIFICATION VmmSpec
CONSTANTS
  Callers = {k1, k2}
  Frames = {1, 2, 3, 4, 5, 6, 7}
  Root = 0
  Virt <- MCVirt
  Pages = {1}
  Rights <- MCRights
VIEW View
CONSTRAINT NoneWithin
ACTION_CONSTRAINT LowestFrame
INVARIANTS
  FramesAccounted
  NoEmptyTable
PROPERTY ImplementsAddressSpace
