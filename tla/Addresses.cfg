CONSTANTS
  IntWidth = 8
  SizeWidth = 11
  MaxAllocators = 9
  MaxMutex = 4
  MaxSlabs = 9
  LimitLockFree = 260
  LimitMutex = 1030
  LimitVector = 1030
  PtrSize = 4
  MaxSlots = 3
  BlockSlots = 4
  MaxBlocks = 4
  Sizes = {1, 3, 8, 16}
  MaxMultiple = 4
  IntLimit = 64
  a = a
  b = b
  Allocators = {a, b}
  MaxClass = 1
  FancyBlockSlots = 2
  FancyMaxBlocks = 2
  MaxAddress = 15
  MaxOutside = 1
  Nothing = Nothing
  WordLimit = 128
  ObjectSizes = {1, 2, 3, 4, 8}
  Length = 6
  First = 16

SPECIFICATION Spec
SYMMETRY Symmetry

INVARIANT ClassFits
INVARIANT AddressesExact
INVARIANT FancyExact
