CONSTANTS
  SlotBits = 4
  BlockBits = 4
  HeadTaken = 2
  TailTaken = 1
  MaxBlocks = 4

SPECIFICATION Spec

INVARIANT BlockListExact
INVARIANT FreeSlotFound
