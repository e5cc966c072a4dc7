CONSTANTS
  SlotBits = 3
  BlockBits = 2
  HeadTaken = 2
  TailTaken = 1
  MaxBlocks = 4

SPECIFICATION Spec

INVARIANT FreeSlotFound
