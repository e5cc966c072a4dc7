CONSTANTS
  SlotBits = 3
  BlockBits = 2
  HeadTaken = 2
  TailTaken = 1
  MaxBlocks = 8

SPECIFICATION Spec

INVARIANT TypeOK
INVARIANT SlotsPartitioned
INVARIANT PointersCurrent
INVARIANT BlockListCovers
PROPERTY GrowsWhenFull
