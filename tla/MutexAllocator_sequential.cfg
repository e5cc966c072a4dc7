CONSTANTS
  t1 = t1
  s1 = s1
  s2 = s2
  s3 = s3
  s4 = s4
  Threads = {t1}
  Slabs = {s1, s2, s3, s4}
  MaxSlots = 3
  MaxDemand = 8
  MaxQueue = 5
  NoSlab = NoSlab
  NoSlot = NoSlot

SPECIFICATION Spec
SYMMETRY Symmetry

INVARIANT QueueExact
INVARIANT DeletedOnce
PROPERTY IsSlotPool
