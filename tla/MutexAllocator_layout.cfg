CONSTANTS
  t1 = t1
  t2 = t2
  s1 = s1
  s2 = s2
  s3 = s3
  Threads = {t1, t2}
  Slabs = {s1, s2, s3}
  MaxSlots = 2
  MaxDemand = 4
  MaxQueue = 4
  NoSlab = NoSlab
  NoSlot = NoSlot

SPECIFICATION Spec
SYMMETRY Symmetry

INVARIANT SlotInLayout
