CONSTANTS
  t1 = t1
  t2 = t2
  t3 = t3
  s1 = s1
  s2 = s2
  s3 = s3
  s4 = s4
  Threads = {t1, t2, t3}
  Slabs = {s1, s2, s3, s4}
  MaxSlots = 2
  MaxDemand = 4
  NoSlab = NoSlab
  NoSlot = NoSlot

SPECIFICATION Spec
SYMMETRY Symmetry

INVARIANT TypeOK
INVARIANT LocksExclude
INVARIANT SlotsOwnedOnce
INVARIANT NoSlotLost
INVARIANT CounterExact
INVARIANT AllocateAnswers
INVARIANT OfferedOnce
INVARIANT DeletedOnce
INVARIANT SlabsBounded
PROPERTY IsSlotPool
