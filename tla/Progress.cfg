CONSTANTS
  t1 = t1
  t2 = t2
  t3 = t3
  s1 = s1
  s2 = s2
  s3 = s3
  c1 = c1
  c2 = c2
  i1 = i1
  e1 = e1
  e2 = e2
  o1 = o1
  o2 = o2
  a = a
  b = b
  n1 = n1
  n2 = n2
  n3 = n3
  n4 = n4
  Threads = {t1, t2}
  None = None
  Slabs = {s1, s2, s3}
  MaxSlots = 2
  SpinDemand = 3
  MutexDemand = 4
  MaxQueue = 2
  Copies = {c1, c2}
  Internals = {i1}
  Classes = {e1, e2}
  Objects = {o1, o2}
  MaxDemand = 2
  Ordered = TRUE
  Values = {a, b}
  Nodes = {n1, n2}
  MaxNodes = 2
  ListThreads = {t1, t2, t3}
  ListNodes = {n1, n2, n3, n4}

SPECIFICATION FairSpec

PROPERTY WaitingEnds
PROPERTY LocksReleased
PROPERTY CallsKeepReturning
