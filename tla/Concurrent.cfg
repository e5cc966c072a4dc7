CONSTANTS
  t1 = t1
  t2 = t2
  t3 = t3
  u1 = u1
  u2 = u2
  c1 = c1
  c2 = c2
  i1 = i1
  i2 = i2
  e1 = e1
  e2 = e2
  o1 = o1
  o2 = o2
  o3 = o3
  a = a
  b = b
  n1 = n1
  n2 = n2
  n3 = n3
  n4 = n4
  Threads = {t1, t2, t3}
  FewThreads = {u1, u2}
  None = None
  Copies = {c1, c2}
  Internals = {i1, i2}
  Classes = {e1}
  Objects = {o1, o2}
  MaxDemand = 3
  Ordered = FALSE
  MutexCopies = {u1, u2}
  MutexClasses = {e1, e2}
  MutexObjects = {o1, o2}
  MutexDemand = 2
  Slabs = {o1, o2, o3}
  BlockSlots = 3
  Values = {a, b}
  Nodes = {t1, t2, t3}
  MaxNodes = 3
  ListNodes = {n1, n2, n3, n4}

SPECIFICATION Spec
SYMMETRY Symmetry

INVARIANT OnePerClass
INVARIANT UsedWhenBuilt
INVARIANT FoundMaker
INVARIANT MetadataSafe
INVARIANT NodesKept
PROPERTY Linearized
