CONSTANTS
  t1 = t1
  t2 = t2
  u1 = u1
  u2 = u2
  e1 = e1
  o1 = o1
  o2 = o2
  Threads = {t1, t2}
  Copies = {u1, u2}
  Classes = {e1}
  Objects = {o1, o2}
  MaxDemand = 2
  None = None

SPECIFICATION Spec

INVARIANT EqualsReturn
