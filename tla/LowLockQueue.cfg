CONSTANTS
  t1 = t1
  t2 = t2
  t3 = t3
  v1 = v1
  v2 = v2
  n1 = n1
  n2 = n2
  n3 = n3
  n4 = n4
  n5 = n5
  n6 = n6
  Threads = {t1, t2, t3}
  Values = {v1, v2}
  Nodes = {n1, n2, n3, n4, n5, n6}
  MaxNodes = 3
  NoNode = NoNode
  NoValue = NoValue

SPECIFICATION Spec
SYMMETRY Symmetry

INVARIANT TypeOK
INVARIANT NoUseAfterFree
INVARIANT NoNodeLost
PROPERTY IsFifoQueue
