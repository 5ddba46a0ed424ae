CONSTANTS
  a = a  b = b  c = c  d = d  e = e
  QLen = 3
  Pri <- MCPri
SPECIFICATION Spec
INVARIANTS Enqueue0IsStableInsert PriParSubtreesOrdered FindMemIndexIsSmallestFit
