CONSTANTS
  m1 = m1
  m2 = m2
  k1 = k1
  k2 = k2
  NoMac = NoMac
  NoClient = NoClient
  NoLease = NoLease
  NoAddr = NoAddr
  Client = {c1, c2}
  None = None
  Lifetime = {0, 2, 3, 6}
  Width = 5
SYMMETRY Symmetry
SPECIFICATION MCSpec
INVARIANTS NoDoubleUse ContextsSound TermSound TimersInOrder
 
CHECK_DEADLOCK FALSE
