SPECIFICATION Spec
CONSTANTS
  n1 = n1
  n2 = n2
  n3 = n3
  Nodes = {n1, n2, n3}
  d1 = d1
  d2 = d2
  Data = {d1, d2}
  NoData = NoData
  MaxTime = 3
SYMMETRY Interchangeable
INVARIANTS
  TypeOK
  WellFormed
  AreaIsIntegral
PROPERTIES
  ImplementsDeque
CHECK_DEADLOCK FALSE
