SPECIFICATION Spec
CONSTANTS
  Entity = {e1}
  Provider = {p1}
  Service = {s1, s2, s3}
  Node = {n1}
  Edge = {d1, d2}
  Content = {c1}
  MaxRank = 3
  MaxDepth = 2
  None = None
INVARIANTS
  TypeOK
  SupplyChainSound
  GraphClosed
  ImpactIsExact
PROPERTIES
  StaleForever
  StaleImpactUnderstates
SYMMETRY MCSymmetry
