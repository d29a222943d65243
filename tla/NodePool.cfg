SPECIFICATION Spec
CONSTANTS
  Tenant = {t1, t2}
  Node = {n1, n2}
  Channel = {c1, c2}
  NoTenant = NoTenant
  NoNode = NoNode
  NoChannel = NoChannel
  MaxPool = 1
  MaxResets = 1
  Faults = {}
INVARIANTS
  TypeOK
  OneNodePerTenant
  
  PoolBounded
  CountedIsClaimable
  OneInbound

  
SYMMETRY Symmetry
CHECK_DEADLOCK FALSE
