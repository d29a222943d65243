SPECIFICATION Spec
CONSTANTS
  Invoice = {i1}
  Handler = {h1}
  InOrder = FALSE
  MaxDups = 2
  MaxFaults = 1
INVARIANTS
  TypeOK
  PaidHasPayment
PROPERTIES
  NeverBackToDraft
  
CHECK_DEADLOCK FALSE
