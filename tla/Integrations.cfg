SPECIFICATION Spec
CONSTANTS
  Template = {t1, t2}
  Once = {t2}
  Request = {r1, r2}
  Event = {e1}
  MaxCopies = 2
  MaxRequests = 3
  MaxFaults = 1
INVARIANTS
  TypeOK
  
PROPERTIES
  DeliversOnce
CHECK_DEADLOCK FALSE
