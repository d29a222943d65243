SPECIFICATION FairSpec
CONSTANTS
  Invoice = {i1, i2}
  Handler = {h1, h2}
  InOrder = TRUE
  MaxDups = 0
  MaxFaults = 0
INVARIANTS
  Synchronised
PROPERTIES
  PaymentIsRecorded
CHECK_DEADLOCK FALSE
