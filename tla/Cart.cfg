SPECIFICATION Spec
CONSTANTS
  Network = {n1, n2}
  Tier = {"paid", "cc", "free"}
  Handler = {h1}
  MaxCarts = 2
  MaxSubs = 2
  MaxItems = 3
  MaxDups = 1
CHECK_DEADLOCK FALSE
INVARIANTS
  TypeOK
  OneOpenCart
  
  
  
PROPERTIES
  CompleteStays
