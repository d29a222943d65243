SPECIFICATION FairSpec
CONSTANTS
  Handler = {h1}
  Kinds = {"activate", "period", "status", "cancel_at", "deleted", "usage", "end", "user"}
  Prompt = TRUE
  MaxClock = 6
  MaxCharges = 2
  MaxDups = 0
  MaxFaults = 0
INVARIANTS
  TypeOK
PROPERTIES
  
  SubscriptionEnds
CHECK_DEADLOCK FALSE
