SPECIFICATION Spec
CONSTANTS
  Handler = {h1}
  Kinds = {"activate", "period", "status", "failed", "succeeded", "cancel_at", "deleted", "usage", "end", "user"}
  Prompt = TRUE
  MaxClock = 4
  MaxCharges = 0
  MaxDups = 0
  MaxFaults = 0
INVARIANTS
  BilledOnce
CHECK_DEADLOCK FALSE
