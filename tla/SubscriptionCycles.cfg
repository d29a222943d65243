SPECIFICATION Spec
CONSTANTS
  Handler = {h1}
  Kinds = {"activate", "period", "status", "failed", "succeeded", "usage"}
  Prompt = TRUE
  MaxClock = 8
  MaxCharges = 3
  MaxDups = 0
  MaxFaults = 0
INVARIANTS
  BilledOnce
  BilledCompletely
  WindowFollowsCycle
  StatusSynchronised
CHECK_DEADLOCK FALSE
