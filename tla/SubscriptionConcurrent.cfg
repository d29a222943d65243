SPECIFICATION Spec
CONSTANTS
  Handler = {h1, h2}
  Kinds = {"activate", "period", "usage", "end", "user", "cancel_at"}
  Prompt = FALSE
  MaxClock = 2
  MaxCharges = 0
  MaxDups = 0
  MaxFaults = 1
SYMMETRY Symmetry
INVARIANTS
  CopiesAreVersioned
PROPERTIES
  AuditOnlyGrows
CHECK_DEADLOCK FALSE
