SPECIFICATION Spec
CONSTANTS
  Bolt = {b1, b2}
  NoBolt = NoBolt
  Request = {r1}
  Task = {k1}
INVARIANTS
  TypeOK
  PaidIsReceived
PROPERTIES
  PollCloses
  EnteredOnce
CHECK_DEADLOCK FALSE
