SPECIFICATION FairSpec
CONSTANTS
  Task = {t1}
  Runner = {r1, r2}
  NodeTermination = {t1}
  MaxAttempts = 2
  LimboAge = 2
  Period = 3
  MaxLag = 1
  MaxAudit = 2
  MaxLost = 1
INVARIANTS
  TypeOK
  StatusMatchesAudit
  CopiesAreVersioned
PROPERTIES
  ImplementsTaskLog
  EveryTaskSettles
