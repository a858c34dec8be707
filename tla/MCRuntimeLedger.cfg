CONSTANTS
  Process = {p1, p2}
  t1 = t1
  t2 = t2
  work = work
  Tree <- TreeDef
  StartTree = t1
  Lineage = {l1, l2}
  Scope = {work}
  MaxAttempts <- AttemptsDef
  MaxLines <- LinesDef
  Charge <- ChargeDef
  ChargeLimit = 1
  None = None
  MaxRequests = 4
  MaxFaults = 2
  MaxEdits = 2
SPECIFICATION Spec
SYMMETRY Symmetry
CONSTRAINT Bounded
INVARIANTS
  TypeOK
  HeadReplays
  NothingDangles
  BudgetHeld
PROPERTIES
  CompletionReviewed
  PromiseKept
CHECK_DEADLOCK FALSE
