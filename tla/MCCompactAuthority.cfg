CONSTANTS
  Lineage = {l1, l2, l3}
  Process = {p1, p2}
  Slot = {s1, s2}
  MaxReopens = 1
  None = None
SPECIFICATION Spec
CONSTRAINT Bounded
SYMMETRY Symmetry
INVARIANTS
  TypeOK
  RecoveriesFormForest
  TerminalHistoryFrozen
  ReceiptBindsAuthority
  CapturedNeverDisposed
PROPERTIES
  PromiseKept
CHECK_DEADLOCK FALSE
