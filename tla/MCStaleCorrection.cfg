CONSTANTS
  Lineage = {l1, l2}
  Process = {p1}
  Slot = {s1}
  MaxReopens = 0
  None = None
SPECIFICATION Spec
SYMMETRY Symmetry
INVARIANT SupersededNeverAdvances
CHECK_DEADLOCK FALSE
