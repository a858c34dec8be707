SPECIFICATION Spec
CONSTANTS
  p1 = p1
  p2 = p2
  l1 = l1
  l2 = l2
  l3 = l3
  l4 = l4
  a1 = a1
  a2 = a2
  Process = {p1, p2}
  Lineage = {l1, l2, l3, l4}
  Authorization = {a1, a2}
  None = None
  Residue = Residue
  Scraps = Scraps
  Hollow = Hollow
  History <- MCHistory
  MaxChanges = 1
  MaxFaults = 2
SYMMETRY Symmetry
INVARIANTS TypeOK AuthorityLinked ReadsAtomic PreparedBatchIntact UnfinishedIsMarked
PROPERTIES MovedUnderAudit CommitIsWhole AtomicQuarantine
