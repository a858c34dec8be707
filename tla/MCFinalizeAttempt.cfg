CONSTANTS
  Process = {p1, p2}
  Payloads <- MCPayloads
  MaxReopens = 1
  MaxCrashes = 1
  None = None
SPECIFICATION FairSpec
INVARIANTS
  TypeOK
  CommittedWasPlanned
  OneOpenAttempt
  PublishedMeansReceipt
PROPERTIES
  OpenAttemptsConverge
  SettledGetsReceipt
CHECK_DEADLOCK FALSE
