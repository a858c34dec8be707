CONSTANTS
  Process = {p1, p2}
  Payloads <- MCTwoSteps
  MaxReopens = 0
  MaxCrashes = 0
  None = None
SPECIFICATION Spec
INVARIANT ClosedAttemptsAreDone
CHECK_DEADLOCK FALSE
