CONSTANTS
  Process = {p1}
  Payloads <- MCPayloads
  MaxReopens = 1
  MaxCrashes = 1
  None = None
SPECIFICATION Spec
INVARIANT PendingReplayAccepted
CHECK_DEADLOCK FALSE
