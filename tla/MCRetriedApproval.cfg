CONSTANTS
  inside = inside
  outside = outside
  noted = noted
  unproved = unproved
  Finding <- MCFinding
  Severe <- MCFinding
  InGenesis <- MCInGenesis
  Observation <- MCObservation
  Malformed <- MCMalformed
  ChangedLines = {0, 3}
  MaxCorrectionChangedLines = 1
  MaxLines = 2
  MaxGeneration = 2
  MaxReopens = 1
SPECIFICATION Spec
CHECK_DEADLOCK FALSE
INVARIANT ApprovedRetryStaysUsable
