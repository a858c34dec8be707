SPECIFICATION Spec
CONSTANTS
  Component <- MCComponent
  Alphabetical <- MCAlphabetical
  Dependencies <- MCDependencies
  SoftPairs <- MCSoftPairs
  Files <- MCFiles
  Paths <- MCPaths
  SyncDefault <- MCSyncDefault
  Command <- MCCommand
  Prompt = "prompt"
  Overlay = "overlay"
  Absent = Absent
  None = None
  Retention = 1
  MaxRuns = 3
  MaxEdits = 0
  MaxFaults = 0
CHECK_DEADLOCK FALSE
INVARIANT SyncKeepsSections
