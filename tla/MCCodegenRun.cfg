SPECIFICATION Spec
CONSTANTS
  Actions <- MCActions
  Removed <- MCRemoved
  InitialTrees <- MCInitialTrees
  Unreadable <- MCUnreadable
  Misformatted <- MCMisformatted
  MaxRuns = 2
INVARIANTS
  SuccessIsFresh
  RegisterMatches
PROPERTIES
  HandWrittenKept
