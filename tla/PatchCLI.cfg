\* Three versions, deaths and failures at every step.
CONSTANTS
  MaxVersion = 3
  MaxCrashes = 2
  None = None
SPECIFICATION Spec
CHECK_DEADLOCK FALSE
INVARIANTS
  TypeOK
  OriginalNeverLost
  LinkHasBackup
  FailedPatchKeepsCommand
  ReadyRuns
