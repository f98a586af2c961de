CONSTANTS
  None = None
  app = app
  key = key
  x = x
  y = y
  Paths = {app, key}
  Contents = {x, y}
  Clients = {c1, c2}
  Secret = {key}
  Directories <- MCDirectories
  Changes <- MCChanges
  Edits <- MCEdits
  GitInside = FALSE
  MaxRequests = 2
  MaxEdits = 1
  EditsBeside = 1
  MaxRevisions = 3
SYMMETRY ClientSymmetry
SPECIFICATION MCSpec
INVARIANTS TypeOK RestIsCurrent StagedIsCommitted SecretsStay CanStep
PROPERTIES RevisionsNeverGoBack KeepsHistory
CHECK_DEADLOCK FALSE
