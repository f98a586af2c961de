CONSTANTS
  None = None
  app = app
  doc = doc
  x = x
  y = y
  z = z
  Paths = {app, doc}
  Contents = {x, y, z}
  Calls = {f1, f2}
  Typed = {x, z}
  Blank = x
  Templates <- MCTemplates
  ViewChanges <- MCViewChanges
  OthersChanges <- MCOthersChanges
  MaxSessions = 1
  MaxFlows = 3
  MaxTyping = 1
  MaxChanges = 2
SYMMETRY CallSymmetry
SPECIFICATION Spec
INVARIANTS TypedIsKept ConflictsSeen ReadsOwnChanges RecordsNameChanges
PROPERTIES SharesRevisions
CHECK_DEADLOCK FALSE
