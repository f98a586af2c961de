\* Two engines with different providers share a lockfile, one operation at a time.
SPECIFICATION FairSpec
CONSTANTS
  alice = alice  bob = bob
  form = form  policy = policy
  draft = draft
  plain = plain  linked = linked
  Clients = {alice, bob}
  Kinds = {form, policy}
  Owned <- OwnsOne
  Names = {draft}
  MaxSuffix = 2
  Vals = {plain, linked}
  Refs <- MCRefs
  Editable <- BothFirst
  MaxIds = 3
  MaxEdits = 1
  MaxExternal = 1
  MaxOps = 3
  Overlap = FALSE
  NoFile = NoFile  Skeleton = Skeleton  Absent = Absent  None = None
PROPERTIES
  OthersKept OperationsEnd
CHECK_DEADLOCK FALSE
