\* Two clients of one service whose operations overlap.
SPECIFICATION Spec
CONSTANTS
  alice = alice  bob = bob
  form = form  policy = policy
  draft = draft
  plain = plain  linked = linked
  Clients = {alice, bob}
  Kinds = {form}
  Owned <- OwnsAll
  Names = {draft}
  MaxSuffix = 3
  Vals = {plain, linked}
  Refs <- MCRefs
  Editable <- FormFirst
  MaxIds = 3
  MaxEdits = 1
  MaxExternal = 1
  MaxOps = 3
  Overlap = TRUE
  NoFile = NoFile  Skeleton = Skeleton  Absent = Absent  None = None
INVARIANTS
  OneIdPerSlug NothingOrphaned
CHECK_DEADLOCK FALSE
