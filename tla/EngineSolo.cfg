\* One client: files with references, a remote that changes by itself, failures.
SPECIFICATION Spec
CONSTANTS
  alice = alice  bob = bob
  form = form  policy = policy
  draft = draft
  plain = plain  linked = linked
  Clients = {alice}
  Kinds = {form, policy}
  Owned <- OwnsAll
  Names = {draft}
  MaxSuffix = 2
  Vals = {plain, linked}
  Refs <- MCRefs
  Editable <- BothFirst
  MaxIds = 3
  MaxEdits = 2
  MaxExternal = 2
  MaxOps = 3
  Overlap = FALSE
  NoFile = NoFile  Skeleton = Skeleton  Absent = Absent  None = None
INVARIANTS
  TypeOK OneSlugPerId ApplyConverges PullMirrors RefsResolved
CHECK_DEADLOCK FALSE
