\* Fetches under a limiter, while seeds, local edits and the remote go on.
SPECIFICATION HydratingSpec
CONSTANTS
  None = None
  Local = Local
  c1 = c1  c2 = c2  s1 = s1
  k1 = k1
  Callers = {c1, c2, s1}
  Interval = 1
  MaxTime = 3
  MaxCalls = 4
  Providers <- MCProviders
  Ids = {1, 2}
  KindOf <- MCKindOf
  Seeders = {s1}
  MaxSeeds = 2
  MaxExternal = 1
  MaxEdits = 1
SYMMETRY FetchersAlike
INVARIANTS
  SpacedAfterSuccess EditsStay ContentIsOwn
CHECK_DEADLOCK FALSE
