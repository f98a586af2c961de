\* The documented end of a deploy operation, while other requests are under way.
SPECIFICATION Spec
CONSTANTS
  file = file  lock = lock
  v1 = v1  v2 = v2
  r1 = r1  r2 = r2
  Paths = {file, lock}
  Lockfile = lock
  Contents = {v1, v2}
  Absent = Absent
  None = None
  Requests = {r1, r2}
  Kinds = {"connect", "deploy", "history"}
  MaxChanges = 1
  MaxCommits = 2
  MaxReloads = 0
SYMMETRY Symmetry
INVARIANT MirrorMatches
CHECK_DEADLOCK FALSE
