\* One page with two requests at a time, others, failures and a reload.
SPECIFICATION Spec
CONSTANTS
  file = file  lock = lock
  v1 = v1  v2 = v2
  r1 = r1  r2 = r2
  Paths = {file, lock}
  Lockfile = lock
  Contents = {v1}
  Absent = Absent
  None = None
  Requests = {r1, r2}
  Kinds = {"edit", "connect", "deploy", "history", "others"}
  MaxChanges = 2
  MaxCommits = 3
  MaxReloads = 1
CONSTRAINT Followed
SYMMETRY Symmetry
INVARIANTS MirrorCurrent StagedIsPushed
CHECK_DEADLOCK FALSE
