CONSTANTS
  None = None
  Refused = Refused
  s1 = s1
  s2 = s2
  s3 = s3
  p = p
  a = a
  b = b
  Steps = {s1, s2, s3}
  Inputs = {i1, i2}
  Outputs = {o1, o2}
  Edits <- MCEdits
  Hash <- MCHash
  Runnable <- MCRunnable
  MaxRuns = 3
  MaxWrites = 1
SYMMETRY Alike
SPECIFICATION Spec
INVARIANTS TypeOK LegalOrder OutputsMatch OfOnePiece EditsAccounted
CHECK_DEADLOCK FALSE
