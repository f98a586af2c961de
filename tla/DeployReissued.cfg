\* A restart, and a connection deleted while an operation connects.
SPECIFICATION Spec
CONSTANTS
  f1 = f1  f2 = f2
  acme = acme  beta = beta
  Fibers = {f1, f2}
  Accounts = {acme, beta}
  NoAccount = NoAccount
  MaxIds = 2
  MaxRequests = 4
  MaxRestarts = 1
INVARIANTS
  RunsNamedAccount
SYMMETRY Alike
CHECK_DEADLOCK FALSE
