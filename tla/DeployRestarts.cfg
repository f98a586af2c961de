\* Two requests at a time, a connection file, and a restart.
SPECIFICATION Spec
CONSTANTS
  f1 = f1  f2 = f2
  acme = acme  beta = beta
  Fibers = {f1, f2}
  Accounts = {acme, beta}
  NoAccount = NoAccount
  MaxIds = 3
  MaxRequests = 4
  MaxRestarts = 1
INVARIANTS
  TypeOK RunsOwnAccount AnsweredKept ListedCanReconnect DeletedUnused
SYMMETRY Alike
CHECK_DEADLOCK FALSE
