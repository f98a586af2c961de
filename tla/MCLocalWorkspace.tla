--------------------------- MODULE MCLocalWorkspace ---------------------------
(***************************************************************************)
(* One run for the two places where the changes of ArtifactChange meet     *)
(* files that stay: the local workspace, and a versioned store with its    *)
(* history.  They do not interact: a behaviour is one of either.           *)
(***************************************************************************)
EXTENDS LocalWorkspace, VersionedStore, TLC

CONSTANTS app, key, x, y

VARIABLE subject   \* "workspace" or "store"

MCDirectories == {[r \in Paths |-> IF r = app THEN x ELSE None]}

MCChanges == {WriteFile(app, y), RenameFile(app, key)}

MCEdits == {<<app, None>>, <<app, y>>, <<key, x>>, <<key, None>>}

\* the clients differ in nothing but their names
ClientSymmetry == Permutations(Clients)

MCInit ==
  /\ Init /\ StoreInit
  /\ \/ subject = "workspace" /\ files = NoFiles
     \/ subject = "store"

MCNext ==
  /\ \/ subject = "workspace" /\ Next /\ UNCHANGED storeVars
     \/ subject = "store" /\ StoreNext /\ UNCHANGED vars
  /\ UNCHANGED subject

MCSpec == MCInit /\ [][MCNext]_<<vars, storeVars, subject>>
=============================================================================
