--------------------------- MODULE SharedWorkspace ---------------------------
(***************************************************************************)
(* What a workspace promises to a reader that others share it with,        *)
(* with nothing of requests, answers or transactions: every accepted       *)
(* change makes exactly one new revision, and the snapshots a reader takes *)
(* are whole revisions, in an order that never goes back.                  *)
(***************************************************************************)
EXTENDS Integers, Sequences

CONSTANTS Templates,          \* the contents a workspace may begin with
          Nothing,            \* a reader that has not looked yet
          Reachable(_, _)     \* one accepted change leads from a to b

VARIABLES contents, revision, \* the workspace, revision -1 before it is there
          versions,           \* its contents, by revision
          reader              \* Nothing, or the reader's last snapshot

vars == <<contents, revision, versions, reader>>

Init ==
  /\ revision = -1
  /\ versions = <<>>
  /\ reader = Nothing

Create ==
  /\ revision = -1
  /\ revision' = 0
  /\ contents' \in Templates
  /\ versions' = <<contents'>>
  /\ UNCHANGED reader

Change ==
  /\ revision >= 0
  /\ revision' = revision + 1
  /\ Reachable(contents, contents')
  /\ versions' = Append(versions, contents')
  /\ UNCHANGED reader

Look ==
  /\ reader' # Nothing
  /\ reader'.revision \in 0..revision
  /\ reader # Nothing => reader'.revision >= reader.revision
  /\ reader'.files = versions[reader'.revision + 1]
  /\ UNCHANGED <<contents, revision, versions>>

Next == Create \/ Change \/ Look

Spec == Init /\ [][Next]_vars
=============================================================================
