--------------------------- MODULE ArtifactHistory ---------------------------
(***************************************************************************)
(* What a versioned store promises, with nothing of how it does it: the    *)
(* files are always one of the versions they have been, undo and redo walk *)
(* along the versions, and a new change forgets the versions that were     *)
(* undone.                                                                 *)
(***************************************************************************)
EXTENDS Integers, Sequences

CONSTANTS AllFiles,           \* the contents a store may have
          Reachable(_, _)     \* one accepted change leads from a to b

VARIABLES files,      \* what a reader of the store sees
          versions,   \* the contents the store has had, oldest first
          at          \* which of them it has now

vars == <<files, versions, at>>

Init ==
  /\ files \in AllFiles
  /\ versions = <<files>>
  /\ at = 1

\* a change that changes something is a new version; the undone ones are gone
Change ==
  /\ at' = at + 1
  /\ files' \in AllFiles \ {files}
  /\ Reachable(files, files')
  /\ versions' = Append(SubSeq(versions, 1, at), files')

Undo ==
  /\ at > 1
  /\ at' = at - 1
  /\ files' = versions[at']
  /\ UNCHANGED versions

Redo ==
  /\ at < Len(versions)
  /\ at' = at + 1
  /\ files' = versions[at']
  /\ UNCHANGED versions

Next == Change \/ Undo \/ Redo

Spec == Init /\ [][Next]_vars
=============================================================================
