--------------------------- MODULE VersionedStore ---------------------------
(***************************************************************************)
(* createVersionedArtifactStore over a memory store: apply, undo and redo  *)
(* with a list of revisions, each a patch, and a cursor into it.  Nobody   *)
(* writes to the memory store but the versioned store.                     *)
(***************************************************************************)
EXTENDS ArtifactChange, Integers, Sequences

CONSTANT MaxRevisions   \* bound: revisions ever made

VARIABLES
  files,             \* the memory store
  revisions,         \* state.revisions, oldest first
  cursor,            \* state.cursor, -1 before the first revision
  revisionSequence,  \* state.revisionSequence, the number in the newest id
  versions           \* history variable: the contents along the revisions

storeVars == <<files, revisions, cursor, revisionSequence, versions>>

Revision(id, parent, patch) == [id |-> id, parentId |-> parent, patch |-> patch]

\* the id of the revision the store is at, 0 before the first one
CurrentId == IF cursor >= 0 THEN revisions[cursor + 1].id ELSE 0

StoreInit ==
  /\ files \in Files
  /\ revisions = <<>>
  /\ cursor = -1
  /\ revisionSequence = 0
  /\ versions = <<files>>

(* apply: a rejected request fails before anything changed and one that    *)
(* changes nothing makes no revision, so both are steps that change nothing *)
Apply(c) ==
  /\ revisionSequence < MaxRevisions
  /\ Accepts(files, c)
  /\ LET patch == PatchOf(files, c)
         kept  == SubSeq(revisions, 1, cursor + 1)
     IN /\ patch # None
        /\ Applies(files, patch)
        /\ files' = ApplyPatch(files, patch)
        /\ revisions' = Append(kept, Revision(revisionSequence + 1, CurrentId, patch))
        /\ cursor' = Len(kept)
        /\ revisionSequence' = revisionSequence + 1
  /\ versions' = Append(SubSeq(versions, 1, cursor + 2), files')

Undo ==
  /\ cursor >= 0
  /\ LET patch == InvertPatch(revisions[cursor + 1].patch)
     IN /\ Applies(files, patch)
        /\ files' = ApplyPatch(files, patch)
  /\ cursor' = cursor - 1
  /\ UNCHANGED <<revisions, revisionSequence, versions>>

Redo ==
  /\ cursor + 2 <= Len(revisions)
  /\ LET patch == revisions[cursor + 2].patch
     IN /\ Applies(files, patch)
        /\ files' = ApplyPatch(files, patch)
  /\ cursor' = cursor + 1
  /\ UNCHANGED <<revisions, revisionSequence, versions>>

StoreNext == (\E c \in Requests : Apply(c)) \/ Undo \/ Redo

StoreSpec == StoreInit /\ [][StoreNext]_storeVars

-----------------------------------------------------------------------------
StoreTypeOK ==
  /\ files \in Files
  /\ revisions \in Seq([id : Nat, parentId : Nat, patch : Patches])
  /\ revisionSequence \in Nat
  /\ cursor \in -1..(Len(revisions) - 1)
  /\ versions \in Seq(Files)
  /\ Len(versions) = Len(revisions) + 1

(* The patch of a revision leads from its version to the next one, and its *)
(* inverse leads back, with no store operation on the way that can fail.   *)
Leads(a, b, patch) ==
  /\ Applies(a, patch) /\ ApplyPatch(a, patch) = b
  /\ Applies(b, InvertPatch(patch)) /\ ApplyPatch(b, InvertPatch(patch)) = a

Chain ==
  /\ files = versions[cursor + 2]
  /\ \A i \in 1..Len(revisions) : Leads(versions[i], versions[i + 1], revisions[i].patch)

(* No undo or redo the revisions allow can fail in the memory store, half  *)
(* way or at all (applyPatch in undo and redo).                            *)
CanStep ==
  /\ cursor >= 0 => Applies(files, InvertPatch(revisions[cursor + 1].patch))
  /\ cursor + 2 <= Len(revisions) => Applies(files, revisions[cursor + 2].patch)

(* The versioned store implements the history of whole contents, whatever  *)
(* changes, undos and redos follow each other (apply, undo and redo).      *)
OneChange(a, b) == \E c \in Requests : Accepts(a, c) /\ Applied(a, c) = b
History == INSTANCE ArtifactHistory
           WITH AllFiles <- Files, Reachable <- OneChange, at <- cursor + 2
KeepsHistory == History!Spec
=============================================================================
