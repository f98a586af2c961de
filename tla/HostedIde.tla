------------------------------ MODULE HostedIde ------------------------------
(***************************************************************************)
(* The IDE on a hosted workspace that others change too.  The workspace    *)
(* handles calls in the order they reach it; an answer may take any time   *)
(* to come back, and a call or an answer may be lost.                      *)
(***************************************************************************)
EXTENDS HostedWorkspace, IdeProject

CONSTANTS OthersChanges,  \* the changes others ask for
          MaxChanges      \* bound: changes of the workspace

ASSUME OthersAssumption == OthersChanges \subseteq Requests /\ MaxChanges \in Nat

vars == <<hostedVars, ideVars>>

Init == HostedInit /\ IdeInit

\* what the call of a flow is answered with is on its way back
AnsweredWith(f, pc, a) ==
  /\ flow' = [flow EXCEPT ![f] = [@ EXCEPT !.pc = pc, !.answer = a]]
  /\ UNCHANGED <<ideCore, ideFiles, ideBounds, ideHistory>>

HandleChange(f) ==
  /\ At(f, "apply") /\ Len(records) < MaxChanges
  /\ ChangeFiles(flow[f].change)
  /\ AnsweredWith(f, "applied", [revision |-> metadata'.revision,
                                 changedPaths |-> records'[Len(records')].changedPaths])

HandleSnapshot(f) ==
  /\ At(f, "snapshot") /\ metadata # None
  /\ AnsweredWith(f, "snapped", Snapshot)
  /\ UNCHANGED hostedVars

HandleView(f) ==
  /\ At(f, "view") /\ metadata # None /\ stored[flow[f].path] # None
  /\ AnsweredWith(f, "viewed", stored[flow[f].path])
  /\ UNCHANGED hostedVars

Handle(f) == HandleChange(f) \/ HandleSnapshot(f) \/ HandleView(f)

Others ==
  /\ \/ \E t \in Templates : InitializeWorkspace(t)
     \/ \E c \in OthersChanges : Len(records) < MaxChanges /\ ChangeFiles(c)
     \/ SetGitMetadata
  /\ UNCHANGED ideVars

Next ==
  \/ Others
  \/ \E f \in Calls : Handle(f)
  \/ IdeNext /\ UNCHANGED hostedVars

Spec == Init /\ [][Next]_vars

-----------------------------------------------------------------------------
Contains(p, c) == \E i \in 1..Len(versions) : versions[i][p] = c

(* What a user typed and has not discarded is still the draft or is in a   *)
(* revision of the workspace, whatever was lost, refused or reordered,     *)
(* unless it was typed while a save or a deletion of the same file was     *)
(* under way (saveActiveFile drops the draft after its answer).            *)
TypedIsKept ==
  \A p \in Paths : text[p] # None => drafts[p] = text[p] \/ Contains(p, text[p])

(* The IDE and the workspace together implement the shared workspace: the  *)
(* snapshot that the IDE's store holds is a whole revision of the          *)
(* workspace, the next one is never of an older revision, and every        *)
(* accepted change makes one.  Nothing is said of what a view shows, which *)
(* lays hydrated contents and drafts over the snapshot (Committed, Shown)  *)
(* and so may mix revisions.                                               *)
OneChange(a, b) == \E c \in Requests : Accepts(a, c) /\ Applied(a, c) = b
Shared == INSTANCE SharedWorkspace
          WITH Nothing <- None, Reachable <- OneChange, contents <- stored,
               revision <- (IF metadata = None THEN -1 ELSE metadata.revision),
               reader <- snapshot
SharesRevisions == Shared!Spec
=============================================================================
