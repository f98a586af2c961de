----------------------------- MODULE IdeProject -----------------------------
(***************************************************************************)
(* The project store of the IDE: the last snapshot of a workspace, the     *)
(* contents hydrated on top of it, the active file, drafts and conflicts.  *)
(* The store is one thread; every call to the workspace is awaited, so the *)
(* user, the watch stream and any number of calls interleave, and answers  *)
(* arrive in any order or not at all.  What the workspace answers is the   *)
(* matter of the module that composes the two.                             *)
(***************************************************************************)
EXTENDS ArtifactChange, Integers, FiniteSets

CONSTANTS
  Calls,         \* bound: flows of the store that may be under way at once
  Typed,         \* what a user types into a file
  Blank,         \* what a new file holds
  ViewChanges,   \* the changes the IDE's views and its agent ask for
  MaxSessions,   \* bound: times the store is started
  MaxFlows,      \* bound: flows begun
  MaxTyping      \* bound: edits typed

ASSUME IdeAssumption ==
  /\ Typed \subseteq Contents /\ Blank \in Contents
  /\ ViewChanges \subseteq Requests
  /\ MaxSessions \in Nat /\ MaxFlows \in Nat /\ MaxTyping \in Nat

VARIABLES
  capabilities,  \* they have arrived; until then the store is read-only
  session,       \* counts start and stop
  watching,      \* the watch fiber is there
  deliveries,    \* capabilities and watch events under way
  snapshot,      \* None or the newest snapshot seen
  hydrated,      \* contents read as artifact views, None where there is none
  activeFile,    \* None or a path
  drafts,        \* typed contents that are not saved
  conflicts,     \* by path the revision that changed it under a draft, 0 for none
  flow,          \* the calls under way
  \* bounds and history
  flows, typing, \* how many there have been
  base,          \* the snapshot's content when the draft of a path was begun
  text,          \* what was typed last into a path, unless it is settled
  expected       \* the newest revision an own change was answered with and read back

ideCore == <<capabilities, session, watching, deliveries>>
ideFiles == <<snapshot, hydrated, activeFile, drafts, conflicts>>
ideHistory == <<base, text, expected>>
ideBounds == <<flows, typing>>
ideVars == <<ideCore, ideFiles, flow, ideBounds, ideHistory>>

(* A flow is a chain of awaited calls:                                     *)
(*   pc      "apply" and "snapshot" wait for the workspace to handle the   *)
(*           call, "applied" and "snapped" for its answer to arrive; the   *)
(*           same with "view" and "viewed"; "state" is refreshArtifactState *)
(*   kind    who began it, and so what is left to do when it ends          *)
(*   answer  what the workspace answered to the call under way             *)
(*   reply   the answer to the change this flow began with                 *)
(*   path    the file being hydrated                                       *)
Idle == [pc |-> "idle", kind |-> "refresh", change |-> None, follow |-> FALSE,
         answer |-> None, reply |-> None, path |-> None, readBack |-> FALSE]
At(f, pc) == flow[f].pc = pc

Refresh(follow) == [Idle EXCEPT !.pc = "snapshot", !.follow = follow]
Hydrate(p) == [Idle EXCEPT !.pc = "view", !.kind = "hydrate", !.path = p]
Change(kind, c) == [Idle EXCEPT !.pc = "apply", !.kind = kind, !.change = c]

\* the bound on flows, and a free place for one more
Begin(r) ==
  /\ flows < MaxFlows
  /\ flows' = flows + 1
  /\ \E f \in Calls : At(f, "idle") /\ flow' = [flow EXCEPT ![f] = r]

\* lists are walked in one fixed order, that of the paths
FirstOf(S) == IF S = {} THEN None ELSE CHOOSE p \in S : TRUE

-----------------------------------------------------------------------------
(* What the user sees: hydrated contents over the snapshot, drafts on top  *)
Listed == IF snapshot = None THEN {} ELSE Present(snapshot.files)
Committed(p) == IF hydrated[p] # None THEN hydrated[p] ELSE snapshot.files[p]
Shown(p) == IF drafts[p] # None THEN drafts[p] ELSE Committed(p)
SelectedFile == IF activeFile = None THEN FirstOf(Listed)
                ELSE IF activeFile \in Listed THEN activeFile ELSE None
ReadOnly == ~capabilities

IdeInit ==
  /\ capabilities = FALSE /\ session = 0 /\ watching = FALSE /\ deliveries = {}
  /\ snapshot = None /\ hydrated = NoFiles /\ activeFile = None
  /\ drafts = NoFiles
  /\ conflicts = [p \in Paths |-> 0]
  /\ flow = [f \in Calls |-> Idle]
  /\ flows = 0 /\ typing = 0
  /\ base = NoFiles /\ text = NoFiles /\ expected = 0

-----------------------------------------------------------------------------
(* start and stop, and what the watch stream of a hosted workspace brings: *)
(* its capabilities and one snapshot, then it ends.                        *)
Events(s) == {[session |-> s, type |-> "capabilities"], [session |-> s, type |-> "snapshot"]}

Start ==
  /\ ~watching /\ session < 2 * MaxSessions
  /\ watching' = TRUE
  /\ session' = session + 1
  /\ deliveries' = deliveries \cup Events(session')
  /\ Begin(Refresh(FALSE))
  /\ UNCHANGED <<capabilities, ideFiles, typing, ideHistory>>

Stop ==
  /\ watching
  /\ watching' = FALSE
  /\ session' = session + 1
  /\ UNCHANGED <<capabilities, deliveries, ideFiles, flow, ideBounds, ideHistory>>

\* an event of another session is dropped; the snapshot an event carries is
\* not used, it is asked for again
Deliver(e) ==
  /\ e \in deliveries
  /\ deliveries' = deliveries \ {e}
  /\ \/ e.session # session
        /\ UNCHANGED <<capabilities, flow, flows>>
     \/ e.session = session /\ e.type = "capabilities"
        /\ capabilities' = TRUE
        /\ UNCHANGED <<flow, flows>>
     \/ e.session = session /\ e.type = "snapshot"
        /\ Begin(Refresh(TRUE))
        /\ UNCHANGED capabilities
  /\ UNCHANGED <<session, watching, ideFiles, typing, ideHistory>>

-----------------------------------------------------------------------------
(* The user *)
SetActiveFile(p) ==
  /\ p \in Listed
  /\ activeFile' = p
  /\ Begin(Hydrate(p))
  /\ UNCHANGED <<ideCore, snapshot, hydrated, drafts, conflicts, typing, ideHistory>>

\* a change of the path by this store is under way
BeingSaved(p) ==
  \E f \in Calls : ~At(f, "idle") /\ flow[f].kind \in {"save", "delete"}
                   /\ flow[f].change.path = p

UpdateActiveFile(c) ==
  /\ ~ReadOnly /\ SelectedFile # None
  /\ typing < MaxTyping /\ typing' = typing + 1
  /\ LET p == SelectedFile
         draft == IF c = Committed(p) THEN None ELSE c
     IN /\ drafts' = [drafts EXCEPT ![p] = draft]
        /\ base' = [base EXCEPT ![p] = IF draft = None THEN None
                                         ELSE IF drafts[p] = None THEN snapshot.files[p] ELSE @]
        /\ text' = [text EXCEPT ![p] = IF BeingSaved(p) THEN None ELSE c]
  /\ UNCHANGED <<ideCore, snapshot, hydrated, activeFile, conflicts, flow, flows, expected>>

SaveActiveFile ==
  /\ ~ReadOnly /\ SelectedFile # None
  /\ Begin(Change("save", WriteFile(SelectedFile, Shown(SelectedFile))))
  /\ UNCHANGED <<ideCore, ideFiles, typing, ideHistory>>

DiscardActiveDraft ==
  /\ SelectedFile # None
  /\ drafts' = [drafts EXCEPT ![SelectedFile] = None]
  /\ conflicts' = [conflicts EXCEPT ![SelectedFile] = 0]
  /\ base' = [base EXCEPT ![SelectedFile] = None]
  /\ text' = [text EXCEPT ![SelectedFile] = None]
  /\ UNCHANGED <<ideCore, snapshot, hydrated, activeFile, flow, ideBounds, expected>>

\* the new name is one the list does not have
AddFile ==
  /\ ~ReadOnly
  /\ \E p \in Paths \ Listed : Begin(Change("add", CreateFile(p, Blank)))
  /\ UNCHANGED <<ideCore, ideFiles, typing, ideHistory>>

DeleteActiveFile ==
  /\ ~ReadOnly /\ SelectedFile # None
  /\ Begin(Change("delete", DeleteFile(SelectedFile)))
  /\ UNCHANGED <<ideCore, ideFiles, typing, ideHistory>>

\* "view" goes through applyChange, "agent" through applyArtifactChange
ApplyProjectChange ==
  /\ \E kind \in {"view", "agent"}, c \in ViewChanges : Begin(Change(kind, c))
  /\ UNCHANGED <<ideCore, ideFiles, typing, ideHistory>>

-----------------------------------------------------------------------------
(* How a flow ends: applyChange selects the first path of the answer that  *)
(* is there now, addFile the new file; a save or a deletion drops the      *)
(* draft and the conflict of its path, as they are by then.                *)
Follows(r, s) ==
  LET first == FirstOf(r.reply.changedPaths \cap (IF s = None THEN {} ELSE Present(s.files)))
  IN CASE r.kind = "add" -> r.change.path
       [] r.kind \in {"save", "delete", "view"} /\ first # None -> first
       [] OTHER -> None

Settles(r, p) == r.kind \in {"save", "delete"} /\ r.change.path = p

Ends(f) ==
  LET r == flow[f]
      followed == Follows(r, snapshot)
  IN /\ flow' = [flow EXCEPT ![f] = Idle]
     /\ activeFile' = IF followed = None THEN activeFile ELSE followed
     /\ drafts' = [p \in Paths |-> IF Settles(r, p) THEN None ELSE drafts[p]]
     /\ conflicts' = [p \in Paths |-> IF Settles(r, p) THEN 0 ELSE conflicts[p]]
     /\ base' = [p \in Paths |-> IF Settles(r, p) THEN None ELSE base[p]]
     /\ text' = [p \in Paths |-> IF Settles(r, p) /\ r.kind = "delete" THEN None ELSE text[p]]
     /\ expected' = IF r.readBack /\ r.reply.revision > expected
                    THEN r.reply.revision ELSE expected
-----------------------------------------------------------------------------
(* Answers to the change a flow begins with *)
ApplyAnswered(f) ==
  /\ At(f, "applied")
  /\ flow' = [flow EXCEPT ![f] = [@ EXCEPT !.pc = "snapshot", !.reply = flow[f].answer,
                                           !.answer = None]]
  /\ UNCHANGED <<ideCore, ideFiles, ideBounds, ideHistory>>

\* MUTANT of ApplyFails: the draft is dropped as after a success
ApplyFailsDropping(f) ==
  /\ flow[f].pc \in {"apply", "applied"}
  /\ flow' = [flow EXCEPT ![f] = Idle]
  /\ drafts' = [p \in Paths |-> IF Settles(flow[f], p) THEN None ELSE drafts[p]]
  /\ base' = [p \in Paths |-> IF Settles(flow[f], p) THEN None ELSE base[p]]
  /\ UNCHANGED <<ideCore, snapshot, hydrated, activeFile, conflicts, ideBounds, text, expected>>

\* refused, or the request or its answer was lost: the error is shown, and
\* drafts and conflicts stay, though the workspace may have made the change
ApplyFails(f) ==
  /\ flow[f].pc \in {"apply", "applied"}
  /\ flow' = [flow EXCEPT ![f] = Idle]
  /\ UNCHANGED <<ideCore, ideFiles, ideBounds, ideHistory>>

-----------------------------------------------------------------------------
(* refreshSnapshot *)
\* MUTANT of Newer: every answer is taken
NewerAlways(s) == TRUE

Newer(s) == snapshot = None \/ s.revision >= snapshot.revision

\* MUTANT of InConflict: only the file in the editor is looked at
InConflictActive(next, p) ==
  /\ p = activeFile
  /\ snapshot # None /\ drafts[p] # None
  /\ snapshot.files[p] # None /\ next.files[p] # None
  /\ next.files[p] \notin {snapshot.files[p], drafts[p]}

\* detectDraftConflicts
InConflict(next, p) ==
  /\ snapshot # None /\ drafts[p] # None
  /\ snapshot.files[p] # None /\ next.files[p] # None
  /\ next.files[p] \notin {snapshot.files[p], drafts[p]}

Stays(next) == IF activeFile # None /\ next.files[activeFile] # None
               THEN activeFile ELSE FirstOf(Present(next.files))

Changed(next) == {p \in Present(next.files) : next.files[p] # snapshot.files[p]}

ApplySnapshot(next, follow) ==
  IF Newer(next)
  THEN /\ snapshot' = next
       /\ activeFile' = IF follow /\ snapshot # None /\ Changed(next) # {}
                        THEN FirstOf(Changed(next)) ELSE Stays(next)
       /\ conflicts' = [p \in Paths |-> IF InConflict(next, p) THEN next.revision
                                        ELSE conflicts[p]]
       /\ base' = [p \in Paths |->
            IF base[p] = None \/ next.files[p] = None THEN None
            ELSE IF next.files[p] = drafts[p] THEN drafts[p] ELSE base[p]]
  ELSE UNCHANGED <<snapshot, activeFile, conflicts, base>>

SnapshotAnswered(f) ==
  /\ At(f, "snapped")
  /\ ApplySnapshot(flow[f].answer, flow[f].follow)
  /\ flow' = [flow EXCEPT ![f] = [@ EXCEPT !.pc = "state", !.answer = None,
                                           !.readBack = (flow[f].reply # None)]]
  /\ UNCHANGED <<ideCore, hydrated, drafts, ideBounds, text, expected>>

\* the error is shown; the rest of the refresh is skipped, what comes after
\* it is not
SnapshotFails(f) ==
  /\ flow[f].pc \in {"snapshot", "snapped"}
  /\ Ends(f)
  /\ UNCHANGED <<ideCore, snapshot, hydrated, ideBounds>>

\* refreshArtifactState is done: the active file is hydrated next, if there is one
GoesOn(f) ==
  IF activeFile = None
  THEN Ends(f)
  ELSE /\ flow' = [flow EXCEPT ![f] = [@ EXCEPT !.pc = "view", !.path = activeFile]]
       /\ UNCHANGED <<activeFile, drafts, conflicts, ideHistory>>

StateAnswered(f) ==
  /\ At(f, "state")
  /\ GoesOn(f)
  /\ UNCHANGED <<ideCore, snapshot, hydrated, ideBounds>>

\* a failure of it drops the hydrated contents
StateFails(f) ==
  /\ At(f, "state")
  /\ hydrated' = NoFiles
  /\ GoesOn(f)
  /\ UNCHANGED <<ideCore, snapshot, ideBounds>>

\* whatever was known of the path meanwhile, the answer replaces it
ViewAnswered(f) ==
  /\ At(f, "viewed")
  /\ hydrated' = [hydrated EXCEPT ![flow[f].path] = flow[f].answer]
  /\ Ends(f)
  /\ UNCHANGED <<ideCore, snapshot, ideBounds>>

\* neither all views at once nor the source text alone can be read
ViewFails(f) ==
  /\ flow[f].pc \in {"view", "viewed"}
  /\ Ends(f)
  /\ UNCHANGED <<ideCore, snapshot, hydrated, ideBounds>>

-----------------------------------------------------------------------------
User ==
  \/ \E p \in Paths : SetActiveFile(p)
  \/ \E c \in Typed : UpdateActiveFile(c)
  \/ SaveActiveFile \/ DiscardActiveDraft \/ AddFile \/ DeleteActiveFile
  \/ ApplyProjectChange

Answers(f) ==
  \/ ApplyAnswered(f) \/ ApplyFails(f)
  \/ SnapshotAnswered(f) \/ SnapshotFails(f)
  \/ StateAnswered(f) \/ StateFails(f)
  \/ ViewAnswered(f) \/ ViewFails(f)

IdeNext ==
  \/ Start \/ Stop \/ \E e \in deliveries : Deliver(e)
  \/ User
  \/ \E f \in Calls : Answers(f)

-----------------------------------------------------------------------------
(* A draft whose file has been changed under it is marked as in conflict,  *)
(* whatever calls were under way when the change was seen, unless the new  *)
(* content is the draft itself or the file was gone in between             *)
(* (detectDraftConflicts against the drafts as they are at each answer).   *)
ConflictsSeen ==
  \A p \in Paths :
    /\ drafts[p] # None /\ base[p] # None
    /\ snapshot.files[p] \notin {base[p], drafts[p]}
    => conflicts[p] # 0

(* After an own change was answered and read back, the snapshot is never   *)
(* older than that change, also when an earlier refresh is answered later  *)
(* (applyChange refreshes; applySnapshot drops older revisions).           *)
ReadsOwnChanges ==
  expected > 0 => snapshot # None /\ snapshot.revision >= expected
=============================================================================
