---------------------------- MODULE LocalWorkspace ----------------------------
(***************************************************************************)
(* The workspace `schematics` serves from a directory: a cached snapshot   *)
(* of the disk, a watcher that refreshes it, change requests that write    *)
(* the disk, refresh the snapshot and commit to git.  The process is one   *)
(* thread, but every file or git operation is awaited, so requests and the *)
(* watcher interleave between any two of them, and the developer edits the *)
(* same directory all the while.                                           *)
(***************************************************************************)
EXTENDS ArtifactChange, Integers, FiniteSets

CONSTANTS
  Clients,       \* requests that may be under way at the same time
  Changes,       \* the change requests they may carry
  Directories,   \* the directories it may be opened on
  Edits,         \* what the developer may edit: a path and its new entry
  Secret,        \* the paths whose file class is "secret"
  GitInside,     \* the repository lies in the served directory, not above it
  MaxRequests,   \* bound: change requests handled
  MaxEdits,      \* bound: edits of the developer
  EditsBeside    \* bound: requests under way when the developer edits

Watcher == "watcher"

ASSUME LocalAssumption ==
  /\ Watcher \notin Clients
  /\ Changes \subseteq Requests
  /\ Directories \subseteq Files
  /\ Edits \subseteq Paths \X Entry
  /\ Secret \subseteq Paths /\ GitInside \in BOOLEAN
  /\ MaxRequests \in Nat /\ MaxEdits \in Nat /\ EditsBeside \in Nat

Fibers == Clients \cup {Watcher}

VARIABLES
  disk,            \* the files of the directory
  index, head,     \* git: what is staged, what HEAD holds
  revision,        \* the counter of refreshes
  latestSnapshot,  \* None or the cached snapshot
  event,           \* a file event the watcher has not handled yet
  fiber,           \* what each fiber is doing
  \* bounds and history
  requests, edits, \* how many there have been
  latestFrom,      \* the refresh that made the cached snapshot
  gitFailed        \* a commit was given up half way

vars == <<disk, index, head, revision, latestSnapshot, event, fiber,
          requests, edits, latestFrom, gitFailed>>

Snapshot(r, f) == [revision |-> r, files |-> f]

(* What a fiber holds on to across its awaits:                             *)
(*   pc       what it awaits next                                          *)
(*   change   the request, None for a refresh of the watcher's own         *)
(*   before   None or the snapshot's files when the request was taken up   *)
(*   todo     the paths it still has to read, write, remove or stage       *)
(*   read     the files read so far by the refresh under way               *)
(*   started  the value of the counter when that refresh began             *)
Idle == [pc |-> "idle", change |-> None, before |-> None, todo |-> {},
         read |-> NoFiles, started |-> 0]
At(f, pc) == fiber[f].pc = pc

\* the loops take the paths in one fixed order, the directory's or the sorted one
Turn(S) == CHOOSE p \in S : TRUE
Without(r, p) == [r EXCEPT !.todo = @ \ {p}]

-----------------------------------------------------------------------------
Init ==
  /\ disk \in Directories
  /\ index = [p \in Paths |-> IF p \in Secret THEN None ELSE disk[p]]
  /\ head = index
  /\ revision = 0
  /\ latestSnapshot = None
  /\ event = FALSE
  /\ fiber = [f \in Fibers |-> Idle]
  /\ requests = 0 /\ edits = 0 /\ latestFrom = 0 /\ gitFailed = FALSE

gitVars == <<index, head, gitFailed>>
cacheVars == <<revision, latestSnapshot, latestFrom>>
bounds == <<requests, edits>>

(* The developer's editor writes or removes a file; the watcher hears of   *)
(* every change of the disk, the workspace's own writes included.          *)
Edit ==
  /\ edits < MaxEdits
  /\ Cardinality({c \in Clients : ~At(c, "idle")}) <= EditsBeside
  /\ \E e \in Edits :
       /\ e[2] # disk[e[1]]
       /\ disk' = [disk EXCEPT ![e[1]] = e[2]]
  /\ edits' = edits + 1
  /\ event' = TRUE
  /\ UNCHANGED <<gitVars, cacheVars, fiber, requests>>

-----------------------------------------------------------------------------
(* refresh: count and list the directory, read the listed files one by     *)
(* one, then take the counter AS IT IS NOW for the snapshot's revision.    *)
Refreshing(me, r) ==
  /\ revision' = revision + 1
  /\ fiber' = [fiber EXCEPT ![me] =
       [r EXCEPT !.pc = "read", !.started = revision + 1,
                 !.todo = Present(disk), !.read = NoFiles]]
  /\ UNCHANGED <<latestSnapshot, latestFrom>>

ReadNext(r) ==
  LET p == Turn(r.todo)
  IN [Without(r, p) EXCEPT !.read = [r.read EXCEPT ![p] = disk[p]]]

Read(me) ==
  /\ At(me, "read") /\ fiber[me].todo # {}
  /\ disk[Turn(fiber[me].todo)] # None
  /\ fiber' = [fiber EXCEPT ![me] = ReadNext(fiber[me])]
  /\ UNCHANGED <<disk, gitVars, cacheVars, event, bounds>>

\* a listed file is gone when its turn comes: the refresh fails, and with it
\* the request it was made for; nobody tries again
ReadFails(me) ==
  /\ At(me, "read") /\ fiber[me].todo # {}
  /\ disk[Turn(fiber[me].todo)] = None
  /\ fiber' = [fiber EXCEPT ![me] = Idle]
  /\ UNCHANGED <<disk, gitVars, cacheVars, event, bounds>>

\* MUTANT of Published: the revision is the one the refresh began with
PublishedAsStarted(me) ==
  /\ At(me, "read") /\ fiber[me].todo = {}
  /\ latestSnapshot' = Snapshot(fiber[me].started, fiber[me].read)
  /\ latestFrom' = fiber[me].started
  /\ UNCHANGED <<disk, revision, event>>

\* MUTANT of Published: the events that came during the refresh are forgotten
PublishedForgetting(me) ==
  /\ At(me, "read") /\ fiber[me].todo = {}
  /\ latestSnapshot' = Snapshot(revision, fiber[me].read)
  /\ latestFrom' = fiber[me].started
  /\ event' = FALSE
  /\ UNCHANGED <<disk, revision>>

\* the cached snapshot is replaced and published, whatever was there
Published(me) ==
  /\ At(me, "read") /\ fiber[me].todo = {}
  /\ latestSnapshot' = Snapshot(revision, fiber[me].read)
  /\ latestFrom' = fiber[me].started
  /\ UNCHANGED <<disk, revision, event>>

\* the watcher's refresh ends here
RefreshEnds ==
  /\ Published(Watcher)
  /\ fiber' = [fiber EXCEPT ![Watcher] = Idle]
  /\ UNCHANGED <<gitVars, bounds>>

Watch ==
  /\ event
  /\ At(Watcher, "idle")
  /\ event' = FALSE
  /\ Refreshing(Watcher, Idle)
  /\ UNCHANGED <<disk, gitVars, bounds>>
-----------------------------------------------------------------------------
(* applyChange and applyArtifactChange.  The files after the change are    *)
(* computed from the cached snapshot, not from the disk; all of them are   *)
(* written, and then the ones that vanished are removed.                   *)
After(r) == Applied(r.before, r.change)
Gone(r) == Present(r.before) \ Present(After(r))

\* with nothing left to write the removals are next
Writing(r) == IF r.todo = {} THEN [r EXCEPT !.pc = "remove", !.todo = Gone(r)]
              ELSE [r EXCEPT !.pc = "write"]

\* MUTANT of Decided: nobody asks whether the files admit the request
DecidedUnasked(r) == Writing([r EXCEPT !.todo = Present(After(r))])

\* a request the files do not admit is answered with the error at once
Decided(r) == IF Accepts(r.before, r.change)
              THEN Writing([r EXCEPT !.todo = Present(After(r))])
              ELSE Idle

\* the request works on the cached snapshot, or makes one first
Take(me) ==
  /\ requests < MaxRequests
  /\ At(me, "idle")
  /\ requests' = requests + 1
  /\ \E c \in Changes :
       LET r == [Idle EXCEPT !.change = c]
       IN IF latestSnapshot = None
          THEN Refreshing(me, r)
          ELSE /\ fiber' = [fiber EXCEPT ![me] = Decided([r EXCEPT !.before = latestSnapshot.files])]
               /\ UNCHANGED cacheVars
  /\ UNCHANGED <<disk, gitVars, event, edits>>

FirstRefreshEnds(me) ==
  /\ fiber[me].before = None
  /\ Published(me)
  /\ fiber' = [fiber EXCEPT ![me] =
       Decided([Idle EXCEPT !.change = fiber[me].change, !.before = fiber[me].read])]
  /\ UNCHANGED <<gitVars, bounds>>

Write(me) ==
  /\ At(me, "write") /\ fiber[me].todo # {}
  /\ LET p == Turn(fiber[me].todo) IN
       /\ disk' = [disk EXCEPT ![p] = After(fiber[me])[p]]
       /\ fiber' = [fiber EXCEPT ![me] = Writing(Without(fiber[me], p))]
  /\ event' = TRUE
  /\ UNCHANGED <<gitVars, cacheVars, bounds>>

\* removing a file that is gone already is no failure
Remove(me) ==
  /\ At(me, "remove") /\ fiber[me].todo # {}
  /\ LET p == Turn(fiber[me].todo) IN
       /\ disk' = [disk EXCEPT ![p] = None]
       /\ fiber' = [fiber EXCEPT ![me] = Without(fiber[me], p)]
       /\ event' = (event \/ disk[p] # None)
  /\ UNCHANGED <<gitVars, cacheVars, bounds>>

\* a write or a removal fails: what is on the disk by then stays there
WriteFails(me) ==
  /\ fiber[me].pc \in {"write", "remove"} /\ fiber[me].todo # {}
  /\ fiber' = [fiber EXCEPT ![me] = Idle]
  /\ UNCHANGED <<disk, gitVars, cacheVars, event, bounds>>

WrittenRefresh(me) ==
  /\ At(me, "remove") /\ fiber[me].todo = {}
  /\ Refreshing(me, fiber[me])
  /\ UNCHANGED <<disk, gitVars, event, bounds>>

-----------------------------------------------------------------------------
(* commitToGit: of the paths the change names, those in the new snapshot   *)
(* are added and the others removed, secret ones left out; then the named  *)
(* paths are compared with HEAD, and if one differs the whole index is     *)
(* committed, as it is by then.  A failure is published and swallowed.     *)
\* MUTANT of Touched: secret files are paths like any other
TouchedAll(r) == ChangedPaths(r.before, r.change)

Touched(r) == ChangedPaths(r.before, r.change) \ Secret
Added(r) == Touched(r) \cap Present(r.read)
Dropped(r) == Touched(r) \ Present(r.read)

\* with nothing left to add the removals are next, and then the comparison
Staging(r) ==
  CASE r.todo # {} -> r
    [] r.todo = {} /\ r.pc = "add" /\ Dropped(r) # {} ->
         [r EXCEPT !.pc = "drop", !.todo = Dropped(r)]
    [] OTHER -> [r EXCEPT !.pc = "compare"]

LastRefreshEnds(me) ==
  /\ fiber[me].before # None
  /\ Published(me)
  /\ fiber' = [fiber EXCEPT ![me] =
       IF Touched(@) = {} THEN Idle
       ELSE Staging([@ EXCEPT !.pc = "add", !.todo = Added(fiber[me]), !.started = 0])]
  /\ UNCHANGED <<gitVars, bounds>>

\* git writes below the watched directory when the repository is there
Stage(me) ==
  /\ At(me, "add") /\ fiber[me].todo # {}
  /\ LET p == Turn(fiber[me].todo) IN
       /\ disk[p] # None
       /\ index' = [index EXCEPT ![p] = disk[p]]
       /\ fiber' = [fiber EXCEPT ![me] = Staging(Without(fiber[me], p))]
  /\ event' = (event \/ GitInside)
  /\ UNCHANGED <<disk, head, gitFailed, cacheVars, bounds>>

\* a removal that fails is not noticed
Unstage(me) ==
  /\ At(me, "drop") /\ fiber[me].todo # {}
  /\ LET p == Turn(fiber[me].todo) IN
       /\ index' \in {index, [index EXCEPT ![p] = None]}
       /\ fiber' = [fiber EXCEPT ![me] = Staging(Without(fiber[me], p))]
  /\ event' = (event \/ GitInside)
  /\ UNCHANGED <<disk, head, gitFailed, cacheVars, bounds>>

Compared(me, paths) ==
  /\ At(me, "compare")
  /\ fiber' = [fiber EXCEPT ![me] =
       IF \E p \in paths : head[p] # index[p] THEN [@ EXCEPT !.pc = "commit"] ELSE Idle]
  /\ UNCHANGED <<disk, gitVars, cacheVars, event, bounds>>

\* MUTANT of Compare: only the added paths decide whether there is a change
CompareAdded(me) == Compared(me, Added(fiber[me]))

Compare(me) == Compared(me, Touched(fiber[me]))

Commit(me) ==
  /\ At(me, "commit")
  /\ head' = index
  /\ fiber' = [fiber EXCEPT ![me] = Idle]
  /\ event' = (event \/ GitInside)
  /\ UNCHANGED <<disk, index, gitFailed, cacheVars, bounds>>

CommitFails(me) ==
  /\ fiber[me].pc \in {"add", "drop", "compare", "commit"}
  /\ gitFailed' = TRUE
  /\ fiber' = [fiber EXCEPT ![me] = Idle]
  /\ UNCHANGED <<disk, index, head, cacheVars, event, bounds>>

-----------------------------------------------------------------------------
Refresh(me) == Read(me) \/ ReadFails(me)

Request(me) ==
  \/ Take(me) \/ FirstRefreshEnds(me) \/ Write(me) \/ Remove(me) \/ WriteFails(me)
  \/ WrittenRefresh(me) \/ LastRefreshEnds(me)
  \/ Stage(me) \/ Unstage(me) \/ Compare(me) \/ Commit(me)
  \/ CommitFails(me)

Next ==
  \/ Edit \/ Watch \/ RefreshEnds
  \/ \E me \in Fibers : Refresh(me)
  \/ \E me \in Clients : Request(me)

Spec == Init /\ [][Next]_vars

-----------------------------------------------------------------------------
FiberOK(r) ==
  /\ DOMAIN r = DOMAIN Idle
  /\ r.pc \in {"idle", "read", "write", "remove", "add", "drop", "compare", "commit"}
  /\ r.change \in Changes \cup {None}
  /\ r.before \in Files \cup {None}
  /\ r.todo \subseteq Paths
  /\ r.read \in Files
  /\ r.started \in 0..revision
  /\ r.pc \in {"write", "remove", "add", "drop", "compare", "commit"} =>
       r.change # None /\ r.before # None /\ Accepts(r.before, r.change)

(* Types, and what a request carries once it has begun to write. *)
TypeOK ==
  /\ disk \in Files /\ index \in Files /\ head \in Files
  /\ revision \in Nat /\ event \in BOOLEAN /\ gitFailed \in BOOLEAN
  /\ latestSnapshot \in {None} \cup [revision : 1..revision, files : Files]
  /\ latestFrom \in 0..revision
  /\ requests \in 0..MaxRequests /\ edits \in 0..MaxEdits
  /\ DOMAIN fiber = Fibers /\ \A f \in Fibers : FiberOK(fiber[f])

(* The revisions of the snapshots a subscriber gets never go back, however *)
(* many refreshes overlap: the IDE drops a snapshot whose revision is      *)
(* lower than the one it shows (publish in refresh).                       *)
RevisionsNeverGoBack ==
  [][latestSnapshot # None => latestSnapshot'.revision >= latestSnapshot.revision]_vars

AtRest == ~event /\ \A f \in Fibers : At(f, "idle")

(* When nothing is under way, the cached snapshot shows the disk, unless a *)
(* refresh that began earlier finished after the last one that began (or   *)
(* the last one failed): only an overtaken refresh can leave it stale.     *)
RestIsCurrent ==
  AtRest /\ latestSnapshot # None /\ latestFrom = revision => latestSnapshot.files = disk

(* Once no request is under way, all that was staged is committed, with    *)
(* commits that interleave and share one index, unless a commit was given  *)
(* up half way.                                                            *)
StagedIsCommitted == (\A f \in Clients : At(f, "idle")) /\ ~gitFailed => index = head

(* A secret file's content is never staged and never committed, also not   *)
(* by a replacement or a rename that names it.                             *)
SecretsStay == \A p \in Secret : index[p] = None /\ head[p] = None
=============================================================================
