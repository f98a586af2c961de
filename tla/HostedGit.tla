------------------------------ MODULE HostedGit ------------------------------
(***************************************************************************)
(* The git mirror of a hosted workspace.  A page keeps a git repository in *)
(* memory: after a change it commits and pushes the workspace's files, and *)
(* a deploy operation works on a store over the same repository, commits   *)
(* it, and replaces the workspace's files by the store's.                  *)
(*                                                                         *)
(* A page runs several requests at a time over one repository, and nothing *)
(* keeps them apart: each await is a point where another may go on.  Calls *)
(* fail, answers are lost, and a page that is reloaded starts with empty   *)
(* memory.  Others change the workspace and push to the repository.        *)
(***************************************************************************)
EXTENDS Naturals, FiniteSets

CONSTANTS
  Paths, Contents,
  Lockfile,    \* the path of the lockfile
  Absent,      \* no file at a path
  None,        \* no commit, or no signature
  Requests,    \* the requests a page may have under way
  Kinds,       \* the kinds of request it makes
  MaxChanges,  \* bound on the changes of files, by anyone
  MaxCommits,  \* bound on the commits made
  MaxReloads   \* bound on the reloads of the page

ASSUME LockfileAssumption == Lockfile \in Paths

ASSUME KindsAssumption == Kinds \subseteq {"edit", "connect", "deploy", "history", "others"}

Trees == [Paths -> Contents \cup {Absent}]

Empty == [p \in Paths |-> Absent]

Commits == [id : Nat, tree : Trees, past : SUBSET Nat]

ASSUME NoneAssumption == None \notin Trees /\ None \notin Commits

Held(t) == {p \in Paths : t[p] # Absent}

VARIABLES
  files,        \* the workspace's files
  remote,       \* the branch in the remote repository: a commit or None
  head, index,  \* the page's repository: the branch and the staged tree
  initialized, knownPaths, lastSignature,   \* the committer's state
  tree,         \* the git store's entries
  mounted,      \* the page began its first commit
  connected,    \* its deploy panel has a connection
  request,      \* the requests under way
  made, changes, reloads,                   \* the counters that are bounded
  spoilt        \* history variable: what came between since the page was loaded

repoVars == <<head, index>>
committerVars == <<initialized, knownPaths, lastSignature>>
pageVars == <<mounted, connected>>
counterVars == <<made, changes, reloads>>
vars == <<files, remote, repoVars, committerVars, tree, pageVars, request, counterVars,
          spoilt>>

(* A commit knows its tree and the commits before it.                      *)
CommitOn(c, t) ==
  [id |-> made + 1, tree |-> t, past |-> IF c = None THEN {} ELSE c.past \cup {c.id}]

Descends(c, d) == d # None => c # None /\ d.id \in c.past \cup {c.id}

\* a request: where it is, the snapshot it holds, the paths it has still to do,
\* and the commit it got
Idle == [at |-> "idle", kind |-> "load", snapshot |-> Empty, todo |-> {}, got |-> None]

Init ==
  /\ files \in Trees \ {Empty}
  /\ remote = None
  /\ head = None /\ index = Empty
  /\ initialized = FALSE /\ knownPaths = {} /\ lastSignature = None
  /\ tree = Empty
  /\ mounted = FALSE /\ connected = FALSE
  /\ request = [r \in Requests |-> Idle]
  /\ spoilt = {}
  /\ made = 0 /\ changes = 0 /\ reloads = 0
-----------------------------------------------------------------------------
(* Requests begin.                                                         *)

UnderWay == {r \in Requests : request[r] # Idle}

\* requests that start by refreshing the store
Refreshing == {"deploy", "connect", "history"}

\* requests overlap; they do so while the repository is still cloned; or one of
\* them refreshes the store
Overlap(k) ==
  IF UnderWay = {} THEN {}
  ELSE {"overlapped"} \cup {x \in {"raced"} : ~initialized}
         \cup {x \in {"crossed"} : \E o \in UnderWay : {k, request[o].kind} \cap Refreshing # {}}

Begin(r, k, first) ==
  /\ request[r] = Idle
  /\ request' = [request EXCEPT ![r] = [Idle EXCEPT !.kind = k, !.at = first]]
  /\ spoilt' = spoilt \cup Overlap(k)

\* the effect that runs when the page is shown: commit what is there
Mount(r) ==
  /\ ~mounted /\ mounted' = TRUE
  /\ Begin(r, "load", "snapshot")
  /\ UNCHANGED <<files, remote, repoVars, committerVars, tree, connected, counterVars>>

\* the files after one of them is written, created or deleted
ChangesOf(t) == {[t EXCEPT ![p] = v] : p \in Paths, v \in Contents \cup {Absent}} \ {t}

\* a user's or the agent's change, applied by the workspace
Edit(r) ==
  /\ mounted /\ "edit" \in Kinds /\ changes < MaxChanges
  /\ files' \in ChangesOf(files)
  /\ changes' = changes + 1
  /\ Begin(r, "edit", "snapshot")
  /\ UNCHANGED <<remote, repoVars, committerVars, tree, pageVars, made, reloads>>

\* the deploy panel starts one thing at a time: a connect or a plan, which write
\* nothing, or, with a connection, a pull, an apply or a destroy
PanelFree == \A o \in UnderWay : request[o].kind \notin {"connect", "deploy"}

Connect(r) ==
  /\ mounted /\ "connect" \in Kinds /\ PanelFree
  /\ Begin(r, "connect", "init")
  /\ UNCHANGED <<files, remote, repoVars, committerVars, tree, pageVars, counterVars>>

Deploy(r) ==
  /\ connected /\ "deploy" \in Kinds /\ PanelFree
  /\ Begin(r, "deploy", "init")
  /\ UNCHANGED <<files, remote, repoVars, committerVars, tree, pageVars, counterVars>>

\* the history panel is opened or refreshed
GetHistory(r) ==
  /\ mounted /\ "history" \in Kinds
  /\ Begin(r, "history", "init")
  /\ UNCHANGED <<files, remote, repoVars, committerVars, tree, pageVars, counterVars>>

At(r, place) == request[r].at = place

Goes(r, place) == request' = [request EXCEPT ![r].at = place]

Ends(r) == request' = [request EXCEPT ![r] = Idle]
-----------------------------------------------------------------------------
(* ensureInitialized.  Two requests may clone at a time: what git leaves   *)
(* of the second clone is not modelled, and no property speaks of it.      *)

AfterInit(r) == IF request[r].kind \in Refreshing THEN "fetch" ELSE "compare"

EnterInit(r) ==
  /\ At(r, "init")
  /\ Goes(r, IF initialized THEN AfterInit(r) ELSE "cloning")
  /\ UNCHANGED <<files, remote, repoVars, committerVars, tree, pageVars, counterVars,
                 spoilt>>

Clone(r) ==
  /\ At(r, "cloning") /\ remote # None
  /\ head' = remote /\ index' = remote.tree
  /\ request' = [request EXCEPT ![r].at = "listing", ![r].got = remote]
  /\ UNCHANGED <<files, remote, committerVars, tree, pageVars, counterVars, spoilt>>

\* an empty repository cannot be cloned; any failure ends in git init
CloneFails(r) ==
  /\ At(r, "cloning")
  /\ request' = [request EXCEPT ![r].at = "listing", ![r].got = head]
  /\ spoilt' = spoilt \cup (IF remote = None THEN {} ELSE {"failed"})
  /\ UNCHANGED <<files, remote, repoVars, committerVars, tree, pageVars, counterVars>>

\* what the branch holds counts as known and as committed
Initialized(r) ==
  /\ At(r, "listing")
  /\ initialized' = TRUE
  /\ LET c == request[r].got
     IN IF c = None THEN UNCHANGED <<knownPaths, lastSignature>>
                    ELSE knownPaths' = Held(c.tree) /\ lastSignature' = c.tree
  /\ request' = [request EXCEPT ![r].at = AfterInit(r), ![r].got = None]
  /\ UNCHANGED <<files, remote, repoVars, tree, pageVars, counterVars, spoilt>>
-----------------------------------------------------------------------------
(* commitSnapshot, with the workspace's snapshot it is given               *)

GetSnapshot(r) ==
  /\ At(r, "snapshot")
  /\ request' = [request EXCEPT ![r].at = "init", ![r].snapshot = files]
  /\ UNCHANGED <<files, remote, repoVars, committerVars, tree, pageVars, counterVars,
                 spoilt>>

\* what was committed last is not committed again
SameSignature(r) ==
  /\ At(r, "compare") /\ lastSignature = request[r].snapshot
  /\ Ends(r)
  /\ UNCHANGED <<files, remote, repoVars, committerVars, tree, pageVars, counterVars,
                 spoilt>>

NewSignature(r) ==
  /\ At(r, "compare") /\ lastSignature # request[r].snapshot
  /\ request' = [request EXCEPT ![r].at = "stage",
                                ![r].todo = knownPaths \cup Held(request[r].snapshot)]
  /\ UNCHANGED <<files, remote, repoVars, committerVars, tree, pageVars, counterVars,
                 spoilt>>

\* known paths that are gone are removed, then every file is staged
Stage(r) ==
  LET todo == request[r].todo
      snapshot == request[r].snapshot
  IN /\ At(r, "stage")
     /\ \E p \in todo :
          /\ (\E q \in todo : snapshot[q] = Absent) => snapshot[p] = Absent
          /\ index' = [index EXCEPT ![p] = snapshot[p]]
          /\ request' = [request EXCEPT ![r].todo = @ \ {p}]
     /\ UNCHANGED <<files, remote, head, committerVars, tree, pageVars, counterVars, spoilt>>

\* backend.commit: the index becomes a commit, also when nothing changed
CommitsIndex(r, next) ==
  /\ made < MaxCommits
  /\ head' = CommitOn(head, index)
  /\ made' = made + 1
  /\ Goes(r, next)
  /\ UNCHANGED <<files, remote, index, committerVars, tree, pageVars, changes, reloads,
                 spoilt>>

\* MUTANT of Commit: it is made of the files of its own snapshot, not of the index
CommitOwnFiles(r) ==
  /\ At(r, "stage") /\ request[r].todo = {} /\ made < MaxCommits
  /\ head' = CommitOn(head, request[r].snapshot)
  /\ made' = made + 1
  /\ Goes(r, "push")
  /\ UNCHANGED <<files, remote, index, committerVars, tree, pageVars, changes, reloads, spoilt>>

Commit(r) == At(r, "stage") /\ request[r].todo = {} /\ CommitsIndex(r, "push")

\* The branch as it is now is pushed; the remote refuses what is not its descendant.
\* Asking the remote and sending to it is one step: a push refused because another one
\* of the page landed in between is a Fails.
Push(r) ==
  /\ request[r].at \in {"push", "push store"} /\ Descends(head, remote)
  /\ remote' = head
  /\ Goes(r, IF At(r, "push") THEN "pushed" ELSE "pushed store")
  /\ UNCHANGED <<files, repoVars, committerVars, tree, pageVars, counterVars, spoilt>>

Committed(r) ==
  /\ At(r, "pushed")
  /\ knownPaths' = Held(request[r].snapshot)
  /\ lastSignature' = request[r].snapshot
  /\ Ends(r)
  /\ UNCHANGED <<files, remote, repoVars, initialized, tree, pageVars, counterVars, spoilt>>
-----------------------------------------------------------------------------
(* refreshStore: fetch the branch, and seed the store from it.             *)

Fetch(r) ==
  /\ At(r, "fetch") /\ remote # None
  /\ request' = [request EXCEPT ![r].at = "fetched", ![r].got = remote]
  /\ UNCHANGED <<files, remote, repoVars, committerVars, tree, pageVars, counterVars,
                 spoilt>>

\* the local branch is set to what was fetched; the index is left as it is
Fetched(r) ==
  /\ At(r, "fetched")
  /\ head' = request[r].got
  /\ Goes(r, "seed")
  /\ UNCHANGED <<files, remote, index, committerVars, tree, pageVars, counterVars, spoilt>>

\* a fetch that fails is passed over
FetchFails(r) ==
  /\ At(r, "fetch")
  /\ Goes(r, "seed")
  /\ UNCHANGED <<files, remote, repoVars, committerVars, tree, pageVars, counterVars,
                 spoilt>>

\* seed awaits the branch, empties the store, and then awaits the branch's tree
ReadHead(r) ==
  /\ At(r, "seed")
  /\ request' = [request EXCEPT ![r].at = "emptying", ![r].got = head]
  /\ UNCHANGED <<files, remote, repoVars, committerVars, tree, pageVars, counterVars,
                 spoilt>>

Seed(r) ==
  /\ At(r, "emptying")
  /\ tree' = Empty
  /\ Goes(r, "seeding")
  /\ UNCHANGED <<files, remote, repoVars, committerVars, pageVars, counterVars, spoilt>>

\* the store's entries, from the tree listed and from what was written since
SeededFrom(c) ==
  IF c = None THEN tree ELSE [p \in Paths |-> IF c.tree[p] = Absent THEN tree[p] ELSE c.tree[p]]

\* the history then reads the log and immutable objects, a connect its service
Seeded(r) ==
  /\ At(r, "seeding")
  /\ tree' = SeededFrom(request[r].got)
  /\ connected' = (connected \/ request[r].kind = "connect")
  /\ IF request[r].kind = "deploy"
     THEN request' = [request EXCEPT ![r].at = "operate", ![r].got = None]
     ELSE Ends(r)
  /\ UNCHANGED <<files, remote, repoVars, committerVars, mounted, counterVars, spoilt>>
-----------------------------------------------------------------------------
(* A deploy operation writes files to the store, which stages each, and    *)
(* the lockfile last.  So the store has changes when commitStore looks.    *)
(* snapshotStore follows, and the workspace's files are replaced by it.    *)

StoreWrites(p, v) ==
  /\ index' = [index EXCEPT ![p] = v]
  /\ tree' = [tree EXCEPT ![p] = v]

WriteStore(r) ==
  /\ At(r, "operate") /\ changes < MaxChanges
  /\ \E p \in Paths, v \in Contents : StoreWrites(p, v)
  /\ changes' = changes + 1
  /\ UNCHANGED <<files, remote, head, committerVars, pageVars, request, made, reloads, spoilt>>

WriteLockfile(r) ==
  /\ At(r, "operate")
  /\ \E v \in Contents : StoreWrites(Lockfile, v)
  /\ Goes(r, "commit store")
  /\ UNCHANGED <<files, remote, head, committerVars, pageVars, counterVars, spoilt>>

CommitStore(r) == At(r, "commit store") /\ CommitsIndex(r, "push store")

\* snapshotStore lists the store and then reads each file
ListStore(r) ==
  /\ At(r, "pushed store")
  /\ request' = [request EXCEPT ![r].at = "reading", ![r].todo = Held(tree)]
  /\ UNCHANGED <<files, remote, repoVars, committerVars, tree, pageVars, counterVars,
                 spoilt>>

ReadStore(r) ==
  /\ At(r, "reading")
  /\ \E p \in request[r].todo \cap Held(tree) :
       request' = [request EXCEPT ![r].snapshot[p] = tree[p], ![r].todo = @ \ {p}]
  /\ UNCHANGED <<files, remote, repoVars, committerVars, tree, pageVars, counterVars,
                 spoilt>>

\* MUTANT of SnapshotStore: the committer is not told what the store now holds
SnapshotUnremembered(r) ==
  /\ At(r, "reading") /\ request[r].todo = {}
  /\ Goes(r, "replace")
  /\ UNCHANGED <<files, remote, repoVars, committerVars, tree, pageVars, counterVars, spoilt>>

SnapshotStore(r) ==
  /\ At(r, "reading") /\ request[r].todo = {}
  /\ knownPaths' = Held(request[r].snapshot)
  /\ lastSignature' = request[r].snapshot
  /\ Goes(r, "replace")
  /\ UNCHANGED <<files, remote, repoVars, initialized, tree, pageVars, counterVars, spoilt>>

ReplaceFiles(r) ==
  /\ At(r, "replace")
  /\ files' = request[r].snapshot
  /\ Ends(r)
  /\ UNCHANGED <<remote, repoVars, committerVars, tree, pageVars, counterVars, spoilt>>
-----------------------------------------------------------------------------
(* Failures, reloads and others                                            *)

\* any other call may fail, before it took effect: the request is given up
Fails(r) ==
  /\ request[r].at \in {"snapshot", "listing", "stage", "push", "seeding", "operate", "commit store",
                "push store", "reading", "replace"}
  /\ Ends(r)
  /\ spoilt' = spoilt \cup {"failed"}
  /\ UNCHANGED <<files, remote, repoVars, committerVars, tree, pageVars, counterVars>>

\* a push takes effect, but its answer does not arrive
AnswerLost(r) ==
  /\ request[r].at \in {"pushed", "pushed store"}
  /\ Ends(r)
  /\ spoilt' = spoilt \cup {"failed"}
  /\ UNCHANGED <<files, remote, repoVars, committerVars, tree, pageVars, counterVars>>

\* the page's memory goes, and with it every request
Reload ==
  /\ mounted /\ reloads < MaxReloads
  /\ reloads' = reloads + 1
  /\ head' = None /\ index' = Empty
  /\ initialized' = FALSE /\ knownPaths' = {} /\ lastSignature' = None
  /\ tree' = Empty
  /\ mounted' = FALSE /\ connected' = FALSE
  /\ request' = [r \in Requests |-> Idle]
  /\ spoilt' = {}
  /\ UNCHANGED <<files, remote, made, changes>>

\* another client changes the workspace, or the answer to an edit is lost
OtherChanges ==
  /\ "others" \in Kinds /\ changes < MaxChanges
  /\ files' \in ChangesOf(files)
  /\ changes' = changes + 1
  /\ spoilt' = spoilt \cup {"files"}
  /\ UNCHANGED <<remote, repoVars, committerVars, tree, pageVars, request, made, reloads>>

\* another page or a git client pushes
OtherPushes ==
  /\ "others" \in Kinds /\ made < MaxCommits
  /\ \E t \in ChangesOf(IF remote = None THEN Empty ELSE remote.tree) :
       remote' = CommitOn(remote, t)
  /\ made' = made + 1
  /\ spoilt' = spoilt \cup {"remote"}
  /\ UNCHANGED <<files, repoVars, committerVars, tree, pageVars, request, changes, reloads>>

Next ==
  \/ \E r \in Requests :
       \/ Mount(r) \/ Edit(r) \/ Connect(r) \/ Deploy(r) \/ GetHistory(r)
       \/ EnterInit(r) \/ Clone(r) \/ CloneFails(r) \/ Initialized(r)
       \/ GetSnapshot(r) \/ SameSignature(r) \/ NewSignature(r) \/ Stage(r) \/ Commit(r)
       \/ Push(r) \/ Committed(r)
       \/ Fetch(r) \/ Fetched(r) \/ FetchFails(r) \/ ReadHead(r) \/ Seed(r) \/ Seeded(r)
       \/ WriteStore(r) \/ WriteLockfile(r) \/ CommitStore(r)
       \/ ListStore(r) \/ ReadStore(r) \/ SnapshotStore(r) \/ ReplaceFiles(r)
       \/ Fails(r) \/ AnswerLost(r)
  \/ Reload \/ OtherChanges \/ OtherPushes

Spec == Init /\ [][Next]_vars
-----------------------------------------------------------------------------
AtRest == mounted /\ UnderWay = {}

(* The mirror is current: a page at rest whose requests did not overlap,   *)
(* with no failure and nobody else at work since it was loaded, leaves the *)
(* workspace's files in the remote branch, all of them and no others.      *)
(* Whatever happened before is healed by the first commit after a reload.  *)
MirrorCurrent ==
  AtRest /\ spoilt = {} => remote # None /\ remote.tree = files

(* What was staged gets to the remote, also when changes overlap between   *)
(* any two awaits, unless a refresh moved the branch meanwhile or the      *)
(* repository was still cloned when the second one began.                  *)
StagedIsPushed ==
  AtRest /\ spoilt \cap {"failed", "remote", "crossed", "raced"} = {} =>
    remote # None /\ remote.tree = index

(* The documented end of a deploy operation, "DO snapshot matches          *)
(* committed git store", when nothing failed, nobody else was at work, and *)
(* the requests that overlap began after the first had its repository.     *)
MirrorMatches ==
  AtRest /\ spoilt \cap {"failed", "remote", "files", "raced"} = {} =>
    remote # None /\ remote.tree = files
=============================================================================
