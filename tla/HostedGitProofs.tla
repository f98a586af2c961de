-------------------------- MODULE HostedGitProofs ---------------------------
(* Proofs about the git mirror of a hosted page, for any number of requests, *)
(* paths and contents and every bound.                                       *)
(*                                                                           *)
(* Both theorems come from one invariant.  PushInv is what holds as long as  *)
(* no refresh was crossed by another request: the branch is ahead of the     *)
(* remote only while somebody is about to push it, and the index is ahead of *)
(* the branch only while somebody is about to commit it.  MirrorInv is what  *)
(* holds as long as requests come one after the other: where the one request *)
(* is tells how files, store, index, branch and remote compare.              *)
EXTENDS HostedGit, TLAPS

CommitPath  == {"snapshot", "init", "cloning", "listing", "compare", "stage", "push", "pushed"}
RefreshPath == {"init", "cloning", "listing", "fetch", "fetched", "seed", "emptying", "seeding"}
StorePath   == {"operate", "commit store", "push store", "pushed store", "reading", "replace"}
Spoilers    == {"overlapped", "raced", "crossed", "failed", "files", "remote"}

RequestKinds == {"load", "edit", "connect", "deploy", "history"}
Places       == {"idle"} \cup CommitPath \cup RefreshPath \cup StorePath
PathSets     == SUBSET Paths
RequestSet   == [at : Places, kind : RequestKinds, snapshot : Trees, todo : PathSets,
                 got : Commits \cup {None}]

GitType ==
  /\ files \in Trees /\ index \in Trees /\ tree \in Trees
  /\ remote \in Commits \cup {None} /\ head \in Commits \cup {None}
  /\ initialized \in BOOLEAN /\ mounted \in BOOLEAN /\ connected \in BOOLEAN
  /\ knownPaths \in SUBSET Paths /\ lastSignature \in Trees \cup {None}
  /\ request \in [Requests -> RequestSet]
  /\ made \in Nat /\ spoilt \in SUBSET Spoilers

(* A request is on the way of its kind.                                      *)
OnItsWay(q) ==
  /\ q.at = "idle" => q = Idle
  /\ q.kind \in {"load", "edit"} => q.at \in {"idle"} \cup CommitPath
  /\ q.kind \in {"connect", "history"} => q.at \in RefreshPath
  /\ q.kind = "deploy" => q.at \in RefreshPath \cup StorePath
  /\ q.at = "fetched" => q.got # None

(* Where requests are before the repository is cloned.                       *)
Early == {"idle", "snapshot", "init", "cloning", "listing"}

RequestsInv ==
  /\ \A r \in Requests : OnItsWay(request[r])
  /\ ~initialized => /\ lastSignature = None /\ knownPaths = {}
                     /\ \A r \in Requests : request[r].at \in Early
  /\ \A r \in Requests : request[r].at \in {"push", "push store"} => head # None
  /\ \A r \in Requests : request[r].at \in {"pushed", "pushed store", "reading"} => remote # None
  /\ ~mounted => /\ head = None /\ index = Empty /\ ~initialized /\ ~connected
                 /\ \A r \in Requests : request[r] = Idle

-----------------------------------------------------------------------------
Somebody(places) == \E r \in Requests : request[r].at \in places
AloneIs(r) == \A o \in Requests : o # r => request[o] = Idle

Untroubled == spoilt \cap {"failed", "remote", "crossed", "raced"} = {}

(* The page's first request makes the repository what the remote is.         *)
FirstRequest(r) ==
  /\ request[r].kind = "load" /\ AloneIs(r)
  /\ request[r].at \in {"snapshot", "init", "cloning", "listing"}
  /\ request[r].at # "listing" => head = None /\ index = Empty
  /\ request[r].at = "listing" =>
       /\ request[r].got = head /\ head = remote
       /\ IF head = None THEN index = Empty ELSE index = head.tree

PushInv ==
  /\ mounted /\ ~initialized => \E r \in Requests : FirstRequest(r)
  /\ initialized =>
       /\ ~Somebody({"cloning", "listing"})
       /\ head = remote \/ Somebody({"push", "push store"})
       /\ head = None \/ index = head.tree \/ Somebody({"stage", "operate", "commit store"})
       /\ remote = None => lastSignature = None /\ Somebody({"compare", "stage", "push"})
  /\ \A r \in Requests : request[r].kind \in Refreshing =>
       /\ initialized /\ AloneIs(r)
       /\ request[r].at = "fetched" => request[r].got = remote /\ head = remote

-----------------------------------------------------------------------------
Remembered ==
  IF remote = None THEN lastSignature = None /\ knownPaths = {}
                   ELSE lastSignature = remote.tree /\ knownPaths = Held(remote.tree)

(* What a request that commits the workspace's files has got to.             *)
CommitsFiles(q) ==
  /\ q.at \in CommitPath \ {"snapshot"} => q.snapshot = files
  /\ q.at = "compare" /\ head = None => index = Empty
  /\ q.at = "stage" => \A p \in Paths \ q.todo : index[p] = files[p]
  /\ q.at = "push" => head.tree = files
  /\ q.at = "pushed" => remote.tree = files

(* What a request that refreshes the store, works on it and replaces the     *)
(* workspace's files by it has got to.                                       *)
RefreshesStore(q) ==
  /\ q.at \in RefreshPath => remote # None /\ remote.tree = files
  /\ q.at \in {"emptying", "seeding"} => q.got = head
  /\ q.at = "seeding" => tree = Empty
  /\ q.at \in RefreshPath \cup {"operate", "commit store", "push store", "pushed store"} =>
       q.snapshot = Empty
  /\ q.at \in {"operate", "commit store", "push store"} => tree = index
  /\ q.at = "push store" => head.tree = tree
  /\ q.at \in {"pushed store", "reading"} => remote.tree = tree
  /\ q.at = "reading" => \A p \in Paths \ q.todo : q.snapshot[p] = tree[p]
  /\ q.at = "replace" => remote.tree = q.snapshot

MirrorInv ==
  /\ \A r \in Requests : request[r] # Idle => AloneIs(r)
  /\ initialized =>
       /\ UnderWay = {} => remote.tree = files
       /\ Somebody({"pushed", "pushed store", "reading"}) \/ Remembered
  /\ \A r \in Requests : IF request[r].kind \in {"load", "edit"}
                         THEN CommitsFiles(request[r]) ELSE RefreshesStore(request[r])

GitInv ==
  /\ GitType /\ RequestsInv
  /\ Untroubled => PushInv
  /\ spoilt = {} => MirrorInv

-----------------------------------------------------------------------------
(* What the assignments to a request do to it.                               *)

LEMMA SetAt ==
  ASSUME NEW f \in [Requests -> RequestSet], NEW r \in Requests, NEW v \in Places
  PROVE  LET g == [f EXCEPT ![r].at = v] IN
         /\ g \in [Requests -> RequestSet] /\ \A o \in Requests : o # r => g[o] = f[o]
         /\ g[r].at = v /\ g[r].kind = f[r].kind /\ g[r].snapshot = f[r].snapshot
         /\ g[r].todo = f[r].todo /\ g[r].got = f[r].got
<1> DEFINE q == [f[r] EXCEPT !.at = v]
<1>1. /\ q \in RequestSet /\ q.at = v /\ q.kind = f[r].kind /\ q.snapshot = f[r].snapshot
      /\ q.todo = f[r].todo /\ q.got = f[r].got
  BY DEF RequestSet
<1> HIDE DEF q
<1>2. [f EXCEPT ![r].at = v] = [f EXCEPT ![r] = q]
  BY DEF q
<1> QED BY <1>1, <1>2

LEMMA SetSnapshot ==
  ASSUME NEW f \in [Requests -> RequestSet], NEW r \in Requests, NEW v \in Trees
  PROVE  LET g == [f EXCEPT ![r].snapshot = v] IN
         /\ g \in [Requests -> RequestSet] /\ \A o \in Requests : o # r => g[o] = f[o]
         /\ g[r].at = f[r].at /\ g[r].kind = f[r].kind /\ g[r].snapshot = v
         /\ g[r].todo = f[r].todo /\ g[r].got = f[r].got
<1> DEFINE q == [f[r] EXCEPT !.snapshot = v]
<1>1. /\ q \in RequestSet /\ q.at = f[r].at /\ q.kind = f[r].kind /\ q.snapshot = v
      /\ q.todo = f[r].todo /\ q.got = f[r].got
  BY DEF RequestSet
<1> HIDE DEF q
<1>2. [f EXCEPT ![r].snapshot = v] = [f EXCEPT ![r] = q]
  BY DEF q
<1> QED BY <1>1, <1>2

LEMMA SetTodo ==
  ASSUME NEW f \in [Requests -> RequestSet], NEW r \in Requests, NEW v \in PathSets
  PROVE  LET g == [f EXCEPT ![r].todo = v] IN
         /\ g \in [Requests -> RequestSet] /\ \A o \in Requests : o # r => g[o] = f[o]
         /\ g[r].at = f[r].at /\ g[r].kind = f[r].kind /\ g[r].snapshot = f[r].snapshot
         /\ g[r].todo = v /\ g[r].got = f[r].got
<1> DEFINE q == [f[r] EXCEPT !.todo = v]
<1>1. /\ q \in RequestSet /\ q.at = f[r].at /\ q.kind = f[r].kind /\ q.snapshot = f[r].snapshot
      /\ q.todo = v /\ q.got = f[r].got
  BY DEF RequestSet
<1> HIDE DEF q
<1>2. [f EXCEPT ![r].todo = v] = [f EXCEPT ![r] = q]
  BY DEF q
<1> QED BY <1>1, <1>2

LEMMA SetGot ==
  ASSUME NEW f \in [Requests -> RequestSet], NEW r \in Requests, NEW v \in Commits \cup {None}
  PROVE  LET g == [f EXCEPT ![r].got = v] IN
         /\ g \in [Requests -> RequestSet] /\ \A o \in Requests : o # r => g[o] = f[o]
         /\ g[r].at = f[r].at /\ g[r].kind = f[r].kind /\ g[r].snapshot = f[r].snapshot
         /\ g[r].todo = f[r].todo /\ g[r].got = v
<1> DEFINE q == [f[r] EXCEPT !.got = v]
<1>1. /\ q \in RequestSet /\ q.at = f[r].at /\ q.kind = f[r].kind /\ q.snapshot = f[r].snapshot
      /\ q.todo = f[r].todo /\ q.got = v
  BY DEF RequestSet
<1> HIDE DEF q
<1>2. [f EXCEPT ![r].got = v] = [f EXCEPT ![r] = q]
  BY DEF q
<1> QED BY <1>1, <1>2

(* A request as a step leaves it; the others are as they were.               *)
Becomes(r, at, snapshot, todo, got) ==
  /\ request' \in [Requests -> RequestSet]
  /\ \A o \in Requests : o # r => request'[o] = request[o]
  /\ request'[r].at = at /\ request'[r].kind = request[r].kind
  /\ request'[r].snapshot = snapshot /\ request'[r].todo = todo /\ request'[r].got = got

LEMMA IdleRequest ==
  /\ Empty \in Trees /\ Idle \in RequestSet
  /\ Idle.at = "idle" /\ Idle.kind = "load" /\ Idle.snapshot = Empty /\ Idle.todo = {}
  /\ Idle.got = None
BY DEF Empty, Trees, Idle, RequestSet, PathSets, Places, RequestKinds

LEMMA GoesTo ==
  ASSUME GitType, NEW r \in Requests, NEW place \in Places, Goes(r, place)
  PROVE  Becomes(r, place, request[r].snapshot, request[r].todo, request[r].got)
BY SetAt DEF GitType, Goes, Becomes

LEMMA Ended ==
  ASSUME GitType, NEW r \in Requests, Ends(r)
  PROVE  /\ request' \in [Requests -> RequestSet] /\ request'[r] = Idle
         /\ \A o \in Requests : o # r => request'[o] = request[o]
BY IdleRequest DEF GitType, Ends

LEMMA GoesWithSnapshot ==
  ASSUME GitType, NEW r \in Requests, NEW place \in Places, NEW v \in Trees,
         request' = [request EXCEPT ![r].at = place, ![r].snapshot = v]
  PROVE  Becomes(r, place, v, request[r].todo, request[r].got)
<1> DEFINE g == [request EXCEPT ![r].at = place]
<1>1. request' = [g EXCEPT ![r].snapshot = v]
  OBVIOUS
<1>2. /\ g \in [Requests -> RequestSet] /\ \A o \in Requests : o # r => g[o] = request[o]
      /\ g[r].at = place /\ g[r].kind = request[r].kind /\ g[r].todo = request[r].todo
      /\ g[r].got = request[r].got
  BY SetAt DEF GitType
<1> HIDE DEF g
<1> DEFINE h == [g EXCEPT ![r].snapshot = v]
<1>3. /\ h \in [Requests -> RequestSet] /\ \A o \in Requests : o # r => h[o] = g[o]
      /\ h[r].at = g[r].at /\ h[r].kind = g[r].kind /\ h[r].snapshot = v
      /\ h[r].todo = g[r].todo
      /\ h[r].got = g[r].got
  BY <1>2, SetSnapshot
<1> HIDE DEF h
<1> QED BY <1>1, <1>2, <1>3 DEF Becomes, h

LEMMA GoesWithTodo ==
  ASSUME GitType, NEW r \in Requests, NEW place \in Places, NEW v \in PathSets,
         request' = [request EXCEPT ![r].at = place, ![r].todo = v]
  PROVE  Becomes(r, place, request[r].snapshot, v, request[r].got)
<1> DEFINE g == [request EXCEPT ![r].at = place]
<1>1. request' = [g EXCEPT ![r].todo = v]
  OBVIOUS
<1>2. /\ g \in [Requests -> RequestSet] /\ \A o \in Requests : o # r => g[o] = request[o]
      /\ g[r].at = place /\ g[r].kind = request[r].kind
      /\ g[r].snapshot = request[r].snapshot /\ g[r].got = request[r].got
  BY SetAt DEF GitType
<1> HIDE DEF g
<1> DEFINE h == [g EXCEPT ![r].todo = v]
<1>3. /\ h \in [Requests -> RequestSet] /\ \A o \in Requests : o # r => h[o] = g[o]
      /\ h[r].at = g[r].at /\ h[r].kind = g[r].kind /\ h[r].todo = v
      /\ h[r].snapshot = g[r].snapshot
      /\ h[r].got = g[r].got
  BY <1>2, SetTodo
<1> HIDE DEF h
<1> QED BY <1>1, <1>2, <1>3 DEF Becomes, h

LEMMA GoesWithCommit ==
  ASSUME GitType, NEW r \in Requests, NEW place \in Places, NEW v \in Commits \cup {None},
         request' = [request EXCEPT ![r].at = place, ![r].got = v]
  PROVE  Becomes(r, place, request[r].snapshot, request[r].todo, v)
<1> DEFINE g == [request EXCEPT ![r].at = place]
<1>1. request' = [g EXCEPT ![r].got = v]
  OBVIOUS
<1>2. /\ g \in [Requests -> RequestSet] /\ \A o \in Requests : o # r => g[o] = request[o]
      /\ g[r].at = place /\ g[r].kind = request[r].kind
      /\ g[r].snapshot = request[r].snapshot /\ g[r].todo = request[r].todo
  BY SetAt DEF GitType
<1> HIDE DEF g
<1> DEFINE h == [g EXCEPT ![r].got = v]
<1>3. /\ h \in [Requests -> RequestSet] /\ \A o \in Requests : o # r => h[o] = g[o]
      /\ h[r].at = g[r].at /\ h[r].kind = g[r].kind /\ h[r].got = v
      /\ h[r].snapshot = g[r].snapshot
      /\ h[r].todo = g[r].todo
  BY <1>2, SetGot
<1> HIDE DEF h
<1> QED BY <1>1, <1>2, <1>3 DEF Becomes, h

LEMMA Committing ==
  ASSUME GitType, NEW t \in Trees, NEW c \in Commits \cup {None}
  PROVE  CommitOn(c, t) \in Commits /\ CommitOn(c, t).tree = t /\ CommitOn(c, t) # None
<1>1. c # None => c.id \in Nat /\ c.past \in SUBSET Nat
  BY DEF Commits
<1>2. (IF c = None THEN {} ELSE c.past \cup {c.id}) \in SUBSET Nat
  BY <1>1
<1> QED BY <1>2, NoneAssumption DEF CommitOn, Commits, GitType

-----------------------------------------------------------------------------
(* A step of one request: what there is to show.                             *)

LEMMA Actor ==
  ASSUME GitInv, NEW r \in Requests, request[r].at # "idle"
  PROVE  /\ request[r] \in RequestSet /\ request[r] # Idle /\ mounted
         /\ OnItsWay(request[r]) /\ GitType
         /\ request[r].at \notin Early => initialized
         /\ Untroubled => PushInv
         /\ Untroubled /\ ~initialized => FirstRequest(r) /\ AloneIs(r)
         /\ Untroubled => \A o \in Requests : o # r => request[o].kind \notin Refreshing
         /\ spoilt = {} => Untroubled /\ AloneIs(r)
<1> USE IdleRequest DEF GitInv
<1>1. /\ request[r] \in RequestSet /\ request[r] # Idle /\ mounted /\ OnItsWay(request[r])
      /\ GitType /\ request[r].at \notin Early => initialized
  BY DEF GitType, RequestsInv
<1>2. ASSUME Untroubled, ~initialized PROVE FirstRequest(r) /\ AloneIs(r)
  BY <1>1, <1>2 DEF PushInv, FirstRequest, AloneIs
<1>3. ASSUME Untroubled, NEW o \in Requests, o # r PROVE request[o].kind \notin Refreshing
  BY <1>1, <1>3 DEF PushInv, AloneIs
<1>4. spoilt = {} => Untroubled /\ AloneIs(r)
  BY <1>1 DEF Untroubled, MirrorInv
<1> QED BY <1>1, <1>2, <1>3, <1>4

OthersStay(r) == \A o \in Requests : o # r => request'[o] = request[o]

(* The invariants of a request that is alone.                                *)
PushAt(r) ==
  /\ mounted /\ ~initialized => FirstRequest(r)
  /\ initialized =>
       /\ request[r].at \notin {"cloning", "listing"}
       /\ head = remote \/ request[r].at \in {"push", "push store"}
       /\ head = None \/ index = head.tree
            \/ request[r].at \in {"stage", "operate", "commit store"}
       /\ remote = None => lastSignature = None /\ request[r].at \in {"compare", "stage", "push"}
  /\ request[r].kind \in Refreshing =>
       /\ initialized
       /\ request[r].at = "fetched" => request[r].got = remote /\ head = remote

MirrorAt(r) ==
  /\ initialized =>
       /\ request[r] = Idle => remote.tree = files
       /\ request[r].at \in {"pushed", "pushed store", "reading"} \/ Remembered
  /\ IF request[r].kind \in {"load", "edit"}
     THEN CommitsFiles(request[r]) ELSE RefreshesStore(request[r])

OneIsAll == \A r \in Requests :
  AloneIs(r) => (PushInv <=> PushAt(r)) /\ (MirrorInv <=> MirrorAt(r))

LEMMA PushAlone == \A r \in Requests : AloneIs(r) => (PushInv <=> PushAt(r))
<1> SUFFICES ASSUME NEW r \in Requests, AloneIs(r) PROVE PushInv <=> PushAt(r)
  OBVIOUS
<1> USE IdleRequest
<1>1. \A S : "idle" \notin S => (Somebody(S) <=> request[r].at \in S)
  BY DEF Somebody, AloneIs
<1>2. /\ Somebody({"cloning", "listing"}) <=> request[r].at \in {"cloning", "listing"}
      /\ Somebody({"push", "push store"}) <=> request[r].at \in {"push", "push store"}
      /\ Somebody({"stage", "operate", "commit store"})
           <=> request[r].at \in {"stage", "operate", "commit store"}
      /\ Somebody({"compare", "stage", "push"}) <=> request[r].at \in {"compare", "stage", "push"}
  BY <1>1
<1>3. (\E o \in Requests : FirstRequest(o)) <=> FirstRequest(r)
  BY DEF FirstRequest, AloneIs
<1>4. \A o \in Requests : request[o].kind \in Refreshing => o = r
  BY DEF AloneIs, Refreshing
<1> QED BY <1>2, <1>3, <1>4 DEF PushInv, PushAt

LEMMA MirrorAlone == \A r \in Requests : AloneIs(r) => (MirrorInv <=> MirrorAt(r))
<1> SUFFICES ASSUME NEW r \in Requests, AloneIs(r) PROVE MirrorInv <=> MirrorAt(r)
  OBVIOUS
<1> USE IdleRequest
<1>1. Somebody({"pushed", "pushed store", "reading"})
        <=> request[r].at \in {"pushed", "pushed store", "reading"}
  BY DEF Somebody, AloneIs
<1>2. UnderWay = {} <=> request[r] = Idle
  BY DEF UnderWay, AloneIs
<1>3. \A o \in Requests : o # r => request[o].kind \in {"load", "edit"} /\ CommitsFiles(request[o])
  BY DEF AloneIs, CommitsFiles, CommitPath
<1>4. \A o \in Requests : request[o] # Idle => AloneIs(o)
  BY DEF AloneIs
<1> QED BY <1>1, <1>2, <1>3, <1>4 DEF MirrorInv, MirrorAt

LEMMA AloneNext == OneIsAll /\ OneIsAll'
<1>1. OneIsAll
  BY PushAlone, MirrorAlone DEF OneIsAll
<1> QED BY <1>1, PTL

(* When no other request is under way, its own invariant is all.             *)
LEMMA AloneStep ==
  ASSUME GitInv, NEW r \in Requests, request[r].at # "idle", OthersStay(r),
         GitType', RequestsInv', spoilt' = spoilt,
         Untroubled /\ AloneIs(r) /\ PushAt(r) => PushAt(r)',
         Untroubled /\ ~AloneIs(r) => PushInv',
         spoilt = {} /\ AloneIs(r) /\ PushAt(r) /\ MirrorAt(r) => MirrorAt(r)'
  PROVE  GitInv'
<1>1. AloneIs(r)' <=> AloneIs(r)
  BY DEF OthersStay, AloneIs
<1>2. Untroubled' <=> Untroubled
  BY DEF Untroubled
<1>3. ASSUME AloneIs(r) PROVE (PushInv' <=> PushAt(r)') /\ (MirrorInv' <=> MirrorAt(r)')
  <2>1. AloneIs(r)'
    BY <1>1, <1>3
  <2>2. (\A q \in Requests : AloneIs(q) => (PushInv <=> PushAt(q)))'
    BY AloneNext DEF OneIsAll
  <2>3. (\A q \in Requests : AloneIs(q) => (MirrorInv <=> MirrorAt(q)))'
    BY AloneNext DEF OneIsAll
  <2> QED BY <2>1, <2>2, <2>3
<1>4. Untroubled => PushInv'
  <2> SUFFICES ASSUME Untroubled, AloneIs(r) PROVE PushInv'
    OBVIOUS
  <2>1. PushAt(r)
    BY PushAlone, Actor
  <2> QED BY <1>3, <2>1
<1>5. spoilt = {} => MirrorInv'
  <2> SUFFICES ASSUME spoilt = {} PROVE MirrorInv'
    OBVIOUS
  <2>1. AloneIs(r) /\ Untroubled /\ PushAt(r)
    BY PushAlone, Actor
  <2>2. MirrorAt(r)
    BY <2>1, MirrorAlone DEF GitInv
  <2> QED BY <1>3, <2>1, <2>2
<1> QED BY <1>2, <1>4, <1>5 DEF GitInv

LEMMA RequestsStep ==
  ASSUME GitInv, NEW r \in Requests, request[r].at # "idle", OthersStay(r),
         OnItsWay(request'[r]), mounted' = mounted, initialized => initialized',
         \/ initialized'
         \/ /\ lastSignature' = lastSignature /\ knownPaths' = knownPaths
            /\ request'[r].at \in Early,
         request'[r].at \in {"push", "push store"} => head' # None,
         request'[r].at \in {"pushed", "pushed store", "reading"} => remote' # None,
         head # None => head' # None, remote # None => remote' # None
  PROVE  RequestsInv'
<1>1. RequestsInv /\ mounted
  BY Actor DEF GitInv
<1> QED BY <1>1 DEF RequestsInv, OthersStay

(* Among requests that overlap, each has to keep only what it is needed for. *)
LEMMA Crowd ==
  ASSUME GitInv, NEW r \in Requests, request[r].at # "idle", Untroubled, ~AloneIs(r)
  PROVE  /\ initialized /\ request[r].kind \in {"load", "edit"}
         /\ request[r].at \in CommitPath \ {"cloning", "listing"}
         /\ ~Somebody({"cloning", "listing"})
         /\ \A o \in Requests : request[o].kind \notin Refreshing
<1>1. PushInv /\ initialized /\ OnItsWay(request[r]) /\ request[r] \in RequestSet
  BY Actor
<1>2. \A o \in Requests : request[o].kind \notin Refreshing
  BY <1>1, Actor DEF PushInv
<1>3. request[r].kind \in {"load", "edit"}
  BY <1>1, <1>2 DEF RequestSet, RequestKinds, Refreshing
<1>4. ~Somebody({"cloning", "listing"})
  BY <1>1 DEF PushInv
<1> QED BY <1>1, <1>2, <1>3, <1>4 DEF OnItsWay, Somebody

LEMMA CrowdStep ==
  ASSUME GitInv, NEW r \in Requests, request[r].at # "idle", OthersStay(r),
         Untroubled, ~AloneIs(r), initialized' = initialized,
         request'[r].kind \notin Refreshing, request'[r].at \notin {"cloning", "listing"},
         \/ head' = remote' \/ request'[r].at = "push"
         \/ head' = head /\ remote' = remote /\ request[r].at # "push",
         \/ head' = None \/ index' = head'.tree \/ request'[r].at = "stage"
         \/ head' = head /\ index' = index /\ request[r].at # "stage",
         \/ remote' # None
         \/ /\ remote' = remote /\ lastSignature' = lastSignature
            /\ request[r].at \in {"compare", "stage", "push"} =>
                 request'[r].at \in {"compare", "stage", "push"}
  PROVE  PushInv'
<1>1. /\ PushInv /\ initialized /\ ~Somebody({"cloning", "listing"})
      /\ \A o \in Requests : request[o].kind \notin Refreshing
      /\ request[r].at \in CommitPath
  BY Actor, Crowd
<1>2. ~Somebody({"cloning", "listing"})'
  BY <1>1 DEF Somebody, OthersStay
<1>3. (head = remote \/ Somebody({"push", "push store"}))'
  BY <1>1 DEF PushInv, Somebody, OthersStay, CommitPath
<1>4. (head = None \/ index = head.tree \/ Somebody({"stage", "operate", "commit store"}))'
  BY <1>1 DEF PushInv, Somebody, OthersStay, CommitPath
<1>5. (remote = None => lastSignature = None /\ Somebody({"compare", "stage", "push"}))'
  BY <1>1 DEF PushInv, Somebody, OthersStay, CommitPath
<1>6. \A o \in Requests : request'[o].kind \notin Refreshing
  BY <1>1 DEF OthersStay
<1> QED BY <1>1, <1>2, <1>3, <1>4, <1>5, <1>6 DEF PushInv

(* Each action of a request keeps the invariant.                             *)
LEMMA GetSnapshotKeeps ==
  ASSUME GitInv, NEW r \in Requests, GetSnapshot(r)
  PROVE  GitInv'
<1> USE DEF GetSnapshot, At, repoVars, committerVars, pageVars, counterVars
<1>1. request[r].at = "snapshot" /\ GitType
  BY DEF GitInv
<1>2. Becomes(r, "init", files, request[r].todo, request[r].got)
  BY <1>1, GoesWithSnapshot DEF GitType, Places, CommitPath
<1>3. OthersStay(r) /\ request[r].kind \in {"load", "edit"}
  BY <1>1, <1>2, Actor DEF Becomes, OthersStay, OnItsWay, RequestSet, RequestKinds,
                           RefreshPath, StorePath
<1>4. GitType'
  BY <1>1, <1>2 DEF GitType, Becomes
<1>5. RequestsInv'
  BY <1>1, <1>2, <1>3, RequestsStep DEF OnItsWay, Becomes, CommitPath, Early
<1>6. Untroubled /\ AloneIs(r) /\ PushAt(r) => PushAt(r)'
  BY <1>1, <1>2, <1>3 DEF PushAt, Becomes, FirstRequest, AloneIs, Refreshing
<1>7. Untroubled /\ ~AloneIs(r) => PushInv'
  BY <1>1, <1>2, <1>3, CrowdStep DEF Becomes, Refreshing
<1>8. spoilt = {} /\ AloneIs(r) /\ PushAt(r) /\ MirrorAt(r) => MirrorAt(r)'
  BY <1>1, <1>2, <1>3, IdleRequest DEF MirrorAt, Becomes, CommitsFiles, Remembered
<1> QED BY <1>1, <1>3, <1>4, <1>5, <1>6, <1>7, <1>8, AloneStep

LEMMA EnterInitKeeps ==
  ASSUME GitInv, NEW r \in Requests, EnterInit(r)
  PROVE  GitInv'
<1> USE DEF EnterInit, At, repoVars, committerVars, pageVars, counterVars
<1> DEFINE next == IF initialized THEN AfterInit(r) ELSE "cloning"
<1>1. request[r].at = "init" /\ GitType /\ OnItsWay(request[r]) /\ request[r] \in RequestSet
  BY Actor
<1>2. next \in Places /\ next \in CommitPath \cup RefreshPath
  BY DEF Places, CommitPath, RefreshPath, AfterInit
<1>3. Becomes(r, next, request[r].snapshot, request[r].todo, request[r].got)
  BY <1>1, <1>2, GoesTo
<1>4. OthersStay(r)
  BY <1>3 DEF Becomes, OthersStay
<1>5. GitType'
  BY <1>1, <1>3 DEF GitType, Becomes
<1>6. OnItsWay(request'[r])
  BY <1>1, <1>3 DEF OnItsWay, Becomes, AfterInit, CommitPath, RefreshPath, Refreshing,
                    RequestSet, RequestKinds
<1>7. RequestsInv'
  BY <1>1, <1>3, <1>4, <1>6, RequestsStep DEF Becomes, Early, AfterInit
<1>8. Untroubled /\ AloneIs(r) /\ PushAt(r) => PushAt(r)'
  BY <1>1, <1>3, <1>4 DEF PushAt, Becomes, FirstRequest, AloneIs, OthersStay, Refreshing, AfterInit
<1>9. Untroubled /\ ~AloneIs(r) => PushInv'
  BY <1>1, <1>3, <1>4, CrowdStep, Crowd DEF Becomes, Refreshing, AfterInit
<1>10. spoilt = {} /\ AloneIs(r) /\ PushAt(r) /\ MirrorAt(r) => MirrorAt(r)'
  <2> SUFFICES ASSUME spoilt = {}, AloneIs(r), PushAt(r), MirrorAt(r) PROVE MirrorAt(r)'
    OBVIOUS
  <2>1. initialized => remote # None /\ head = remote
    BY <1>1 DEF PushAt
  <2>2. ~initialized => request[r].kind = "load"
    BY Actor, <1>1 DEF PushAt, FirstRequest
  <2>3. request'[r].at # "idle" /\ request'[r].kind = request[r].kind
    BY <1>2, <1>3 DEF Becomes, CommitPath, RefreshPath
  <2>4. CASE request[r].kind \in {"load", "edit"}
    BY <1>1, <1>3, <2>1, <2>3, <2>4, IdleRequest
      DEF MirrorAt, Becomes, CommitsFiles, Remembered, AfterInit, Refreshing, CommitPath
  <2>5. CASE request[r].kind \notin {"load", "edit"}
    BY <1>1, <1>3, <2>1, <2>2, <2>3, <2>5, IdleRequest
      DEF MirrorAt, Becomes, RefreshesStore, Remembered, AfterInit, Refreshing, RefreshPath,
          RequestSet, RequestKinds
  <2> QED BY <2>4, <2>5
<1> HIDE DEF next
<1> QED BY <1>1, <1>4, <1>5, <1>7, <1>8, <1>9, <1>10, AloneStep

(* A request that fails ends, and no longer is anything claimed.             *)
LEMMA FailingKeeps ==
  ASSUME GitInv, NEW r \in Requests, request[r].at # "idle", Ends(r),
         spoilt' = spoilt \cup {"failed"},
         UNCHANGED <<files, remote, repoVars, committerVars, tree, pageVars, counterVars>>
  PROVE  GitInv'
<1> USE DEF repoVars, committerVars, pageVars, counterVars
<1>1. GitType /\ RequestsInv
  BY DEF GitInv
<1>2. /\ request' \in [Requests -> RequestSet] /\ request'[r] = Idle
      /\ \A o \in Requests : o # r => request'[o] = request[o]
  BY <1>1, Ended
<1>3. GitType'
  BY <1>1, <1>2 DEF GitType, Spoilers
<1>4. RequestsInv'
  BY <1>1, <1>2, RequestsStep, IdleRequest DEF OnItsWay, OthersStay, Early, RequestsInv
<1> QED BY <1>3, <1>4 DEF GitInv, Untroubled

LEMMA FailsKeeps ==
  ASSUME GitInv, NEW r \in Requests, Fails(r) \/ AnswerLost(r)
  PROVE  GitInv'
BY FailingKeeps DEF Fails, AnswerLost

LEMMA CloneKeeps ==
  ASSUME GitInv, NEW r \in Requests, Clone(r)
  PROVE  GitInv'
<1> USE DEF Clone, At, committerVars, pageVars, counterVars
<1>1. request[r].at = "cloning" /\ GitType /\ OnItsWay(request[r]) /\ request[r] \in RequestSet
  BY Actor
<1>2. remote \in Commits /\ remote.tree \in Trees /\ "listing" \in Places
  BY <1>1 DEF GitType, Commits, Places, CommitPath
<1>3. Becomes(r, "listing", request[r].snapshot, request[r].todo, remote)
  BY <1>1, <1>2, GoesWithCommit DEF GitType
<1>4. OthersStay(r)
  BY <1>3 DEF Becomes, OthersStay
<1>5. GitType'
  BY <1>1, <1>2, <1>3 DEF GitType, Becomes
<1>6. OnItsWay(request'[r])
  BY <1>1, <1>3 DEF OnItsWay, Becomes, CommitPath, RefreshPath
<1>7. RequestsInv'
  BY <1>1, <1>3, <1>4, <1>6, RequestsStep DEF Becomes, Early, RequestsInv, GitInv
<1>8. Untroubled /\ AloneIs(r) /\ PushAt(r) => PushAt(r)'
  BY <1>1, <1>3, <1>4, Actor DEF PushAt, Becomes, FirstRequest, AloneIs, OthersStay, Refreshing
<1>9. Untroubled /\ ~AloneIs(r) => PushInv'
  BY <1>1, Crowd
<1>10. spoilt = {} /\ AloneIs(r) /\ PushAt(r) /\ MirrorAt(r) => MirrorAt(r)'
  BY <1>1, <1>3, Actor DEF PushAt, FirstRequest, MirrorAt, Becomes, CommitsFiles, CommitPath
<1> QED BY <1>1, <1>4, <1>5, <1>7, <1>8, <1>9, <1>10, AloneStep

LEMMA CloneFailsKeeps ==
  ASSUME GitInv, NEW r \in Requests, CloneFails(r)
  PROVE  GitInv'
<1> USE DEF CloneFails, At, repoVars, committerVars, pageVars, counterVars
<1>1. request[r].at = "cloning" /\ GitType /\ OnItsWay(request[r]) /\ request[r] \in RequestSet
  BY Actor
<1>2. Becomes(r, "listing", request[r].snapshot, request[r].todo, head)
  BY <1>1, GoesWithCommit DEF GitType, Places, CommitPath
<1>3. OthersStay(r)
  BY <1>2 DEF Becomes, OthersStay
<1>4. GitType'
  BY <1>1, <1>2 DEF GitType, Becomes, Spoilers
<1>5. OnItsWay(request'[r])
  BY <1>1, <1>2 DEF OnItsWay, Becomes, CommitPath, RefreshPath
<1>6. RequestsInv'
  BY <1>1, <1>2, <1>3, <1>5, RequestsStep DEF Becomes, Early, RequestsInv, GitInv
<1>7. CASE remote # None
  BY <1>4, <1>6, <1>7 DEF GitInv, Untroubled
<1>8. CASE remote = None
  <2>1. spoilt' = spoilt
    BY <1>8
  <2>2. Untroubled /\ AloneIs(r) /\ PushAt(r) => PushAt(r)'
    BY <1>1, <1>2, <1>3, <1>8, Actor
      DEF PushAt, Becomes, FirstRequest, AloneIs, OthersStay, Refreshing
  <2>3. Untroubled /\ ~AloneIs(r) => PushInv'
    BY <1>1, Crowd
  <2>4. spoilt = {} /\ AloneIs(r) /\ PushAt(r) /\ MirrorAt(r) => MirrorAt(r)'
    BY <1>1, <1>2, Actor DEF PushAt, FirstRequest, MirrorAt, Becomes, CommitsFiles, CommitPath
  <2> QED BY <1>1, <1>3, <1>4, <1>6, <2>1, <2>2, <2>3, <2>4, AloneStep
<1> QED BY <1>7, <1>8

LEMMA InitializedKeeps ==
  ASSUME GitInv, NEW r \in Requests, Initialized(r)
  PROVE  GitInv'
<1> USE DEF Initialized, At, repoVars, pageVars, counterVars
<1>1. request[r].at = "listing" /\ GitType /\ OnItsWay(request[r]) /\ request[r] \in RequestSet
  BY Actor
<1>2. AfterInit(r) \in Places /\ AfterInit(r) \in {"fetch", "compare"}
  BY DEF Places, CommitPath, RefreshPath, AfterInit
<1>3. Becomes(r, AfterInit(r), request[r].snapshot, request[r].todo, None)
  BY <1>1, <1>2, GoesWithCommit
<1>4. OthersStay(r)
  BY <1>3 DEF Becomes, OthersStay
<1>5. request[r].got # None => request[r].got.tree \in Trees
  BY <1>1 DEF RequestSet, Commits
<1>6. GitType'
  BY <1>1, <1>3, <1>5 DEF GitType, Becomes, Held
<1>7. OnItsWay(request'[r])
  BY <1>1, <1>3 DEF OnItsWay, Becomes, AfterInit, CommitPath, RefreshPath, Refreshing,
                    RequestSet, RequestKinds
<1>8. RequestsInv'
  BY <1>1, <1>2, <1>3, <1>4, <1>7, RequestsStep DEF Becomes
<1>9. ASSUME Untroubled PROVE /\ FirstRequest(r) /\ AloneIs(r) /\ AfterInit(r) = "compare"
                              /\ request[r].got = remote /\ head = remote
                              /\ lastSignature = None /\ knownPaths = {}
  <2>1. ~initialized /\ FirstRequest(r)
    BY <1>1, <1>9, Actor, Crowd, PushAlone DEF PushAt
  <2> QED BY <1>1, <1>9, <2>1, Actor DEF FirstRequest, AfterInit, Refreshing, GitInv, RequestsInv
<1>10. Untroubled /\ AloneIs(r) /\ PushAt(r) => PushAt(r)'
  BY <1>1, <1>3, <1>9 DEF PushAt, Becomes, FirstRequest, Refreshing
<1>11. Untroubled /\ ~AloneIs(r) => PushInv'
  BY <1>9
<1>12. spoilt = {} /\ AloneIs(r) /\ PushAt(r) /\ MirrorAt(r) => MirrorAt(r)'
  BY <1>1, <1>3, <1>9, IdleRequest
    DEF Untroubled, FirstRequest, MirrorAt, Becomes, CommitsFiles, CommitPath, Remembered
<1> QED BY <1>1, <1>4, <1>6, <1>8, <1>10, <1>11, <1>12, AloneStep

LEMMA SameSignatureKeeps ==
  ASSUME GitInv, NEW r \in Requests, SameSignature(r)
  PROVE  GitInv'
<1> USE DEF SameSignature, At, repoVars, committerVars, pageVars, counterVars
<1>1. /\ request[r].at = "compare" /\ GitType /\ OnItsWay(request[r])
      /\ request[r] \in RequestSet /\ initialized
  BY Actor DEF Early
<1>2. /\ request' \in [Requests -> RequestSet] /\ request'[r] = Idle
      /\ \A o \in Requests : o # r => request'[o] = request[o]
  BY <1>1, Ended
<1>3. OthersStay(r) /\ lastSignature # None
  BY <1>1, <1>2, NoneAssumption DEF OthersStay, RequestSet
<1>4. GitType'
  BY <1>1, <1>2 DEF GitType
<1>5. RequestsInv'
  BY <1>1, <1>2, <1>3, IdleRequest, RequestsStep DEF OnItsWay, CommitPath
<1>6. Untroubled => remote # None
  BY <1>1, <1>3, Actor DEF PushInv
<1>7. Untroubled /\ AloneIs(r) /\ PushAt(r) => PushAt(r)'
  BY <1>1, <1>2, <1>6, IdleRequest DEF PushAt, Refreshing
<1>8. Untroubled /\ ~AloneIs(r) => PushInv'
  BY <1>1, <1>2, <1>3, <1>6, IdleRequest, CrowdStep DEF Refreshing
<1>9. spoilt = {} /\ AloneIs(r) /\ PushAt(r) /\ MirrorAt(r) => MirrorAt(r)'
  BY <1>1, <1>2, <1>6, IdleRequest
    DEF Untroubled, MirrorAt, CommitsFiles, CommitPath, Remembered, OnItsWay, RefreshPath, StorePath,
        RequestSet, RequestKinds
<1> QED BY <1>1, <1>3, <1>4, <1>5, <1>7, <1>8, <1>9, AloneStep

LEMMA NewSignatureKeeps ==
  ASSUME GitInv, NEW r \in Requests, NewSignature(r)
  PROVE  GitInv'
<1> USE DEF NewSignature, At, repoVars, committerVars, pageVars, counterVars
<1> DEFINE todo == knownPaths \cup Held(request[r].snapshot)
<1>1. /\ request[r].at = "compare" /\ GitType /\ OnItsWay(request[r])
      /\ request[r] \in RequestSet /\ initialized
  BY Actor DEF Early
<1>2. todo \in PathSets /\ "stage" \in Places
  BY <1>1 DEF GitType, Held, PathSets, Places, CommitPath
<1>3. Becomes(r, "stage", request[r].snapshot, todo, request[r].got)
  BY <1>1, <1>2, GoesWithTodo
<1>4. OthersStay(r) /\ request[r].kind \in {"load", "edit"}
  BY <1>1, <1>3 DEF OthersStay, Becomes, OnItsWay, RefreshPath, StorePath, RequestSet, RequestKinds
<1>5. GitType'
  BY <1>1, <1>3 DEF GitType, Becomes
<1>6. RequestsInv'
  BY <1>1, <1>3, <1>4, RequestsStep DEF OnItsWay, CommitPath, Becomes
<1>7. Untroubled /\ AloneIs(r) /\ PushAt(r) => PushAt(r)'
  BY <1>1, <1>3, <1>4 DEF PushAt, Refreshing, Becomes
<1>8. Untroubled /\ ~AloneIs(r) => PushInv'
  BY <1>1, <1>3, <1>4, CrowdStep DEF Refreshing, Becomes
<1>9. spoilt = {} /\ AloneIs(r) /\ PushAt(r) /\ MirrorAt(r) => MirrorAt(r)'
  <2> SUFFICES ASSUME spoilt = {}, AloneIs(r), PushAt(r), MirrorAt(r) PROVE MirrorAt(r)'
    OBVIOUS
  <2>1. head = remote /\ (head = None => index = Empty) /\ (head # None => index = head.tree)
    BY <1>1, <1>4 DEF PushAt, MirrorAt, CommitsFiles
  <2>2. request[r].snapshot = files /\ Remembered
    BY <1>1, <1>4 DEF MirrorAt, CommitsFiles, CommitPath
  <2>3. \A p \in Paths \ todo : index[p] = files[p]
    BY <2>1, <2>2 DEF Remembered, Held, Empty
  <2> HIDE DEF todo
  <2> QED BY <1>1, <1>3, <1>4, <2>2, <2>3, IdleRequest
        DEF MirrorAt, CommitsFiles, Becomes, Remembered
<1> QED BY <1>1, <1>4, <1>5, <1>6, <1>7, <1>8, <1>9, AloneStep

LEMMA StageKeeps ==
  ASSUME GitInv, NEW r \in Requests, Stage(r)
  PROVE  GitInv'
<1> USE DEF At, committerVars, pageVars, counterVars
<1>1. /\ request[r].at = "stage" /\ GitType /\ OnItsWay(request[r])
      /\ request[r] \in RequestSet /\ initialized
  BY Actor DEF Early, Stage
<1>2. PICK p \in request[r].todo :
        /\ index' = [index EXCEPT ![p] = request[r].snapshot[p]]
        /\ request' = [request EXCEPT ![r].todo = @ \ {p}]
  BY DEF Stage
<1>3. UNCHANGED <<files, remote, head, committerVars, tree, pageVars, counterVars, spoilt>>
  BY DEF Stage
<1> DEFINE todo == request[r].todo \ {p}
<1>4. p \in Paths /\ todo \in PathSets /\ index' \in Trees
  BY <1>1, <1>2 DEF RequestSet, PathSets, GitType, Trees
<1>5. request' = [request EXCEPT ![r].todo = todo]
  BY <1>2
<1> HIDE DEF todo
<1> DEFINE g == [request EXCEPT ![r].todo = todo]
<1>6. /\ g \in [Requests -> RequestSet] /\ \A o \in Requests : o # r => g[o] = request[o]
      /\ g[r].at = request[r].at /\ g[r].kind = request[r].kind
      /\ g[r].snapshot = request[r].snapshot
      /\ g[r].todo = todo /\ g[r].got = request[r].got
  BY <1>1, <1>4, SetTodo DEF GitType
<1> HIDE DEF g
<1>7. Becomes(r, "stage", request[r].snapshot, todo, request[r].got)
  BY <1>1, <1>5, <1>6 DEF Becomes, g
<1>8. OthersStay(r) /\ request[r].kind \in {"load", "edit"}
  BY <1>1, <1>7 DEF OthersStay, Becomes, OnItsWay, RefreshPath, StorePath, RequestSet, RequestKinds
<1>9. GitType'
  BY <1>1, <1>3, <1>4, <1>7 DEF GitType, Becomes
<1>10. RequestsInv'
  BY <1>1, <1>3, <1>7, <1>8, RequestsStep DEF OnItsWay, CommitPath, Becomes
<1>11. Untroubled /\ AloneIs(r) /\ PushAt(r) => PushAt(r)'
  BY <1>1, <1>3, <1>7, <1>8 DEF PushAt, Refreshing, Becomes
<1>12. Untroubled /\ ~AloneIs(r) => PushInv'
  BY <1>1, <1>3, <1>7, <1>8, CrowdStep DEF Refreshing, Becomes
<1>13. spoilt = {} /\ AloneIs(r) /\ PushAt(r) /\ MirrorAt(r) => MirrorAt(r)'
  <2> SUFFICES ASSUME spoilt = {}, AloneIs(r), PushAt(r), MirrorAt(r) PROVE MirrorAt(r)'
    OBVIOUS
  <2>1. /\ request[r].snapshot = files /\ Remembered
        /\ \A q \in Paths \ request[r].todo : index[q] = files[q]
    BY <1>1, <1>8 DEF MirrorAt, CommitsFiles, CommitPath
  <2>2. \A q \in Paths \ todo : index'[q] = files[q]
    BY <1>1, <1>2, <1>4, <2>1 DEF GitType, Trees, todo
  <2> QED BY <1>1, <1>3, <1>7, <1>8, <2>1, <2>2, IdleRequest
        DEF MirrorAt, CommitsFiles, Becomes, Remembered
<1> QED BY <1>1, <1>3, <1>8, <1>9, <1>10, <1>11, <1>12, <1>13, AloneStep

(* A tree of which every path is another's is that other.                    *)
LEMMA SameTree ==
  ASSUME NEW s \in Trees, NEW t \in Trees, \A p \in Paths : s[p] = t[p]
  PROVE  s = t
BY DEF Trees

LEMMA CommitKeeps ==
  ASSUME GitInv, NEW r \in Requests, Commit(r)
  PROVE  GitInv'
<1> USE DEF Commit, CommitsIndex, At, committerVars, pageVars, counterVars
<1>1. /\ request[r].at = "stage" /\ GitType /\ OnItsWay(request[r])
      /\ request[r] \in RequestSet /\ initialized
  BY Actor DEF Early
<1>2. head' \in Commits /\ head'.tree = index /\ head' # None
  BY <1>1, Committing DEF GitType
<1>3. Becomes(r, "push", request[r].snapshot, request[r].todo, request[r].got)
  BY <1>1, GoesTo DEF Places, CommitPath
<1>4. OthersStay(r) /\ request[r].kind \in {"load", "edit"}
  BY <1>1, <1>3 DEF OthersStay, Becomes, OnItsWay, RefreshPath, StorePath, RequestSet, RequestKinds
<1>5. GitType'
  BY <1>1, <1>2, <1>3 DEF GitType, Becomes
<1>6. RequestsInv'
  BY <1>1, <1>2, <1>3, <1>4, RequestsStep DEF OnItsWay, CommitPath, Becomes
<1>7. Untroubled /\ AloneIs(r) /\ PushAt(r) => PushAt(r)'
  BY <1>1, <1>2, <1>3, <1>4 DEF PushAt, Refreshing, Becomes
<1>8. Untroubled /\ ~AloneIs(r) => PushInv'
  BY <1>1, <1>2, <1>3, <1>4, CrowdStep DEF Refreshing, Becomes
<1>9. spoilt = {} /\ AloneIs(r) /\ PushAt(r) /\ MirrorAt(r) => MirrorAt(r)'
  <2> SUFFICES ASSUME spoilt = {}, AloneIs(r), PushAt(r), MirrorAt(r) PROVE MirrorAt(r)'
    OBVIOUS
  <2>1. request[r].snapshot = files /\ Remembered /\ \A p \in Paths : index[p] = files[p]
    BY <1>1, <1>4 DEF MirrorAt, CommitsFiles, CommitPath
  <2>2. index = files
    BY <1>1, <2>1, SameTree DEF GitType
  <2> QED BY <1>1, <1>2, <1>3, <1>4, <2>1, <2>2, IdleRequest
        DEF MirrorAt, CommitsFiles, Becomes, Remembered
<1> QED BY <1>1, <1>4, <1>5, <1>6, <1>7, <1>8, <1>9, AloneStep

LEMMA CommittedKeeps ==
  ASSUME GitInv, NEW r \in Requests, Committed(r)
  PROVE  GitInv'
<1> USE DEF Committed, At, repoVars, pageVars, counterVars
<1>1. /\ request[r].at = "pushed" /\ GitType /\ OnItsWay(request[r])
      /\ request[r] \in RequestSet /\ initialized /\ remote # None
  BY Actor DEF Early, GitInv, RequestsInv
<1>2. /\ request' \in [Requests -> RequestSet] /\ request'[r] = Idle
      /\ \A o \in Requests : o # r => request'[o] = request[o]
  BY <1>1, Ended
<1>3. OthersStay(r) /\ request[r].kind \in {"load", "edit"}
  BY <1>1, <1>2 DEF OthersStay, OnItsWay, RefreshPath, StorePath, RequestSet, RequestKinds
<1>4. GitType'
  BY <1>1, <1>2 DEF GitType, RequestSet, Held
<1>5. RequestsInv'
  BY <1>1, <1>2, <1>3, IdleRequest, RequestsStep DEF OnItsWay
<1>6. Untroubled /\ AloneIs(r) /\ PushAt(r) => PushAt(r)'
  BY <1>1, <1>2, IdleRequest DEF PushAt, Refreshing
<1>7. Untroubled /\ ~AloneIs(r) => PushInv'
  BY <1>1, <1>2, <1>3, IdleRequest, CrowdStep DEF Refreshing
<1>8. spoilt = {} /\ AloneIs(r) /\ PushAt(r) /\ MirrorAt(r) => MirrorAt(r)'
  BY <1>1, <1>2, <1>3, IdleRequest DEF MirrorAt, CommitsFiles, CommitPath, Remembered
<1> QED BY <1>1, <1>3, <1>4, <1>5, <1>6, <1>7, <1>8, AloneStep

LEMMA PushKeeps ==
  ASSUME GitInv, NEW r \in Requests, Push(r)
  PROVE  GitInv'
<1> USE DEF Push, At, repoVars, committerVars, pageVars, counterVars
<1> DEFINE next == IF At(r, "push") THEN "pushed" ELSE "pushed store"
<1>1. /\ request[r].at \in {"push", "push store"} /\ GitType /\ OnItsWay(request[r])
      /\ request[r] \in RequestSet /\ initialized
  BY Actor DEF Early
<1>2. head # None
  BY <1>1 DEF GitInv, RequestsInv
<1>3. Becomes(r, next, request[r].snapshot, request[r].todo, request[r].got)
  BY <1>1, GoesTo DEF Places, CommitPath, StorePath
<1>4. OthersStay(r)
  BY <1>3 DEF OthersStay, Becomes
<1>5. GitType'
  BY <1>1, <1>3 DEF GitType, Becomes
<1>6. OnItsWay(request'[r])
  BY <1>1, <1>3 DEF OnItsWay, Becomes, CommitPath, StorePath, RefreshPath
<1>7. RequestsInv'
  BY <1>1, <1>2, <1>3, <1>4, <1>6, RequestsStep DEF Becomes
<1>8. Untroubled /\ AloneIs(r) /\ PushAt(r) => PushAt(r)'
  BY <1>1, <1>2, <1>3 DEF PushAt, Refreshing, Becomes
<1>9. Untroubled /\ ~AloneIs(r) => PushInv'
  BY <1>1, <1>2, <1>3, <1>4, Crowd, CrowdStep DEF Refreshing, Becomes, CommitPath
<1>10. spoilt = {} /\ AloneIs(r) /\ PushAt(r) /\ MirrorAt(r) => MirrorAt(r)'
  <2> SUFFICES ASSUME spoilt = {}, AloneIs(r), PushAt(r), MirrorAt(r) PROVE MirrorAt(r)'
    OBVIOUS
  <2>1. CASE request[r].at = "push"
    BY <1>1, <1>2, <1>3, <2>1, IdleRequest
      DEF MirrorAt, CommitsFiles, Becomes, OnItsWay, CommitPath, RefreshPath, StorePath,
          RequestSet, RequestKinds
  <2>2. CASE request[r].at = "push store"
    BY <1>1, <1>2, <1>3, <2>2, IdleRequest
      DEF MirrorAt, RefreshesStore, Becomes, OnItsWay, CommitPath, RefreshPath, StorePath
  <2> QED BY <1>1, <2>1, <2>2
<1> HIDE DEF next
<1> QED BY <1>1, <1>4, <1>5, <1>7, <1>8, <1>9, <1>10, AloneStep

(* A request that refreshes the store or works on it runs alone, as long as  *)
(* no refresh was crossed.                                                   *)
LEMMA Refresher ==
  ASSUME GitInv, NEW r \in Requests,
         request[r].at \in {"fetch", "fetched", "seed", "emptying", "seeding"} \cup StorePath
  PROVE  /\ request[r].at # "idle" /\ GitType /\ OnItsWay(request[r])
         /\ request[r] \in RequestSet /\ initialized
         /\ request[r].kind \in Refreshing
         /\ request[r].at \in StorePath => request[r].kind = "deploy"
         /\ Untroubled => AloneIs(r)
<1>1. /\ request[r].at # "idle" /\ GitType /\ OnItsWay(request[r]) /\ request[r] \in RequestSet
      /\ initialized /\ (Untroubled => PushInv)
  BY Actor DEF Early, StorePath
<1>2. /\ request[r].kind \in Refreshing
      /\ request[r].at \in StorePath => request[r].kind = "deploy"
  BY <1>1 DEF OnItsWay, CommitPath, StorePath, RefreshPath, RequestSet, RequestKinds, Refreshing
<1> QED BY <1>1, <1>2 DEF PushInv

LEMMA FetchKeeps ==
  ASSUME GitInv, NEW r \in Requests, Fetch(r)
  PROVE  GitInv'
<1> USE DEF Fetch, At, repoVars, committerVars, pageVars, counterVars
<1>1. /\ request[r].at = "fetch" /\ GitType /\ OnItsWay(request[r]) /\ initialized
      /\ request[r].kind \in Refreshing /\ (Untroubled => AloneIs(r))
  BY Refresher
<1>2. Becomes(r, "fetched", request[r].snapshot, request[r].todo, remote)
  BY <1>1, GoesWithCommit DEF GitType, Places, RefreshPath
<1>3. OthersStay(r)
  BY <1>2 DEF OthersStay, Becomes
<1>4. GitType'
  BY <1>1, <1>2 DEF GitType, Becomes
<1>5. RequestsInv'
  BY <1>1, <1>2, <1>3, RequestsStep DEF OnItsWay, RefreshPath, Becomes, Refreshing
<1>6. Untroubled /\ AloneIs(r) /\ PushAt(r) => PushAt(r)'
  BY <1>1, <1>2 DEF PushAt, Refreshing, Becomes
<1>7. spoilt = {} /\ AloneIs(r) /\ PushAt(r) /\ MirrorAt(r) => MirrorAt(r)'
  BY <1>1, <1>2, IdleRequest
    DEF MirrorAt, RefreshesStore, Becomes, Refreshing, RefreshPath, Remembered
<1> QED BY <1>1, <1>3, <1>4, <1>5, <1>6, <1>7, AloneStep

LEMMA FetchedKeeps ==
  ASSUME GitInv, NEW r \in Requests, Fetched(r)
  PROVE  GitInv'
<1> USE DEF Fetched, At, committerVars, pageVars, counterVars
<1>1. /\ request[r].at = "fetched" /\ GitType /\ OnItsWay(request[r]) /\ initialized
      /\ request[r].kind \in Refreshing /\ (Untroubled => AloneIs(r))
      /\ request[r].got \in Commits
  BY Refresher DEF RequestSet, OnItsWay
<1>2. Becomes(r, "seed", request[r].snapshot, request[r].todo, request[r].got)
  BY <1>1, GoesTo DEF Places, RefreshPath
<1>3. OthersStay(r)
  BY <1>2 DEF OthersStay, Becomes
<1>4. GitType'
  BY <1>1, <1>2 DEF GitType, Becomes
<1>5. head' # None
  BY <1>1, NoneAssumption
<1>6. RequestsInv'
  BY <1>1, <1>2, <1>3, <1>5, RequestsStep DEF OnItsWay, RefreshPath, Becomes, Refreshing
<1>7. Untroubled /\ AloneIs(r) /\ PushAt(r) => PushAt(r)'
  BY <1>1, <1>2 DEF PushAt, Refreshing, Becomes
<1>8. spoilt = {} /\ AloneIs(r) /\ PushAt(r) /\ MirrorAt(r) => MirrorAt(r)'
  BY <1>1, <1>2, IdleRequest
    DEF MirrorAt, RefreshesStore, Becomes, Refreshing, RefreshPath, Remembered
<1> QED BY <1>1, <1>3, <1>4, <1>6, <1>7, <1>8, AloneStep

LEMMA FetchFailsKeeps ==
  ASSUME GitInv, NEW r \in Requests, FetchFails(r)
  PROVE  GitInv'
<1> USE DEF FetchFails, At, repoVars, committerVars, pageVars, counterVars
<1>1. /\ request[r].at = "fetch" /\ GitType /\ OnItsWay(request[r]) /\ initialized
      /\ request[r].kind \in Refreshing /\ (Untroubled => AloneIs(r))
  BY Refresher
<1>2. Becomes(r, "seed", request[r].snapshot, request[r].todo, request[r].got)
  BY <1>1, GoesTo DEF Places, RefreshPath
<1>3. OthersStay(r)
  BY <1>2 DEF OthersStay, Becomes
<1>4. GitType'
  BY <1>1, <1>2 DEF GitType, Becomes
<1>5. RequestsInv'
  BY <1>1, <1>2, <1>3, RequestsStep DEF OnItsWay, RefreshPath, Becomes, Refreshing
<1>6. Untroubled /\ AloneIs(r) /\ PushAt(r) => PushAt(r)'
  BY <1>1, <1>2 DEF PushAt, Refreshing, Becomes
<1>7. spoilt = {} /\ AloneIs(r) /\ PushAt(r) /\ MirrorAt(r) => MirrorAt(r)'
  BY <1>1, <1>2, IdleRequest
    DEF MirrorAt, RefreshesStore, Becomes, Refreshing, RefreshPath, Remembered
<1> QED BY <1>1, <1>3, <1>4, <1>5, <1>6, <1>7, AloneStep

LEMMA ReadHeadKeeps ==
  ASSUME GitInv, NEW r \in Requests, ReadHead(r)
  PROVE  GitInv'
<1> USE DEF ReadHead, At, repoVars, committerVars, pageVars, counterVars
<1>1. /\ request[r].at = "seed" /\ GitType /\ OnItsWay(request[r]) /\ initialized
      /\ request[r].kind \in Refreshing /\ (Untroubled => AloneIs(r))
  BY Refresher
<1>2. Becomes(r, "emptying", request[r].snapshot, request[r].todo, head)
  BY <1>1, GoesWithCommit DEF GitType, Places, RefreshPath
<1>3. OthersStay(r)
  BY <1>2 DEF OthersStay, Becomes
<1>4. GitType'
  BY <1>1, <1>2 DEF GitType, Becomes
<1>5. RequestsInv'
  BY <1>1, <1>2, <1>3, RequestsStep DEF OnItsWay, RefreshPath, Becomes, Refreshing
<1>6. Untroubled /\ AloneIs(r) /\ PushAt(r) => PushAt(r)'
  BY <1>1, <1>2 DEF PushAt, Refreshing, Becomes
<1>7. spoilt = {} /\ AloneIs(r) /\ PushAt(r) /\ MirrorAt(r) => MirrorAt(r)'
  BY <1>1, <1>2, IdleRequest
    DEF MirrorAt, RefreshesStore, Becomes, Refreshing, RefreshPath, Remembered
<1> QED BY <1>1, <1>3, <1>4, <1>5, <1>6, <1>7, AloneStep

LEMMA SeedKeeps ==
  ASSUME GitInv, NEW r \in Requests, Seed(r)
  PROVE  GitInv'
<1> USE DEF Seed, At, repoVars, committerVars, pageVars, counterVars
<1>1. /\ request[r].at = "emptying" /\ GitType /\ OnItsWay(request[r]) /\ initialized
      /\ request[r].kind \in Refreshing /\ (Untroubled => AloneIs(r))
  BY Refresher
<1>2. Becomes(r, "seeding", request[r].snapshot, request[r].todo, request[r].got)
  BY <1>1, GoesTo DEF Places, RefreshPath
<1>3. OthersStay(r)
  BY <1>2 DEF OthersStay, Becomes
<1>4. GitType'
  BY <1>1, <1>2, IdleRequest DEF GitType, Becomes
<1>5. RequestsInv'
  BY <1>1, <1>2, <1>3, RequestsStep DEF OnItsWay, RefreshPath, Becomes, Refreshing
<1>6. Untroubled /\ AloneIs(r) /\ PushAt(r) => PushAt(r)'
  BY <1>1, <1>2 DEF PushAt, Refreshing, Becomes
<1>7. spoilt = {} /\ AloneIs(r) /\ PushAt(r) /\ MirrorAt(r) => MirrorAt(r)'
  BY <1>1, <1>2, IdleRequest
    DEF MirrorAt, RefreshesStore, Becomes, Refreshing, RefreshPath, Remembered
<1> QED BY <1>1, <1>3, <1>4, <1>5, <1>6, <1>7, AloneStep

(* The store is seeded with the tree of the commit, and nothing else.        *)
LEMMA SeedingFills ==
  ASSUME tree = Empty, NEW c \in Commits
  PROVE  SeededFrom(c) = c.tree
<1>1. c.tree \in Trees /\ c # None
  BY NoneAssumption DEF Commits
<1>2. \A p \in Paths : (IF c.tree[p] = Absent THEN tree[p] ELSE c.tree[p]) = c.tree[p]
  BY DEF Empty
<1> QED BY <1>1, <1>2 DEF SeededFrom, Trees

LEMMA SeededKeeps ==
  ASSUME GitInv, NEW r \in Requests, Seeded(r)
  PROVE  GitInv'
<1> USE DEF At, repoVars, committerVars, counterVars
<1>1. /\ request[r].at = "seeding" /\ GitType /\ OnItsWay(request[r]) /\ initialized
      /\ request[r].kind \in Refreshing /\ (Untroubled => AloneIs(r))
      /\ request[r].got \in Commits \cup {None} /\ mounted
  BY Refresher, Actor DEF RequestSet, Seeded
<1>2. SeededFrom(request[r].got) \in Trees
  BY <1>1 DEF SeededFrom, GitType, Trees, Commits
<1>3. /\ tree' = SeededFrom(request[r].got)
      /\ UNCHANGED <<files, remote, repoVars, committerVars, mounted, counterVars, spoilt>>
  BY DEF Seeded
<1>4. connected' \in BOOLEAN
  BY Zenon DEF Seeded
<1>5. spoilt = {} /\ AloneIs(r) /\ PushAt(r) /\ MirrorAt(r)
        => tree' = remote.tree /\ remote.tree = files /\ Remembered /\ request[r].snapshot = Empty
           /\ remote # None /\ head = remote /\ index = remote.tree
  <2> SUFFICES ASSUME spoilt = {}, AloneIs(r), PushAt(r), MirrorAt(r)
               PROVE  /\ tree' = remote.tree /\ remote.tree = files /\ Remembered
                      /\ request[r].snapshot = Empty /\ remote # None /\ head = remote
                      /\ index = remote.tree
    OBVIOUS
  <2>1. /\ remote # None /\ remote.tree = files /\ tree = Empty /\ request[r].got = head
        /\ request[r].snapshot = Empty /\ Remembered
    BY <1>1 DEF MirrorAt, RefreshesStore, RefreshPath, Refreshing
  <2>2. head = remote /\ (head = None \/ index = head.tree)
    BY <1>1 DEF PushAt
  <2>3. tree' = remote.tree
    BY <1>1, <1>3, <2>1, <2>2, SeedingFills
  <2> QED BY <2>1, <2>2, <2>3
<1>6. CASE request[r].kind = "deploy"
  <2>1. request' = [request EXCEPT ![r].at = "operate", ![r].got = None]
    BY <1>6 DEF Seeded
  <2>2. Becomes(r, "operate", request[r].snapshot, request[r].todo, None)
    BY <1>1, <2>1, GoesWithCommit DEF Places, StorePath
  <2>3. OthersStay(r)
    BY <2>2 DEF OthersStay, Becomes
  <2>4. GitType'
    BY <1>1, <1>2, <1>3, <1>4, <2>2 DEF GitType, Becomes
  <2>5. RequestsInv'
    BY <1>1, <1>3, <1>6, <2>2, <2>3, RequestsStep DEF OnItsWay, StorePath, Becomes
  <2>6. Untroubled /\ AloneIs(r) /\ PushAt(r) => PushAt(r)'
    BY <1>1, <1>3, <2>2 DEF PushAt, Becomes
  <2>7. spoilt = {} /\ AloneIs(r) /\ PushAt(r) /\ MirrorAt(r) => MirrorAt(r)'
    BY <1>1, <1>3, <1>5, <1>6, <2>2, IdleRequest
      DEF MirrorAt, RefreshesStore, Becomes, RefreshPath, StorePath, Remembered
  <2> QED BY <1>1, <1>3, <2>3, <2>4, <2>5, <2>6, <2>7, AloneStep
<1>7. CASE request[r].kind # "deploy"
  <2>1. /\ request' \in [Requests -> RequestSet] /\ request'[r] = Idle
        /\ \A o \in Requests : o # r => request'[o] = request[o]
    BY <1>1, <1>7, Ended DEF Seeded
  <2>3. OthersStay(r)
    BY <2>1 DEF OthersStay
  <2>4. GitType'
    BY <1>1, <1>2, <1>3, <1>4, <2>1 DEF GitType
  <2>5. RequestsInv'
    BY <1>1, <1>3, <2>1, <2>3, RequestsStep, IdleRequest DEF OnItsWay
  <2>6. Untroubled /\ AloneIs(r) /\ PushAt(r) => PushAt(r)'
    BY <1>1, <1>3, <2>1, IdleRequest DEF PushAt, Refreshing
  <2>7. spoilt = {} /\ AloneIs(r) /\ PushAt(r) /\ MirrorAt(r) => MirrorAt(r)'
    BY <1>1, <1>3, <1>5, <2>1, IdleRequest
      DEF MirrorAt, CommitsFiles, CommitPath, Remembered
  <2> QED BY <1>1, <1>3, <2>3, <2>4, <2>5, <2>6, <2>7, AloneStep
<1> QED BY <1>6, <1>7

LEMMA WriteStoreKeeps ==
  ASSUME GitInv, NEW r \in Requests, WriteStore(r)
  PROVE  GitInv'
<1> USE DEF WriteStore, At, committerVars, pageVars
<1>1. /\ request[r].at = "operate" /\ GitType /\ OnItsWay(request[r]) /\ initialized
      /\ request[r].kind = "deploy" /\ (Untroubled => AloneIs(r))
  BY Refresher DEF StorePath
<1>2. PICK p \in Paths, v \in Contents : StoreWrites(p, v)
  OBVIOUS
<1>3. index' \in Trees /\ tree' \in Trees
  BY <1>1, <1>2 DEF StoreWrites, GitType, Trees
<1>4. index = tree => index' = tree'
  BY <1>2 DEF StoreWrites
<1>5. OthersStay(r) /\ request[r].at # "idle"
  BY <1>1 DEF OthersStay
<1>6. GitType'
  BY <1>1, <1>3 DEF GitType
<1>7. RequestsInv'
  BY <1>1, <1>5, RequestsStep
<1>8. Untroubled /\ AloneIs(r) /\ PushAt(r) => PushAt(r)'
  BY <1>1 DEF PushAt, Refreshing
<1>9. spoilt = {} /\ AloneIs(r) /\ PushAt(r) /\ MirrorAt(r) => MirrorAt(r)'
  BY <1>1, <1>4, IdleRequest DEF MirrorAt, RefreshesStore, RefreshPath, Remembered
<1> QED BY <1>1, <1>5, <1>6, <1>7, <1>8, <1>9, AloneStep

LEMMA WriteLockfileKeeps ==
  ASSUME GitInv, NEW r \in Requests, WriteLockfile(r)
  PROVE  GitInv'
<1> USE DEF WriteLockfile, At, committerVars, pageVars, counterVars
<1>1. /\ request[r].at = "operate" /\ GitType /\ OnItsWay(request[r]) /\ initialized
      /\ request[r].kind = "deploy" /\ (Untroubled => AloneIs(r))
  BY Refresher DEF StorePath
<1>2. PICK v \in Contents : StoreWrites(Lockfile, v)
  OBVIOUS
<1>3. index' \in Trees /\ tree' \in Trees
  BY <1>1, <1>2, LockfileAssumption DEF StoreWrites, GitType, Trees
<1>4. index = tree => index' = tree'
  BY <1>2 DEF StoreWrites
<1>5. Becomes(r, "commit store", request[r].snapshot, request[r].todo, request[r].got)
  BY <1>1, GoesTo DEF Places, StorePath
<1>6. OthersStay(r)
  BY <1>5 DEF OthersStay, Becomes
<1>7. GitType'
  BY <1>1, <1>3, <1>5 DEF GitType, Becomes
<1>8. RequestsInv'
  BY <1>1, <1>5, <1>6, RequestsStep DEF OnItsWay, StorePath, Becomes
<1>9. Untroubled /\ AloneIs(r) /\ PushAt(r) => PushAt(r)'
  BY <1>1, <1>5 DEF PushAt, Refreshing, Becomes
<1>10. spoilt = {} /\ AloneIs(r) /\ PushAt(r) /\ MirrorAt(r) => MirrorAt(r)'
  BY <1>1, <1>4, <1>5, IdleRequest DEF MirrorAt, RefreshesStore, RefreshPath, Remembered, Becomes
<1> QED BY <1>1, <1>6, <1>7, <1>8, <1>9, <1>10, AloneStep

LEMMA CommitStoreKeeps ==
  ASSUME GitInv, NEW r \in Requests, CommitStore(r)
  PROVE  GitInv'
<1> USE DEF CommitStore, CommitsIndex, At, committerVars, pageVars, counterVars
<1>1. /\ request[r].at = "commit store" /\ GitType /\ OnItsWay(request[r]) /\ initialized
      /\ request[r].kind = "deploy" /\ (Untroubled => AloneIs(r))
  BY Refresher DEF StorePath
<1>2. head' \in Commits /\ head'.tree = index /\ head' # None
  BY <1>1, Committing DEF GitType
<1>3. Becomes(r, "push store", request[r].snapshot, request[r].todo, request[r].got)
  BY <1>1, GoesTo DEF Places, StorePath
<1>4. OthersStay(r)
  BY <1>3 DEF OthersStay, Becomes
<1>5. GitType'
  <2>1. UNCHANGED <<files, remote, index, committerVars, tree, pageVars, spoilt>>
    OBVIOUS
  <2>2. made' = made + 1
    OBVIOUS
  <2> HIDE DEF CommitStore, CommitsIndex
  <2>3. made \in Nat
    BY <1>1 DEF GitType
  <2>4. made' \in Nat
    BY <2>2, <2>3
  <2>5. request' \in [Requests -> RequestSet]
    BY <1>3 DEF Becomes
  <2> QED BY <1>1, <1>2, <2>1, <2>4, <2>5 DEF GitType
<1>6. RequestsInv'
  BY <1>1, <1>2, <1>3, <1>4, RequestsStep DEF OnItsWay, StorePath, Becomes
<1>7. Untroubled /\ AloneIs(r) /\ PushAt(r) => PushAt(r)'
  BY <1>1, <1>2, <1>3 DEF PushAt, Refreshing, Becomes
<1>8. spoilt = {} /\ AloneIs(r) /\ PushAt(r) /\ MirrorAt(r) => MirrorAt(r)'
  BY <1>1, <1>2, <1>3, IdleRequest
    DEF MirrorAt, RefreshesStore, RefreshPath, Remembered, Becomes
<1> QED BY <1>1, <1>4, <1>5, <1>6, <1>7, <1>8, AloneStep

LEMMA ListStoreKeeps ==
  ASSUME GitInv, NEW r \in Requests, ListStore(r)
  PROVE  GitInv'
<1> USE DEF ListStore, At, repoVars, committerVars, pageVars, counterVars
<1>1. /\ request[r].at = "pushed store" /\ GitType /\ OnItsWay(request[r]) /\ initialized
      /\ request[r].kind = "deploy" /\ (Untroubled => AloneIs(r)) /\ remote # None
  BY Refresher DEF StorePath, GitInv, RequestsInv
<1>2. Becomes(r, "reading", request[r].snapshot, Held(tree), request[r].got)
  BY <1>1, GoesWithTodo DEF Places, StorePath, PathSets, Held
<1>3. OthersStay(r)
  BY <1>2 DEF OthersStay, Becomes
<1>4. GitType'
  BY <1>1, <1>2 DEF GitType, Becomes
<1>5. RequestsInv'
  BY <1>1, <1>2, <1>3, RequestsStep DEF OnItsWay, StorePath, Becomes
<1>6. Untroubled /\ AloneIs(r) /\ PushAt(r) => PushAt(r)'
  BY <1>1, <1>2 DEF PushAt, Refreshing, Becomes
<1>7. spoilt = {} /\ AloneIs(r) /\ PushAt(r) /\ MirrorAt(r) => MirrorAt(r)'
  <2> SUFFICES ASSUME spoilt = {}, AloneIs(r), PushAt(r), MirrorAt(r) PROVE MirrorAt(r)'
    OBVIOUS
  <2>1. \A p \in Paths \ Held(tree) : Empty[p] = tree[p]
    BY DEF Held, Empty
  <2>2. remote.tree = tree /\ request[r].snapshot = Empty
    BY <1>1 DEF MirrorAt, RefreshesStore
  <2>3. RefreshesStore(request[r])'
    <3>1. /\ request'[r].at = "reading" /\ request'[r].todo = Held(tree)
          /\ request'[r].snapshot = Empty /\ remote' = remote /\ tree' = tree
      BY <1>2, <2>2 DEF Becomes
    <3> QED BY <2>1, <2>2, <3>1 DEF RefreshesStore, RefreshPath
  <2> QED BY <1>1, <1>2, <2>3, IdleRequest DEF MirrorAt, Becomes
<1> QED BY <1>1, <1>3, <1>4, <1>5, <1>6, <1>7, AloneStep

LEMMA ReadStoreKeeps ==
  ASSUME GitInv, NEW r \in Requests, ReadStore(r)
  PROVE  GitInv'
<1> USE DEF At, repoVars, committerVars, pageVars, counterVars
<1>1. /\ request[r].at = "reading" /\ GitType /\ OnItsWay(request[r]) /\ initialized
      /\ request[r].kind = "deploy" /\ (Untroubled => AloneIs(r)) /\ remote # None
      /\ request[r] \in RequestSet
  BY Refresher DEF StorePath, GitInv, RequestsInv, ReadStore
<1>2. PICK p \in request[r].todo \cap Held(tree) :
        request' = [request EXCEPT ![r].snapshot[p] = tree[p], ![r].todo = @ \ {p}]
  BY DEF ReadStore
<1>3. UNCHANGED <<files, remote, repoVars, committerVars, tree, pageVars, counterVars, spoilt>>
  BY DEF ReadStore
<1> DEFINE snapshot == [request[r].snapshot EXCEPT ![p] = tree[p]]
           todo == request[r].todo \ {p}
<1>4. p \in Paths /\ snapshot \in Trees /\ todo \in PathSets
  BY <1>1, <1>2 DEF RequestSet, PathSets, GitType, Trees, Held
<1>5. /\ \A q \in Paths : q # p => snapshot[q] = request[r].snapshot[q]
      /\ snapshot[p] = tree[p]
  BY <1>1, <1>4 DEF RequestSet, Trees
<1> DEFINE g == [request EXCEPT ![r].snapshot = snapshot]
<1>6. request' = [g EXCEPT ![r].todo = todo]
  BY <1>1, <1>2 DEF GitType
<1> HIDE DEF snapshot, todo
<1>7. /\ g \in [Requests -> RequestSet] /\ \A o \in Requests : o # r => g[o] = request[o]
      /\ g[r].at = request[r].at /\ g[r].kind = request[r].kind /\ g[r].snapshot = snapshot
      /\ g[r].got = request[r].got
  BY <1>1, <1>4, SetSnapshot DEF GitType
<1> HIDE DEF g
<1> DEFINE h == [g EXCEPT ![r].todo = todo]
<1>8. /\ h \in [Requests -> RequestSet] /\ \A o \in Requests : o # r => h[o] = g[o]
      /\ h[r].at = g[r].at /\ h[r].kind = g[r].kind /\ h[r].snapshot = g[r].snapshot
      /\ h[r].todo = todo /\ h[r].got = g[r].got
  BY <1>4, <1>7, SetTodo
<1> HIDE DEF h
<1>9. Becomes(r, "reading", snapshot, todo, request[r].got)
  BY <1>1, <1>6, <1>7, <1>8 DEF Becomes, h
<1>10. OthersStay(r)
  BY <1>9 DEF OthersStay, Becomes
<1>11. GitType'
  BY <1>1, <1>3, <1>9 DEF GitType, Becomes
<1>12. RequestsInv'
  BY <1>1, <1>3, <1>9, <1>10, RequestsStep DEF OnItsWay, StorePath, Becomes
<1>13. Untroubled /\ AloneIs(r) /\ PushAt(r) => PushAt(r)'
  BY <1>1, <1>3, <1>9 DEF PushAt, Refreshing, Becomes
<1>14. spoilt = {} /\ AloneIs(r) /\ PushAt(r) /\ MirrorAt(r) => MirrorAt(r)'
  <2>1. (\A q \in Paths \ request[r].todo : request[r].snapshot[q] = tree[q])
          => \A q \in Paths \ todo : snapshot[q] = tree[q]
    BY <1>5 DEF todo
  <2> QED BY <1>1, <1>3, <1>9, <2>1, IdleRequest
        DEF MirrorAt, RefreshesStore, RefreshPath, Remembered, Becomes
<1> QED BY <1>1, <1>3, <1>10, <1>11, <1>12, <1>13, <1>14, AloneStep

LEMMA SnapshotStoreKeeps ==
  ASSUME GitInv, NEW r \in Requests, SnapshotStore(r)
  PROVE  GitInv'
<1> USE DEF SnapshotStore, At, repoVars, pageVars, counterVars
<1>1. /\ request[r].at = "reading" /\ GitType /\ OnItsWay(request[r]) /\ initialized
      /\ request[r].kind = "deploy" /\ (Untroubled => AloneIs(r)) /\ remote # None
      /\ request[r] \in RequestSet
  BY Refresher DEF StorePath, GitInv, RequestsInv
<1>2. Becomes(r, "replace", request[r].snapshot, request[r].todo, request[r].got)
  BY <1>1, GoesTo DEF Places, StorePath
<1>3. OthersStay(r)
  BY <1>2 DEF OthersStay, Becomes
<1>4. GitType'
  BY <1>1, <1>2 DEF GitType, Becomes, RequestSet, Held
<1>5. RequestsInv'
  BY <1>1, <1>2, <1>3, RequestsStep DEF OnItsWay, StorePath, Becomes
<1>6. Untroubled /\ AloneIs(r) /\ PushAt(r) => PushAt(r)'
  BY <1>1, <1>2 DEF PushAt, Refreshing, Becomes
<1>7. spoilt = {} /\ AloneIs(r) /\ PushAt(r) /\ MirrorAt(r) => MirrorAt(r)'
  <2> SUFFICES ASSUME spoilt = {}, AloneIs(r), PushAt(r), MirrorAt(r) PROVE MirrorAt(r)'
    OBVIOUS
  <2>1. /\ remote.tree = tree /\ \A p \in Paths : request[r].snapshot[p] = tree[p]
    BY <1>1 DEF MirrorAt, RefreshesStore
  <2>2. request[r].snapshot = remote.tree
    BY <1>1, <2>1, SameTree DEF GitType, RequestSet
  <2> QED BY <1>1, <1>2, <2>2, IdleRequest
        DEF MirrorAt, RefreshesStore, RefreshPath, Remembered, Becomes
<1> QED BY <1>1, <1>3, <1>4, <1>5, <1>6, <1>7, AloneStep

LEMMA ReplaceFilesKeeps ==
  ASSUME GitInv, NEW r \in Requests, ReplaceFiles(r)
  PROVE  GitInv'
<1> USE DEF ReplaceFiles, At, repoVars, committerVars, pageVars, counterVars
<1>1. /\ request[r].at = "replace" /\ GitType /\ OnItsWay(request[r]) /\ initialized
      /\ request[r].kind = "deploy" /\ (Untroubled => AloneIs(r))
      /\ request[r] \in RequestSet
  BY Refresher DEF StorePath
<1>2. /\ request' \in [Requests -> RequestSet] /\ request'[r] = Idle
      /\ \A o \in Requests : o # r => request'[o] = request[o]
  BY <1>1, Ended
<1>3. OthersStay(r)
  BY <1>2 DEF OthersStay
<1>4. GitType'
  BY <1>1, <1>2 DEF GitType, RequestSet
<1>5. RequestsInv'
  BY <1>1, <1>2, <1>3, RequestsStep, IdleRequest DEF OnItsWay
<1>6. Untroubled /\ AloneIs(r) /\ PushAt(r) => PushAt(r)'
  BY <1>1, <1>2, IdleRequest DEF PushAt, Refreshing
<1>7. spoilt = {} /\ AloneIs(r) /\ PushAt(r) /\ MirrorAt(r) => MirrorAt(r)'
  BY <1>1, <1>2, IdleRequest
    DEF MirrorAt, RefreshesStore, CommitsFiles, CommitPath, Remembered
<1> QED BY <1>1, <1>3, <1>4, <1>5, <1>6, <1>7, AloneStep

-----------------------------------------------------------------------------
(* A request begins.                                                         *)

LEMMA NewRequest ==
  ASSUME GitType, NEW r \in Requests, NEW k \in RequestKinds, NEW first \in Places,
         request' = [request EXCEPT ![r] = [Idle EXCEPT !.kind = k, !.at = first]]
  PROVE  /\ request' \in [Requests -> RequestSet] /\ OthersStay(r)
         /\ request'[r].at = first /\ request'[r].kind = k
         /\ request'[r].snapshot = Empty /\ request'[r].todo = {} /\ request'[r].got = None
<1> DEFINE q == [Idle EXCEPT !.kind = k, !.at = first]
<1>1. /\ q \in RequestSet /\ q.at = first /\ q.kind = k /\ q.snapshot = Empty
      /\ q.todo = {} /\ q.got = None
  BY IdleRequest DEF RequestSet, Idle
<1> HIDE DEF q
<1>2. request' = [request EXCEPT ![r] = q]
  BY DEF q
<1> QED BY <1>1, <1>2 DEF GitType, OthersStay

LEMMA BeginKeeps ==
  ASSUME GitInv, NEW r \in Requests, NEW k \in RequestKinds, NEW first \in {"snapshot", "init"},
         Begin(r, k, first),
         first = "snapshot" <=> k \in {"load", "edit"},
         k = "load" <=> ~mounted, mounted' = TRUE,
         files' \in Trees, files' = files \/ k = "edit",
         UNCHANGED <<remote, repoVars, committerVars, tree, connected, made>>
  PROVE  GitInv'
<1> USE DEF repoVars, committerVars
<1>1. /\ GitType /\ RequestsInv /\ request[r] = Idle
      /\ request' = [request EXCEPT ![r] = [Idle EXCEPT !.kind = k, !.at = first]]
      /\ spoilt' = spoilt \cup Overlap(k)
  BY DEF GitInv, Begin
<1>2. /\ request' \in [Requests -> RequestSet] /\ OthersStay(r)
      /\ request'[r].at = first /\ request'[r].kind = k
      /\ request'[r].snapshot = Empty /\ request'[r].todo = {} /\ request'[r].got = None
  BY <1>1, NewRequest DEF Places, CommitPath
<1>3. Overlap(k) \subseteq Spoilers
  BY DEF Overlap, Spoilers
<1>4. GitType'
  BY <1>1, <1>2, <1>3 DEF GitType
<1>5. OnItsWay(request'[r])
  BY <1>1, <1>2 DEF OnItsWay, CommitPath, RefreshPath, RequestKinds
<1>6. RequestsInv'
  BY <1>1, <1>2, <1>5 DEF RequestsInv, OthersStay, Early
<1>7. ASSUME UnderWay = {}, Untroubled PROVE PushInv' /\ (spoilt = {} => MirrorInv')
  <2>1. (\A o \in Requests : request[o] = Idle) /\ PushInv
    BY <1>7 DEF UnderWay, GitInv
  <2>2. \A S : "idle" \notin S => ~Somebody(S)
    BY <2>1, IdleRequest DEF Somebody
  <2>3. initialized => /\ head = remote /\ remote # None /\ index = head.tree
                       /\ UnderWay = {}
    BY <1>7, <2>1, <2>2 DEF PushInv
  <2>4. mounted => initialized
    BY <2>1, IdleRequest DEF PushInv, FirstRequest
  <2>5. ~initialized => k = "load" /\ first = "snapshot" /\ head = None /\ index = Empty
    BY <1>1, <2>4 DEF RequestsInv
  <2>6. AloneIs(r)'
    BY <1>2, <2>1 DEF AloneIs, OthersStay
  <2>7. PushAt(r)'
    <3>1. CASE initialized
      BY <1>2, <2>3, <3>1 DEF PushAt
    <3>2. CASE ~initialized
      BY <1>2, <2>5, <2>6, <3>2 DEF PushAt, FirstRequest, Refreshing
    <3> QED BY <3>1, <3>2
  <2>8. ASSUME spoilt = {} PROVE MirrorAt(r)'
    <3>1. initialized => remote.tree = files /\ Remembered
      BY <2>2, <2>3, <2>8 DEF GitInv, MirrorInv
    <3> QED BY <1>2, <2>3, <2>5, <3>1, IdleRequest
          DEF MirrorAt, Remembered, CommitsFiles, RefreshesStore, CommitPath, RefreshPath
  <2> QED BY <2>6, <2>7, <2>8, AloneNext DEF OneIsAll
<1>8. ASSUME UnderWay # {}, Untroubled, Untroubled' PROVE PushInv'
  <2>1. /\ initialized /\ PushInv /\ k \notin Refreshing
        /\ \A o \in Requests : request[o].kind \notin Refreshing
    <3>1. "raced" \notin Overlap(k) /\ "crossed" \notin Overlap(k)
      BY <1>1, <1>8 DEF Untroubled
    <3>2. initialized /\ \A o \in UnderWay : {k, request[o].kind} \cap Refreshing = {}
      BY <1>8, <3>1 DEF Overlap
    <3> QED BY <1>8, <3>2, IdleRequest DEF UnderWay, Refreshing, GitInv
  <2>2. \A o \in Requests : request'[o].kind \notin Refreshing
    BY <1>2, <2>1 DEF OthersStay
  <2>3. /\ Somebody({"push", "push store"}) => Somebody({"push", "push store"})'
        /\ Somebody({"stage", "operate", "commit store"})
             => Somebody({"stage", "operate", "commit store"})'
        /\ Somebody({"compare", "stage", "push"}) => Somebody({"compare", "stage", "push"})'
        /\ ~Somebody({"cloning", "listing"}) => ~Somebody({"cloning", "listing"})'
    BY <1>1, <1>2, IdleRequest DEF Somebody, OthersStay
  <2> QED BY <2>1, <2>2, <2>3 DEF PushInv
<1>9. Untroubled' => Untroubled
  BY <1>1 DEF Untroubled
<1>10. spoilt' = {} => UnderWay = {} /\ spoilt = {} /\ Untroubled
  BY <1>1 DEF Overlap, Untroubled
<1> QED BY <1>4, <1>6, <1>7, <1>8, <1>9, <1>10 DEF GitInv

(* A file is written, created or deleted.                                    *)
LEMMA ChangesAreTrees ==
  ASSUME NEW t \in Trees
  PROVE  ChangesOf(t) \subseteq Trees
BY DEF ChangesOf, Trees

LEMMA BeginsKeeps ==
  ASSUME GitInv, NEW r \in Requests,
         Mount(r) \/ Edit(r) \/ Connect(r) \/ Deploy(r) \/ GetHistory(r)
  PROVE  GitInv'
<1> USE DEF pageVars, counterVars
<1>1. GitType /\ RequestsInv /\ ChangesOf(files) \subseteq Trees
  BY ChangesAreTrees DEF GitInv, GitType
<1>2. CASE Mount(r)
  BY <1>1, <1>2, BeginKeeps DEF Mount, RequestKinds, GitType
<1>3. CASE Edit(r)
  BY <1>1, <1>3, BeginKeeps DEF Edit, RequestKinds, GitType
<1>4. CASE Connect(r)
  BY <1>1, <1>4, BeginKeeps DEF Connect, RequestKinds, GitType
<1>5. CASE Deploy(r)
  BY <1>1, <1>5, BeginKeeps DEF Deploy, RequestKinds, GitType, RequestsInv
<1>6. CASE GetHistory(r)
  BY <1>1, <1>6, BeginKeeps DEF GetHistory, RequestKinds, GitType
<1> QED BY <1>2, <1>3, <1>4, <1>5, <1>6

-----------------------------------------------------------------------------
(* A reload, and what others do.                                             *)

LEMMA ReloadKeeps ==
  ASSUME GitInv, Reload
  PROVE  GitInv'
<1> USE IdleRequest DEF Reload
<1>1. GitType
  BY DEF GitInv
<1>2. \A r \in Requests : request'[r] = Idle
  OBVIOUS
<1>3. GitType'
  BY <1>1 DEF GitType
<1>4. RequestsInv'
  BY <1>2 DEF RequestsInv, OnItsWay, Early
<1>5. PushInv'
  BY <1>2 DEF PushInv, Refreshing
<1>6. MirrorInv'
  BY <1>2 DEF MirrorInv, CommitsFiles, CommitPath
<1> QED BY <1>3, <1>4, <1>5, <1>6 DEF GitInv

LEMMA OthersKeep ==
  ASSUME GitInv, OtherChanges \/ OtherPushes
  PROVE  GitInv'
<1> USE DEF repoVars, committerVars, pageVars
<1>1. GitType /\ RequestsInv /\ ChangesOf(files) \subseteq Trees
  BY ChangesAreTrees DEF GitInv, GitType
<1>2. CASE OtherChanges
  <2> USE <1>2 DEF OtherChanges
  <2>1. GitType'
    BY <1>1 DEF GitType, Spoilers
  <2>2. RequestsInv'
    BY <1>1 DEF RequestsInv
  <2>3. Untroubled' => PushInv'
    BY DEF Untroubled, GitInv, PushInv, Somebody, FirstRequest, AloneIs
  <2> QED BY <2>1, <2>2, <2>3 DEF GitInv
<1>3. CASE OtherPushes
  <2> USE <1>3 DEF OtherPushes
  <2> DEFINE before == IF remote = None THEN Empty ELSE remote.tree
  <2>1. before \in Trees
    BY <1>1, IdleRequest DEF GitType, Commits
  <2>2. remote' \in Commits /\ remote' # None
    BY <1>1, <2>1, ChangesAreTrees, Committing DEF GitType
  <2>3. GitType'
    BY <1>1, <2>2 DEF GitType, Spoilers
  <2>4. RequestsInv'
    BY <1>1, <2>2 DEF RequestsInv
  <2> QED BY <2>3, <2>4 DEF GitInv, Untroubled
<1> QED BY <1>2, <1>3

-----------------------------------------------------------------------------
(* The invariant holds at first and is kept by every step.                   *)
LEMMA GitInvInit == Init => GitInv
<1> SUFFICES ASSUME Init PROVE GitInv
  OBVIOUS
<1> USE IdleRequest DEF Init
<1>1. GitType
  BY DEF GitType
<1>2. RequestsInv
  BY DEF RequestsInv, OnItsWay, Early
<1>3. PushInv
  BY DEF PushInv, Refreshing
<1>4. MirrorInv
  BY DEF MirrorInv, CommitsFiles, CommitPath
<1> QED BY <1>1, <1>2, <1>3, <1>4 DEF GitInv

LEMMA GitInvStutters == GitInv /\ UNCHANGED vars => GitInv'
<1> SUFFICES ASSUME GitInv, UNCHANGED vars PROVE GitInv'
  OBVIOUS
<1> USE DEF vars, repoVars, committerVars, pageVars, counterVars
<1>1. GitType' /\ RequestsInv'
  BY DEF GitInv, GitType, RequestsInv
<1>2. PushInv' <=> PushInv
  BY DEF PushInv, Somebody, FirstRequest, AloneIs
<1>3. (Untroubled' <=> Untroubled) /\ spoilt' = spoilt
  BY DEF Untroubled
<1>4. MirrorInv' <=> MirrorInv
  BY DEF MirrorInv, AloneIs, Somebody, UnderWay, Remembered, CommitsFiles, RefreshesStore
<1> QED BY <1>1, <1>2, <1>3, <1>4 DEF GitInv

LEMMA GitInvNext == GitInv /\ [Next]_vars => GitInv'
<1> SUFFICES ASSUME GitInv, Next PROVE GitInv'
  BY GitInvStutters
<1>1. CASE Reload
  BY <1>1, ReloadKeeps
<1>2. CASE OtherChanges \/ OtherPushes
  BY <1>2, OthersKeep
<1>3. ASSUME NEW r \in Requests,
             \/ Mount(r) \/ Edit(r) \/ Connect(r) \/ Deploy(r) \/ GetHistory(r)
             \/ EnterInit(r) \/ Clone(r) \/ CloneFails(r) \/ Initialized(r)
             \/ GetSnapshot(r) \/ SameSignature(r) \/ NewSignature(r) \/ Stage(r) \/ Commit(r)
             \/ Push(r) \/ Committed(r)
             \/ Fetch(r) \/ Fetched(r) \/ FetchFails(r) \/ ReadHead(r) \/ Seed(r) \/ Seeded(r)
             \/ WriteStore(r) \/ WriteLockfile(r) \/ CommitStore(r)
             \/ ListStore(r) \/ ReadStore(r) \/ SnapshotStore(r) \/ ReplaceFiles(r)
             \/ Fails(r) \/ AnswerLost(r)
      PROVE  GitInv'
  BY <1>3, BeginsKeeps, EnterInitKeeps, CloneKeeps, CloneFailsKeeps, InitializedKeeps,
     GetSnapshotKeeps, SameSignatureKeeps, NewSignatureKeeps, StageKeeps, CommitKeeps, PushKeeps,
     CommittedKeeps, FetchKeeps, FetchedKeeps, FetchFailsKeeps, ReadHeadKeeps, SeedKeeps,
     SeededKeeps, WriteStoreKeeps, WriteLockfileKeeps, CommitStoreKeeps, ListStoreKeeps,
     ReadStoreKeeps, SnapshotStoreKeeps, ReplaceFilesKeeps, FailsKeeps
<1> QED BY <1>1, <1>2, <1>3 DEF Next

LEMMA GitInvHolds == Spec => []GitInv
BY GitInvInit, GitInvNext, PTL DEF Spec

(* What no request is about to commit or to push is in the remote branch:    *)
(* with no request under way, nothing that was staged is left behind.        *)
LEMMA RestIsPushed == GitInv => StagedIsPushed
<1> SUFFICES ASSUME GitInv, AtRest, Untroubled PROVE remote # None /\ remote.tree = index
  BY DEF StagedIsPushed, Untroubled
<1>1. PushInv /\ mounted /\ \A r \in Requests : request[r] = Idle
  BY DEF GitInv, AtRest, UnderWay
<1>2. \A S : "idle" \notin S => ~Somebody(S)
  BY <1>1, IdleRequest DEF Somebody
<1>3. initialized
  BY <1>1, IdleRequest DEF PushInv, FirstRequest
<1> QED BY <1>1, <1>2, <1>3 DEF PushInv

LEMMA RestIsCurrent == GitInv => MirrorCurrent
<1> SUFFICES ASSUME GitInv, AtRest, spoilt = {} PROVE remote # None /\ remote.tree = files
  BY DEF MirrorCurrent
<1>1. Untroubled
  BY DEF Untroubled
<1>2. PushInv /\ MirrorInv /\ mounted /\ UnderWay = {} /\ \A r \in Requests : request[r] = Idle
  BY <1>1 DEF GitInv, AtRest, UnderWay
<1>3. initialized
  BY <1>2, IdleRequest DEF PushInv, FirstRequest
<1>4. remote # None
  BY <1>1, RestIsPushed DEF StagedIsPushed, Untroubled
<1> QED BY <1>2, <1>3, <1>4 DEF MirrorInv

(* Whatever overlaps, a page at rest has pushed all that it staged, unless a *)
(* call failed, somebody else pushed, a refresh was crossed by another       *)
(* request, or two requests raced for the clone (git-committer.ts, commit    *)
(* and push of the index).                                                   *)
THEOREM StagedGetsPushed == Spec => []StagedIsPushed
BY GitInvHolds, RestIsPushed, PTL

(* A page whose requests came one after the other leaves in the remote       *)
(* branch exactly the files of the workspace, whatever happened before it    *)
(* was loaded (git-committer.ts, commitSnapshot and snapshotStore).          *)
THEOREM MirrorIsCurrent == Spec => []MirrorCurrent
BY GitInvHolds, RestIsCurrent, PTL
=============================================================================
