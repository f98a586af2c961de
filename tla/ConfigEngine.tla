---------------------------- MODULE ConfigEngine ----------------------------
(***************************************************************************)
(* The config-as-code engine of packages/alchemy (makeConfigDeploy):       *)
(* pull, plan, apply and destroy over a working tree, a lockfile and a     *)
(* remote API.                                                             *)
(*                                                                         *)
(* Every call the engine makes on a provider is a step of its own, so two  *)
(* operations of two clients of one deploy service, edits of the working   *)
(* tree and changes made directly on the remote interleave between them.   *)
(* Any operation may fail or be interrupted at any step (Fail).            *)
(*                                                                         *)
(* The data is abstract.  The decoded content of a file or a remote entity *)
(* is a member of Vals, and Refs says which addresses a value refers to.   *)
(* hashValue is injective here, so a change's liveHash is its "before".    *)
(* appliedHash is left out: the engine records it and never reads it.      *)
(***************************************************************************)
EXTENDS Integers, FiniteSets, OrderRules

CONSTANTS
  Clients,       \* callers that run engine operations against one project
  Kinds,         \* entity kinds
  Owned,         \* Owned[c]: the kinds c's engine has a provider for
  Names,         \* base slugs a remote entity suggests
  MaxSuffix,     \* bound on the number dedupe appends to a slug
  Vals,          \* decoded contents
  Refs,          \* Refs[v]: addresses that content v refers to
  Editable,      \* bound on the files users edit
  MaxIds,        \* bound on the remote ids ever issued
  MaxEdits,      \* bound on the edits of the working tree
  MaxExternal,   \* bound on the changes made directly on the remote
  MaxOps,        \* bound on the operations started
  Overlap,       \* TRUE: operations of different clients may overlap
  NoFile,        \* no file at this address
  Skeleton,      \* the empty text pull writes before content is fetched
  Absent,        \* no remote entity under this id
  None           \* no content (before of a create, after of a delete)

Slugs  == [name : Names, n : 1..MaxSuffix]
Addr   == [kind : Kinds, slug : Slugs]
Ids    == 1..MaxIds
NoId   == 0
Entity == [kind : Kinds, slug : Slugs, val : Vals]
Entry  == [addr : Addr, id : Ids]
Change == [addr : Addr, id : {NoId}, action : {"create"},
           before : {None}, after : Vals]
     \cup [addr : Addr, id : Ids, action : {"update", "noop"},
           before : Vals, after : Vals]
     \cup [addr : Addr, id : Ids, action : {"delete"},
           before : Vals, after : {None}]
Phase  == {"idle", "pullList", "pullRead", "planList", "destroyList",
           "apply", "write"}
Budget == [b \in {"edits", "external", "ops"} |->
             CASE b = "edits" -> MaxEdits [] b = "external" -> MaxExternal
               [] OTHER -> MaxOps]
Result == {"none", "failed", "invalid", "pulled", "planned", "applied"}

ASSUME ConstantsOK ==
  /\ MaxSuffix \in Nat \ {0} /\ MaxIds \in Nat /\ MaxOps \in Nat
  /\ MaxEdits \in Nat /\ MaxExternal \in Nat
  /\ Owned \in [Clients -> SUBSET Kinds]
  /\ Refs \in [Vals -> SUBSET Addr]
  /\ Overlap \in BOOLEAN /\ Editable \subseteq Addr
  /\ NoFile \notin Vals /\ Skeleton \notin Vals /\ NoFile # Skeleton
  /\ None \notin Vals /\ Absent \notin Entity

VARIABLES
  files,      \* the working tree: Addr -> content, Skeleton or NoFile
  lock,       \* config.lock.json: a set of entries
  remote,     \* the remote API: id -> entity
  nextId,     \* the next id the remote will issue
  pc,         \* where each client's operation is
  kindsLeft,  \* the kinds the operation still has to list
  base,       \* the lockfile as the operation read it
  entries,    \* the lockfile it is building and will write
  reads,      \* pull: the ids still to read (descriptors)
  want,       \* plan: the decoded working tree
  plan,       \* the changes of the plan the client holds
  todo,       \* apply: the changes not resolved yet
  loops,      \* apply: the changes no topological order reaches
  cur,        \* apply: the change that passed its re-read
  allow,      \* apply: allowDelete
  outcome,    \* how the client's last operation ended
  spent       \* edits, external changes and operations so far (bounds)

\* A ghost, read by properties only.
VARIABLE
  calm        \* nobody else wrote files, lock or remote since c's plan or pull began

shared == <<files, lock, remote, nextId>>
locals == <<kindsLeft, base, entries, reads, todo, loops, cur>>
kept   == <<want, plan, allow>>
vars   == <<shared, pc, locals, kept, outcome, spent, calm>>

-----------------------------------------------------------------------------
(* Helpers *)

Live         == {i \in Ids : remote[i] # Absent}
LiveOf(k)    == {i \in Live : remote[i].kind = k}
AddrsOf(L)   == {e.addr : e \in L}

(* Mutant of LockId: the kind alone selects the entry.                       *)
LockIdOfKind(L, a) == IF \E e \in L : e.addr.kind = a.kind
                      THEN (CHOOSE e \in L : e.addr.kind = a.kind).id ELSE NoId

(* remoteIdBySlug.get(slug), entries.get(kind:key)                           *)
LockId(L, a) == IF \E e \in L : e.addr = a
                THEN (CHOOSE e \in L : e.addr = a).id ELSE NoId

(* slugByRemote.get(id) ?? dedupe(suggestedKey, used), for every listed     *)
(* entity in list order: an id the lockfile knows keeps its slug, a new one *)
(* gets its suggested slug, renumbered past every slug in use.              *)
UsedSlugs(k, L) == {e.addr.slug : e \in {x \in L : x.addr.kind = k}}

Dedupe(base0, used, s) ==
  /\ s.name = base0.name /\ s.n >= base0.n /\ s \notin used
  /\ \A m \in base0.n..(s.n - 1) : [name |-> base0.name, n |-> m] \in used

(* Mutant of AssignSlugs: a slug just given is not marked as used.           *)
AssignUnmarked(slug, k, L) ==
  \A i \in DOMAIN slug :
    IF \E e \in L : e.id = i /\ e.addr.kind = k
    THEN [addr |-> [kind |-> k, slug |-> slug[i]], id |-> i] \in L
    ELSE Dedupe(remote[i].slug, UsedSlugs(k, L), slug[i])

AssignSlugs(slug, k, L) ==
  \A i \in DOMAIN slug :
    IF \E e \in L : e.id = i /\ e.addr.kind = k
    THEN [addr |-> [kind |-> k, slug |-> slug[i]], id |-> i] \in L
    ELSE Dedupe(remote[i].slug,
                UsedSlugs(k, L) \cup {slug[j] : j \in {x \in DOMAIN slug : x < i}},
                slug[i])

(* Everyone except c sees an interfering write. *)
Disturb(c) == calm' = [d \in Clients |-> calm[d] /\ d = c]

-----------------------------------------------------------------------------
(* Starting and ending operations *)

Bounded(budget) ==
  /\ spent[budget] < Budget[budget]
  /\ spent' = [spent EXCEPT ![budget] = @ + 1]

Begin(c) ==
  /\ pc[c] = "idle"
  /\ Overlap \/ \A d \in Clients : pc[d] = "idle"
  /\ Bounded("ops")

(* The operation's variables go with its fiber. *)
End(c, result) ==
  /\ pc' = [pc EXCEPT ![c] = "idle"]
  /\ outcome' = [outcome EXCEPT ![c] = result]
  /\ kindsLeft' = [kindsLeft EXCEPT ![c] = {}]
  /\ base' = [base EXCEPT ![c] = {}] /\ entries' = [entries EXCEPT ![c] = {}]
  /\ reads' = [reads EXCEPT ![c] = {}] /\ todo' = [todo EXCEPT ![c] = {}]
  /\ loops' = [loops EXCEPT ![c] = {}] /\ cur' = [cur EXCEPT ![c] = {}]

(* A provider call fails, or the fiber is interrupted: the effect fails and *)
(* nothing is rolled back or written.                                       *)
Fail(c) ==
  /\ pc[c] # "idle"
  /\ End(c, "failed")
  /\ UNCHANGED <<shared, kept, spent, calm>>

-----------------------------------------------------------------------------
(* pull *)

(* Mutant of Carried: a pull rebuilds the whole lockfile.                    *)
CarriesNothing(c, L) == {}

(* Entries of kinds without a provider are carried through untouched.        *)
Carried(c, L) == {e \in L : e.addr.kind \notin Owned[c]}

PullStart(c) ==
  /\ Begin(c)
  /\ pc' = [pc EXCEPT ![c] = "pullList"]
  /\ kindsLeft' = [kindsLeft EXCEPT ![c] = Owned[c]]
  /\ base' = [base EXCEPT ![c] = lock]
  /\ entries' = [entries EXCEPT ![c] = Carried(c, lock)]
  /\ calm' = [calm EXCEPT ![c] = TRUE]
  /\ UNCHANGED <<shared, reads, todo, loops, cur, kept, outcome>>

(* provider.listSummaries, then an empty file and a seeded entry for each   *)
(* entity of the kind.                                                      *)
PullList(c, k) ==
  /\ pc[c] = "pullList" /\ k \in kindsLeft[c]
  /\ kindsLeft' = [kindsLeft EXCEPT ![c] = @ \ {k}]
  /\ \E slug \in [LiveOf(k) -> Slugs] :
       LET at(i) == [kind |-> k, slug |-> slug[i]] IN
       /\ AssignSlugs(slug, k, base[c])
       /\ files' = [a \in Addr |-> IF \E i \in LiveOf(k) : a = at(i)
                                   THEN Skeleton ELSE files[a]]
       /\ entries' = [entries EXCEPT ![c] =
                        @ \cup {[addr |-> at(i), id |-> i] : i \in LiveOf(k)}]
  /\ reads' = [reads EXCEPT ![c] = @ \cup LiveOf(k)]
  /\ Disturb(c)
  /\ UNCHANGED <<lock, remote, nextId, pc, base, todo, loops, cur, kept, outcome,
                 spent>>

PullSeed(c) ==
  /\ pc[c] = "pullList" /\ kindsLeft[c] = {}
  /\ lock' = entries[c]
  /\ pc' = [pc EXCEPT ![c] = "pullRead"]
  /\ Disturb(c)
  /\ UNCHANGED <<files, remote, nextId, locals, kept, outcome, spent>>

(* provider.read, then the content is written; an entity that is gone is    *)
(* reported as failed and its file stays empty.                             *)
PullRead(c, i) ==
  /\ pc[c] = "pullRead" /\ i \in reads[c]
  /\ reads' = [reads EXCEPT ![c] = @ \ {i}]
  /\ files' = [a \in Addr |->
                 IF remote[i] # Absent /\ [addr |-> a, id |-> i] \in entries[c]
                 THEN remote[i].val ELSE files[a]]
  /\ Disturb(c)
  /\ UNCHANGED <<lock, remote, nextId, pc, kindsLeft, base, entries, todo, loops,
                 cur, kept, outcome, spent>>

PullEnd(c) ==
  /\ pc[c] = "pullRead" /\ reads[c] = {}
  /\ lock' = entries[c]
  /\ End(c, "pulled")
  /\ Disturb(c)
  /\ UNCHANGED <<files, remote, nextId, kept, spent>>

-----------------------------------------------------------------------------
(* plan *)

Desired(w) == {a \in Addr : w[a] # None}

(* The working tree decoded by c's providers; None where no provider has a   *)
(* file.                                                                     *)
Decoded(c) == [a \in Addr |-> IF a.kind \in Owned[c] /\ files[a] # NoFile
                              THEN files[a] ELSE None]

Undecodable(c) == \E a \in Addr : Decoded(c)[a] = Skeleton

(* A reference resolves to a desired file or to an entry of the lockfile.    *)
Dangling(c) == \E a \in Desired(Decoded(c)) :
                 ~ (Refs[files[a]] \subseteq Desired(Decoded(c)) \cup AddrsOf(lock))

PlanStart(c) ==
  /\ Begin(c)
  /\ calm' = [calm EXCEPT ![c] = TRUE]
  /\ IF Undecodable(c) \/ Dangling(c)
     THEN /\ outcome' = [outcome EXCEPT ![c] = "invalid"]
          /\ UNCHANGED <<pc, locals, want>>
     ELSE /\ pc' = [pc EXCEPT ![c] = "planList"]
          /\ kindsLeft' = [kindsLeft EXCEPT ![c] = Owned[c]]
          /\ base' = [base EXCEPT ![c] = lock]
          /\ want' = [want EXCEPT ![c] = Decoded(c)]
          /\ UNCHANGED <<entries, reads, todo, loops, cur, outcome>>
  /\ UNCHANGED <<shared, plan, allow>>

(* Mutant of DesiredChange: whatever is live counts as equal.                *)
DesiredUnlessLive(a, L, w) ==
  LET i == LockId(L, a) IN
  IF i \in LiveOf(a.kind)
  THEN [addr |-> a, id |-> i, action |-> "noop", before |-> remote[i].val, after |-> w[a]]
  ELSE [addr |-> a, id |-> NoId, action |-> "create", before |-> None, after |-> w[a]]

(* Mutant of DesiredChange: an entity that differs is created anew.          *)
DesiredRecreated(a, L, w) ==
  LET i == LockId(L, a) IN
  IF i \in LiveOf(a.kind) /\ remote[i].val = w[a]
  THEN [addr |-> a, id |-> i, action |-> "noop", before |-> remote[i].val, after |-> w[a]]
  ELSE [addr |-> a, id |-> NoId, action |-> "create", before |-> None, after |-> w[a]]

(* The change of a desired file against the live entity its entry names.     *)
DesiredChange(a, L, w) ==
  LET i == LockId(L, a) IN
  IF i \in LiveOf(a.kind)
  THEN [addr |-> a, id |-> i,
        action |-> IF remote[i].val = w[a] THEN "noop" ELSE "update",
        before |-> remote[i].val, after |-> w[a]]
  ELSE [addr |-> a, id |-> NoId, action |-> "create", before |-> None, after |-> w[a]]

(* Mutant of DeleteOf: the live content is not recorded.                     *)
DeleteUnread(e) == [addr |-> e.addr, id |-> e.id, action |-> "delete",
                    before |-> None, after |-> None]

DeleteOf(e) == [addr |-> e.addr, id |-> e.id, action |-> "delete",
                before |-> remote[e.id].val, after |-> None]

LiveEntries(k, L) == {e \in L : e.addr.kind = k /\ e.id \in LiveOf(k)}

DiffKind(k, L, w) ==
       {DesiredChange(a, L, w) : a \in {x \in Desired(w) : x.kind = k}}
  \cup {DeleteOf(e) : e \in {x \in LiveEntries(k, L) : x.addr \notin Desired(w)}}

PlanList(c, k) ==
  /\ pc[c] = "planList" /\ k \in kindsLeft[c]
  /\ kindsLeft' = [kindsLeft EXCEPT ![c] = @ \ {k}]
  /\ todo' = [todo EXCEPT ![c] = @ \cup DiffKind(k, base[c], want[c])]
  /\ UNCHANGED <<shared, pc, base, entries, reads, loops, cur, kept, outcome,
                 spent, calm>>

PlanEnd(c) ==
  /\ pc[c] = "planList" /\ kindsLeft[c] = {}
  /\ plan' = [plan EXCEPT ![c] = todo[c]]
  /\ End(c, "planned")
  /\ UNCHANGED <<shared, want, allow, spent, calm>>

-----------------------------------------------------------------------------
(* apply *)

(* Mutant of Needs: references are not derived.                              *)
NeedsNothing(c, S) == [x \in S |-> {}]

(* The addresses a change depends on: refs of "after" for an upsert, of      *)
(* "before" for a delete; orderForApply skips kinds without a provider.      *)
Needs(c, S) ==
  [x \in S |-> CASE x.addr.kind \notin Owned[c] -> {}
                [] x.action = "delete"        -> Refs[x.before]
                [] OTHER                      -> Refs[x.after]]

BeginApply(c, changes, del) ==
  /\ pc' = [pc EXCEPT ![c] = "apply"]
  /\ entries' = [entries EXCEPT ![c] = lock]
  /\ todo' = [todo EXCEPT ![c] = changes]
  /\ loops' = [loops EXCEPT ![c] = Unsorted(changes, Needs(c, changes))]
  /\ allow' = [allow EXCEPT ![c] = del]

(* The caller passes a plan: its own or another client's, whenever it was    *)
(* computed and however often it was applied before.                         *)
ApplyStart(c, d, del) ==
  /\ Begin(c)
  /\ BeginApply(c, plan[d], del)
  /\ calm' = [calm EXCEPT ![c] = @ /\ d = c /\ outcome[c] = "planned"]
  /\ UNCHANGED <<shared, kindsLeft, base, reads, want, plan, cur, outcome>>

DestroyStart(c) ==
  /\ Begin(c)
  /\ pc' = [pc EXCEPT ![c] = "destroyList"]
  /\ kindsLeft' = [kindsLeft EXCEPT ![c] = Owned[c]]
  /\ base' = [base EXCEPT ![c] = lock]
  /\ want' = [want EXCEPT ![c] = [a \in Addr |-> None]]
  /\ calm' = [calm EXCEPT ![c] = TRUE]
  /\ UNCHANGED <<shared, entries, reads, todo, loops, cur, plan, allow, outcome>>

DestroyList(c, k) ==
  /\ pc[c] = "destroyList" /\ k \in kindsLeft[c]
  /\ kindsLeft' = [kindsLeft EXCEPT ![c] = @ \ {k}]
  /\ todo' = [todo EXCEPT ![c] = @ \cup {DeleteOf(e) : e \in LiveEntries(k, base[c])}]
  /\ UNCHANGED <<shared, pc, base, entries, reads, loops, cur, kept, outcome,
                 spent, calm>>

DestroyApply(c) ==
  /\ pc[c] = "destroyList" /\ kindsLeft[c] = {}
  /\ BeginApply(c, todo[c], TRUE)
  /\ UNCHANGED <<shared, kindsLeft, base, reads, want, plan, cur, outcome, spent, calm>>

Ready(c, x) == MayPrecede(x, todo[c], loops[c], Needs(c, todo[c]))

Turn(c, x) == pc[c] = "apply" /\ x \in todo[c] /\ Ready(c, x)

Resolve(c, x) == todo' = [todo EXCEPT ![c] = @ \ {x}]

(* noop, a delete without consent, or a kind c has no provider for.          *)
Skipped(c, x) == \/ x.action = "noop"
                 \/ x.action = "delete" /\ ~ allow[c]
                 \/ x.addr.kind \notin Owned[c]

ApplySkip(c, x) ==
  /\ Turn(c, x) /\ Skipped(c, x)
  /\ Resolve(c, x)
  /\ UNCHANGED <<shared, pc, kindsLeft, base, entries, reads, loops, cur, kept,
                 outcome, spent, calm>>

(* The re-read before an update or a delete: what is live must still be what *)
(* the plan showed, or the change is aborted (remote-changed).               *)
Moved(x) == remote[x.id] = Absent \/ remote[x.id].val # x.before

ApplyCheck(c, x) ==
  /\ Turn(c, x) /\ ~ Skipped(c, x)
  /\ x.action \in {"update", "delete"}
  /\ IF Moved(x)
     THEN Resolve(c, x) /\ UNCHANGED <<pc, cur>>
     ELSE /\ cur' = [cur EXCEPT ![c] = {x}]
          /\ pc' = [pc EXCEPT ![c] = "write"]
          /\ UNCHANGED todo
  /\ UNCHANGED <<shared, kindsLeft, base, entries, reads, loops, kept, outcome,
                 spent, calm>>

(* Mutant of SetEntry: the id the remote answers is not recorded.            *)
ForgetEntry(c, a, i) == UNCHANGED entries

SetEntry(c, a, i) ==
  entries' = [entries EXCEPT ![c] =
                {e \in @ : e.addr # a} \cup {[addr |-> a, id |-> i]}]

ApplyCreate(c, x) ==
  /\ Turn(c, x) /\ ~ Skipped(c, x) /\ x.action = "create"
  /\ nextId \in Ids
  /\ remote' = [remote EXCEPT ![nextId] =
                  [kind |-> x.addr.kind, slug |-> x.addr.slug, val |-> x.after]]
  /\ nextId' = nextId + 1
  /\ SetEntry(c, x.addr, nextId)
  /\ Resolve(c, x)
  /\ Disturb(c)
  /\ UNCHANGED <<files, lock, pc, kindsLeft, base, reads, loops, cur, kept, outcome,
                 spent>>

(* A transport may also create anew an entity that vanished after the        *)
(* re-read; one that refuses to is a Fail.                                   *)
ApplyUpdate(c, x) ==
  /\ pc[c] = "write" /\ x \in cur[c] /\ x.action = "update"
  /\ remote' = [remote EXCEPT ![x.id] =
                  [kind |-> x.addr.kind, slug |-> x.addr.slug, val |-> x.after]]
  /\ SetEntry(c, x.addr, x.id)
  /\ Resolve(c, x)
  /\ cur' = [cur EXCEPT ![c] = {}]
  /\ pc' = [pc EXCEPT ![c] = "apply"]
  /\ Disturb(c)
  /\ UNCHANGED <<files, lock, nextId, kindsLeft, base, reads, loops, kept, outcome,
                 spent>>

ApplyDelete(c, x) ==
  /\ pc[c] = "write" /\ x \in cur[c] /\ x.action = "delete"
  /\ remote' = [remote EXCEPT ![x.id] = Absent]
  /\ entries' = [entries EXCEPT ![c] = {e \in @ : e.addr # x.addr}]
  /\ Resolve(c, x)
  /\ cur' = [cur EXCEPT ![c] = {}]
  /\ pc' = [pc EXCEPT ![c] = "apply"]
  /\ Disturb(c)
  /\ UNCHANGED <<files, lock, nextId, kindsLeft, base, reads, loops, kept, outcome,
                 spent>>

ApplyEnd(c) ==
  /\ pc[c] = "apply" /\ todo[c] = {}
  /\ lock' = entries[c]
  /\ End(c, "applied")
  /\ Disturb(c)
  /\ UNCHANGED <<files, remote, nextId, kept, spent>>

-----------------------------------------------------------------------------
(* The world around the engine *)

AllDisturbed == calm' = [d \in Clients |-> FALSE]

(* A user or an agent writes or removes a file of the working tree. *)
Edit(a, text) ==
  /\ Bounded("edits")
  /\ text # files[a]
  /\ files' = [files EXCEPT ![a] = text]
  /\ AllDisturbed
  /\ UNCHANGED <<lock, remote, nextId, pc, locals, kept, outcome>>

(* Somebody creates, changes or removes an entity on the remote itself. *)
External(to, next) ==
  /\ Bounded("external")
  /\ remote' = to /\ nextId' = next
  /\ AllDisturbed
  /\ UNCHANGED <<files, lock, pc, locals, kept, outcome>>

ExternalCreate(k, name, v) ==
  /\ nextId \in Ids
  /\ External([remote EXCEPT ![nextId] =
                 [kind |-> k, slug |-> [name |-> name, n |-> 1], val |-> v]],
              nextId + 1)

ExternalUpdate(i, v) ==
  /\ i \in Live /\ remote[i].val # v
  /\ External([remote EXCEPT ![i].val = v], nextId)

ExternalDelete(i) ==
  /\ i \in Live
  /\ External([remote EXCEPT ![i] = Absent], nextId)

-----------------------------------------------------------------------------
Init ==
  /\ files = [a \in Addr |-> NoFile]
  /\ lock = {}
  /\ remote = [i \in Ids |-> Absent]
  /\ nextId = 1
  /\ pc = [c \in Clients |-> "idle"]
  /\ kindsLeft = [c \in Clients |-> {}]
  /\ base = [c \in Clients |-> {}]
  /\ entries = [c \in Clients |-> {}]
  /\ reads = [c \in Clients |-> {}]
  /\ want = [c \in Clients |-> [a \in Addr |-> None]]
  /\ plan = [c \in Clients |-> {}]
  /\ todo = [c \in Clients |-> {}]
  /\ loops = [c \in Clients |-> {}]
  /\ cur = [c \in Clients |-> {}]
  /\ allow = [c \in Clients |-> FALSE]
  /\ outcome = [c \in Clients |-> "none"]
  /\ spent = [b \in DOMAIN Budget |-> 0]
  /\ calm = [c \in Clients |-> FALSE]

Start(c) ==
  \/ PullStart(c) \/ PlanStart(c) \/ DestroyStart(c)
  \/ \E d \in Clients, del \in BOOLEAN : ApplyStart(c, d, del)

(* One step of the operation c is running. *)
Step(c) ==
  \/ PullSeed(c) \/ PullEnd(c) \/ PlanEnd(c) \/ DestroyApply(c) \/ ApplyEnd(c)
  \/ \E k \in Kinds : PullList(c, k) \/ PlanList(c, k) \/ DestroyList(c, k)
  \/ \E i \in Ids : PullRead(c, i)
  \/ \E x \in todo[c] : ApplySkip(c, x) \/ ApplyCheck(c, x) \/ ApplyCreate(c, x)
  \/ \E x \in cur[c] : ApplyUpdate(c, x) \/ ApplyDelete(c, x)

World ==
  \/ \E a \in Editable, text \in Vals \cup {NoFile} : Edit(a, text)
  \/ \E k \in Kinds, name \in Names, v \in Vals : ExternalCreate(k, name, v)
  \/ \E i \in Ids, v \in Vals : ExternalUpdate(i, v)
  \/ \E i \in Ids : ExternalDelete(i)

Next ==
  \/ \E c \in Clients : Start(c) \/ Step(c) \/ Fail(c)
  \/ World

Spec == Init /\ [][Next]_vars

(* The runtime keeps scheduling a running fiber, and every provider call     *)
(* answers or fails.                                                         *)
FairSpec == Spec /\ \A c \in Clients : WF_vars(Step(c))

-----------------------------------------------------------------------------
(* Properties *)

TypeOK ==
  /\ files \in [Addr -> Vals \cup {NoFile, Skeleton}]
  /\ lock \subseteq Entry
  /\ remote \in [Ids -> Entity \cup {Absent}]
  /\ nextId \in 1..(MaxIds + 1)
  /\ pc \in [Clients -> Phase]
  /\ kindsLeft \in [Clients -> SUBSET Kinds]
  /\ base \in [Clients -> SUBSET Entry]
  /\ entries \in [Clients -> SUBSET Entry]
  /\ reads \in [Clients -> SUBSET Ids]
  /\ want \in [Clients -> [Addr -> Vals \cup {None}]]
  /\ plan \in [Clients -> SUBSET Change]
  /\ todo \in [Clients -> SUBSET Change]
  /\ loops \in [Clients -> SUBSET Change]
  /\ cur \in [Clients -> SUBSET Change]
  /\ allow \in [Clients -> BOOLEAN]
  /\ outcome \in [Clients -> Result]
  /\ spent \in [{"edits", "external", "ops"} -> Nat]
  /\ calm \in [Clients -> BOOLEAN]

(* Identity: whatever operations overlap, fail or apply stale plans, the     *)
(* lockfile never binds one slug of a kind to two remote ids.                *)
SlugsUnique(L) == \A e, f \in L : e.addr = f.addr => e = f

OneIdPerSlug == SlugsUnique(lock)

(* As long as a single client works on the lockfile, it never binds two      *)
(* slugs to one remote id either.                                            *)
OneSlugPerId == \A e, f \in lock : e.id = f.id /\ e.addr.kind = f.addr.kind => e = f

(* An apply (or destroy) of a plan computed with nobody else interfering     *)
(* since then reaches what the plan set out to: each desired file is live    *)
(* under the id the lockfile gives it, and with consent to delete nothing    *)
(* the lockfile owns beyond the files is still live.                         *)
LiveAt(a, v) == \E e \in lock : e.addr = a /\ remote[e.id] # Absent /\ remote[e.id].val = v

ApplyConverges ==
  \A c \in Clients :
    outcome[c] = "applied" /\ pc[c] = "idle" /\ calm[c] =>
      \A a \in {x \in Addr : x.kind \in Owned[c]} :
        IF want[c][a] # None THEN LiveAt(a, want[c][a])
        ELSE allow[c] => \A v \in Vals : ~ LiveAt(a, v)

(* A pull nobody interferes with leaves every live entity of its kinds in    *)
(* the lockfile and in the working tree, with its content.                   *)
PullMirrors ==
  \A c \in Clients :
    outcome[c] = "pulled" /\ pc[c] = "idle" /\ calm[c] =>
      \A i \in Live : remote[i].kind \in Owned[c] =>
        \E e \in lock : e.id = i /\ files[e.addr] = remote[i].val

(* No entity is orphaned: however far an apply (or destroy) of a fresh plan   *)
(* that nobody disturbs has come, every live entity the lockfile on disk     *)
(* owns is still named, under some slug, by the lockfile the apply builds    *)
(* and will write in its place: a create never takes the slug of an entity   *)
(* that is still live, and only entries of deleted entities are dropped.     *)
NothingOrphaned ==
  \A c \in Clients : pc[c] \in {"apply", "write"} /\ calm[c] =>
    \A e \in lock : remote[e.id] # Absent => \E f \in entries[c] : f.id = e.id

(* When the engine is about to create or update an entity, every address it  *)
(* refers to already has a remote id in the apply's context                  *)
(* (resolveRemoteId), and a live one if the plan wants that address.         *)
RefsResolved ==
  \A c \in Clients : pc[c] = "apply" /\ calm[c] =>
    \A x \in Upserts(todo[c]) \ loops[c] :
      Ready(c, x) /\ ~ Skipped(c, x) =>
        \A a \in Refs[x.after] :
          /\ a \in AddrsOf(entries[c])
          /\ want[c][a] # None => remote[LockId(entries[c], a)] # Absent

(* An operation changes no lockfile entry of a kind its engine has no        *)
(* provider for, if operations do not overlap.                               *)
OfKinds(L, ks) == {e \in L : e.addr.kind \in ks}

OthersKept ==
  [][\A c \in Clients : (PullSeed(c) \/ PullEnd(c) \/ ApplyEnd(c)) =>
       OfKinds(lock', Kinds \ Owned[c]) = OfKinds(lock, Kinds \ Owned[c])]_vars

(* Every operation ends, whatever the files refer to (cycles included).      *)
OperationsEnd == \A c \in Clients : pc[c] # "idle" ~> pc[c] = "idle"
=============================================================================
