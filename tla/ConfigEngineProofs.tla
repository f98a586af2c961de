------------------------- MODULE ConfigEngineProofs -------------------------
(* Proofs about ConfigEngine, for every value of its constants.             *)
EXTENDS ConfigEngine, TLAPS

-----------------------------------------------------------------------------
(* Type correctness *)

(* The changes a sort cannot reach are among those it sorts.                 *)
LEMMA UnsortedSubset ==
  ASSUME NEW S, NEW needs
  PROVE  Unsorted(S, needs) \subseteq S
BY DEF Unsorted, OnCycle, Upserts, Deletes

(* The lockfile maps an address to one of the remote's ids or to none.       *)
LEMMA LockIdType ==
  ASSUME NEW L \in SUBSET Entry, NEW a
  PROVE  LockId(L, a) \in Ids \cup {NoId}
<1>1. CASE \E e \in L : e.addr = a
  <2>1. (CHOOSE e \in L : e.addr = a) \in L
    BY <1>1
  <2> QED BY <1>1, <2>1 DEF LockId, Entry
<1>2. CASE ~ \E e \in L : e.addr = a
  BY <1>2 DEF LockId
<1> QED BY <1>1, <1>2

(* What a live id stands for is an entity.                                   *)
LEMMA LiveEntity ==
  ASSUME TypeOK, NEW i \in Live
  PROVE  i \in Ids /\ remote[i] \in Entity /\ remote[i].val \in Vals
BY DEF TypeOK, Live, Entity

(* diff yields changes, whatever lockfile and working tree it compares.      *)
LEMMA DiffType ==
  ASSUME TypeOK, NEW k \in Kinds, NEW L \in SUBSET Entry,
         NEW w \in [Addr -> Vals \cup {None}]
  PROVE  DiffKind(k, L, w) \subseteq Change
<1>1. ASSUME NEW a \in Desired(w)
      PROVE  DesiredChange(a, L, w) \in Change
  <2>1. a \in Addr /\ w[a] \in Vals
    BY DEF Desired
  <2>2. CASE LockId(L, a) \in LiveOf(a.kind)
    <3>1. LockId(L, a) \in Ids /\ remote[LockId(L, a)].val \in Vals
      BY <2>2, LiveEntity DEF LiveOf
    <3> QED BY <2>1, <2>2, <3>1 DEF DesiredChange, Change
  <2>3. CASE LockId(L, a) \notin LiveOf(a.kind)
    BY <2>1, <2>3 DEF DesiredChange, Change
  <2> QED BY <2>2, <2>3
<1>2. ASSUME NEW e \in LiveEntries(k, L)
      PROVE  DeleteOf(e) \in Change
  <2>1. e \in Entry /\ e.id \in Live
    BY DEF LiveEntries, LiveOf
  <2>2. e.addr \in Addr /\ e.id \in Ids /\ remote[e.id].val \in Vals
    BY <2>1, LiveEntity DEF Entry
  <2> QED BY <2>2 DEF DeleteOf, Change
<1> QED BY <1>1, <1>2 DEF DiffKind

LEMMA EndType ==
  ASSUME TypeOK, NEW c \in Clients, NEW result \in Result, End(c, result)
  PROVE  /\ pc' \in [Clients -> Phase] /\ outcome' \in [Clients -> Result]
         /\ kindsLeft' \in [Clients -> SUBSET Kinds]
         /\ base' \in [Clients -> SUBSET Entry]
         /\ entries' \in [Clients -> SUBSET Entry]
         /\ reads' \in [Clients -> SUBSET Ids]
         /\ todo' \in [Clients -> SUBSET Change]
         /\ loops' \in [Clients -> SUBSET Change]
         /\ cur' \in [Clients -> SUBSET Change]
BY DEF TypeOK, End, Phase

LEMMA BoundedType ==
  ASSUME TypeOK, NEW b \in {"edits", "external", "ops"}, Bounded(b)
  PROVE  spent' \in [{"edits", "external", "ops"} -> Nat]
BY DEF TypeOK, Bounded

(* The parts of an operation that starting it does not touch stay typed, and *)
(* so does everything a stuttering step leaves alone.                        *)
LEMMA TypeStutter == TypeOK /\ UNCHANGED vars => TypeOK'
BY DEF TypeOK, vars, shared, locals, kept

LEMMA InitType == Init => TypeOK
BY ConstantsOK DEF Init, TypeOK, Budget, Phase, Result, Entry, Change

LEMMA PullType ==
  ASSUME TypeOK, NEW c \in Clients,
         PullStart(c) \/ PullSeed(c) \/ PullEnd(c)
         \/ (\E k \in Kinds : PullList(c, k)) \/ (\E i \in Ids : PullRead(c, i))
  PROVE  TypeOK'
<1> USE DEF shared, locals, kept, Disturb
<1>1. CASE PullStart(c)
  <2>1. spent' \in [{"edits", "external", "ops"} -> Nat]
    BY <1>1, BoundedType DEF PullStart, Begin
  <2> QED BY <1>1, <2>1, ConstantsOK DEF TypeOK, PullStart, Carried, Phase
<1>2. CASE PullSeed(c)
  BY <1>2 DEF TypeOK, PullSeed, Phase
<1>3. CASE PullEnd(c)
  BY <1>3, EndType DEF TypeOK, PullEnd, Result
<1>4. ASSUME NEW k \in Kinds, PullList(c, k) PROVE TypeOK'
  <2>1. PICK slug \in [LiveOf(k) -> Slugs] :
          /\ files' = [a \in Addr |->
                         IF \E i \in LiveOf(k) : a = [kind |-> k, slug |-> slug[i]]
                         THEN Skeleton ELSE files[a]]
          /\ entries' = [entries EXCEPT ![c] =
               @ \cup {[addr |-> [kind |-> k, slug |-> slug[i]], id |-> i] : i \in LiveOf(k)}]
    BY <1>4 DEF PullList
  <2>2. LiveOf(k) \subseteq Ids
    BY DEF LiveOf, Live
  <2>3. {[addr |-> [kind |-> k, slug |-> slug[i]], id |-> i] : i \in LiveOf(k)} \subseteq Entry
    BY <2>2 DEF Entry, Addr
  <2>4. entries' \in [Clients -> SUBSET Entry] /\ files' \in [Addr -> Vals \cup {NoFile, Skeleton}]
    BY <2>1, <2>3 DEF TypeOK
  <2> QED BY <1>4, <2>2, <2>4 DEF TypeOK, PullList
<1>5. ASSUME NEW i \in Ids, PullRead(c, i) PROVE TypeOK'
  <2>1. files' \in [Addr -> Vals \cup {NoFile, Skeleton}]
    BY <1>5 DEF TypeOK, PullRead, Entity
  <2> QED BY <1>5, <2>1 DEF TypeOK, PullRead
<1> QED BY <1>1, <1>2, <1>3, <1>4, <1>5

LEMMA PlanType ==
  ASSUME TypeOK, NEW c \in Clients,
         PlanStart(c) \/ PlanEnd(c) \/ (\E k \in Kinds : PlanList(c, k))
  PROVE  TypeOK'
<1> USE DEF shared, locals, kept
<1>1. CASE PlanStart(c)
  <2>1. spent' \in [{"edits", "external", "ops"} -> Nat]
    BY <1>1, BoundedType DEF PlanStart, Begin
  <2>2. CASE Undecodable(c) \/ Dangling(c)
    BY <1>1, <2>1, <2>2 DEF TypeOK, PlanStart, Result
  <2>3. CASE ~ (Undecodable(c) \/ Dangling(c))
    <3>1. Decoded(c) \in [Addr -> Vals \cup {None}]
      BY <2>3 DEF TypeOK, Decoded, Undecodable
    <3>2. Owned[c] \subseteq Kinds
      BY ConstantsOK
    <3>3. /\ pc' = [pc EXCEPT ![c] = "planList"]
          /\ kindsLeft' = [kindsLeft EXCEPT ![c] = Owned[c]]
          /\ base' = [base EXCEPT ![c] = lock]
          /\ want' = [want EXCEPT ![c] = Decoded(c)]
          /\ calm' = [calm EXCEPT ![c] = TRUE]
          /\ UNCHANGED <<shared, entries, reads, todo, loops, cur, plan, allow,
                          outcome>>
      BY <1>1, <2>3 DEF PlanStart
    <3> QED BY <2>1, <3>1, <3>2, <3>3 DEF TypeOK, Phase
  <2> QED BY <2>2, <2>3
<1>2. CASE PlanEnd(c)
  BY <1>2, EndType DEF TypeOK, PlanEnd, Result
<1>3. ASSUME NEW k \in Kinds, PlanList(c, k) PROVE TypeOK'
  <2>1. DiffKind(k, base[c], want[c]) \subseteq Change
    BY DiffType DEF TypeOK
  <2> QED BY <1>3, <2>1 DEF TypeOK, PlanList
<1> QED BY <1>1, <1>2, <1>3

(* What ApplyStart and DestroyApply set up.                                  *)
LEMMA BeginApplyType ==
  ASSUME TypeOK, NEW c \in Clients, NEW changes \in SUBSET Change,
         NEW del \in BOOLEAN, BeginApply(c, changes, del)
  PROVE  /\ pc' \in [Clients -> Phase]
         /\ entries' \in [Clients -> SUBSET Entry]
         /\ todo' \in [Clients -> SUBSET Change]
         /\ loops' \in [Clients -> SUBSET Change]
         /\ allow' \in [Clients -> BOOLEAN]
<1>1. Unsorted(changes, Needs(c, changes)) \in SUBSET Change
  BY UnsortedSubset
<1> QED BY <1>1 DEF TypeOK, BeginApply, Phase

LEMMA SetEntryType ==
  ASSUME TypeOK, NEW c \in Clients, NEW a \in Addr, NEW i \in Ids, SetEntry(c, a, i)
  PROVE  entries' \in [Clients -> SUBSET Entry]
BY DEF TypeOK, SetEntry, Entry

LEMMA ChangeFields ==
  ASSUME NEW x \in Change
  PROVE  /\ x.addr \in Addr /\ x.addr.kind \in Kinds /\ x.addr.slug \in Slugs
         /\ x.action # "delete" => x.after \in Vals
         /\ x.action \in {"update", "delete", "noop"} => x.id \in Ids /\ x.before \in Vals
         /\ x.action \in {"create", "update", "noop", "delete"}
BY DEF Change, Addr

LEMMA ApplyBeginsType ==
  ASSUME TypeOK, NEW c \in Clients,
         DestroyStart(c) \/ DestroyApply(c)
         \/ (\E d \in Clients, del \in BOOLEAN : ApplyStart(c, d, del))
         \/ (\E k \in Kinds : DestroyList(c, k))
  PROVE  TypeOK'
<1> USE DEF shared, locals, kept
<1>1. ASSUME NEW d \in Clients, NEW del \in BOOLEAN, ApplyStart(c, d, del)
      PROVE  TypeOK'
  <2>1. spent' \in [{"edits", "external", "ops"} -> Nat]
    BY <1>1, BoundedType DEF ApplyStart, Begin
  <2>2. BeginApply(c, plan[d], del) /\ plan[d] \in SUBSET Change
    BY <1>1 DEF TypeOK, ApplyStart
  <2>3. calm' \in [Clients -> BOOLEAN]
    BY <1>1 DEF TypeOK, ApplyStart
  <2>4. /\ pc' \in [Clients -> Phase]
        /\ entries' \in [Clients -> SUBSET Entry]
        /\ todo' \in [Clients -> SUBSET Change]
        /\ loops' \in [Clients -> SUBSET Change]
        /\ allow' \in [Clients -> BOOLEAN]
    BY <2>2, BeginApplyType
  <2> QED BY <1>1, <2>1, <2>3, <2>4 DEF TypeOK, ApplyStart
<1>2. CASE DestroyStart(c)
  <2>1. spent' \in [{"edits", "external", "ops"} -> Nat]
    BY <1>2, BoundedType DEF DestroyStart, Begin
  <2>2. Owned[c] \subseteq Kinds
    BY ConstantsOK
  <2> QED BY <1>2, <2>1, <2>2 DEF TypeOK, DestroyStart, Phase
<1>3. CASE DestroyApply(c)
  BY <1>3, BeginApplyType DEF TypeOK, DestroyApply
<1>4. ASSUME NEW k \in Kinds, DestroyList(c, k) PROVE TypeOK'
  <2>1. ASSUME NEW e \in LiveEntries(k, base[c]) PROVE DeleteOf(e) \in Change
    <3>1. e \in Entry /\ e.id \in Live
      BY DEF LiveEntries, LiveOf, TypeOK
    <3>2. e.addr \in Addr /\ e.id \in Ids /\ remote[e.id].val \in Vals
      BY <3>1, LiveEntity DEF Entry
    <3> QED BY <3>2 DEF DeleteOf, Change
  <2> QED BY <1>4, <2>1 DEF TypeOK, DestroyList
<1> QED BY <1>1, <1>2, <1>3, <1>4

LEMMA ApplyStepType ==
  ASSUME TypeOK, NEW c \in Clients,
         ApplyEnd(c)
         \/ (\E x \in todo[c] : ApplySkip(c, x) \/ ApplyCheck(c, x) \/ ApplyCreate(c, x))
         \/ (\E x \in cur[c] : ApplyUpdate(c, x) \/ ApplyDelete(c, x))
  PROVE  TypeOK'
<1> USE DEF shared, kept, Disturb, Resolve
<1>1. CASE ApplyEnd(c)
  BY <1>1, EndType DEF TypeOK, ApplyEnd, Result
<1>2. ASSUME NEW x \in todo[c], ApplySkip(c, x) PROVE TypeOK'
  BY <1>2 DEF TypeOK, ApplySkip
<1>3. ASSUME NEW x \in todo[c], ApplyCheck(c, x) PROVE TypeOK'
  <2>1. CASE Moved(x)
    <3>1. /\ todo' = [todo EXCEPT ![c] = @ \ {x}]
          /\ UNCHANGED <<shared, pc, cur, kindsLeft, base, entries, reads, loops, kept,
                         outcome, spent, calm>>
      BY <1>3, <2>1 DEF ApplyCheck
    <3> QED BY <3>1 DEF TypeOK
  <2>2. CASE ~ Moved(x)
    <3>1. x \in Change
      BY DEF TypeOK
    <3>2. /\ cur' = [cur EXCEPT ![c] = {x}]
          /\ pc' = [pc EXCEPT ![c] = "write"]
          /\ UNCHANGED <<shared, kindsLeft, base, entries, reads, todo, loops, kept,
                         outcome, spent, calm>>
      BY <1>3, <2>2 DEF ApplyCheck
    <3> QED BY <3>1, <3>2 DEF TypeOK, Phase
  <2> QED BY <2>1, <2>2
<1>4. ASSUME NEW x \in todo[c], ApplyCreate(c, x) PROVE TypeOK'
  <2>1. x \in Change /\ x.action = "create" /\ nextId \in Ids
    BY <1>4 DEF TypeOK, ApplyCreate
  <2>2. x.addr \in Addr /\ [kind |-> x.addr.kind, slug |-> x.addr.slug, val |-> x.after] \in Entity
    BY <2>1, ChangeFields DEF Entity
  <2>3. remote' \in [Ids -> Entity \cup {Absent}]
    BY <1>4, <2>2 DEF TypeOK, ApplyCreate
  <2>4. nextId' \in 1..(MaxIds + 1)
    BY <1>4, <2>1, ConstantsOK DEF ApplyCreate, Ids
  <2>5. entries' \in [Clients -> SUBSET Entry]
    BY <1>4, <2>1, <2>2, SetEntryType DEF ApplyCreate
  <2> QED BY <1>4, <2>3, <2>4, <2>5 DEF TypeOK, ApplyCreate
<1>5. ASSUME NEW x \in cur[c], ApplyUpdate(c, x) PROVE TypeOK'
  <2>1. x \in Change /\ x.action = "update"
    BY <1>5 DEF TypeOK, ApplyUpdate
  <2>2. /\ x.addr \in Addr /\ x.id \in Ids
        /\ [kind |-> x.addr.kind, slug |-> x.addr.slug, val |-> x.after] \in Entity
    BY <2>1, ChangeFields DEF Entity
  <2>3. remote' \in [Ids -> Entity \cup {Absent}]
    BY <1>5, <2>2 DEF TypeOK, ApplyUpdate
  <2>4. entries' \in [Clients -> SUBSET Entry]
    BY <1>5, <2>2, SetEntryType DEF ApplyUpdate
  <2> QED BY <1>5, <2>3, <2>4 DEF TypeOK, ApplyUpdate, Phase
<1>6. ASSUME NEW x \in cur[c], ApplyDelete(c, x) PROVE TypeOK'
  BY <1>6 DEF TypeOK, ApplyDelete, Phase
<1> QED BY <1>1, <1>2, <1>3, <1>4, <1>5, <1>6

LEMMA WorldType == TypeOK /\ World => TypeOK'
<1> SUFFICES ASSUME TypeOK, World PROVE TypeOK'
  OBVIOUS
<1> USE DEF shared, locals, kept, AllDisturbed
<1>1. ASSUME NEW a \in Editable, NEW text \in Vals \cup {NoFile}, Edit(a, text)
      PROVE  TypeOK'
  <2>1. spent' \in [{"edits", "external", "ops"} -> Nat]
    BY <1>1, BoundedType DEF Edit
  <2> QED BY <1>1, <2>1 DEF TypeOK, Edit
<1>2. ASSUME NEW to \in [Ids -> Entity \cup {Absent}], NEW next \in 1..(MaxIds + 1),
             External(to, next)
      PROVE  TypeOK'
  <2>1. spent' \in [{"edits", "external", "ops"} -> Nat]
    BY <1>2, BoundedType DEF External
  <2> QED BY <1>2, <2>1 DEF TypeOK, External
<1>3. ASSUME NEW k \in Kinds, NEW name \in Names, NEW v \in Vals, ExternalCreate(k, name, v)
      PROVE  TypeOK'
  <2>1. nextId \in Ids /\ nextId + 1 \in 1..(MaxIds + 1)
    BY <1>3, ConstantsOK DEF ExternalCreate, Ids
  <2> DEFINE new == [kind |-> k, slug |-> [name |-> name, n |-> 1], val |-> v]
  <2>2. new \in Entity
    BY ConstantsOK DEF Entity, Slugs
  <2>3. [remote EXCEPT ![nextId] = new] \in [Ids -> Entity \cup {Absent}]
    BY <2>1, <2>2 DEF TypeOK
  <2> QED BY <1>2, <1>3, <2>1, <2>3 DEF ExternalCreate
<1>4. ASSUME NEW i \in Ids, NEW v \in Vals, ExternalUpdate(i, v) PROVE TypeOK'
  <2>1. remote[i] \in Entity
    BY <1>4, LiveEntity DEF ExternalUpdate
  <2>2. [remote[i] EXCEPT !.val = v] \in Entity
    BY <2>1 DEF Entity
  <2>3. [remote EXCEPT ![i].val = v] \in [Ids -> Entity \cup {Absent}]
    BY <2>2 DEF TypeOK
  <2>4. nextId \in 1..(MaxIds + 1)
    BY DEF TypeOK
  <2> QED BY <1>2, <1>4, <2>3, <2>4 DEF ExternalUpdate
<1>5. ASSUME NEW i \in Ids, ExternalDelete(i) PROVE TypeOK'
  <2>1. [remote EXCEPT ![i] = Absent] \in [Ids -> Entity \cup {Absent}]
    BY DEF TypeOK
  <2>2. nextId \in 1..(MaxIds + 1)
    BY DEF TypeOK
  <2> QED BY <1>2, <1>5, <2>1, <2>2 DEF ExternalDelete
<1> QED BY <1>1, <1>3, <1>4, <1>5 DEF World

LEMMA NextType == TypeOK /\ [Next]_vars => TypeOK'
<1> SUFFICES ASSUME TypeOK, [Next]_vars PROVE TypeOK'
  OBVIOUS
<1>1. ASSUME NEW c \in Clients, Start(c) PROVE TypeOK'
  BY <1>1, PullType, PlanType, ApplyBeginsType DEF Start
<1>2. ASSUME NEW c \in Clients, Step(c) PROVE TypeOK'
  BY <1>2, PullType, PlanType, ApplyBeginsType, ApplyStepType DEF Step
<1>3. ASSUME NEW c \in Clients, Fail(c) PROVE TypeOK'
  BY <1>3, EndType DEF TypeOK, Fail, shared, kept, Result
<1> QED BY <1>1, <1>2, <1>3, WorldType, TypeStutter DEF Next

(* Every reachable state is well typed, for every set of clients and kinds   *)
(* and every bound.                                                          *)
THEOREM TypeCorrect == Spec => []TypeOK
<1>1. Init => TypeOK
  BY InitType
<1>2. TypeOK /\ [Next]_vars => TypeOK'
  BY NextType
<1> QED BY <1>1, <1>2, PTL DEF Spec

-----------------------------------------------------------------------------
(* The lockfile keeps one remote id per slug, for every number of clients    *)
(* and whatever operations overlap.                                          *)
(*                                                                           *)
(* The lockfile is only ever replaced by what some operation has built from  *)
(* the lockfile it read, so the invariant must also say that of every        *)
(* operation's copies, and that pull lists each kind into a copy that holds  *)
(* no entry of that kind yet.                                                *)

Unlisted(c) == \A e \in entries[c] : e.addr.kind \notin kindsLeft[c]

SlugInv ==
  /\ SlugsUnique(lock)
  /\ \A c \in Clients : SlugsUnique(base[c])
  /\ \A c \in Clients : SlugsUnique(entries[c])
  /\ \A c \in Clients : pc[c] = "pullList" => kindsLeft[c] \subseteq Owned[c] /\ Unlisted(c)

-----------------------------------------------------------------------------
(* Two entities of one listing never get the same slug.                      *)
LEMMA AssignedApart ==
  ASSUME NEW k \in Kinds, NEW L \in SUBSET Entry, SlugsUnique(L),
         NEW slug \in [LiveOf(k) -> Slugs], AssignSlugs(slug, k, L),
         NEW i \in LiveOf(k), NEW j \in LiveOf(k), slug[i] = slug[j]
  PROVE  i = j
<1> DEFINE Known(n) == \E e \in L : e.id = n /\ e.addr.kind = k
           Earlier(n) == {slug[m] : m \in {x \in LiveOf(k) : x < n}}
<1>1. DOMAIN slug = LiveOf(k) /\ LiveOf(k) \subseteq Int
  BY ConstantsOK DEF LiveOf, Live, Ids
<1>2. ASSUME NEW n \in LiveOf(k), Known(n)
      PROVE  [addr |-> [kind |-> k, slug |-> slug[n]], id |-> n] \in L
  BY <1>1, <1>2 DEF AssignSlugs
<1>3. ASSUME NEW n \in LiveOf(k), Known(n)
      PROVE  slug[n] \in UsedSlugs(k, L)
  <2> DEFINE e == [addr |-> [kind |-> k, slug |-> slug[n]], id |-> n]
  <2>1. e \in L /\ e.addr.kind = k /\ e.addr.slug = slug[n]
    BY <1>2, <1>3
  <2> QED BY <2>1 DEF UsedSlugs
<1>4. ASSUME NEW n \in LiveOf(k), ~ Known(n)
      PROVE  slug[n] \notin UsedSlugs(k, L) \cup Earlier(n)
  BY <1>1, <1>4 DEF AssignSlugs, Dedupe
<1>5. CASE Known(i) /\ Known(j)
  <2>1. [addr |-> [kind |-> k, slug |-> slug[i]], id |-> i]
          = [addr |-> [kind |-> k, slug |-> slug[j]], id |-> j]
    BY <1>2, <1>5 DEF SlugsUnique
  <2> QED BY <2>1
<1>6. CASE Known(i) # Known(j)
  BY <1>3, <1>4, <1>6
<1>7. CASE ~ Known(i) /\ ~ Known(j)
  <2>1. ~ (i < j) /\ ~ (j < i)
    BY <1>4, <1>7
  <2> QED BY <1>1, <2>1
<1> QED BY <1>5, <1>6, <1>7

-----------------------------------------------------------------------------
(* Steps by what they do to the lockfile and its copies                      *)

LEMMA KeepsCopies ==
  ASSUME SlugInv, UNCHANGED <<lock, base, entries, kindsLeft>>,
         \A d \in Clients : pc'[d] = "pullList" => pc[d] = "pullList"
  PROVE  SlugInv'
BY DEF SlugInv, Unlisted

LEMMA EndsWith ==
  ASSUME TypeOK, SlugInv, NEW c \in Clients, NEW result, End(c, result),
         lock' = lock \/ lock' = entries[c]
  PROVE  SlugInv'
<1>1. /\ pc' = [pc EXCEPT ![c] = "idle"]
      /\ kindsLeft' = [kindsLeft EXCEPT ![c] = {}]
      /\ base' = [base EXCEPT ![c] = {}] /\ entries' = [entries EXCEPT ![c] = {}]
  BY DEF End
<1>2. SlugsUnique(lock')
  BY DEF SlugInv, SlugsUnique
<1>3. ASSUME NEW d \in Clients
      PROVE  /\ SlugsUnique(base'[d]) /\ SlugsUnique(entries'[d])
             /\ pc'[d] = "pullList" => /\ kindsLeft'[d] \subseteq Owned[d]
                                       /\ \A e \in entries'[d] : e.addr.kind \notin kindsLeft'[d]
  BY <1>1 DEF TypeOK, SlugInv, SlugsUnique, Unlisted
<1> QED BY <1>2, <1>3 DEF SlugInv, SlugsUnique, Unlisted

(* A client that is not listing a pull may change its own copies.            *)
LEMMA ChangesCopies ==
  ASSUME TypeOK, SlugInv, NEW c \in Clients,
         lock' = lock,
         SlugsUnique(base'[c]), SlugsUnique(entries'[c]),
         \A d \in Clients \ {c} : /\ base'[d] = base[d] /\ entries'[d] = entries[d]
                                  /\ kindsLeft'[d] = kindsLeft[d] /\ pc'[d] = pc[d],
         pc'[c] = "pullList" => kindsLeft'[c] \subseteq Owned[c] /\ Unlisted(c)'
  PROVE  SlugInv'
<1>1. ASSUME NEW d \in Clients
      PROVE  /\ SlugsUnique(base'[d]) /\ SlugsUnique(entries'[d])
             /\ pc'[d] = "pullList" => kindsLeft'[d] \subseteq Owned[d] /\ Unlisted(d)'
  BY DEF SlugInv, Unlisted
<1> QED BY <1>1 DEF SlugInv

LEMMA EntrySet ==
  ASSUME TypeOK, SlugInv, NEW c \in Clients, NEW a, NEW i, SetEntry(c, a, i)
  PROVE  SlugsUnique(entries'[c]) /\ \A d \in Clients \ {c} : entries'[d] = entries[d]
<1>1. entries'[c] = {e \in entries[c] : e.addr # a} \cup {[addr |-> a, id |-> i]}
  BY DEF TypeOK, SetEntry
<1>2. SlugsUnique(entries[c])
  BY DEF SlugInv
<1>3. \A d \in Clients \ {c} : entries'[d] = entries[d]
  BY DEF TypeOK, SetEntry
<1> QED BY <1>1, <1>2, <1>3 DEF SlugsUnique

-----------------------------------------------------------------------------
LEMMA PullSlugs ==
  ASSUME TypeOK, SlugInv, NEW c \in Clients,
         PullStart(c) \/ PullSeed(c) \/ PullEnd(c)
         \/ (\E k \in Kinds : PullList(c, k)) \/ (\E i \in Ids : PullRead(c, i))
  PROVE  SlugInv'
<1>1. CASE PullStart(c)
  <2>1. /\ base' = [base EXCEPT ![c] = lock] /\ lock' = lock
        /\ entries' = [entries EXCEPT ![c] = {e \in lock : e.addr.kind \notin Owned[c]}]
        /\ kindsLeft' = [kindsLeft EXCEPT ![c] = Owned[c]]
        /\ pc' = [pc EXCEPT ![c] = "pullList"]
    BY <1>1 DEF PullStart, Carried, shared
  <2>2. /\ base'[c] = lock /\ kindsLeft'[c] = Owned[c]
        /\ entries'[c] = {e \in lock : e.addr.kind \notin Owned[c]}
    BY <2>1 DEF TypeOK
  <2>3. \A d \in Clients \ {c} : /\ base'[d] = base[d] /\ entries'[d] = entries[d]
                                 /\ kindsLeft'[d] = kindsLeft[d] /\ pc'[d] = pc[d]
    BY <2>1 DEF TypeOK
  <2>4. SlugsUnique(base'[c]) /\ SlugsUnique(entries'[c]) /\ Unlisted(c)'
    BY <2>2 DEF SlugInv, SlugsUnique, Unlisted
  <2> QED BY <2>1, <2>2, <2>3, <2>4, ChangesCopies
<1>2. CASE PullSeed(c)
  <2>1. lock' = entries[c] /\ UNCHANGED <<base, entries, kindsLeft>>
    BY <1>2 DEF PullSeed, locals
  <2>2. \A d \in Clients : pc'[d] = "pullList" => pc[d] = "pullList"
    BY <1>2 DEF PullSeed, TypeOK
  <2> QED BY <2>1, <2>2 DEF SlugInv, SlugsUnique, Unlisted
<1>3. CASE PullEnd(c)
  BY <1>3, EndsWith DEF PullEnd
<1>4. ASSUME NEW k \in Kinds, PullList(c, k) PROVE SlugInv'
  <2>1. PICK slug \in [LiveOf(k) -> Slugs] :
          /\ AssignSlugs(slug, k, base[c])
          /\ entries' = [entries EXCEPT ![c] =
               @ \cup {[addr |-> [kind |-> k, slug |-> slug[i]], id |-> i] : i \in LiveOf(k)}]
    BY <1>4 DEF PullList
  <2> DEFINE listed == {[addr |-> [kind |-> k, slug |-> slug[i]], id |-> i] : i \in LiveOf(k)}
  <2>2. /\ pc[c] = "pullList" /\ k \in kindsLeft[c] /\ UNCHANGED <<pc, lock, base>>
        /\ kindsLeft' = [kindsLeft EXCEPT ![c] = @ \ {k}]
    BY <1>4 DEF PullList
  <2>3. entries'[c] = entries[c] \cup listed /\ kindsLeft'[c] = kindsLeft[c] \ {k}
    BY <2>1, <2>2 DEF TypeOK
  <2>4. \A e, f \in listed : e.addr = f.addr => e = f
    <3> SUFFICES ASSUME NEW i \in LiveOf(k), NEW j \in LiveOf(k), slug[i] = slug[j]
                 PROVE  i = j
      OBVIOUS
    <3>1. base[c] \in SUBSET Entry /\ SlugsUnique(base[c])
      BY DEF TypeOK, SlugInv
    <3> QED BY <2>1, <3>1, AssignedApart
  <2>5. \A e \in listed : e.addr.kind = k
    OBVIOUS
  <2>6. \A e \in entries[c] : e.addr.kind \notin kindsLeft[c]
    BY <2>2 DEF SlugInv, Unlisted
  <2>7. SlugsUnique(entries'[c])
    BY <2>2, <2>3, <2>4, <2>5, <2>6 DEF SlugInv, SlugsUnique
  <2>8. kindsLeft'[c] \subseteq Owned[c] /\ Unlisted(c)'
    BY <2>2, <2>3, <2>5, <2>6 DEF SlugInv, Unlisted
  <2>9. \A d \in Clients \ {c} : /\ base'[d] = base[d] /\ entries'[d] = entries[d]
                                 /\ kindsLeft'[d] = kindsLeft[d] /\ pc'[d] = pc[d]
    BY <2>1, <2>2 DEF TypeOK
  <2>10. SlugsUnique(base'[c])
    BY <2>2 DEF SlugInv
  <2> QED BY <2>2, <2>7, <2>8, <2>9, <2>10, ChangesCopies
<1>5. ASSUME NEW i \in Ids, PullRead(c, i) PROVE SlugInv'
  BY <1>5, KeepsCopies DEF PullRead
<1> QED BY <1>1, <1>2, <1>3, <1>4, <1>5

LEMMA PlanSlugs ==
  ASSUME TypeOK, SlugInv, NEW c \in Clients,
         PlanStart(c) \/ PlanEnd(c) \/ (\E k \in Kinds : PlanList(c, k))
         \/ DestroyStart(c) \/ (\E k \in Kinds : DestroyList(c, k))
  PROVE  SlugInv'
<1>1. ASSUME lock' = lock, entries' = entries, base' = [base EXCEPT ![c] = lock],
             kindsLeft' = [kindsLeft EXCEPT ![c] = Owned[c]], NEW phase \in {"planList", "destroyList"},
             pc' = [pc EXCEPT ![c] = phase]
      PROVE  SlugInv'
  <2>1. SlugsUnique(base'[c]) /\ SlugsUnique(entries'[c]) /\ pc'[c] # "pullList"
    BY <1>1 DEF TypeOK, SlugInv
  <2>2. \A d \in Clients \ {c} : /\ base'[d] = base[d] /\ entries'[d] = entries[d]
                                 /\ kindsLeft'[d] = kindsLeft[d] /\ pc'[d] = pc[d]
    BY <1>1 DEF TypeOK
  <2> QED BY <1>1, <2>1, <2>2, ChangesCopies
<1>2. CASE PlanStart(c)
  <2>1. CASE Undecodable(c) \/ Dangling(c)
    <3>1. UNCHANGED <<lock, pc, base, entries, kindsLeft>>
      BY <1>2, <2>1 DEF PlanStart, shared, locals
    <3> QED BY <3>1, KeepsCopies
  <2>2. CASE ~ (Undecodable(c) \/ Dangling(c))
    <3>1. /\ lock' = lock /\ entries' = entries /\ base' = [base EXCEPT ![c] = lock]
          /\ kindsLeft' = [kindsLeft EXCEPT ![c] = Owned[c]]
          /\ pc' = [pc EXCEPT ![c] = "planList"]
      BY <1>2, <2>2 DEF PlanStart, shared
    <3> QED BY <3>1, <1>1
  <2> QED BY <2>1, <2>2
<1>3. CASE DestroyStart(c)
  BY <1>1, <1>3 DEF DestroyStart, shared
<1>4. CASE PlanEnd(c)
  BY <1>4, EndsWith DEF PlanEnd, shared
<1>5. ASSUME NEW k \in Kinds, PlanList(c, k) \/ DestroyList(c, k) PROVE SlugInv'
  <2>1. /\ UNCHANGED <<lock, pc, base, entries>> /\ pc[c] # "pullList"
        /\ kindsLeft' = [kindsLeft EXCEPT ![c] = @ \ {k}]
    BY <1>5 DEF PlanList, DestroyList, shared
  <2>2. \A d \in Clients \ {c} : kindsLeft'[d] = kindsLeft[d]
    BY <2>1 DEF TypeOK
  <2>3. SlugsUnique(base'[c]) /\ SlugsUnique(entries'[c])
    BY <2>1 DEF SlugInv
  <2> QED BY <2>1, <2>2, <2>3, ChangesCopies
<1> QED BY <1>2, <1>3, <1>4, <1>5

LEMMA ApplySlugs ==
  ASSUME TypeOK, SlugInv, NEW c \in Clients,
         ApplyEnd(c) \/ DestroyApply(c)
         \/ (\E d \in Clients, del \in BOOLEAN : ApplyStart(c, d, del))
         \/ (\E x \in todo[c] : ApplySkip(c, x) \/ ApplyCheck(c, x) \/ ApplyCreate(c, x))
         \/ (\E x \in cur[c] : ApplyUpdate(c, x) \/ ApplyDelete(c, x))
  PROVE  SlugInv'
<1>1. CASE ApplyEnd(c)
  BY <1>1, EndsWith DEF ApplyEnd
<1>2. ASSUME NEW changes, NEW del, BeginApply(c, changes, del), UNCHANGED <<lock, base, kindsLeft>>
      PROVE  SlugInv'
  <2>1. entries' = [entries EXCEPT ![c] = lock] /\ pc' = [pc EXCEPT ![c] = "apply"]
    BY <1>2 DEF BeginApply
  <2>2. entries'[c] = lock /\ pc'[c] = "apply"
    BY <2>1 DEF TypeOK
  <2>3. \A d \in Clients \ {c} : entries'[d] = entries[d] /\ pc'[d] = pc[d]
    BY <2>1 DEF TypeOK
  <2>4. SlugsUnique(base'[c]) /\ SlugsUnique(entries'[c])
    BY <1>2, <2>2 DEF SlugInv
  <2> QED BY <1>2, <2>2, <2>3, <2>4, ChangesCopies
<1>3. CASE DestroyApply(c)
  BY <1>2, <1>3 DEF DestroyApply, shared
<1>4. ASSUME NEW d \in Clients, NEW del \in BOOLEAN, ApplyStart(c, d, del) PROVE SlugInv'
  BY <1>2, <1>4 DEF ApplyStart, shared
<1>5. ASSUME NEW x \in todo[c], ApplySkip(c, x) PROVE SlugInv'
  BY <1>5, KeepsCopies DEF ApplySkip, shared
<1>6. ASSUME NEW x \in todo[c], ApplyCheck(c, x) PROVE SlugInv'
  <2>1. UNCHANGED <<lock, base, entries, kindsLeft>>
    BY <1>6 DEF ApplyCheck, shared
  <2>2. pc' = pc \/ pc' = [pc EXCEPT ![c] = "write"]
    BY <1>6 DEF ApplyCheck
  <2>3. \A d \in Clients : pc'[d] = "pullList" => pc[d] = "pullList"
    BY <2>2 DEF TypeOK
  <2> QED BY <2>1, <2>3, KeepsCopies
<1>7. ASSUME NEW a, NEW i, SetEntry(c, a, i), UNCHANGED <<lock, base, kindsLeft>>,
             pc' = [pc EXCEPT ![c] = "apply"]
      PROVE  SlugInv'
  <2>1. pc'[c] = "apply" /\ \A d \in Clients \ {c} : pc'[d] = pc[d]
    BY <1>7 DEF TypeOK
  <2>2. SlugsUnique(base'[c])
    BY <1>7 DEF SlugInv
  <2> QED BY <1>7, <2>1, <2>2, EntrySet, ChangesCopies
<1>8. ASSUME NEW x \in todo[c], ApplyCreate(c, x) PROVE SlugInv'
  <2>1. pc' = [pc EXCEPT ![c] = "apply"]
    BY <1>8 DEF ApplyCreate, Turn, TypeOK
  <2> QED BY <1>7, <1>8, <2>1 DEF ApplyCreate
<1>9. ASSUME NEW x \in cur[c], ApplyUpdate(c, x) PROVE SlugInv'
  BY <1>7, <1>9 DEF ApplyUpdate
<1>10. ASSUME NEW x \in cur[c], ApplyDelete(c, x) PROVE SlugInv'
  <2>1. /\ UNCHANGED <<lock, base, kindsLeft>> /\ pc' = [pc EXCEPT ![c] = "apply"]
        /\ entries' = [entries EXCEPT ![c] = {e \in @ : e.addr # x.addr}]
    BY <1>10 DEF ApplyDelete
  <2>2. pc'[c] = "apply" /\ entries'[c] \subseteq entries[c]
    BY <2>1 DEF TypeOK
  <2>3. \A d \in Clients \ {c} : pc'[d] = pc[d] /\ entries'[d] = entries[d]
    BY <2>1 DEF TypeOK
  <2>4. SlugsUnique(base'[c]) /\ SlugsUnique(entries'[c])
    BY <2>1, <2>2 DEF SlugInv, SlugsUnique
  <2> QED BY <2>1, <2>2, <2>3, <2>4, ChangesCopies
<1> QED BY <1>1, <1>3, <1>4, <1>5, <1>6, <1>8, <1>9, <1>10

LEMMA WorldSlugs ==
  ASSUME SlugInv, World PROVE SlugInv'
<1>1. UNCHANGED <<lock, base, entries, kindsLeft, pc>>
  BY DEF World, Edit, External, ExternalCreate, ExternalUpdate, ExternalDelete, locals
<1> QED BY <1>1, KeepsCopies

LEMMA NextSlugs == TypeOK /\ SlugInv /\ [Next]_vars => SlugInv'
<1> SUFFICES ASSUME TypeOK, SlugInv, [Next]_vars PROVE SlugInv'
  OBVIOUS
<1>1. ASSUME NEW c \in Clients, Start(c) \/ Step(c) PROVE SlugInv'
  BY <1>1, PullSlugs, PlanSlugs, ApplySlugs DEF Start, Step
<1>2. ASSUME NEW c \in Clients, Fail(c) PROVE SlugInv'
  BY <1>2, EndsWith DEF Fail, shared
<1>3. CASE UNCHANGED vars
  BY <1>3, KeepsCopies DEF vars, shared, locals
<1> QED BY <1>1, <1>2, <1>3, WorldSlugs DEF Next

(* The lockfile never binds one slug of a kind to two remote ids, however    *)
(* many clients run pulls, plans and applies that overlap, fail or apply     *)
(* stale plans.                                                              *)
THEOREM LockfileIdentity == Spec => []OneIdPerSlug
<1>1. Init => SlugInv
  BY DEF Init, SlugInv, SlugsUnique
<1>2. TypeOK /\ SlugInv /\ [Next]_vars => SlugInv'
  BY NextSlugs
<1>3. SlugInv => OneIdPerSlug
  BY DEF SlugInv, OneIdPerSlug
<1> QED BY <1>1, <1>2, <1>3, TypeCorrect, PTL DEF Spec

-----------------------------------------------------------------------------
(* What one operation of the config engine may do to what it does not own:  *)
(* lockfile entries of foreign kinds are carried through untouched.          *)

Runs(c) == Start(c) \/ Step(c) \/ Fail(c)

-----------------------------------------------------------------------------
(* What others do to a client: nothing to its own variables, and nothing to  *)
(* what all share unless they disturb it.                                    *)
Same(d) ==
  /\ pc'[d] = pc[d] /\ kindsLeft'[d] = kindsLeft[d] /\ base'[d] = base[d]
  /\ entries'[d] = entries[d] /\ reads'[d] = reads[d] /\ todo'[d] = todo[d]
  /\ loops'[d] = loops[d] /\ cur'[d] = cur[d] /\ want'[d] = want[d] /\ plan'[d] = plan[d]
  /\ allow'[d] = allow[d] /\ outcome'[d] = outcome[d]
  /\ calm'[d] => calm[d] /\ UNCHANGED shared

LEMMA OthersApart ==
  ASSUME TypeOK, NEW c \in Clients, Runs(c), NEW d \in Clients \ {c}
  PROVE  Same(d)
<1> USE DEF TypeOK, Same, shared, locals, kept, Disturb
<1>1. CASE Fail(c)
  BY <1>1 DEF Fail, End
<1>2. CASE PullStart(c) \/ PullSeed(c) \/ PullEnd(c)
  <2>1. CASE PullStart(c)
    BY <2>1 DEF PullStart
  <2>2. CASE PullSeed(c)
    BY <2>2 DEF PullSeed
  <2>3. CASE PullEnd(c)
    BY <2>3 DEF PullEnd, End
  <2> QED BY <1>2, <2>1, <2>2, <2>3
<1>3. CASE PlanStart(c) \/ PlanEnd(c) \/ DestroyStart(c)
  <2>1. CASE PlanStart(c)
    BY <2>1 DEF PlanStart, Begin
  <2>2. CASE PlanEnd(c)
    BY <2>2 DEF PlanEnd, End
  <2>3. CASE DestroyStart(c)
    BY <2>3 DEF DestroyStart
  <2> QED BY <1>3, <2>1, <2>2, <2>3
<1>4. CASE DestroyApply(c) \/ ApplyEnd(c)
  <2>1. CASE DestroyApply(c)
    BY <2>1 DEF DestroyApply, BeginApply
  <2>2. CASE ApplyEnd(c)
    BY <2>2 DEF ApplyEnd, End
  <2> QED BY <1>4, <2>1, <2>2
<1>5. ASSUME NEW f \in Clients, NEW del \in BOOLEAN, ApplyStart(c, f, del) PROVE Same(d)
  BY <1>5 DEF ApplyStart, BeginApply
<1>6. ASSUME NEW k \in Kinds, PlanList(c, k) \/ DestroyList(c, k) PROVE Same(d)
  BY <1>6 DEF PlanList, DestroyList
<1>7. ASSUME NEW k \in Kinds, PullList(c, k) PROVE Same(d)
  BY <1>7 DEF PullList
<1>8. ASSUME NEW i \in Ids, PullRead(c, i) PROVE Same(d)
  BY <1>8 DEF PullRead
<1>9. ASSUME NEW x \in todo[c], ApplySkip(c, x) \/ ApplyCheck(c, x) PROVE Same(d)
  BY <1>9 DEF ApplySkip, ApplyCheck, Resolve
<1>10. ASSUME NEW x \in todo[c], ApplyCreate(c, x) PROVE Same(d)
  BY <1>10 DEF ApplyCreate, SetEntry, Resolve
<1>11. ASSUME NEW x \in cur[c], ApplyUpdate(c, x) \/ ApplyDelete(c, x) PROVE Same(d)
  BY <1>11 DEF ApplyUpdate, ApplyDelete, SetEntry, Resolve
<1> QED BY <1>1, <1>2, <1>3, <1>4, <1>5, <1>6, <1>7, <1>8, <1>9, <1>10, <1>11
           DEF Runs, Start, Step

(* So a step is a client's own or leaves it alone.                           *)
LEMMA OwnOrSame ==
  ASSUME TypeOK, [Next]_vars, NEW d \in Clients
  PROVE  Runs(d) \/ Same(d)
<1>1. ASSUME NEW c \in Clients, Runs(c) PROVE Runs(d) \/ Same(d)
  BY <1>1, OthersApart
<1>2. CASE World
  <2>1. UNCHANGED <<pc, locals, kept, outcome>> /\ AllDisturbed
    BY <1>2 DEF World, Edit, External, ExternalCreate, ExternalUpdate, ExternalDelete
  <2> QED BY <2>1 DEF Same, locals, kept, AllDisturbed
<1>3. CASE UNCHANGED vars
  BY <1>3 DEF Same, vars, shared, locals, kept
<1> QED BY <1>1, <1>2, <1>3 DEF Next, Runs

-----------------------------------------------------------------------------
(* Foreign kinds, when operations do not overlap *)

Foreign(c, L) == OfKinds(L, Kinds \ Owned[c])

Building == {"pullList", "pullRead", "apply", "write"}

(* One operation at a time; what it builds agrees with the lockfile on the   *)
(* kinds its engine has no provider for, and what it writes is of its own.   *)
CarryInv ==
  /\ \A c, d \in Clients : pc[c] # "idle" /\ pc[d] # "idle" => c = d
  /\ \A c \in Clients : pc[c] \in Building => Foreign(c, entries[c]) = Foreign(c, lock)
  /\ \A c \in Clients : pc[c] = "write" => \A x \in cur[c] : x.addr.kind \in Owned[c]

LEMMA StartFromIdle ==
  ASSUME TypeOK, ~ Overlap, NEW c \in Clients, Start(c)
  PROVE  (\A d \in Clients : pc[d] = "idle") /\ lock' = lock
BY DEF Start, PullStart, PlanStart, DestroyStart, ApplyStart, Begin, shared

LEMMA RunsAlone ==
  ASSUME TypeOK, CarryInv, ~ Overlap, NEW c \in Clients, Runs(c), NEW d \in Clients \ {c}
  PROVE  pc[d] = "idle" /\ pc'[d] = "idle"
<1>1. CASE Start(c)
  BY <1>1, StartFromIdle, OthersApart DEF Same
<1>2. CASE Step(c) \/ Fail(c)
  <2>1. pc[c] # "idle"
    BY <1>2 DEF Step, Fail, PullSeed, PullEnd, PlanEnd, DestroyApply, ApplyEnd, PullList, PlanList,
         DestroyList, PullRead, ApplySkip, ApplyCheck, ApplyCreate, Turn, ApplyUpdate, ApplyDelete
  <2> QED BY <2>1, OthersApart DEF Same, CarryInv
<1> QED BY <1>1, <1>2 DEF Runs

(* Setting an entry of an own kind leaves the foreign ones alone.            *)
LEMMA SetOwn ==
  ASSUME TypeOK, NEW c \in Clients, NEW a \in Addr, a.kind \in Owned[c], NEW i, SetEntry(c, a, i)
  PROVE  Foreign(c, entries'[c]) = Foreign(c, entries[c])
<1>1. entries'[c] = {e \in entries[c] : e.addr # a} \cup {[addr |-> a, id |-> i]}
  BY DEF TypeOK, SetEntry
<1> QED BY <1>1 DEF Foreign, OfKinds

LEMMA CarryOwn ==
  ASSUME TypeOK, SlugInv, CarryInv, ~ Overlap, NEW c \in Clients, Runs(c)
  PROVE  /\ pc'[c] \in Building => Foreign(c, entries'[c]) = Foreign(c, lock')
         /\ pc'[c] = "write" => \A x \in cur'[c] : x.addr.kind \in Owned[c]
<1> DEFINE Goal == /\ pc'[c] \in Building => Foreign(c, entries'[c]) = Foreign(c, lock')
                   /\ pc'[c] = "write" => \A x \in cur'[c] : x.addr.kind \in Owned[c]
<1> USE DEF TypeOK, shared, locals, kept, Building
<1>1. CASE Fail(c) \/ PullEnd(c) \/ PlanEnd(c) \/ ApplyEnd(c)
  BY <1>1 DEF Fail, PullEnd, PlanEnd, ApplyEnd, End
<1>2. CASE PullStart(c)
  <2>1. /\ pc'[c] = "pullList" /\ lock' = lock
        /\ entries'[c] = {e \in lock : e.addr.kind \notin Owned[c]}
    BY <1>2 DEF PullStart, Carried
  <2>2. lock \subseteq Entry /\ \A e \in lock : e.addr.kind \in Kinds
    BY DEF Entry, Addr
  <2> QED BY <2>1, <2>2 DEF Foreign, OfKinds
<1>3. CASE PlanStart(c) \/ DestroyStart(c)
  BY <1>3 DEF PlanStart, DestroyStart, Begin
<1>4. CASE PullSeed(c)
  BY <1>4 DEF PullSeed
<1>5. ASSUME NEW k \in Kinds, PullList(c, k) PROVE Goal
  <2>1. PICK slug \in [LiveOf(k) -> Slugs] :
          entries' = [entries EXCEPT ![c] =
            @ \cup {[addr |-> [kind |-> k, slug |-> slug[i]], id |-> i] : i \in LiveOf(k)}]
    BY <1>5 DEF PullList
  <2> DEFINE listed == {[addr |-> [kind |-> k, slug |-> slug[i]], id |-> i] : i \in LiveOf(k)}
  <2>2. entries'[c] = entries[c] \cup listed
    BY <2>1
  <2>3. pc[c] = "pullList" /\ pc' = pc /\ lock' = lock /\ k \in kindsLeft[c]
    BY <1>5 DEF PullList
  <2>4. k \in Owned[c] /\ \A e \in listed : e.addr.kind = k
    BY <2>3 DEF SlugInv
  <2>5. Foreign(c, entries'[c]) = Foreign(c, entries[c])
    BY <2>2, <2>4 DEF Foreign, OfKinds
  <2> QED BY <2>3, <2>5 DEF CarryInv
<1>6. ASSUME NEW k \in Kinds, PlanList(c, k) \/ DestroyList(c, k) PROVE Goal
  BY <1>6 DEF PlanList, DestroyList
<1>7. ASSUME NEW i \in Ids, PullRead(c, i) PROVE Goal
  BY <1>7 DEF PullRead, CarryInv
<1>8. ASSUME NEW changes, NEW del, BeginApply(c, changes, del), lock' = lock PROVE Goal
  BY <1>8 DEF BeginApply
<1>9. CASE DestroyApply(c) \/ \E d \in Clients, del \in BOOLEAN : ApplyStart(c, d, del)
  BY <1>8, <1>9 DEF DestroyApply, ApplyStart
<1>10. ASSUME NEW x \in todo[c], ApplySkip(c, x) PROVE Goal
  BY <1>10 DEF ApplySkip, Turn, CarryInv
<1>11. ASSUME NEW x \in todo[c], ApplyCheck(c, x) PROVE Goal
  <2>1. pc[c] = "apply" /\ entries' = entries /\ lock' = lock /\ x.addr.kind \in Owned[c]
    BY <1>11 DEF ApplyCheck, Turn, Skipped
  <2>2. CASE Moved(x)
    BY <1>11, <2>1, <2>2 DEF ApplyCheck, CarryInv
  <2>3. CASE ~ Moved(x)
    <3>1. cur'[c] = {x}
      BY <1>11, <2>3 DEF ApplyCheck
    <3> QED BY <2>1, <3>1 DEF CarryInv
  <2> QED BY <2>2, <2>3
<1>12. ASSUME NEW x \in todo[c], ApplyCreate(c, x) PROVE Goal
  <2>1. x.addr \in Addr /\ x.addr.kind \in Owned[c] /\ SetEntry(c, x.addr, nextId)
    BY <1>12, ChangeFields DEF ApplyCreate, Skipped
  <2>2. pc[c] = "apply" /\ pc' = pc /\ lock' = lock
    BY <1>12 DEF ApplyCreate, Turn
  <2> QED BY <2>1, <2>2, SetOwn DEF CarryInv
<1>13. ASSUME NEW x \in cur[c], ApplyUpdate(c, x) \/ ApplyDelete(c, x) PROVE Goal
  <2>1. pc[c] = "write" /\ pc'[c] = "apply" /\ lock' = lock /\ x \in Change
    BY <1>13 DEF ApplyUpdate, ApplyDelete
  <2>2. x.addr \in Addr /\ x.addr.kind \in Owned[c]
    BY <2>1, ChangeFields DEF CarryInv
  <2>3. Foreign(c, entries'[c]) = Foreign(c, entries[c])
    <3>1. CASE ApplyUpdate(c, x)
      BY <2>2, <3>1, SetOwn DEF ApplyUpdate
    <3>2. CASE ApplyDelete(c, x)
      <4>1. entries'[c] = {e \in entries[c] : e.addr # x.addr}
        BY <3>2 DEF ApplyDelete
      <4> QED BY <2>2, <4>1 DEF Foreign, OfKinds
    <3> QED BY <1>13, <3>1, <3>2
  <2> QED BY <2>1, <2>3 DEF CarryInv
<1> QED BY <1>1, <1>2, <1>3, <1>4, <1>5, <1>6, <1>7, <1>9, <1>10, <1>11, <1>12, <1>13
           DEF Runs, Start, Step

LEMMA NextCarry ==
  ASSUME ~ Overlap
  PROVE  TypeOK /\ SlugInv /\ CarryInv /\ [Next]_vars => CarryInv'
<1> SUFFICES ASSUME TypeOK, SlugInv, CarryInv, [Next]_vars PROVE CarryInv'
  OBVIOUS
<1>1. ASSUME NEW c \in Clients, Runs(c) PROVE CarryInv'
  <2>1. \A d \in Clients \ {c} : pc'[d] = "idle"
    BY <1>1, RunsAlone
  <2>2. /\ pc'[c] \in Building => Foreign(c, entries'[c]) = Foreign(c, lock')
        /\ pc'[c] = "write" => \A x \in cur'[c] : x.addr.kind \in Owned[c]
    BY <1>1, CarryOwn
  <2> QED BY <2>1, <2>2 DEF CarryInv, Building, Foreign
<1>2. CASE World \/ UNCHANGED vars
  <2>1. UNCHANGED <<lock, entries, pc, cur>>
    BY <1>2 DEF World, Edit, External, ExternalCreate, ExternalUpdate, ExternalDelete,
         vars, shared, locals
  <2> QED BY <2>1 DEF CarryInv, Foreign
<1> QED BY <1>1, <1>2 DEF Next, Runs

(* Engines with different providers can share a lockfile: if operations do   *)
(* not overlap, none changes an entry of a kind it has no provider for.      *)
THEOREM ForeignKindsKept ==
  ASSUME ~ Overlap
  PROVE  Spec => OthersKept
<1>1. Init => CarryInv
  BY DEF Init, CarryInv, Building
<1>2. TypeOK /\ SlugInv /\ CarryInv /\ [Next]_vars => CarryInv'
  BY NextCarry
<1>3. Init => SlugInv
  BY DEF Init, SlugInv, SlugsUnique
<1>4. CarryInv => [\A c \in Clients : (PullSeed(c) \/ PullEnd(c) \/ ApplyEnd(c)) =>
                    OfKinds(lock', Kinds \ Owned[c]) = OfKinds(lock, Kinds \ Owned[c])]_vars
  BY DEF CarryInv, Building, Foreign, PullSeed, PullEnd, ApplyEnd
<1> QED BY <1>1, <1>2, <1>3, <1>4, NextSlugs, TypeCorrect, PTL DEF Spec, OthersKept

-----------------------------------------------------------------------------
(* A pull nobody interferes with: what it has listed it will read or has     *)
(* read, under an entry of its own.                                          *)
Mirroring(c) ==
  calm[c] =>
    /\ pc[c] = "pullList" =>
         \A i \in Live : remote[i].kind \in Owned[c] \ kindsLeft[c] =>
           i \in reads[c] /\ \E e \in entries[c] : e.id = i
    /\ pc[c] = "pullRead" =>
         \A i \in Live : remote[i].kind \in Owned[c] =>
           \E e \in entries[c] : e.id = i /\ (i \notin reads[c] => files[e.addr] = remote[i].val)
    /\ pc[c] = "idle" /\ outcome[c] = "pulled" =>
         \A i \in Live : remote[i].kind \in Owned[c] =>
           \E e \in lock : e.id = i /\ files[e.addr] = remote[i].val

PullInv == \A c \in Clients : Mirroring(c)

Pulling == {"pullList", "pullRead"}

(* Steps that are none of a pull end otherwise.                              *)
LEMMA NoPull ==
  ASSUME TypeOK, NEW c \in Clients, Runs(c),
         ~ (PullStart(c) \/ PullSeed(c) \/ PullEnd(c)),
         ~ (\E k \in Kinds : PullList(c, k)), ~ (\E i \in Ids : PullRead(c, i))
  PROVE  pc'[c] \notin Pulling /\ ~ (pc'[c] = "idle" /\ outcome'[c] = "pulled")
<1> DEFINE Goal == pc'[c] \notin Pulling /\ ~ (pc'[c] = "idle" /\ outcome'[c] = "pulled")
<1> USE DEF TypeOK, Pulling
<1>1. CASE Fail(c) \/ PlanEnd(c) \/ ApplyEnd(c)
  BY <1>1 DEF Fail, PlanEnd, ApplyEnd, End
<1>2. CASE PlanStart(c)
  BY <1>2 DEF PlanStart, Begin, locals
<1>3. CASE DestroyStart(c) \/ DestroyApply(c)
  BY <1>3 DEF DestroyStart, DestroyApply, BeginApply
<1>4. ASSUME NEW f \in Clients, NEW del \in BOOLEAN, ApplyStart(c, f, del) PROVE Goal
  BY <1>4 DEF ApplyStart, BeginApply
<1>5. ASSUME NEW k \in Kinds, PlanList(c, k) \/ DestroyList(c, k) PROVE Goal
  BY <1>5 DEF PlanList, DestroyList
<1>6. ASSUME NEW x \in todo[c], ApplySkip(c, x) \/ ApplyCheck(c, x) \/ ApplyCreate(c, x) PROVE Goal
  BY <1>6 DEF ApplySkip, ApplyCheck, ApplyCreate, Turn
<1>7. ASSUME NEW x \in cur[c], ApplyUpdate(c, x) \/ ApplyDelete(c, x) PROVE Goal
  BY <1>7 DEF ApplyUpdate, ApplyDelete
<1> QED BY <1>1, <1>2, <1>3, <1>4, <1>5, <1>6, <1>7 DEF Runs, Start, Step

LEMMA ReadMirrors ==
  ASSUME TypeOK, SlugInv, NEW c \in Clients, Mirroring(c), NEW i \in Ids, PullRead(c, i), calm'[c]
  PROVE  Mirroring(c)'
<1>1. /\ pc[c] = "pullRead" /\ i \in reads[c] /\ UNCHANGED <<remote, lock, pc, entries, kindsLeft>>
      /\ reads'[c] = reads[c] \ {i} /\ calm[c]
      /\ files' = [a \in Addr |->
                     IF remote[i] # Absent /\ [addr |-> a, id |-> i] \in entries[c]
                     THEN remote[i].val ELSE files[a]]
  BY DEF TypeOK, PullRead, Disturb
<1>2. ASSUME NEW j \in Live, remote[j].kind \in Owned[c]
      PROVE  \E e \in entries[c] : e.id = j /\ (j \notin reads'[c] => files'[e.addr] = remote[j].val)
  <2>1. PICK e \in entries[c] : e.id = j /\ (j \notin reads[c] => files[e.addr] = remote[j].val)
    BY <1>1, <1>2 DEF Mirroring
  <2>2. e \in Entry /\ e = [addr |-> e.addr, id |-> j] /\ e.addr \in Addr
    BY <2>1 DEF TypeOK, Entry
  <2>3. CASE j = i
    <3>1. [addr |-> e.addr, id |-> i] \in entries[c] /\ remote[i] # Absent
      BY <2>1, <2>2, <2>3 DEF Live
    <3>2. files'[e.addr] = remote[i].val
      BY <1>1, <2>2, <3>1
    <3> QED BY <2>1, <2>3, <3>2, <1>1
  <2>4. CASE j # i
    <3>1. [addr |-> e.addr, id |-> i] \notin entries[c]
      BY <2>1, <2>4 DEF SlugInv, SlugsUnique
    <3> QED BY <1>1, <2>1, <2>2, <2>4, <3>1
  <2> QED BY <2>3, <2>4
<1>3. Live' = Live /\ pc'[c] = "pullRead" /\ UNCHANGED <<remote, entries>>
  BY <1>1 DEF Live
<1> QED BY <1>2, <1>3 DEF Mirroring

LEMMA ListMirrors ==
  ASSUME TypeOK, NEW c \in Clients, Mirroring(c), NEW k \in Kinds, PullList(c, k), calm'[c]
  PROVE  Mirroring(c)'
<1>1. /\ pc[c] = "pullList" /\ UNCHANGED <<remote, lock, pc>> /\ calm[c]
      /\ kindsLeft'[c] = kindsLeft[c] \ {k} /\ reads'[c] = reads[c] \cup LiveOf(k)
  BY DEF TypeOK, PullList, Disturb
<1>2. PICK slug \in [LiveOf(k) -> Slugs] :
        entries'[c] = entries[c] \cup
          {[addr |-> [kind |-> k, slug |-> slug[i]], id |-> i] : i \in LiveOf(k)}
  <2>1. PICK slug \in [LiveOf(k) -> Slugs] :
          entries' = [entries EXCEPT ![c] = @ \cup
            {[addr |-> [kind |-> k, slug |-> slug[i]], id |-> i] : i \in LiveOf(k)}]
    BY DEF PullList
  <2> QED BY <2>1 DEF TypeOK
<1>3. ASSUME NEW i \in Live, remote[i].kind \in Owned[c] \ kindsLeft'[c]
      PROVE  i \in reads'[c] /\ \E e \in entries'[c] : e.id = i
  <2>1. CASE i \in LiveOf(k)
    <3> DEFINE e == [addr |-> [kind |-> k, slug |-> slug[i]], id |-> i]
    <3>1. e \in entries'[c] /\ e.id = i
      BY <1>2, <2>1
    <3> QED BY <1>1, <2>1, <3>1
  <2>2. CASE i \notin LiveOf(k)
    BY <1>1, <1>2, <1>3, <2>2 DEF Mirroring, LiveOf
  <2> QED BY <2>1, <2>2
<1> QED BY <1>1, <1>3 DEF Mirroring, Live

LEMMA OwnMirrors ==
  ASSUME TypeOK, SlugInv, NEW c \in Clients, Mirroring(c), Runs(c)
  PROVE  Mirroring(c)'
<1> SUFFICES ASSUME calm'[c] PROVE Mirroring(c)'
  BY DEF Mirroring
<1>1. CASE PullStart(c)
  <2>1. pc'[c] = "pullList" /\ kindsLeft'[c] = Owned[c]
    BY <1>1 DEF TypeOK, PullStart
  <2> QED BY <2>1 DEF Mirroring
<1>2. CASE PullSeed(c)
  <2>1. /\ pc[c] = "pullList" /\ kindsLeft[c] = {} /\ pc'[c] = "pullRead" /\ calm[c]
        /\ UNCHANGED <<remote, files, entries, reads>>
    BY <1>2 DEF TypeOK, PullSeed, Disturb, locals
  <2> QED BY <2>1 DEF Mirroring, Live
<1>3. CASE PullEnd(c)
  <2>1. /\ pc[c] = "pullRead" /\ reads[c] = {} /\ pc'[c] = "idle" /\ calm[c]
        /\ UNCHANGED <<remote, files>> /\ lock' = entries[c]
    BY <1>3 DEF TypeOK, PullEnd, End, Disturb
  <2> QED BY <2>1 DEF Mirroring, Live
<1>4. ASSUME NEW k \in Kinds, PullList(c, k) PROVE Mirroring(c)'
  BY <1>4, ListMirrors
<1>5. ASSUME NEW i \in Ids, PullRead(c, i) PROVE Mirroring(c)'
  BY <1>5, ReadMirrors
<1>6. CASE ~ (PullStart(c) \/ PullSeed(c) \/ PullEnd(c)) /\ ~ (\E k \in Kinds : PullList(c, k))
           /\ ~ (\E i \in Ids : PullRead(c, i))
  BY <1>6, NoPull DEF Mirroring, Pulling
<1> QED BY <1>1, <1>2, <1>3, <1>4, <1>5, <1>6

LEMMA NextPulls == TypeOK /\ SlugInv /\ PullInv /\ [Next]_vars => PullInv'
<1> SUFFICES ASSUME TypeOK, SlugInv, PullInv, [Next]_vars, NEW c \in Clients PROVE Mirroring(c)'
  BY DEF PullInv
<1>1. CASE Runs(c)
  BY <1>1, OwnMirrors DEF PullInv
<1>2. CASE Same(c)
  BY <1>2 DEF PullInv, Mirroring, Same, shared, Live
<1> QED BY <1>1, <1>2, OwnOrSame

(* A pull nobody interferes with leaves every live entity of its kinds in    *)
(* the lockfile and in the working tree, however many other clients plan or  *)
(* fail meanwhile.                                                           *)
THEOREM PullsMirror == Spec => []PullMirrors
<1>1. Init => PullInv
  BY DEF Init, PullInv, Mirroring
<1>2. PullInv => PullMirrors
  BY DEF PullInv, Mirroring, PullMirrors
<1>3. Init => SlugInv
  BY DEF Init, SlugInv, SlugsUnique
<1> QED BY <1>1, <1>2, <1>3, NextPulls, NextSlugs, TypeCorrect, PTL DEF Spec

-----------------------------------------------------------------------------
(* An id is issued once, for an entity of one kind, and whatever still names *)
(* it, alive or not, takes it for one of that kind.                          *)
Issued(f, i, k, n) == i \in Ids /\ i < n /\ f[i] = k
Knows(f, i, k) == Issued(f, i, k, nextId)

KindedBy(f, c) ==
  /\ \A e \in base[c] \cup entries[c] : Knows(f, e.id, e.addr.kind)
  /\ \A x \in plan[c] \cup todo[c] \cup cur[c] : x.id # NoId => Knows(f, x.id, x.addr.kind)

Kinded(f) ==
  /\ \A e \in lock : Knows(f, e.id, e.addr.kind)
  /\ \A c \in Clients : KindedBy(f, c)
  /\ \A i \in Live : Knows(f, i, remote[i].kind)

IdKinds == \E f \in [Ids -> Kinds \cup {None}] : Kinded(f)

(* g agrees with f on the ids issued so far.                                 *)
Later(f, g) == nextId' >= nextId /\ nextId' \in Nat /\ \A i \in Ids : i < nextId => g[i] = f[i]

LEMMA StillKnown ==
  ASSUME TypeOK, NEW f, NEW g, Later(f, g), NEW i, NEW k, Knows(f, i, k)
  PROVE  Knows(g, i, k)'
BY DEF TypeOK, Later, Knows, Issued, Ids

(* A step of c that names no new id.                                         *)
Borrows(c) ==
  /\ UNCHANGED <<remote, nextId>>
  /\ lock' \in {lock, entries[c]}
  /\ base'[c] \cup entries'[c] \subseteq base[c] \cup entries[c] \cup lock
  /\ \E d \in Clients :
       plan'[c] \cup todo'[c] \cup cur'[c] \subseteq plan[d] \cup plan[c] \cup todo[c] \cup cur[c]

LEMMA BorrowsKinds ==
  ASSUME NEW c \in Clients, Borrows(c), \A d \in Clients \ {c} : Same(d), NEW f, Kinded(f)
  PROVE  Kinded(f)'
<1>1. nextId' = nextId /\ Live' = Live /\ remote' = remote
  BY DEF Borrows, Live
<1>2. KindedBy(f, c)'
  BY DEF Borrows, Kinded, KindedBy, Knows, Issued
<1>3. ASSUME NEW d \in Clients \ {c} PROVE KindedBy(f, d)'
  BY <1>1 DEF Same, Kinded, KindedBy, Knows, Issued
<1>4. \A e \in lock' : Knows(f, e.id, e.addr.kind)'
  BY <1>1 DEF Borrows, Kinded, KindedBy, Knows, Issued
<1> QED BY <1>1, <1>2, <1>3, <1>4 DEF Kinded, Knows, Issued

LEMMA StartsBorrow ==
  ASSUME TypeOK, NEW c \in Clients, Start(c) \/ DestroyApply(c) \/ PullSeed(c)
  PROVE  Borrows(c)
<1> USE DEF TypeOK, Borrows, shared, kept, locals
<1>1. CASE PullStart(c)
  BY <1>1 DEF PullStart, Carried
<1>2. CASE PlanStart(c)
  BY <1>2 DEF PlanStart
<1>3. CASE DestroyStart(c)
  BY <1>3 DEF DestroyStart
<1>4. ASSUME NEW d \in Clients, NEW del \in BOOLEAN, ApplyStart(c, d, del) PROVE Borrows(c)
  BY <1>4 DEF ApplyStart, BeginApply
<1>5. CASE DestroyApply(c)
  BY <1>5 DEF DestroyApply, BeginApply
<1>6. CASE PullSeed(c)
  BY <1>6 DEF PullSeed
<1> QED BY <1>1, <1>2, <1>3, <1>4, <1>5, <1>6 DEF Start

LEMMA EndsBorrow ==
  ASSUME TypeOK, NEW c \in Clients,
         \/ Fail(c) \/ PullEnd(c) \/ PlanEnd(c) \/ ApplyEnd(c) \/ \E i \in Ids : PullRead(c, i)
         \/ \E x \in todo[c] : ApplySkip(c, x) \/ ApplyCheck(c, x)
  PROVE  Borrows(c)
<1> USE DEF TypeOK, Borrows, shared, kept
<1>1. CASE Fail(c) \/ PullEnd(c) \/ ApplyEnd(c)
  <2>1. CASE Fail(c)
    BY <2>1 DEF Fail, End
  <2>2. CASE PullEnd(c)
    BY <2>2 DEF PullEnd, End
  <2>3. CASE ApplyEnd(c)
    BY <2>3 DEF ApplyEnd, End
  <2> QED BY <1>1, <2>1, <2>2, <2>3
<1>2. CASE PlanEnd(c)
  BY <1>2 DEF PlanEnd, End
<1>3. ASSUME NEW i \in Ids, PullRead(c, i) PROVE Borrows(c)
  BY <1>3 DEF PullRead
<1>4. ASSUME NEW x \in todo[c], ApplySkip(c, x) PROVE Borrows(c)
  BY <1>4 DEF ApplySkip, Resolve
<1>5. ASSUME NEW x \in todo[c], ApplyCheck(c, x) PROVE Borrows(c)
  BY <1>5 DEF ApplyCheck, Resolve
<1> QED BY <1>1, <1>2, <1>3, <1>4, <1>5

(* What a listing finds is live, and of the kind that was listed.            *)
LEMMA DiffKinded ==
  ASSUME TypeOK, NEW f, Kinded(f), NEW k \in Kinds, NEW L \in SUBSET Entry, NEW w,
         NEW x \in DiffKind(k, L, w) \cup {DeleteOf(e) : e \in LiveEntries(k, L)}
  PROVE  x.addr.kind = k /\ (x.id # NoId => Knows(f, x.id, k))
<1>1. ASSUME NEW i \in LiveOf(k) PROVE Knows(f, i, k)
  BY DEF LiveOf, Kinded
<1>2. ASSUME NEW a \in Desired(w), a.kind = k, x = DesiredChange(a, L, w)
      PROVE  x.addr.kind = k /\ (x.id # NoId => Knows(f, x.id, k))
  <2>1. CASE LockId(L, a) \in LiveOf(a.kind)
    BY <1>1, <1>2, <2>1 DEF DesiredChange
  <2>2. CASE LockId(L, a) \notin LiveOf(a.kind)
    BY <1>2, <2>2 DEF DesiredChange
  <2> QED BY <2>1, <2>2
<1>3. ASSUME NEW e \in LiveEntries(k, L), x = DeleteOf(e)
      PROVE  x.addr.kind = k /\ (x.id # NoId => Knows(f, x.id, k))
  BY <1>1, <1>3 DEF LiveEntries, DeleteOf
<1> QED BY <1>2, <1>3 DEF DiffKind

LEMMA ListsKinds ==
  ASSUME TypeOK, NEW c \in Clients, \A d \in Clients \ {c} : Same(d), NEW f, Kinded(f),
         NEW k \in Kinds, PullList(c, k) \/ PlanList(c, k) \/ DestroyList(c, k)
  PROVE  Kinded(f)'
<1>1. UNCHANGED <<remote, nextId, lock, base, plan, cur>> /\ Live' = Live
  <2>1. UNCHANGED <<remote, nextId, lock, base, plan, cur>>
    <3>1. CASE PullList(c, k)
      BY <3>1 DEF PullList, kept
    <3>2. CASE PlanList(c, k) \/ DestroyList(c, k)
      BY <3>2 DEF PlanList, DestroyList, shared, kept
    <3> QED BY <3>1, <3>2
  <2> QED BY <2>1 DEF Live
<1>2. \A e \in entries'[c] : Knows(f, e.id, e.addr.kind)
  <2>1. CASE PullList(c, k)
    <3>1. PICK slug \in [LiveOf(k) -> Slugs] :
            entries' = [entries EXCEPT ![c] = @ \cup
              {[addr |-> [kind |-> k, slug |-> slug[i]], id |-> i] : i \in LiveOf(k)}]
      BY <2>1 DEF PullList
    <3>2. entries'[c] = entries[c] \cup
              {[addr |-> [kind |-> k, slug |-> slug[i]], id |-> i] : i \in LiveOf(k)}
      BY <3>1 DEF TypeOK
    <3>3. \A e \in entries'[c] : e \in entries[c] \/ (e.id \in LiveOf(k) /\ e.addr.kind = k)
      BY <3>2
    <3> QED BY <3>3 DEF Kinded, KindedBy, LiveOf
  <2>2. CASE ~ PullList(c, k)
    BY <2>2 DEF PlanList, DestroyList, Kinded, KindedBy
  <2> QED BY <2>1, <2>2
<1>3. \A x \in todo'[c] : x.id # NoId => Knows(f, x.id, x.addr.kind)
  <2>1. /\ base[c] \in SUBSET Entry
        /\ todo'[c] \subseteq todo[c] \cup DiffKind(k, base[c], want[c])
                                      \cup {DeleteOf(e) : e \in LiveEntries(k, base[c])}
    <3>1. CASE PullList(c, k)
      BY <3>1 DEF TypeOK, PullList
    <3>2. CASE PlanList(c, k) \/ DestroyList(c, k)
      BY <3>2 DEF TypeOK, PlanList, DestroyList
    <3> QED BY <3>1, <3>2
  <2>2. ASSUME NEW x \in DiffKind(k, base[c], want[c])
                            \cup {DeleteOf(e) : e \in LiveEntries(k, base[c])}
        PROVE  x.id # NoId => Knows(f, x.id, x.addr.kind)
    BY <2>1, DiffKinded
  <2> QED BY <2>1, <2>2 DEF Kinded, KindedBy
<1>4. KindedBy(f, c)'
  BY <1>1, <1>2, <1>3 DEF Kinded, KindedBy, Knows, Issued
<1>5. ASSUME NEW d \in Clients \ {c} PROVE KindedBy(f, d)'
  BY <1>1 DEF Same, Kinded, KindedBy, Knows, Issued
<1> QED BY <1>1, <1>4, <1>5 DEF Kinded, Knows, Issued

LEMMA WritesKinds ==
  ASSUME TypeOK, NEW f, Kinded(f), NEW g, Later(f, g), lock' = lock,
         \A d \in Clients :
           /\ \A e \in base'[d] \cup entries'[d] :
                e \in base[d] \cup entries[d] \/ Knows(g, e.id, e.addr.kind)'
           /\ plan'[d] \cup todo'[d] \cup cur'[d] \subseteq plan[d] \cup todo[d] \cup cur[d],
         \A i \in Live' : \/ i \in Live /\ remote'[i].kind = remote[i].kind
                          \/ Issued(g, i, remote'[i].kind, nextId')
  PROVE  Kinded(g)'
<1>1. \A i, k : Knows(f, i, k) => Knows(g, i, k)'
  BY StillKnown
<1>2. ASSUME NEW d \in Clients PROVE KindedBy(g, d)'
  BY <1>1 DEF Kinded, KindedBy
<1>3. \A e \in lock' : Knows(g, e.id, e.addr.kind)'
  BY <1>1 DEF Kinded
<1>4. \A i \in Live' : Issued(g, i, remote'[i].kind, nextId')
  <2> TAKE i \in Live'
  <2>1. CASE i \in Live /\ remote'[i].kind = remote[i].kind
    <3>1. PICK k : k = remote[i].kind
      OBVIOUS
    <3>2. Knows(f, i, k)
      BY <2>1, <3>1 DEF Kinded
    <3>3. Knows(g, i, k)'
      BY <1>1, <3>2
    <3> QED BY <2>1, <3>1, <3>3 DEF Knows
  <2>2. CASE Issued(g, i, remote'[i].kind, nextId')
    BY <2>2
  <2> QED BY <2>1, <2>2
<1> QED BY <1>2, <1>3, <1>4 DEF Kinded, Knows

LEMMA ChangesKinds ==
  ASSUME TypeOK, NEW c \in Clients, \A d \in Clients \ {c} : Same(d),
         NEW f \in [Ids -> Kinds \cup {None}], Kinded(f),
         \/ \E x \in todo[c] : ApplyCreate(c, x)
         \/ \E x \in cur[c] : ApplyUpdate(c, x) \/ ApplyDelete(c, x)
  PROVE  IdKinds'
<1>0. /\ nextId \in 1..(MaxIds + 1) /\ nextId \in Nat
      /\ remote \in [Ids -> Entity \cup {Absent}] /\ MaxIds \in Nat
  BY ConstantsOK DEF TypeOK
<1>1. ASSUME NEW x \in todo[c], ApplyCreate(c, x) PROVE IdKinds'
  <2>1. PICK g : g = [f EXCEPT ![nextId] = x.addr.kind]
    OBVIOUS
  <2>2. x \in Change /\ x.addr.kind \in Kinds /\ nextId \in Ids /\ nextId' = nextId + 1
    BY <1>1, ChangeFields DEF ApplyCreate, TypeOK
  <2>3. /\ g \in [Ids -> Kinds \cup {None}] /\ g[nextId] = x.addr.kind
        /\ \A i \in Ids : i # nextId => g[i] = f[i]
    BY <2>1, <2>2
  <2>4. Later(f, g)
    BY <1>0, <2>2, <2>3 DEF Later
  <2>5. Issued(g, nextId, x.addr.kind, nextId')
    BY <1>0, <2>2, <2>3 DEF Issued
  <2>6. /\ UNCHANGED <<lock, base, plan, cur>>
        /\ entries'[c] = {e \in entries[c] : e.addr # x.addr} \cup {[addr |-> x.addr, id |-> nextId]}
        /\ todo'[c] \subseteq todo[c]
    BY <1>1 DEF ApplyCreate, SetEntry, Resolve, kept, TypeOK
  <2>7. ASSUME NEW i \in Live'
        PROVE  \/ i \in Live /\ remote'[i].kind = remote[i].kind
               \/ Issued(g, i, remote'[i].kind, nextId')
    <3>1. remote' = [remote EXCEPT ![nextId] =
                       [kind |-> x.addr.kind, slug |-> x.addr.slug, val |-> x.after]]
      BY <1>1 DEF ApplyCreate
    <3>2. i \in Ids /\ remote'[i] # Absent
      BY DEF Live
    <3>3. CASE i = nextId
      BY <1>0, <2>2, <2>5, <3>1, <3>3
    <3>4. CASE i # nextId
      BY <1>0, <3>1, <3>2, <3>4 DEF Live
    <3> QED BY <3>3, <3>4
  <2>8. ASSUME NEW d \in Clients
        PROVE  /\ \A e \in base'[d] \cup entries'[d] :
                    e \in base[d] \cup entries[d] \/ Knows(g, e.id, e.addr.kind)'
               /\ plan'[d] \cup todo'[d] \cup cur'[d] \subseteq plan[d] \cup todo[d] \cup cur[d]
    BY <2>5, <2>6 DEF Same, Knows
  <2>9. Kinded(g)'
    BY <2>4, <2>6, <2>7, <2>8, WritesKinds
  <2> QED BY <2>3, <2>9 DEF IdKinds
<1>2. ASSUME NEW x \in cur[c], ApplyUpdate(c, x) \/ ApplyDelete(c, x) PROVE IdKinds'
  <2>1. x \in Change /\ x.action \in {"update", "delete"}
    BY <1>2 DEF ApplyUpdate, ApplyDelete, TypeOK
  <2>2. x.id \in Ids /\ x.id # NoId
    BY <2>1, ChangeFields, ConstantsOK DEF Ids, NoId
  <2>3. nextId' = nextId
    BY <1>2 DEF ApplyUpdate, ApplyDelete
  <2>4. Later(f, f) /\ Knows(f, x.id, x.addr.kind)
    BY <1>0, <2>2, <2>3 DEF Later, Kinded, KindedBy
  <2>5. Knows(f, x.id, x.addr.kind)'
    BY <2>4, StillKnown
  <2>6. /\ UNCHANGED <<lock, base, plan>>
        /\ \A e \in entries'[c] : e \in entries[c] \/ e = [addr |-> x.addr, id |-> x.id]
        /\ todo'[c] \subseteq todo[c] /\ cur'[c] \subseteq cur[c]
    <3>1. CASE ApplyUpdate(c, x)
      BY <3>1 DEF ApplyUpdate, SetEntry, Resolve, kept, TypeOK
    <3>2. CASE ApplyDelete(c, x)
      BY <3>2 DEF ApplyDelete, Resolve, kept, TypeOK
    <3> QED BY <1>2, <3>1, <3>2
  <2>7. ASSUME NEW i \in Live'
        PROVE  \/ i \in Live /\ remote'[i].kind = remote[i].kind
               \/ Issued(f, i, remote'[i].kind, nextId')
    <3>1. \/ remote' = [remote EXCEPT ![x.id] = Absent]
          \/ remote' = [remote EXCEPT ![x.id] =
                          [kind |-> x.addr.kind, slug |-> x.addr.slug, val |-> x.after]]
      BY <1>2 DEF ApplyUpdate, ApplyDelete
    <3>2. i \in Ids /\ remote'[i] # Absent
      BY DEF Live
    <3>3. CASE i = x.id
      <4>1. remote'[i].kind = x.addr.kind
        BY <1>0, <2>2, <3>1, <3>2, <3>3
      <4> QED BY <2>5, <3>3, <4>1 DEF Knows
    <3>4. CASE i # x.id
      BY <1>0, <3>1, <3>2, <3>4 DEF Live
    <3> QED BY <3>3, <3>4
  <2>8. ASSUME NEW d \in Clients
        PROVE  /\ \A e \in base'[d] \cup entries'[d] :
                    e \in base[d] \cup entries[d] \/ Knows(f, e.id, e.addr.kind)'
               /\ plan'[d] \cup todo'[d] \cup cur'[d] \subseteq plan[d] \cup todo[d] \cup cur[d]
    BY <2>5, <2>6 DEF Same
  <2>9. Kinded(f)'
    BY <2>4, <2>6, <2>7, <2>8, WritesKinds
  <2> QED BY <2>9 DEF IdKinds
<1> QED BY <1>1, <1>2

LEMMA WorldKinds ==
  ASSUME TypeOK, NEW f \in [Ids -> Kinds \cup {None}], Kinded(f), World
  PROVE  IdKinds'
<1>0. /\ nextId \in 1..(MaxIds + 1) /\ nextId \in Nat
      /\ remote \in [Ids -> Entity \cup {Absent}] /\ MaxIds \in Nat
  BY ConstantsOK DEF TypeOK
<1>1. UNCHANGED <<lock, base, entries, plan, todo, cur>>
  BY DEF World, Edit, External, ExternalCreate, ExternalUpdate, ExternalDelete, locals, kept
<1>2. CASE nextId' = nextId /\ \A i \in Live' : i \in Live /\ remote'[i].kind = remote[i].kind
  <2>1. Later(f, f)
    BY <1>0, <1>2 DEF Later
  <2>2. Kinded(f)'
    BY <1>1, <1>2, <2>1, WritesKinds
  <2> QED BY <2>2 DEF IdKinds
<1>3. CASE \E a \in Editable, text \in Vals \cup {NoFile} : Edit(a, text)
  BY <1>2, <1>3 DEF Edit, Live
<1>4. ASSUME NEW i \in Ids, NEW v \in Vals, ExternalUpdate(i, v) PROVE IdKinds'
  <2>1. nextId' = nextId /\ remote' = [remote EXCEPT ![i].val = v] /\ i \in Live
    BY <1>4 DEF ExternalUpdate, External
  <2>2. remote[i] \in Entity /\ remote'[i].kind = remote[i].kind
    BY <1>0, <2>1, LiveEntity DEF Entity
  <2>3. \A j \in Ids : j # i => remote'[j] = remote[j]
    BY <1>0, <2>1
  <2> QED BY <1>2, <2>1, <2>2, <2>3 DEF Live
<1>5. ASSUME NEW i \in Ids, ExternalDelete(i) PROVE IdKinds'
  <2>1. nextId' = nextId /\ remote' = [remote EXCEPT ![i] = Absent]
    BY <1>5 DEF ExternalDelete, External
  <2> QED BY <1>0, <1>2, <2>1 DEF Live
<1>6. ASSUME NEW k \in Kinds, NEW name \in Names, NEW v \in Vals, ExternalCreate(k, name, v)
      PROVE  IdKinds'
  <2>1. PICK g : g = [f EXCEPT ![nextId] = k]
    OBVIOUS
  <2>2. /\ nextId \in Ids /\ nextId' = nextId + 1
        /\ remote' = [remote EXCEPT ![nextId] =
                        [kind |-> k, slug |-> [name |-> name, n |-> 1], val |-> v]]
    BY <1>6 DEF ExternalCreate, External
  <2>3. /\ g \in [Ids -> Kinds \cup {None}] /\ g[nextId] = k
        /\ \A i \in Ids : i # nextId => g[i] = f[i]
    BY <2>1, <2>2
  <2>4. Later(f, g) /\ Issued(g, nextId, k, nextId')
    BY <1>0, <2>2, <2>3 DEF Later, Issued
  <2>5. ASSUME NEW i \in Live'
        PROVE  \/ i \in Live /\ remote'[i].kind = remote[i].kind
               \/ Issued(g, i, remote'[i].kind, nextId')
    <3>1. i \in Ids /\ remote'[i] # Absent
      BY DEF Live
    <3>2. CASE i = nextId
      BY <1>0, <2>2, <2>4, <3>2
    <3>3. CASE i # nextId
      BY <1>0, <2>2, <3>1, <3>3 DEF Live
    <3> QED BY <3>2, <3>3
  <2>6. Kinded(g)'
    BY <1>1, <2>4, <2>5, WritesKinds
  <2> QED BY <2>3, <2>6 DEF IdKinds
<1> QED BY <1>3, <1>4, <1>5, <1>6 DEF World

LEMMA NextKinds == TypeOK /\ IdKinds /\ [Next]_vars => IdKinds'
<1> SUFFICES ASSUME TypeOK, IdKinds, [Next]_vars PROVE IdKinds'
  OBVIOUS
<1>1. PICK f \in [Ids -> Kinds \cup {None}] : Kinded(f)
  BY DEF IdKinds
<1>2. ASSUME NEW c \in Clients, Runs(c) PROVE IdKinds'
  <2>1. \A d \in Clients \ {c} : Same(d)
    BY <1>2, OthersApart
  <2>2. CASE Borrows(c)
    <3>1. Kinded(f)'
      BY <1>1, <2>1, <2>2, BorrowsKinds
    <3> QED BY <3>1 DEF IdKinds
  <2>3. ASSUME NEW k \in Kinds, PullList(c, k) \/ PlanList(c, k) \/ DestroyList(c, k)
        PROVE  IdKinds'
    <3>1. Kinded(f)'
      BY <1>1, <2>1, <2>3, ListsKinds
    <3> QED BY <3>1 DEF IdKinds
  <2>4. CASE \/ \E x \in todo[c] : ApplyCreate(c, x)
             \/ \E x \in cur[c] : ApplyUpdate(c, x) \/ ApplyDelete(c, x)
    BY <1>1, <2>1, <2>4, ChangesKinds
  <2> QED BY <1>2, <2>2, <2>3, <2>4, StartsBorrow, EndsBorrow DEF Runs, Step
<1>3. CASE World
  BY <1>1, <1>3, WorldKinds
<1>4. CASE UNCHANGED vars
  <2>1. Kinded(f)'
    BY <1>1, <1>4 DEF vars, shared, locals, kept, Kinded, KindedBy, Knows, Issued, Live
  <2> QED BY <2>1 DEF IdKinds
<1> QED BY <1>2, <1>3, <1>4 DEF Next, Runs

LEMMA InitKinds == Init => IdKinds
<1> SUFFICES ASSUME Init PROVE IdKinds
  OBVIOUS
<1>1. PICK f : f = [i \in Ids |-> None]
  OBVIOUS
<1>2. f \in [Ids -> Kinds \cup {None}]
  BY <1>1
<1>3. lock = {} /\ Live = {} /\ \A c \in Clients : KindedBy(f, c)
  BY DEF Init, Live, KindedBy
<1>4. Kinded(f)
  BY <1>3 DEF Kinded
<1> QED BY <1>2, <1>4 DEF IdKinds

-----------------------------------------------------------------------------
(* Entries and changes                                                       *)
Mark(a, i) == [addr |-> a, id |-> i]
Distinct(L) == \A e, f \in L : e.id = f.id => e = f
OnePerAddr(S) == \A x, y \in S : x.addr = y.addr => x = y
OnePerId(S) == \A x, y \in S : x.id = y.id /\ x.id # NoId => x = y

LEMMA LockIdIn ==
  ASSUME NEW L \in SUBSET Entry, NEW a, LockId(L, a) # NoId
  PROVE  Mark(a, LockId(L, a)) \in L
<1>1. PICK e \in L : e.addr = a
  BY DEF LockId
<1>2. (CHOOSE x \in L : x.addr = a) \in L /\ (CHOOSE x \in L : x.addr = a).addr = a
  BY <1>1
<1>3. PICK y \in L : y = (CHOOSE x \in L : x.addr = a)
  BY <1>2
<1>4. y = Mark(y.addr, y.id)
  BY DEF Entry, Mark
<1>5. LockId(L, a) = y.id /\ y.addr = a
  BY <1>1, <1>2, <1>3 DEF LockId
<1> QED BY <1>4, <1>5

(* The changes of one listing                                                *)
Listed(k, L, w) == DiffKind(k, L, w) \cup {DeleteOf(e) : e \in LiveEntries(k, L)}

LEMMA ListedMarked ==
  ASSUME TypeOK, NEW k \in Kinds, NEW L \in SUBSET Entry, NEW w, NEW x \in Listed(k, L, w)
  PROVE  x.addr.kind = k /\ (x.id # NoId => Mark(x.addr, x.id) \in L)
<1>1. ASSUME NEW a \in Desired(w), a.kind = k, x = DesiredChange(a, L, w)
      PROVE  x.addr.kind = k /\ (x.id # NoId => Mark(x.addr, x.id) \in L)
  <2>1. x.addr = a /\ x.id \in {LockId(L, a), NoId}
    BY <1>1 DEF DesiredChange
  <2> QED BY <1>1, <2>1, LockIdIn
<1>2. ASSUME NEW e \in LiveEntries(k, L), x = DeleteOf(e)
      PROVE  x.addr.kind = k /\ (x.id # NoId => Mark(x.addr, x.id) \in L)
  <2>1. e \in Entry /\ e \in L /\ e.addr.kind = k
    BY DEF LiveEntries
  <2>2. x.addr = e.addr /\ x.id = e.id /\ e = Mark(e.addr, e.id)
    BY <1>2, <2>1 DEF DeleteOf, Entry, Mark
  <2> QED BY <2>1, <2>2
<1> QED BY <1>1, <1>2 DEF Listed, DiffKind

LEMMA DiffOnePerAddr ==
  ASSUME NEW k, NEW L, SlugsUnique(L), NEW w
  PROVE  OnePerAddr(DiffKind(k, L, w)) /\ OnePerAddr({DeleteOf(e) : e \in LiveEntries(k, L)})
<1>1. \A a : DesiredChange(a, L, w).addr = a
  BY DEF DesiredChange
<1>2. \A e \in L : DeleteOf(e).addr = e.addr
  BY DEF DeleteOf
<1>3. \A e, f \in LiveEntries(k, L) : e.addr = f.addr => e = f
  BY DEF LiveEntries, SlugsUnique
<1>4. LiveEntries(k, L) \subseteq L
  BY DEF LiveEntries
<1>5. OnePerAddr({DeleteOf(e) : e \in LiveEntries(k, L)})
  BY <1>2, <1>3, <1>4 DEF OnePerAddr
<1>6. ASSUME NEW x \in DiffKind(k, L, w), NEW y \in DiffKind(k, L, w), x.addr = y.addr
      PROVE  x = y
  <2>1. \/ x.addr \in Desired(w) /\ x = DesiredChange(x.addr, L, w)
        \/ x.addr \notin Desired(w) /\ \E e \in LiveEntries(k, L) : x = DeleteOf(e)
    BY <1>1, <1>2, <1>4 DEF DiffKind
  <2>2. \/ y.addr \in Desired(w) /\ y = DesiredChange(y.addr, L, w)
        \/ y.addr \notin Desired(w) /\ \E e \in LiveEntries(k, L) : y = DeleteOf(e)
    BY <1>1, <1>2, <1>4 DEF DiffKind
  <2> QED BY <1>6, <2>1, <2>2, <1>2, <1>3, <1>4
<1> QED BY <1>5, <1>6 DEF OnePerAddr

-----------------------------------------------------------------------------
(* One client: a slug per id.  Plans are values and may be applied late and  *)
(* often, so the invariant is about them: what a plan updates or deletes is  *)
(* either no longer alive or still where the plan found it, in the lockfile  *)
(* and in every copy of it that will replace it.                             *)
OneClient == \A c, d \in Clients : c = d

Fits(x, L, R) == x.action \in {"update", "delete"} /\ R[x.id] # Absent => Mark(x.addr, x.id) \in L

SoleLock(c) ==
  /\ Distinct(lock) /\ Distinct(entries[c])
  /\ pc[c] \in {"pullList", "planList", "destroyList"} => base[c] = lock

SolePlan(c) ==
  /\ \A x \in plan[c] \cup todo[c] : Fits(x, lock, remote)
  /\ OnePerAddr(plan[c]) /\ OnePerId(plan[c])

SolePull(c) ==
  /\ pc[c] \in {"idle", "pullList", "pullRead"} => todo[c] = {}
  /\ pc[c] = "pullList" =>
       \A x \in plan[c] : x.addr.kind \notin kindsLeft[c] => Fits(x, entries[c], remote)
  /\ pc[c] = "pullRead" => \A x \in plan[c] : Fits(x, entries[c], remote)

SoleList(c) ==
  /\ pc[c] \in {"planList", "destroyList"} =>
       /\ OnePerAddr(todo[c])
       /\ \A x \in todo[c] : x.addr.kind \notin kindsLeft[c]
       /\ \A x \in todo[c] : x.id # NoId => Mark(x.addr, x.id) \in lock
  /\ pc[c] = "destroyList" => \A x \in todo[c] : x.action = "delete"

SoleApply(c) ==
  /\ pc[c] \in {"apply", "write"} =>
       /\ \A x \in plan[c] \cup todo[c] : Fits(x, entries[c], remote)
       /\ todo[c] \subseteq plan[c] \/ \A x \in todo[c] : x.action = "delete"
  /\ pc[c] = "write" =>
       /\ cur[c] \subseteq todo[c]
       /\ \A x \in cur[c] : Mark(x.addr, x.id) \in lock /\ Mark(x.addr, x.id) \in entries[c]

Sole(c) == SoleLock(c) /\ SolePlan(c) /\ SolePull(c) /\ SoleList(c) /\ SoleApply(c)

SoleInv == Distinct(lock) /\ \A c \in Clients : Sole(c)

LEMMA SoleEnds ==
  ASSUME TypeOK, NEW c \in Clients, Sole(c), Fail(c) \/ PullEnd(c) \/ PlanEnd(c) \/ ApplyEnd(c)
  PROVE  Sole(c)'
<1>1. pc'[c] = "idle" /\ todo'[c] = {} /\ entries'[c] = {} /\ remote' = remote
  BY DEF TypeOK, Fail, PullEnd, PlanEnd, ApplyEnd, End, shared
<1>2. Distinct(lock') /\ \A x \in plan'[c] : Fits(x, lock', remote)
  <2>1. CASE Fail(c)
    BY <2>1 DEF Fail, shared, kept, Sole, SoleLock, SolePlan
  <2>2. CASE PullEnd(c)
    BY <2>2 DEF PullEnd, kept, Sole, SoleLock, SolePull
  <2>3. CASE PlanEnd(c)
    BY <2>3 DEF PlanEnd, shared, Sole, SoleLock, SolePlan, TypeOK
  <2>4. CASE ApplyEnd(c)
    BY <2>4 DEF ApplyEnd, kept, Sole, SoleLock, SoleApply
  <2> QED BY <2>1, <2>2, <2>3, <2>4
<1>3. OnePerAddr(plan'[c]) /\ OnePerId(plan'[c])
  <2>1. CASE plan' = plan
    BY <2>1 DEF Sole, SolePlan
  <2>2. CASE PlanEnd(c)
    <3>1. plan'[c] = todo[c] /\ pc[c] = "planList"
      BY <2>2 DEF PlanEnd, TypeOK
    <3>2. /\ OnePerAddr(todo[c]) /\ Distinct(lock)
          /\ \A x \in todo[c] : x.id # NoId => Mark(x.addr, x.id) \in lock
      BY <3>1 DEF Sole, SoleList, SoleLock
    <3>3. ASSUME NEW x \in todo[c], NEW y \in todo[c], x.id = y.id, x.id # NoId PROVE x = y
      <4>1. Mark(x.addr, x.id) = Mark(y.addr, y.id)
        BY <3>2, <3>3 DEF Distinct, Mark
      <4> QED BY <3>2, <4>1 DEF OnePerAddr, Mark
    <3> QED BY <3>1, <3>2, <3>3 DEF OnePerId
  <2> QED BY <2>1, <2>2 DEF Fail, PullEnd, ApplyEnd, kept
<1> QED BY <1>1, <1>2, <1>3 DEF Sole, SoleLock, SolePlan, SolePull, SoleList, SoleApply, Distinct

(* Starting reads the lockfile.                                              *)
LEMMA SoleStarts ==
  ASSUME TypeOK, OneClient, NEW c \in Clients, Sole(c), Start(c) \/ DestroyApply(c)
  PROVE  Sole(c)'
<1>0. /\ UNCHANGED <<lock, remote, plan>> /\ Distinct(lock) /\ Distinct(entries[c])
      /\ OnePerAddr(plan[c]) /\ OnePerId(plan[c])
      /\ \A x \in plan[c] \cup todo[c] : Fits(x, lock, remote)
  BY DEF Start, PullStart, PlanStart, DestroyStart, ApplyStart, DestroyApply, shared, kept,
         Sole, SoleLock, SolePlan
<1> USE DEF Sole, SoleLock, SolePlan, SolePull, SoleList, SoleApply, TypeOK
<1>1. CASE PullStart(c)
  <2>1. /\ pc'[c] = "pullList" /\ kindsLeft'[c] = Owned[c] /\ base'[c] = lock
        /\ entries'[c] = {e \in lock : e.addr.kind \notin Owned[c]}
        /\ pc[c] = "idle" /\ todo' = todo
    BY <1>1 DEF PullStart, Begin, Carried
  <2>2. \A x \in plan[c] : x.addr.kind \notin Owned[c] => Fits(x, entries'[c], remote)
    BY <1>0, <2>1 DEF Fits, Mark
  <2>3. Distinct(entries'[c])
    BY <1>0, <2>1 DEF Distinct
  <2> QED BY <1>0, <2>1, <2>2, <2>3
<1>2. CASE PlanStart(c) \/ DestroyStart(c)
  <2>1. UNCHANGED <<entries, todo>> /\ pc[c] = "idle" /\ todo[c] = {}
    BY <1>2 DEF PlanStart, DestroyStart, Begin, locals
  <2>2. \/ pc' = pc
        \/ pc'[c] \in {"planList", "destroyList"} /\ base'[c] = lock
    BY <1>2 DEF PlanStart, DestroyStart
  <2> QED BY <1>0, <2>1, <2>2 DEF OnePerAddr
<1>3. ASSUME NEW d \in Clients, NEW del \in BOOLEAN, ApplyStart(c, d, del) PROVE Sole(c)'
  <2>1. pc'[c] = "apply" /\ entries'[c] = lock /\ todo'[c] = plan[c]
    BY <1>3 DEF ApplyStart, BeginApply, OneClient
  <2> QED BY <1>0, <2>1
<1>4. CASE DestroyApply(c)
  <2>1. pc'[c] = "apply" /\ entries'[c] = lock /\ todo'[c] = todo[c] /\ pc[c] = "destroyList"
    BY <1>4 DEF DestroyApply, BeginApply
  <2> QED BY <1>0, <2>1
<1> QED BY <1>1, <1>2, <1>3, <1>4 DEF Start

(* A listing gives what the lockfile knows the slug it has.                  *)
LEMMA SoleLists ==
  ASSUME TypeOK, SlugInv, IdKinds, NEW c \in Clients, Sole(c), NEW k \in Kinds, PullList(c, k)
  PROVE  Sole(c)'
<1>1. PICK slug \in [LiveOf(k) -> Slugs] :
        /\ AssignSlugs(slug, k, base[c])
        /\ entries' = [entries EXCEPT ![c] = @ \cup
             {[addr |-> [kind |-> k, slug |-> slug[i]], id |-> i] : i \in LiveOf(k)}]
  BY DEF PullList
<1> DEFINE new == {[addr |-> [kind |-> k, slug |-> slug[i]], id |-> i] : i \in LiveOf(k)}
<1>2. /\ pc[c] = "pullList" /\ k \in kindsLeft[c] /\ kindsLeft'[c] = kindsLeft[c] \ {k}
      /\ UNCHANGED <<lock, remote, pc, base, todo, cur, plan>>
  BY DEF PullList, kept, TypeOK
<1>3. entries'[c] = entries[c] \cup new
  BY <1>1 DEF TypeOK
<1>4. PICK f \in [Ids -> Kinds \cup {None}] : Kinded(f)
  BY DEF IdKinds
<1>5. ASSUME NEW i \in LiveOf(k) PROVE f[i] = k
  BY <1>4 DEF LiveOf, Kinded, Knows, Issued
<1>6. ASSUME NEW e \in entries[c] PROVE f[e.id] # k
  BY <1>2, <1>4 DEF SlugInv, Unlisted, Kinded, KindedBy, Knows, Issued
<1>7. Distinct(entries'[c])
  <2> SUFFICES ASSUME NEW e \in entries'[c], NEW g \in entries'[c], e.id = g.id PROVE e = g
    BY DEF Distinct
  <2>1. CASE e \in entries[c] /\ g \in entries[c]
    BY <2>1 DEF Sole, SoleLock, Distinct
  <2>2. ASSUME NEW i \in LiveOf(k), NEW j \in LiveOf(k),
               e = [addr |-> [kind |-> k, slug |-> slug[i]], id |-> i],
               g = [addr |-> [kind |-> k, slug |-> slug[j]], id |-> j]
        PROVE  e = g
    BY <2>2
  <2>3. CASE e \in entries[c] /\ g \in new
    BY <1>5, <1>6, <2>3
  <2>4. CASE e \in new /\ g \in entries[c]
    BY <1>5, <1>6, <2>4
  <2> QED BY <1>3, <2>1, <2>2, <2>3, <2>4
<1>8. ASSUME NEW x \in plan[c], x.addr.kind = k PROVE Fits(x, entries'[c], remote)
  <2> SUFFICES ASSUME x.action \in {"update", "delete"}, remote[x.id] # Absent
               PROVE  Mark(x.addr, x.id) \in entries'[c]
    BY DEF Fits
  <2>1. x \in Change /\ x.id \in Ids /\ x.id # NoId
    BY ChangeFields, ConstantsOK DEF TypeOK, Ids, NoId
  <2>2. Mark(x.addr, x.id) \in base[c] /\ base[c] = lock /\ Distinct(lock)
    BY <1>2 DEF Sole, SoleLock, SolePlan, Fits
  <2>3. x.id \in LiveOf(k)
    BY <1>4, <1>8, <2>1 DEF LiveOf, Live, Kinded, KindedBy, Knows, Issued
  <2>4. \E e \in base[c] : e.id = x.id /\ e.addr.kind = k
    BY <1>8, <2>2 DEF Mark
  <2>5. [addr |-> [kind |-> k, slug |-> slug[x.id]], id |-> x.id] \in base[c]
    BY <1>1, <2>3, <2>4 DEF AssignSlugs
  <2>6. [addr |-> [kind |-> k, slug |-> slug[x.id]], id |-> x.id] = Mark(x.addr, x.id)
    BY <2>2, <2>5 DEF Distinct, Mark
  <2> QED BY <1>3, <2>3, <2>6
<1>9. \A x \in plan[c] : x.addr.kind \notin kindsLeft'[c] => Fits(x, entries'[c], remote)
  BY <1>2, <1>3, <1>8 DEF Sole, SolePull, Fits
<1>10. SoleLock(c)'
  BY <1>2, <1>7 DEF Sole, SoleLock
<1>11. SolePlan(c)'
  BY <1>2 DEF Sole, SolePlan
<1>12. SolePull(c)'
  BY <1>2, <1>9 DEF Sole, SolePull
<1>13. SoleList(c)' /\ SoleApply(c)'
  BY <1>2 DEF SoleList, SoleApply
<1> QED BY <1>10, <1>11, <1>12, <1>13 DEF Sole

LEMMA SoleReads ==
  ASSUME TypeOK, NEW c \in Clients, Sole(c), PullSeed(c) \/ \E i \in Ids : PullRead(c, i)
  PROVE  Sole(c)'
<1> USE DEF Sole, SoleLock, SolePlan, SolePull, SoleList, SoleApply, TypeOK
<1>1. CASE PullSeed(c)
  <2>1. /\ pc[c] = "pullList" /\ pc'[c] = "pullRead" /\ kindsLeft[c] = {} /\ lock' = entries[c]
        /\ UNCHANGED <<remote, entries, todo, plan>>
    BY <1>1 DEF PullSeed, locals, kept
  <2>2. Distinct(lock') /\ Distinct(entries'[c]) /\ todo'[c] = {}
    BY <2>1
  <2>3. \A x \in plan'[c] : Fits(x, entries'[c], remote')
    BY <2>1
  <2> QED BY <2>1, <2>2, <2>3
<1>2. ASSUME NEW i \in Ids, PullRead(c, i) PROVE Sole(c)'
  <2>1. UNCHANGED <<lock, remote, pc, kindsLeft, base, entries, todo, cur, plan>>
    BY <1>2 DEF PullRead, kept
  <2> QED BY <2>1
<1> QED BY <1>1, <1>2

(* A plan lists each kind once, so that its changes stay one per address.    *)
LEMMA SoleDiffs ==
  ASSUME TypeOK, SlugInv, NEW c \in Clients, Sole(c), NEW k \in Kinds,
         PlanList(c, k) \/ DestroyList(c, k)
  PROVE  Sole(c)'
<1>1. /\ pc[c] \in {"planList", "destroyList"} /\ k \in kindsLeft[c]
      /\ kindsLeft'[c] = kindsLeft[c] \ {k}
      /\ UNCHANGED <<lock, remote, pc, base, entries, plan, cur>>
  BY DEF PlanList, DestroyList, shared, kept, TypeOK
<1>2. PICK new : /\ todo'[c] = todo[c] \cup new /\ OnePerAddr(new)
                 /\ new \subseteq Listed(k, base[c], want[c])
                 /\ DestroyList(c, k) => \A x \in new : x.action = "delete"
  <2>1. CASE PlanList(c, k)
    <3>1. todo'[c] = todo[c] \cup DiffKind(k, base[c], want[c]) /\ pc[c] = "planList"
      BY <2>1 DEF PlanList, TypeOK
    <3>2. ~ DestroyList(c, k)
      BY <3>1 DEF DestroyList
    <3> QED BY <3>1, <3>2, DiffOnePerAddr DEF Listed, SlugInv
  <2>2. CASE DestroyList(c, k)
    <3>1. todo'[c] = todo[c] \cup {DeleteOf(e) : e \in LiveEntries(k, base[c])}
      BY <2>2 DEF DestroyList, TypeOK
    <3>2. \A x \in {DeleteOf(e) : e \in LiveEntries(k, base[c])} : x.action = "delete"
      BY DEF DeleteOf
    <3> QED BY <3>1, <3>2, DiffOnePerAddr DEF Listed, SlugInv
  <2> QED BY <2>1, <2>2
<1>3. ASSUME NEW x \in new
      PROVE  x.addr.kind = k /\ (x.id # NoId => Mark(x.addr, x.id) \in lock)
  <2>1. base[c] \in SUBSET Entry /\ base[c] = lock
    BY <1>1 DEF TypeOK, Sole, SoleLock
  <2> QED BY <1>2, <2>1, ListedMarked
<1>4. /\ OnePerAddr(todo[c]) /\ \A x \in todo[c] : x.addr.kind \notin kindsLeft[c]
      /\ \A x \in todo[c] : x.id # NoId => Mark(x.addr, x.id) \in lock
  BY <1>1 DEF Sole, SoleList
<1>5. OnePerAddr(todo'[c])
  BY <1>1, <1>2, <1>3, <1>4 DEF OnePerAddr
<1>6. \A x \in todo'[c] : /\ x.addr.kind \notin kindsLeft'[c]
                          /\ x.id # NoId => Mark(x.addr, x.id) \in lock
  BY <1>1, <1>2, <1>3, <1>4
<1>7. todo'[c] \subseteq Change
  BY PlanType, ApplyBeginsType DEF TypeOK
<1>8. ASSUME NEW x \in todo'[c] PROVE Fits(x, lock, remote)
  <2>1. x.action \in {"update", "delete"} => x.id # NoId
    BY <1>7, ChangeFields, ConstantsOK DEF Ids, NoId
  <2> QED BY <1>6, <2>1 DEF Fits
<1>9. pc[c] = "destroyList" => \A x \in todo'[c] : x.action = "delete"
  <2>1. pc[c] = "destroyList" => DestroyList(c, k)
    BY DEF PlanList
  <2> QED BY <1>2, <2>1 DEF Sole, SoleList
<1>10. SoleLock(c)' /\ SolePull(c)' /\ SoleApply(c)'
  BY <1>1 DEF Sole, SoleLock, SolePull, SoleApply
<1>11. SolePlan(c)'
  BY <1>1, <1>8 DEF Sole, SolePlan
<1>12. SoleList(c)'
  BY <1>1, <1>5, <1>6, <1>9 DEF SoleList
<1> QED BY <1>10, <1>11, <1>12 DEF Sole

(* An id below the counter that is live was so before the step.              *)
Ages == \A i \in Ids : i < nextId /\ remote'[i] # Absent => remote[i] # Absent

LEMMA Aged ==
  ASSUME TypeOK, IdKinds, NEW c \in Clients, Ages,
         NEW x \in plan[c] \cup todo[c], NEW L, Fits(x, L, remote)
  PROVE  Fits(x, L, remote')
<1>1. x.action \in {"update", "delete"} => x.id \in Ids /\ x.id # NoId
  BY ChangeFields, ConstantsOK DEF TypeOK, Ids, NoId
<1>2. x.id # NoId => x.id < nextId
  BY DEF IdKinds, Kinded, KindedBy, Knows, Issued
<1> QED BY <1>1, <1>2 DEF Fits, Ages

LEMMA SoleChecks ==
  ASSUME TypeOK, NEW c \in Clients, Sole(c), NEW x \in todo[c], ApplySkip(c, x) \/ ApplyCheck(c, x)
  PROVE  Sole(c)'
<1>1. /\ pc[c] = "apply" /\ UNCHANGED <<lock, remote, base, entries, plan, kindsLeft>>
      /\ todo'[c] \subseteq todo[c]
  BY DEF ApplySkip, ApplyCheck, Turn, Resolve, shared, kept, TypeOK
<1>2. \/ pc'[c] = "apply"
      \/ pc'[c] = "write" /\ cur'[c] = {x} /\ x.action \in {"update", "delete"}
         /\ remote[x.id] # Absent /\ todo' = todo
  <2>1. CASE ApplySkip(c, x)
    BY <1>1, <2>1 DEF ApplySkip
  <2>2. CASE ApplyCheck(c, x) /\ Moved(x)
    BY <1>1, <2>2 DEF ApplyCheck
  <2>3. CASE ApplyCheck(c, x) /\ ~ Moved(x)
    BY <1>1, <2>3 DEF ApplyCheck, Moved, TypeOK
  <2> QED BY <2>1, <2>2, <2>3
<1>3. /\ \A y \in plan[c] \cup todo[c] : Fits(y, entries[c], remote) /\ Fits(y, lock, remote)
      /\ todo[c] \subseteq plan[c] \/ \A y \in todo[c] : y.action = "delete"
  BY <1>1 DEF Sole, SoleApply, SolePlan
<1>4. pc'[c] = "write" => /\ cur'[c] \subseteq todo'[c]
                          /\ \A y \in cur'[c] : /\ Mark(y.addr, y.id) \in lock
                                                /\ Mark(y.addr, y.id) \in entries[c]
  BY <1>2, <1>3 DEF Fits
<1>5. SoleApply(c)'
  BY <1>1, <1>3, <1>4 DEF SoleApply
<1>6. SoleLock(c)' /\ SolePlan(c)' /\ SolePull(c)' /\ SoleList(c)'
  BY <1>1, <1>2 DEF Sole, SoleLock, SolePlan, SolePull, SoleList
<1> QED BY <1>5, <1>6 DEF Sole

LEMMA SoleCreates ==
  ASSUME TypeOK, IdKinds, NEW c \in Clients, Sole(c), NEW x \in todo[c], ApplyCreate(c, x)
  PROVE  Sole(c)'
<1>1. /\ pc[c] = "apply" /\ x.action = "create" /\ nextId \in Ids
      /\ remote' = [remote EXCEPT ![nextId] =
                      [kind |-> x.addr.kind, slug |-> x.addr.slug, val |-> x.after]]
      /\ entries'[c] = {e \in entries[c] : e.addr # x.addr} \cup {Mark(x.addr, nextId)}
      /\ todo'[c] = todo[c] \ {x} /\ UNCHANGED <<lock, pc, base, plan, cur, kindsLeft>>
  BY DEF ApplyCreate, Turn, SetEntry, Resolve, kept, TypeOK, Mark
<1>2. /\ \A y \in plan[c] \cup todo[c] : Fits(y, entries[c], remote) /\ Fits(y, lock, remote)
      /\ todo[c] \subseteq plan[c] /\ OnePerAddr(plan[c]) /\ OnePerId(plan[c])
      /\ Distinct(lock) /\ Distinct(entries[c])
  <2>1. ~ \A y \in todo[c] : y.action = "delete"
    BY <1>1
  <2> QED BY <1>1, <2>1 DEF Sole, SoleLock, SoleApply, SolePlan
<1>3. Ages
  BY <1>1 DEF TypeOK, Ages, Ids
<1>4. \A e \in entries[c] : e.id < nextId
  BY DEF IdKinds, Kinded, KindedBy, Knows, Issued
<1>5. Distinct(entries'[c])
  <2>1. nextId \in Int /\ \A e \in entries[c] : e.id # nextId
    BY <1>1, <1>4 DEF Ids
  <2> QED BY <1>1, <1>2, <2>1 DEF Distinct, Mark
<1>6. ASSUME NEW y \in plan[c] \cup todo[c]
      PROVE  Fits(y, lock, remote') /\ Fits(y, entries'[c], remote')
  <2>1. Fits(y, lock, remote') /\ Fits(y, entries[c], remote')
    BY <1>2, <1>3, Aged
  <2>2. y.action \in {"update", "delete"} => y.addr # x.addr
    BY <1>1, <1>2 DEF OnePerAddr
  <2> QED BY <1>1, <2>1, <2>2 DEF Fits, Mark
<1>7. SoleLock(c)'
  BY <1>1, <1>2, <1>5 DEF SoleLock
<1>8. SolePlan(c)'
  BY <1>1, <1>2, <1>6 DEF SolePlan
<1>9. SoleApply(c)'
  BY <1>1, <1>2, <1>6 DEF SoleApply
<1>10. SolePull(c)' /\ SoleList(c)'
  BY <1>1 DEF SolePull, SoleList
<1> QED BY <1>7, <1>8, <1>9, <1>10 DEF Sole

LEMMA SoleUpdates ==
  ASSUME TypeOK, SlugInv, NEW c \in Clients, Sole(c), NEW x \in cur[c], ApplyUpdate(c, x)
  PROVE  Sole(c)'
<1>1. /\ pc[c] = "write" /\ pc'[c] = "apply" /\ x.action = "update"
      /\ remote' = [remote EXCEPT ![x.id] =
                      [kind |-> x.addr.kind, slug |-> x.addr.slug, val |-> x.after]]
      /\ entries'[c] = {e \in entries[c] : e.addr # x.addr} \cup {Mark(x.addr, x.id)}
      /\ todo'[c] = todo[c] \ {x} /\ UNCHANGED <<lock, base, plan, kindsLeft>>
  BY DEF ApplyUpdate, SetEntry, Resolve, kept, TypeOK, Mark
<1>2. /\ \A y \in plan[c] \cup todo[c] : Fits(y, entries[c], remote) /\ Fits(y, lock, remote)
      /\ x \in todo[c] /\ Mark(x.addr, x.id) \in lock /\ Mark(x.addr, x.id) \in entries[c]
      /\ OnePerAddr(plan[c]) /\ OnePerId(plan[c]) /\ Distinct(lock) /\ Distinct(entries[c])
  BY <1>1 DEF Sole, SoleLock, SoleApply, SolePlan
<1>3. todo[c] \subseteq plan[c]
  <2>1. ~ \A y \in todo[c] : y.action = "delete"
    BY <1>1, <1>2
  <2> QED BY <1>1, <2>1 DEF Sole, SoleApply
<1>4. entries'[c] = entries[c]
  <2>1. \A e \in entries[c] : e.addr = x.addr => e = Mark(x.addr, x.id)
    BY <1>2 DEF SlugInv, SlugsUnique, Mark
  <2> QED BY <1>1, <1>2, <2>1
<1>5. ASSUME NEW y \in plan[c] \cup todo[c]
      PROVE  Fits(y, lock, remote') /\ Fits(y, entries[c], remote')
  <2>1. CASE y.id = x.id
    <3>1. x.id # NoId
      BY <1>1, <1>2, ChangeFields, ConstantsOK DEF TypeOK, Ids, NoId
    <3>2. y = x
      BY <1>2, <1>3, <2>1, <3>1 DEF OnePerId
    <3> QED BY <1>2, <3>2 DEF Fits
  <2>2. CASE y.id # x.id
    <3>1. remote'[y.id] = remote[y.id] \/ y.action \notin {"update", "delete"}
      BY <1>1, <2>2, ChangeFields DEF TypeOK
    <3> QED BY <1>2, <3>1 DEF Fits
  <2> QED BY <2>1, <2>2
<1>6. SoleLock(c)'
  BY <1>1, <1>2, <1>4 DEF SoleLock
<1>7. SolePlan(c)'
  BY <1>1, <1>2, <1>5 DEF SolePlan
<1>8. SoleApply(c)'
  BY <1>1, <1>3, <1>4, <1>5 DEF SoleApply
<1>9. SolePull(c)' /\ SoleList(c)'
  BY <1>1 DEF SolePull, SoleList
<1> QED BY <1>6, <1>7, <1>8, <1>9 DEF Sole

LEMMA SoleDeletes ==
  ASSUME TypeOK, SlugInv, NEW c \in Clients, Sole(c), NEW x \in cur[c], ApplyDelete(c, x)
  PROVE  Sole(c)'
<1>1. /\ pc[c] = "write" /\ pc'[c] = "apply" /\ x.action = "delete"
      /\ remote' = [remote EXCEPT ![x.id] = Absent]
      /\ entries'[c] = {e \in entries[c] : e.addr # x.addr}
      /\ todo'[c] = todo[c] \ {x} /\ UNCHANGED <<lock, base, plan, kindsLeft>>
  BY DEF ApplyDelete, Resolve, kept, TypeOK
<1>2. /\ \A y \in plan[c] \cup todo[c] : Fits(y, entries[c], remote) /\ Fits(y, lock, remote)
      /\ todo[c] \subseteq plan[c] \/ \A y \in todo[c] : y.action = "delete"
      /\ x \in todo[c] /\ Mark(x.addr, x.id) \in entries[c]
      /\ OnePerAddr(plan[c]) /\ OnePerId(plan[c]) /\ Distinct(lock) /\ Distinct(entries[c])
  BY <1>1 DEF Sole, SoleLock, SoleApply, SolePlan
<1>3. x.id \in Ids
  BY <1>1, <1>2, ChangeFields DEF TypeOK
<1>4. ASSUME NEW y \in plan[c] \cup todo[c]
      PROVE  Fits(y, lock, remote') /\ Fits(y, entries'[c], remote')
  <2> SUFFICES ASSUME y.action \in {"update", "delete"}, remote'[y.id] # Absent
               PROVE  Mark(y.addr, y.id) \in lock /\ Mark(y.addr, y.id) \in entries'[c]
    BY DEF Fits
  <2>1. y.id \in Ids
    BY ChangeFields DEF TypeOK
  <2>2. y.id # x.id /\ remote[y.id] # Absent
    BY <1>1, <1>3, <2>1 DEF TypeOK
  <2>3. Mark(y.addr, y.id) \in lock /\ Mark(y.addr, y.id) \in entries[c]
    BY <1>2, <2>2 DEF Fits
  <2>4. y.addr # x.addr
    BY <1>2, <2>2, <2>3 DEF SlugInv, SlugsUnique, Mark
  <2> QED BY <1>1, <2>3, <2>4 DEF Mark
<1>5. SoleLock(c)'
  BY <1>1, <1>2 DEF SoleLock, Distinct
<1>6. SolePlan(c)'
  BY <1>1, <1>2, <1>4 DEF SolePlan
<1>7. SoleApply(c)'
  BY <1>1, <1>2, <1>4 DEF SoleApply
<1>8. SolePull(c)' /\ SoleList(c)'
  BY <1>1 DEF SolePull, SoleList
<1> QED BY <1>5, <1>6, <1>7, <1>8 DEF Sole

(* Ids are not reused, so nobody outside revives one.                        *)
LEMMA SoleWorld ==
  ASSUME TypeOK, IdKinds, NEW c \in Clients, Sole(c), World
  PROVE  Sole(c)'
<1>1. UNCHANGED <<lock, pc, base, entries, todo, cur, plan, kindsLeft>>
  BY DEF World, Edit, External, ExternalCreate, ExternalUpdate, ExternalDelete, locals, kept
<1>2. Ages
  <2> USE DEF Ages, Ids, Live, TypeOK
  <2>1. ASSUME NEW a \in Editable, NEW text \in Vals \cup {NoFile}, Edit(a, text) PROVE Ages
    BY <2>1 DEF Edit
  <2>2. ASSUME NEW k \in Kinds, NEW name \in Names, NEW v \in Vals, ExternalCreate(k, name, v)
        PROVE  Ages
    BY <2>2 DEF ExternalCreate, External
  <2>3. ASSUME NEW i \in Ids, NEW v \in Vals, ExternalUpdate(i, v) PROVE Ages
    BY <2>3 DEF ExternalUpdate, External
  <2>4. ASSUME NEW i \in Ids, ExternalDelete(i) PROVE Ages
    BY <2>4 DEF ExternalDelete, External
  <2> QED BY <2>1, <2>2, <2>3, <2>4 DEF World
<1>3. \A x \in plan[c] \cup todo[c] : Fits(x, lock, remote')
  BY <1>2, Aged DEF Sole, SolePlan
<1>4. \A x \in plan[c] \cup todo[c] :
        Fits(x, entries[c], remote) => Fits(x, entries[c], remote')
  BY <1>2, Aged
<1>5. SolePlan(c)'
  BY <1>1, <1>3 DEF Sole, SolePlan
<1>6. SolePull(c)' /\ SoleApply(c)'
  BY <1>1, <1>4 DEF Sole, SolePull, SoleApply
<1>7. SoleLock(c)' /\ SoleList(c)'
  BY <1>1 DEF Sole, SoleLock, SoleList
<1> QED BY <1>5, <1>6, <1>7 DEF Sole

LEMMA NextSole ==
  ASSUME OneClient
  PROVE  TypeOK /\ SlugInv /\ IdKinds /\ SoleInv /\ [Next]_vars => SoleInv'
<1> SUFFICES ASSUME TypeOK, SlugInv, IdKinds, SoleInv, [Next]_vars PROVE SoleInv'
  OBVIOUS
<1>1. ASSUME NEW c \in Clients PROVE Sole(c)'
  <2>0. Sole(c)
    BY DEF SoleInv
  <2>1. CASE Runs(c)
    BY <2>0, <2>1, SoleStarts, SoleEnds, SoleLists, SoleReads, SoleDiffs, SoleChecks, SoleCreates,
       SoleUpdates, SoleDeletes DEF Runs, Step
  <2>2. CASE World
    BY <2>0, <2>2, SoleWorld
  <2>3. CASE UNCHANGED vars
    BY <2>0, <2>3 DEF vars, shared, locals, kept, Sole, SoleLock, SolePlan, SolePull, SoleList, SoleApply
  <2> QED BY <2>1, <2>2, <2>3 DEF Next, Runs, OneClient
<1>2. Distinct(lock')
  <2>1. CASE Clients = {}
    <3>1. lock' = lock
      BY <2>1 DEF Next, World, Edit, External, ExternalCreate, ExternalUpdate, ExternalDelete,
           vars, shared
    <3> QED BY <3>1 DEF SoleInv
  <2>2. CASE Clients # {}
    BY <1>1, <2>2 DEF Sole, SoleLock
  <2> QED BY <2>1, <2>2
<1> QED BY <1>1, <1>2 DEF SoleInv

(* As long as a single client works on the lockfile, it never binds two      *)
(* slugs to one remote id, whatever it applies late or twice and whatever    *)
(* happens to the remote and to the working tree meanwhile.                  *)
THEOREM OneClientOneSlug ==
  ASSUME OneClient
  PROVE  Spec => []OneSlugPerId
<1>1. Init => SoleInv
  BY DEF Init, SoleInv, Sole, SoleLock, SolePlan, SolePull, SoleList, SoleApply, Distinct,
         OnePerAddr, OnePerId
<1>2. SoleInv => OneSlugPerId
  BY DEF SoleInv, Distinct, OneSlugPerId
<1>3. Init => SlugInv
  BY DEF Init, SlugInv, SlugsUnique
<1>4. TypeOK /\ SlugInv /\ IdKinds /\ SoleInv /\ [Next]_vars => SoleInv'
  BY NextSole
<1> QED BY <1>1, <1>2, <1>3, <1>4, NextSlugs, NextKinds, InitKinds, TypeCorrect, PTL DEF Spec

-----------------------------------------------------------------------------
(* Applies converge: while nobody else interferes, the changes left are what *)
(* separates the lockfile being built and the remote from the working tree   *)
(* the plan was made of, address by address.                                 *)
LiveIn(a, v, L, R) == \E e \in L : e.addr = a /\ R[e.id] # Absent /\ R[e.id].val = v

InForce(x, L, R) == Mark(x.addr, x.id) \in L /\ R[x.id] # Absent /\ R[x.id].val = x.before

Fresh(x, w, L, R) ==
  IF x.action = "delete" THEN w[x.addr] = None /\ InForce(x, L, R)
  ELSE /\ w[x.addr] = x.after
       /\ x.action = "create" \/ InForce(x, L, R)
       /\ x.action = "noop" => x.before = x.after

Settled(a, w, L, R, del) ==
  IF w[a] # None THEN LiveIn(a, w[a], L, R) ELSE del => \A v \in Vals : ~ LiveIn(a, v, L, R)

Aim(S, w, L, R, K, del) ==
  /\ Distinct(L) /\ OnePerAddr(S)
  /\ \A x \in S : x.addr.kind \in K /\ Fresh(x, w, L, R)
  /\ \A a \in Addr : a.kind \in K => (\E x \in S : x.addr = a) \/ Settled(a, w, L, R, del)

Aiming(c) ==
  /\ pc[c] = "idle" => todo[c] = {}
  /\ pc[c] = "destroyList" => want[c] = [a \in Addr |-> None]
  /\ calm[c] =>
       /\ pc[c] \in {"planList", "destroyList"} =>
            /\ base[c] = lock /\ kindsLeft[c] \subseteq Owned[c]
            /\ Aim(todo[c], want[c], lock, remote, Owned[c] \ kindsLeft[c], TRUE)
       /\ pc[c] = "idle" /\ outcome[c] = "planned" =>
            Aim(plan[c], want[c], lock, remote, Owned[c], TRUE)
       /\ pc[c] \in {"apply", "write"} =>
            Aim(todo[c], want[c], entries[c], remote, Owned[c], allow[c])
       /\ pc[c] = "write" => cur[c] \subseteq todo[c]
       /\ pc[c] = "idle" /\ outcome[c] = "applied" =>
            Aim({}, want[c], lock, remote, Owned[c], allow[c])

AimInv == \A c \in Clients : Aiming(c)

(* A live entity is of the kind its entry says.                              *)
KindsMatch(L) == \A e \in L : remote[e.id] # Absent => remote[e.id].kind = e.addr.kind

LEMMA EntriesMatch ==
  ASSUME TypeOK, IdKinds
  PROVE  /\ \A c \in Clients : KindsMatch(base[c])
         /\ OneSlugPerId => Distinct(lock)
<1>1. PICK f \in [Ids -> Kinds \cup {None}] : Kinded(f)
  BY DEF IdKinds
<1>2. ASSUME NEW c \in Clients, NEW e \in base[c], remote[e.id] # Absent
      PROVE  remote[e.id].kind = e.addr.kind
  <2>1. e.id \in Live /\ f[e.id] = e.addr.kind
    BY <1>1, <1>2 DEF Kinded, KindedBy, Knows, Issued, Live
  <2> QED BY <1>1, <2>1 DEF Kinded, Knows, Issued
<1>3. OneSlugPerId => Distinct(lock)
  BY <1>1 DEF Kinded, Knows, Issued, OneSlugPerId, Distinct
<1> QED BY <1>2, <1>3 DEF KindsMatch

(* What separates the entities of a kind from the working tree.              *)
LEMMA DiffFresh ==
  ASSUME TypeOK, NEW k \in Kinds, NEW L \in SUBSET Entry, NEW w \in [Addr -> Vals \cup {None}],
         NEW x \in DiffKind(k, L, w)
  PROVE  Fresh(x, w, L, remote)
<1>1. ASSUME NEW a \in Desired(w), a.kind = k, x = DesiredChange(a, L, w)
      PROVE  Fresh(x, w, L, remote)
  <2>1. CASE LockId(L, a) \in LiveOf(a.kind)
    <3>1. LockId(L, a) \in Ids /\ remote[LockId(L, a)] # Absent /\ LockId(L, a) # NoId
      BY <2>1, ConstantsOK DEF LiveOf, Live, Ids, NoId
    <3>2. Mark(a, LockId(L, a)) \in L
      BY <3>1, LockIdIn
    <3>3. /\ x.addr = a /\ x.id = LockId(L, a) /\ x.before = remote[LockId(L, a)].val
          /\ x.after = w[a] /\ x.action = IF remote[LockId(L, a)].val = w[a] THEN "noop" ELSE "update"
      BY <1>1, <2>1 DEF DesiredChange
    <3>4. x.action # "delete" /\ (x.action = "noop" => x.before = x.after)
      BY <3>3
    <3> QED BY <3>1, <3>2, <3>3, <3>4 DEF Fresh, InForce
  <2>2. CASE LockId(L, a) \notin LiveOf(a.kind)
    BY <1>1, <2>2 DEF DesiredChange, Fresh
  <2> QED BY <2>1, <2>2
<1>2. ASSUME NEW e \in LiveEntries(k, L), e.addr \notin Desired(w), x = DeleteOf(e)
      PROVE  Fresh(x, w, L, remote)
  <2>1. e \in Entry /\ e \in L /\ remote[e.id] # Absent /\ e.addr \in Addr
    BY DEF LiveEntries, LiveOf, Live, Entry
  <2>2. e = Mark(e.addr, e.id)
    BY <2>1 DEF Entry, Mark
  <2>3. x.addr = e.addr /\ x.id = e.id /\ x.before = remote[e.id].val /\ x.action = "delete"
    BY <1>2 DEF DeleteOf
  <2>4. w[e.addr] = None
    BY <1>2, <2>1 DEF Desired
  <2> QED BY <2>1, <2>2, <2>3, <2>4 DEF Fresh, InForce
<1> QED BY <1>1, <1>2 DEF DiffKind

LEMMA AimGrows ==
  ASSUME TypeOK, NEW k \in Kinds, NEW L \in SUBSET Entry, SlugsUnique(L), KindsMatch(L),
         NEW w \in [Addr -> Vals \cup {None}], NEW S, NEW K, k \notin K,
         Aim(S, w, L, remote, K, TRUE)
  PROVE  Aim(S \cup DiffKind(k, L, w), w, L, remote, K \cup {k}, TRUE)
<1> DEFINE new == DiffKind(k, L, w)
<1>1. ASSUME NEW x \in new PROVE x.addr.kind = k /\ Fresh(x, w, L, remote)
  <2>1. x \in Listed(k, L, w)
    BY DEF Listed
  <2> QED BY <2>1, ListedMarked, DiffFresh
<1>2. OnePerAddr(S \cup new)
  <2>1. OnePerAddr(new)
    BY DiffOnePerAddr
  <2>2. OnePerAddr(S) /\ \A x \in S : x.addr.kind # k
    BY DEF Aim
  <2>3. \A x \in new : x.addr.kind = k
    BY <1>1
  <2> QED BY <2>1, <2>2, <2>3 DEF OnePerAddr
<1>3. ASSUME NEW a \in Addr, a.kind = k, ~ \E x \in new : x.addr = a
      PROVE  Settled(a, w, L, remote, TRUE)
  <2>1. a \notin Desired(w)
    <3>1. DesiredChange(a, L, w).addr = a
      BY DEF DesiredChange
    <3> QED BY <1>3, <3>1 DEF DiffKind
  <2>2. ASSUME NEW e \in L, e.addr = a, remote[e.id] # Absent PROVE FALSE
    <3>1. e \in LiveEntries(k, L)
      BY <1>3, <2>2 DEF KindsMatch, LiveEntries, LiveOf, Live, Entry
    <3>2. DeleteOf(e) \in new /\ DeleteOf(e).addr = a
      BY <2>1, <2>2, <3>1 DEF DiffKind, DeleteOf
    <3> QED BY <1>3, <3>2
  <2> QED BY <2>1, <2>2 DEF Settled, LiveIn, Desired
<1> QED BY <1>1, <1>2, <1>3 DEF Aim

(* One change fewer: what it leaves at its address is settled, and nothing   *)
(* else that the other changes or addresses rely on has moved.               *)
LEMMA AimShrinks ==
  ASSUME NEW S, NEW x \in S, NEW w, NEW L, NEW R, NEW K, NEW del, Aim(S, w, L, R, K, del),
         NEW M, NEW T, Distinct(M),
         \A e \in L : e.addr # x.addr => e \in M /\ T[e.id] = R[e.id],
         \A e \in M : e.addr # x.addr => e \in L,
         Settled(x.addr, w, M, T, del)
  PROVE  Aim(S \ {x}, w, M, T, K, del)
<1>1. ASSUME NEW y \in S \ {x} PROVE Fresh(y, w, M, T)
  <2>1. y.addr # x.addr /\ Fresh(y, w, L, R)
    BY DEF Aim, OnePerAddr
  <2>2. InForce(y, L, R) => InForce(y, M, T)
    BY <2>1 DEF InForce, Mark
  <2> QED BY <2>1, <2>2 DEF Fresh
<1>2. ASSUME NEW a, a # x.addr, Settled(a, w, L, R, del) PROVE Settled(a, w, M, T, del)
  <2>1. \A v : LiveIn(a, v, M, T) <=> LiveIn(a, v, L, R)
    BY <1>2 DEF LiveIn
  <2> QED BY <1>2, <2>1 DEF Settled
<1>3. ASSUME NEW a \in Addr, a.kind \in K, ~ \E y \in S \ {x} : y.addr = a
      PROVE  Settled(a, w, M, T, del)
  <2>1. CASE a = x.addr
    BY <2>1
  <2>2. CASE a # x.addr
    <3>1. ~ \E y \in S : y.addr = a
      BY <1>3, <2>2
    <3> QED BY <1>2, <1>3, <2>2, <3>1 DEF Aim
  <2> QED BY <2>1, <2>2
<1>4. OnePerAddr(S \ {x}) /\ \A y \in S \ {x} : y.addr.kind \in K
  BY DEF Aim, OnePerAddr
<1> QED BY <1>1, <1>3, <1>4 DEF Aim

LEMMA AimStarts ==
  ASSUME TypeOK, NEW c \in Clients, Aiming(c), Distinct(lock), Start(c) \/ DestroyApply(c)
  PROVE  Aiming(c)'
<1>0. UNCHANGED <<lock, remote, plan>>
  BY DEF Start, PullStart, PlanStart, DestroyStart, ApplyStart, DestroyApply, shared, kept
<1> USE DEF TypeOK
<1>1. ASSUME NEW w PROVE Aim({}, w, lock, remote, Owned[c] \ Owned[c], TRUE)
  BY DEF Aim, OnePerAddr
<1>2. CASE PullStart(c)
  <2>1. pc'[c] = "pullList"
    BY <1>2 DEF PullStart
  <2> QED BY <2>1 DEF Aiming
<1>3. CASE PlanStart(c)
  <2>1. pc[c] = "idle" /\ todo' = todo /\ todo[c] = {}
    BY <1>3 DEF PlanStart, Begin, locals, Aiming
  <2>2. \/ pc'[c] = "idle" /\ outcome'[c] = "invalid"
        \/ pc'[c] = "planList" /\ base'[c] = lock /\ kindsLeft'[c] = Owned[c]
    <3>1. CASE Undecodable(c) \/ Dangling(c)
      BY <1>3, <2>1, <3>1 DEF PlanStart
    <3>2. CASE ~ (Undecodable(c) \/ Dangling(c))
      BY <1>3, <3>2 DEF PlanStart
    <3> QED BY <3>1, <3>2
  <2> QED BY <1>0, <1>1, <2>1, <2>2 DEF Aiming
<1>4. CASE DestroyStart(c)
  <2>1. /\ todo' = todo /\ todo[c] = {} /\ pc'[c] = "destroyList" /\ base'[c] = lock
        /\ kindsLeft'[c] = Owned[c] /\ want'[c] = [a \in Addr |-> None]
    BY <1>4 DEF DestroyStart, Begin, Aiming
  <2> QED BY <1>0, <1>1, <2>1 DEF Aiming
<1>5. ASSUME NEW d \in Clients, NEW del \in BOOLEAN, ApplyStart(c, d, del) PROVE Aiming(c)'
  <2>1. /\ pc[c] = "idle" /\ pc'[c] = "apply" /\ entries'[c] = lock /\ todo'[c] = plan[d]
        /\ allow'[c] = del /\ want' = want
        /\ calm'[c] => calm[c] /\ d = c /\ outcome[c] = "planned"
    BY <1>5 DEF ApplyStart, BeginApply, Begin
  <2>2. calm'[c] => Aim(plan[c], want[c], lock, remote, Owned[c], TRUE)
    BY <2>1 DEF Aiming
  <2>3. calm'[c] => Aim(plan[c], want[c], lock, remote, Owned[c], del)
    BY <2>2 DEF Aim, Settled
  <2> QED BY <1>0, <2>1, <2>3 DEF Aiming
<1>6. CASE DestroyApply(c)
  <2>1. /\ pc[c] = "destroyList" /\ kindsLeft[c] = {} /\ pc'[c] = "apply" /\ entries'[c] = lock
        /\ todo'[c] = todo[c] /\ allow'[c] = TRUE /\ want' = want /\ calm' = calm
    BY <1>6 DEF DestroyApply, BeginApply
  <2>2. Owned[c] \ {} = Owned[c]
    OBVIOUS
  <2> QED BY <1>0, <2>1, <2>2 DEF Aiming
<1> QED BY <1>2, <1>3, <1>4, <1>5, <1>6 DEF Start

LEMMA AimEnds ==
  ASSUME TypeOK, NEW c \in Clients, Aiming(c), Fail(c) \/ PullEnd(c) \/ PlanEnd(c) \/ ApplyEnd(c)
  PROVE  Aiming(c)'
<1>1. pc'[c] = "idle" /\ todo'[c] = {} /\ remote' = remote
  BY DEF TypeOK, Fail, PullEnd, PlanEnd, ApplyEnd, End, shared
<1>2. CASE Fail(c) \/ PullEnd(c)
  <2>1. outcome'[c] \in {"failed", "pulled"}
    BY <1>2 DEF TypeOK, Fail, PullEnd, End
  <2> QED BY <1>1, <2>1 DEF Aiming
<1>3. CASE PlanEnd(c)
  <2>1. /\ pc[c] = "planList" /\ kindsLeft[c] = {} /\ plan'[c] = todo[c] /\ outcome'[c] = "planned"
        /\ lock' = lock /\ want' = want /\ calm' = calm
    BY <1>3 DEF TypeOK, PlanEnd, End, shared
  <2>2. Owned[c] \ {} = Owned[c]
    OBVIOUS
  <2> QED BY <1>1, <2>1, <2>2 DEF Aiming
<1>4. CASE ApplyEnd(c)
  <2>1. /\ pc[c] = "apply" /\ todo[c] = {} /\ lock' = entries[c] /\ outcome'[c] = "applied"
        /\ want' = want /\ allow' = allow /\ (calm'[c] => calm[c])
    BY <1>4 DEF TypeOK, ApplyEnd, End, Disturb, kept
  <2> QED BY <1>1, <2>1 DEF Aiming
<1> QED BY <1>2, <1>3, <1>4

LEMMA AimLists ==
  ASSUME TypeOK, SlugInv, IdKinds, NEW c \in Clients, Aiming(c), NEW k \in Kinds,
         PlanList(c, k) \/ DestroyList(c, k)
  PROVE  Aiming(c)'
<1>1. /\ pc[c] \in {"planList", "destroyList"} /\ k \in kindsLeft[c]
      /\ kindsLeft'[c] = kindsLeft[c] \ {k} /\ UNCHANGED <<lock, remote, pc, base, want, calm>>
  BY DEF PlanList, DestroyList, shared, kept, TypeOK
<1>2. todo'[c] = todo[c] \cup DiffKind(k, base[c], want[c])
  <2>1. CASE PlanList(c, k)
    BY <2>1 DEF PlanList, TypeOK
  <2>2. CASE DestroyList(c, k)
    <3>1. /\ todo'[c] = todo[c] \cup {DeleteOf(e) : e \in LiveEntries(k, base[c])}
          /\ pc[c] = "destroyList"
      BY <2>2 DEF DestroyList, TypeOK
    <3>2. Desired(want[c]) = {}
      BY <3>1 DEF Aiming, Desired
    <3>3. DiffKind(k, base[c], want[c]) = {DeleteOf(e) : e \in LiveEntries(k, base[c])}
      BY <3>2 DEF DiffKind
    <3> QED BY <3>1, <3>3
  <2> QED BY <2>1, <2>2
<1>3. ASSUME calm[c]
      PROVE  Aim(todo'[c], want[c], lock, remote, Owned[c] \ kindsLeft'[c], TRUE)
  <2>1. /\ base[c] = lock /\ kindsLeft[c] \subseteq Owned[c]
        /\ Aim(todo[c], want[c], lock, remote, Owned[c] \ kindsLeft[c], TRUE)
    BY <1>1, <1>3 DEF Aiming
  <2>2. PICK K : K = Owned[c] \ kindsLeft[c]
    OBVIOUS
  <2>3. k \notin K /\ K \cup {k} = Owned[c] \ kindsLeft'[c]
    BY <1>1, <2>1, <2>2
  <2>4. /\ lock \in SUBSET Entry /\ SlugsUnique(lock) /\ KindsMatch(lock)
        /\ want[c] \in [Addr -> Vals \cup {None}]
    BY <2>1, EntriesMatch DEF TypeOK, SlugInv
  <2>5. Aim(todo[c] \cup DiffKind(k, lock, want[c]), want[c], lock, remote, K \cup {k}, TRUE)
    BY <2>1, <2>2, <2>3, <2>4, AimGrows
  <2> QED BY <1>2, <2>1, <2>3, <2>5
<1> QED BY <1>1, <1>3 DEF Aiming

LEMMA AimChecks ==
  ASSUME TypeOK, NEW c \in Clients, Aiming(c), NEW x \in todo[c], ApplySkip(c, x) \/ ApplyCheck(c, x)
  PROVE  Aiming(c)'
<1>1. /\ pc[c] = "apply" /\ UNCHANGED <<lock, remote, entries, want, allow, calm>>
      /\ x \in Change
  BY DEF ApplySkip, ApplyCheck, Turn, shared, kept, TypeOK
<1>2. calm[c] => /\ Aim(todo[c], want[c], entries[c], remote, Owned[c], allow[c])
                 /\ x.addr.kind \in Owned[c] /\ Fresh(x, want[c], entries[c], remote)
  BY <1>1 DEF Aiming, Aim
<1>3. CASE ApplySkip(c, x)
  <2>1. todo'[c] = todo[c] \ {x} /\ pc'[c] = "apply"
    BY <1>1, <1>3 DEF ApplySkip, Resolve, TypeOK
  <2>2. calm[c] => Settled(x.addr, want[c], entries[c], remote, allow[c])
    <3> SUFFICES ASSUME calm[c] PROVE Settled(x.addr, want[c], entries[c], remote, allow[c])
      OBVIOUS
    <3>1. CASE x.action = "noop"
      <4>1. x.after \in Vals /\ want[c][x.addr] = x.after /\ x.before = x.after
        BY <1>1, <1>2, <3>1, ChangeFields DEF Fresh
      <4>2. InForce(x, entries[c], remote)
        BY <1>2, <3>1 DEF Fresh
      <4>3. LiveIn(x.addr, x.after, entries[c], remote)
        BY <4>1, <4>2 DEF InForce, LiveIn, Mark
      <4> QED BY <4>1, <4>3, ConstantsOK DEF Settled
    <3>2. CASE x.action = "delete" /\ ~ allow[c]
      BY <1>2, <3>2 DEF Fresh, Settled
    <3> QED BY <1>2, <1>3, <3>1, <3>2 DEF ApplySkip, Skipped
  <2>3. calm[c] => Aim(todo[c] \ {x}, want[c], entries[c], remote, Owned[c], allow[c])
    <3>1. calm[c] => Distinct(entries[c])
      BY <1>2 DEF Aim
    <3> QED BY <1>2, <2>2, <3>1, AimShrinks
  <2> QED BY <1>1, <2>1, <2>3 DEF Aiming
<1>4. CASE ApplyCheck(c, x)
  <2>1. calm[c] => ~ Moved(x)
    <3>1. x.action \in {"update", "delete"}
      BY <1>4 DEF ApplyCheck
    <3> QED BY <1>2, <3>1 DEF Fresh, InForce, Moved
  <2>2. CASE Moved(x)
    <3>1. pc'[c] = "apply" /\ ~ calm'[c]
      BY <1>1, <1>4, <2>1, <2>2 DEF ApplyCheck
    <3> QED BY <3>1 DEF Aiming
  <2>3. CASE ~ Moved(x)
    <3>1. pc'[c] = "write" /\ cur'[c] = {x} /\ todo' = todo
      BY <1>4, <2>3 DEF ApplyCheck, TypeOK
    <3> QED BY <1>1, <1>2, <3>1 DEF Aiming
  <2> QED BY <2>2, <2>3
<1> QED BY <1>3, <1>4

LEMMA AimCreates ==
  ASSUME TypeOK, IdKinds, NEW c \in Clients, Aiming(c), NEW x \in todo[c], ApplyCreate(c, x)
  PROVE  Aiming(c)'
<1>1. /\ pc[c] = "apply" /\ x.action = "create" /\ nextId \in Ids
      /\ remote' = [remote EXCEPT ![nextId] =
                      [kind |-> x.addr.kind, slug |-> x.addr.slug, val |-> x.after]]
      /\ entries'[c] = {e \in entries[c] : e.addr # x.addr} \cup {Mark(x.addr, nextId)}
      /\ todo'[c] = todo[c] \ {x} /\ UNCHANGED <<pc, want, allow>> /\ (calm'[c] => calm[c])
  BY DEF ApplyCreate, Turn, SetEntry, Resolve, kept, TypeOK, Mark, Disturb
<1> SUFFICES ASSUME calm'[c]
             PROVE  Aim(todo'[c], want[c], entries'[c], remote', Owned[c], allow[c])
  BY <1>1 DEF Aiming
<1>2. Aim(todo[c], want[c], entries[c], remote, Owned[c], allow[c])
  BY <1>1 DEF Aiming
<1>3. \A e \in entries[c] : e.id \in Ids /\ e.id # nextId
  <2>1. \A e \in entries[c] : e.id \in Ids /\ e.id < nextId
    BY DEF IdKinds, Kinded, KindedBy, Knows, Issued
  <2> QED BY <1>1, <2>1 DEF Ids
<1>4. Distinct(entries'[c])
  BY <1>1, <1>2, <1>3 DEF Aim, Distinct, Mark
<1>5. \A e \in entries[c] : e.addr # x.addr => e \in entries'[c] /\ remote'[e.id] = remote[e.id]
  BY <1>1, <1>3 DEF TypeOK
<1>6. \A e \in entries'[c] : e.addr # x.addr => e \in entries[c]
  BY <1>1 DEF Mark
<1>7. Settled(x.addr, want[c], entries'[c], remote', allow[c])
  <2>1. x.after \in Vals /\ want[c][x.addr] = x.after /\ x \in Change
    BY <1>1, <1>2, ChangeFields DEF Aim, Fresh, TypeOK
  <2>2. /\ remote'[nextId] = [kind |-> x.addr.kind, slug |-> x.addr.slug, val |-> x.after]
        /\ [kind |-> x.addr.kind, slug |-> x.addr.slug, val |-> x.after] \in Entity
    BY <1>1, <2>1, ChangeFields DEF TypeOK, Entity
  <2>3. remote'[nextId] # Absent /\ remote'[nextId].val = x.after
    BY <2>2, ConstantsOK
  <2>4. LiveIn(x.addr, x.after, entries'[c], remote')
    <3>1. PICK e : e = Mark(x.addr, nextId)
      OBVIOUS
    <3>2. e \in entries'[c] /\ e.addr = x.addr /\ e.id = nextId
      BY <1>1, <3>1 DEF Mark
    <3> QED BY <2>3, <3>2 DEF LiveIn
  <2> QED BY <2>1, <2>4, ConstantsOK DEF Settled
<1>8. PICK M : M = entries'[c]
  OBVIOUS
<1>9. PICK T : T = remote'
  OBVIOUS
<1>10. Aim(todo[c] \ {x}, want[c], M, T, Owned[c], allow[c])
  <2>1. /\ Distinct(M) /\ Settled(x.addr, want[c], M, T, allow[c])
        /\ \A e \in entries[c] : e.addr # x.addr => e \in M /\ T[e.id] = remote[e.id]
        /\ \A e \in M : e.addr # x.addr => e \in entries[c]
    BY <1>4, <1>5, <1>6, <1>7, <1>8, <1>9
  <2> QED BY <1>2, <2>1, AimShrinks
<1> QED BY <1>1, <1>8, <1>9, <1>10

LEMMA AimUpdates ==
  ASSUME TypeOK, NEW c \in Clients, Aiming(c), NEW x \in cur[c], ApplyUpdate(c, x)
  PROVE  Aiming(c)'
<1>1. /\ pc[c] = "write" /\ pc'[c] = "apply" /\ x.action = "update"
      /\ remote' = [remote EXCEPT ![x.id] =
                      [kind |-> x.addr.kind, slug |-> x.addr.slug, val |-> x.after]]
      /\ entries'[c] = {e \in entries[c] : e.addr # x.addr} \cup {Mark(x.addr, x.id)}
      /\ todo'[c] = todo[c] \ {x} /\ UNCHANGED <<want, allow>> /\ (calm'[c] => calm[c])
  BY DEF ApplyUpdate, SetEntry, Resolve, kept, TypeOK, Mark, Disturb
<1> SUFFICES ASSUME calm'[c]
             PROVE  Aim(todo'[c], want[c], entries'[c], remote', Owned[c], allow[c])
  BY <1>1 DEF Aiming
<1>2. Aim(todo[c], want[c], entries[c], remote, Owned[c], allow[c]) /\ x \in todo[c]
  BY <1>1 DEF Aiming
<1>3. /\ x \in Change /\ x.id \in Ids /\ x.after \in Vals /\ want[c][x.addr] = x.after
      /\ Mark(x.addr, x.id) \in entries[c]
  BY <1>1, <1>2, ChangeFields DEF Aim, Fresh, InForce, TypeOK
<1>4. \A e \in entries[c] : e.addr # x.addr => e.id # x.id /\ e.id \in Ids
  BY <1>2, <1>3 DEF Aim, Distinct, Mark, TypeOK, Entry
<1>5. Distinct(entries'[c])
  BY <1>1, <1>2, <1>4 DEF Aim, Distinct, Mark
<1>6. \A e \in entries[c] : e.addr # x.addr => e \in entries'[c] /\ remote'[e.id] = remote[e.id]
  BY <1>1, <1>4 DEF TypeOK
<1>7. \A e \in entries'[c] : e.addr # x.addr => e \in entries[c]
  BY <1>1 DEF Mark
<1>8. Settled(x.addr, want[c], entries'[c], remote', allow[c])
  <2>1. /\ remote'[x.id] = [kind |-> x.addr.kind, slug |-> x.addr.slug, val |-> x.after]
        /\ [kind |-> x.addr.kind, slug |-> x.addr.slug, val |-> x.after] \in Entity
    BY <1>1, <1>3, ChangeFields DEF TypeOK, Entity
  <2>2. remote'[x.id] # Absent /\ remote'[x.id].val = x.after
    BY <2>1, ConstantsOK
  <2>3. LiveIn(x.addr, x.after, entries'[c], remote')
    <3>1. PICK e : e = Mark(x.addr, x.id)
      OBVIOUS
    <3>2. e \in entries'[c] /\ e.addr = x.addr /\ e.id = x.id
      BY <1>1, <3>1 DEF Mark
    <3> QED BY <2>2, <3>2 DEF LiveIn
  <2> QED BY <1>3, <2>3, ConstantsOK DEF Settled
<1>9. PICK M : M = entries'[c]
  OBVIOUS
<1>10. PICK T : T = remote'
  OBVIOUS
<1>11. Aim(todo[c] \ {x}, want[c], M, T, Owned[c], allow[c])
  <2>1. /\ Distinct(M) /\ Settled(x.addr, want[c], M, T, allow[c])
        /\ \A e \in entries[c] : e.addr # x.addr => e \in M /\ T[e.id] = remote[e.id]
        /\ \A e \in M : e.addr # x.addr => e \in entries[c]
    BY <1>5, <1>6, <1>7, <1>8, <1>9, <1>10
  <2> QED BY <1>2, <2>1, AimShrinks
<1> QED BY <1>1, <1>9, <1>10, <1>11

LEMMA AimDeletes ==
  ASSUME TypeOK, NEW c \in Clients, Aiming(c), NEW x \in cur[c], ApplyDelete(c, x)
  PROVE  Aiming(c)'
<1>1. /\ pc[c] = "write" /\ pc'[c] = "apply" /\ x.action = "delete"
      /\ remote' = [remote EXCEPT ![x.id] = Absent]
      /\ entries'[c] = {e \in entries[c] : e.addr # x.addr}
      /\ todo'[c] = todo[c] \ {x} /\ UNCHANGED <<want, allow>> /\ (calm'[c] => calm[c])
  BY DEF ApplyDelete, Resolve, kept, TypeOK, Disturb
<1> SUFFICES ASSUME calm'[c]
             PROVE  Aim(todo'[c], want[c], entries'[c], remote', Owned[c], allow[c])
  BY <1>1 DEF Aiming
<1>2. Aim(todo[c], want[c], entries[c], remote, Owned[c], allow[c]) /\ x \in todo[c]
  BY <1>1 DEF Aiming
<1>3. x.id \in Ids /\ want[c][x.addr] = None /\ Mark(x.addr, x.id) \in entries[c]
  BY <1>1, <1>2, ChangeFields DEF Aim, Fresh, InForce, TypeOK
<1>4. \A e \in entries[c] : e.addr # x.addr => e.id # x.id /\ e.id \in Ids
  BY <1>2, <1>3 DEF Aim, Distinct, Mark, TypeOK, Entry
<1>5. Distinct(entries'[c])
  BY <1>1, <1>2 DEF Aim, Distinct
<1>6. \A e \in entries[c] : e.addr # x.addr => e \in entries'[c] /\ remote'[e.id] = remote[e.id]
  BY <1>1, <1>4 DEF TypeOK
<1>7. \A e \in entries'[c] : e.addr # x.addr => e \in entries[c]
  BY <1>1
<1>8. Settled(x.addr, want[c], entries'[c], remote', allow[c])
  BY <1>1, <1>3 DEF Settled, LiveIn
<1>9. PICK M : M = entries'[c]
  OBVIOUS
<1>10. PICK T : T = remote'
  OBVIOUS
<1>11. Aim(todo[c] \ {x}, want[c], M, T, Owned[c], allow[c])
  <2>1. /\ Distinct(M) /\ Settled(x.addr, want[c], M, T, allow[c])
        /\ \A e \in entries[c] : e.addr # x.addr => e \in M /\ T[e.id] = remote[e.id]
        /\ \A e \in M : e.addr # x.addr => e \in entries[c]
    BY <1>5, <1>6, <1>7, <1>8, <1>9, <1>10
  <2> QED BY <1>2, <2>1, AimShrinks
<1> QED BY <1>1, <1>9, <1>10, <1>11

(* Whatever is none of a plan, a destroy or an apply.                        *)
LEMMA AimPulls ==
  ASSUME TypeOK, NEW c \in Clients,
         PullSeed(c) \/ (\E k \in Kinds : PullList(c, k)) \/ (\E i \in Ids : PullRead(c, i))
  PROVE  pc'[c] \in {"pullList", "pullRead"}
BY DEF PullSeed, PullList, PullRead, TypeOK

LEMMA NextAims == TypeOK /\ SlugInv /\ IdKinds /\ OneSlugPerId /\ AimInv /\ [Next]_vars => AimInv'
<1> SUFFICES ASSUME TypeOK, SlugInv, IdKinds, OneSlugPerId, AimInv, [Next]_vars, NEW c \in Clients
             PROVE  Aiming(c)'
  BY DEF AimInv
<1>0. Aiming(c) /\ Distinct(lock)
  BY EntriesMatch DEF AimInv
<1>1. CASE PullSeed(c) \/ (\E k \in Kinds : PullList(c, k)) \/ (\E i \in Ids : PullRead(c, i))
  BY <1>1, AimPulls DEF Aiming
<1>2. CASE Runs(c)
  BY <1>0, <1>1, <1>2, AimStarts, AimEnds, AimLists, AimChecks, AimCreates, AimUpdates, AimDeletes
     DEF Runs, Step
<1>3. CASE Same(c)
  BY <1>0, <1>3 DEF Aiming, Same, shared
<1> QED BY <1>2, <1>3, OwnOrSame

(* An apply or a destroy of a plan computed with nobody else interfering     *)
(* since then reaches what the plan set out to, as long as the lockfile      *)
(* gives each entity one slug.                                               *)
THEOREM AppliesConverge == Spec /\ []OneSlugPerId => []ApplyConverges
<1>1. Init => AimInv
  BY DEF Init, AimInv, Aiming
<1>2. AimInv => ApplyConverges
  <2> SUFFICES ASSUME AimInv, NEW c \in Clients, outcome[c] = "applied", pc[c] = "idle", calm[c],
                      NEW a \in Addr, a.kind \in Owned[c]
               PROVE  IF want[c][a] # None THEN LiveAt(a, want[c][a])
                      ELSE allow[c] => \A v \in Vals : ~ LiveAt(a, v)
    BY DEF ApplyConverges
  <2>1. Settled(a, want[c], lock, remote, allow[c])
    BY DEF AimInv, Aiming, Aim
  <2> QED BY <2>1 DEF Settled, LiveIn, LiveAt
<1>3. Init => SlugInv
  BY DEF Init, SlugInv, SlugsUnique
<1> QED BY <1>1, <1>2, <1>3, NextAims, NextSlugs, NextKinds, InitKinds, TypeCorrect, PTL DEF Spec

(* So for a single client every undisturbed apply converges.                 *)
THEOREM OneClientConverges ==
  ASSUME OneClient
  PROVE  Spec => []ApplyConverges
BY OneClientOneSlug, AppliesConverge, PTL

-----------------------------------------------------------------------------
(* Nothing is orphaned.  An id may have two slugs here (two clients pulled   *)
(* at once), so the argument is about addresses: a change that creates has   *)
(* no live entity at its address, every other change has its own id there,   *)
(* and no two changes share an address.  So no change moves what another     *)
(* one or a live entity of the lockfile relies on.                           *)
Claims(x, L, R) ==
  IF x.action = "create" THEN \A e \in L : e.addr = x.addr => R[e.id] = Absent
  ELSE Mark(x.addr, x.id) \in L

Rightful(S, L, R) == OnePerAddr(S) /\ \A x \in S : Claims(x, L, R)

(* The lockfile M still names every live entity that L owns.                 *)
Covers(M, L, R) == \A e \in L : R[e.id] # Absent => \E f \in M : f.id = e.id

Owning(c) ==
  /\ pc[c] = "idle" => todo[c] = {}
  /\ calm[c] =>
       /\ pc[c] \in {"planList", "destroyList"} =>
            /\ base[c] = lock /\ Rightful(todo[c], lock, remote)
            /\ \A x \in todo[c] : x.addr.kind \notin kindsLeft[c]
       /\ pc[c] = "idle" /\ outcome[c] = "planned" => Rightful(plan[c], lock, remote)
       /\ pc[c] \in {"apply", "write"} =>
            Rightful(todo[c], entries[c], remote) /\ Covers(entries[c], lock, remote)
       /\ pc[c] = "write" => \A x \in cur[c] : x \in todo[c] /\ remote[x.id] # Absent

OwnInv == \A c \in Clients : Owning(c)

(* The entry the lockfile gives an address is the one there is.              *)
LEMMA LockIdOf ==
  ASSUME NEW L, SlugsUnique(L), NEW e \in L
  PROVE  LockId(L, e.addr) = e.id
<1>1. (CHOOSE x \in L : x.addr = e.addr) \in L /\ (CHOOSE x \in L : x.addr = e.addr).addr = e.addr
  OBVIOUS
<1>2. (CHOOSE x \in L : x.addr = e.addr) = e
  BY <1>1 DEF SlugsUnique
<1> QED BY <1>2 DEF LockId

LEMMA DiffClaims ==
  ASSUME TypeOK, NEW k \in Kinds, NEW L \in SUBSET Entry, SlugsUnique(L), KindsMatch(L), NEW w,
         NEW x \in Listed(k, L, w)
  PROVE  Claims(x, L, remote)
<1>1. ASSUME NEW a \in Desired(w), a.kind = k, x = DesiredChange(a, L, w)
      PROVE  Claims(x, L, remote)
  <2>1. CASE LockId(L, a) \in LiveOf(a.kind)
    <3>1. x.action # "create" /\ x.id # NoId
      BY <1>1, <2>1, ConstantsOK DEF DesiredChange, LiveOf, Live, Ids, NoId
    <3>2. Mark(x.addr, x.id) \in L
      BY <3>1, ListedMarked
    <3> QED BY <3>1, <3>2 DEF Claims
  <2>2. CASE LockId(L, a) \notin LiveOf(a.kind)
    <3>1. x.action = "create" /\ x.addr = a
      BY <1>1, <2>2 DEF DesiredChange
    <3>2. ASSUME NEW e \in L, e.addr = a, remote[e.id] # Absent PROVE FALSE
      <4>1. LockId(L, a) = e.id
        BY <3>2, LockIdOf
      <4>2. e.id \in LiveOf(a.kind)
        BY <3>2 DEF KindsMatch, LiveOf, Live, Entry
      <4> QED BY <2>2, <4>1, <4>2
    <3> QED BY <3>1, <3>2 DEF Claims
  <2> QED BY <2>1, <2>2
<1>2. ASSUME NEW e \in LiveEntries(k, L), x = DeleteOf(e)
      PROVE  Claims(x, L, remote)
  <2>1. x.action = "delete" /\ e \in L /\ e = Mark(x.addr, x.id)
    BY <1>2 DEF DeleteOf, LiveEntries, Entry, Mark
  <2> QED BY <2>1 DEF Claims
<1> QED BY <1>1, <1>2 DEF Listed, DiffKind

LEMMA OwnStarts ==
  ASSUME TypeOK, NEW c \in Clients, Owning(c), Start(c) \/ DestroyApply(c)
  PROVE  Owning(c)'
<1>0. UNCHANGED <<lock, remote, plan>>
  BY DEF Start, PullStart, PlanStart, DestroyStart, ApplyStart, DestroyApply, shared, kept
<1> USE DEF TypeOK
<1>1. Rightful({}, lock, remote) /\ Covers(lock, lock, remote)
  BY DEF Rightful, OnePerAddr, Covers
<1>2. CASE PullStart(c)
  <2>1. pc'[c] = "pullList"
    BY <1>2 DEF PullStart
  <2> QED BY <2>1 DEF Owning
<1>3. CASE PlanStart(c)
  <2>1. pc[c] = "idle" /\ todo' = todo /\ todo[c] = {}
    BY <1>3 DEF PlanStart, Begin, locals, Owning
  <2>2. \/ pc'[c] = "idle" /\ outcome'[c] = "invalid"
        \/ pc'[c] = "planList" /\ base'[c] = lock
    <3>1. CASE Undecodable(c) \/ Dangling(c)
      BY <1>3, <2>1, <3>1 DEF PlanStart
    <3>2. CASE ~ (Undecodable(c) \/ Dangling(c))
      BY <1>3, <3>2 DEF PlanStart
    <3> QED BY <3>1, <3>2
  <2> QED BY <1>0, <1>1, <2>1, <2>2 DEF Owning
<1>4. CASE DestroyStart(c)
  <2>1. todo' = todo /\ todo[c] = {} /\ pc'[c] = "destroyList" /\ base'[c] = lock
    BY <1>4 DEF DestroyStart, Begin, Owning
  <2> QED BY <1>0, <1>1, <2>1 DEF Owning
<1>5. ASSUME NEW d \in Clients, NEW del \in BOOLEAN, ApplyStart(c, d, del) PROVE Owning(c)'
  <2>1. /\ pc[c] = "idle" /\ pc'[c] = "apply" /\ entries'[c] = lock /\ todo'[c] = plan[d]
        /\ calm'[c] => calm[c] /\ d = c /\ outcome[c] = "planned"
    BY <1>5 DEF ApplyStart, BeginApply, Begin
  <2> QED BY <1>0, <1>1, <2>1 DEF Owning
<1>6. CASE DestroyApply(c)
  <2>1. /\ pc[c] = "destroyList" /\ pc'[c] = "apply" /\ entries'[c] = lock
        /\ todo'[c] = todo[c] /\ calm' = calm
    BY <1>6 DEF DestroyApply, BeginApply
  <2> QED BY <1>0, <1>1, <2>1 DEF Owning
<1> QED BY <1>2, <1>3, <1>4, <1>5, <1>6 DEF Start

LEMMA OwnEnds ==
  ASSUME TypeOK, NEW c \in Clients, Owning(c), Fail(c) \/ PullEnd(c) \/ PlanEnd(c) \/ ApplyEnd(c)
  PROVE  Owning(c)'
<1>1. pc'[c] = "idle" /\ todo'[c] = {}
  BY DEF TypeOK, Fail, PullEnd, PlanEnd, ApplyEnd, End
<1>2. CASE Fail(c) \/ PullEnd(c) \/ ApplyEnd(c)
  <2>1. outcome'[c] \in {"failed", "pulled", "applied"}
    BY <1>2 DEF TypeOK, Fail, PullEnd, ApplyEnd, End
  <2> QED BY <1>1, <2>1 DEF Owning
<1>3. CASE PlanEnd(c)
  <2>1. /\ pc[c] = "planList" /\ plan'[c] = todo[c]
        /\ lock' = lock /\ remote' = remote /\ calm' = calm
    BY <1>3 DEF TypeOK, PlanEnd, End, shared
  <2> QED BY <1>1, <2>1 DEF Owning
<1> QED BY <1>2, <1>3

LEMMA OwnLists ==
  ASSUME TypeOK, SlugInv, IdKinds, NEW c \in Clients, Owning(c), NEW k \in Kinds,
         PlanList(c, k) \/ DestroyList(c, k)
  PROVE  Owning(c)'
<1>1. /\ pc[c] \in {"planList", "destroyList"} /\ k \in kindsLeft[c]
      /\ kindsLeft'[c] = kindsLeft[c] \ {k} /\ UNCHANGED <<lock, remote, pc, base, calm>>
  BY DEF PlanList, DestroyList, shared, kept, TypeOK
<1>2. PICK new : /\ todo'[c] = todo[c] \cup new /\ new \subseteq Listed(k, base[c], want[c])
                 /\ OnePerAddr(new)
  <2>1. CASE PlanList(c, k)
    <3>1. todo'[c] = todo[c] \cup DiffKind(k, base[c], want[c])
      BY <2>1 DEF PlanList, TypeOK
    <3> QED BY <3>1, DiffOnePerAddr DEF SlugInv, Listed
  <2>2. CASE DestroyList(c, k)
    <3>1. todo'[c] = todo[c] \cup {DeleteOf(e) : e \in LiveEntries(k, base[c])}
      BY <2>2 DEF DestroyList, TypeOK
    <3> QED BY <3>1, DiffOnePerAddr DEF SlugInv, Listed
  <2> QED BY <2>1, <2>2
<1>3. SlugsUnique(base[c]) /\ KindsMatch(base[c]) /\ base[c] \in SUBSET Entry
  BY EntriesMatch DEF SlugInv, TypeOK
<1>4. ASSUME NEW x \in new PROVE x.addr.kind = k /\ Claims(x, base[c], remote)
  BY <1>2, <1>3, ListedMarked, DiffClaims
<1>5. ASSUME calm[c]
      PROVE  Rightful(todo'[c], lock, remote) /\ \A x \in todo'[c] : x.addr.kind \notin kindsLeft'[c]
  <2>1. /\ base[c] = lock /\ Rightful(todo[c], lock, remote)
        /\ \A x \in todo[c] : x.addr.kind \notin kindsLeft[c]
    BY <1>1, <1>5 DEF Owning
  <2>2. \A x \in todo[c], y \in new : x.addr # y.addr
    BY <1>1, <1>4, <2>1
  <2>3. OnePerAddr(todo'[c])
    BY <1>2, <2>1, <2>2 DEF Rightful, OnePerAddr
  <2>4. \A x \in todo'[c] : Claims(x, lock, remote)
    BY <1>2, <1>4, <2>1 DEF Rightful
  <2>5. \A x \in todo'[c] : x.addr.kind \notin kindsLeft'[c]
    BY <1>1, <1>2, <1>4, <2>1
  <2> QED BY <2>3, <2>4, <2>5 DEF Rightful
<1> QED BY <1>1, <1>5 DEF Owning

LEMMA OwnChecks ==
  ASSUME TypeOK, NEW c \in Clients, Owning(c), NEW x \in todo[c], ApplySkip(c, x) \/ ApplyCheck(c, x)
  PROVE  Owning(c)'
<1>1. /\ pc[c] = "apply" /\ UNCHANGED <<lock, remote, entries, calm>>
      /\ todo'[c] \subseteq todo[c]
  BY DEF ApplySkip, ApplyCheck, Turn, Resolve, shared, kept, TypeOK
<1>2. \/ pc'[c] = "apply"
      \/ pc'[c] = "write" /\ cur'[c] = {x} /\ todo' = todo /\ remote[x.id] # Absent
  <2>1. CASE ApplySkip(c, x)
    BY <1>1, <2>1 DEF ApplySkip
  <2>2. CASE ApplyCheck(c, x) /\ Moved(x)
    BY <1>1, <2>2 DEF ApplyCheck
  <2>3. CASE ApplyCheck(c, x) /\ ~ Moved(x)
    BY <1>1, <2>3 DEF ApplyCheck, Moved, TypeOK
  <2> QED BY <2>1, <2>2, <2>3
<1>3. calm[c] => Rightful(todo'[c], entries[c], remote) /\ Covers(entries[c], lock, remote)
  BY <1>1 DEF Owning, Rightful, OnePerAddr
<1> QED BY <1>1, <1>2, <1>3 DEF Owning

(* A change is made: L becomes M, R becomes T.                               *)
LEMMA RightfulShrinks ==
  ASSUME NEW S, NEW x \in S, NEW L, NEW R, Rightful(S, L, R), NEW M, NEW T,
         \A e \in L : e.addr # x.addr => e \in M,
         \A e \in M : e.addr # x.addr => e \in L /\ (R[e.id] = Absent => T[e.id] = Absent)
  PROVE  Rightful(S \ {x}, M, T)
<1>1. ASSUME NEW y \in S \ {x} PROVE Claims(y, M, T)
  <2>1. y.addr # x.addr /\ Claims(y, L, R)
    BY DEF Rightful, OnePerAddr
  <2>2. CASE y.action = "create"
    BY <2>1, <2>2 DEF Claims
  <2>3. CASE y.action # "create"
    BY <2>1, <2>3 DEF Claims, Mark
  <2> QED BY <2>2, <2>3
<1>2. OnePerAddr(S \ {x})
  BY DEF Rightful, OnePerAddr
<1> QED BY <1>1, <1>2 DEF Rightful

LEMMA OwnCreates ==
  ASSUME TypeOK, IdKinds, NEW c \in Clients, Owning(c), NEW x \in todo[c], ApplyCreate(c, x)
  PROVE  Owning(c)'
<1>1. /\ pc[c] = "apply" /\ x.action = "create" /\ nextId \in Ids
      /\ remote' = [remote EXCEPT ![nextId] =
                      [kind |-> x.addr.kind, slug |-> x.addr.slug, val |-> x.after]]
      /\ entries'[c] = {e \in entries[c] : e.addr # x.addr} \cup {Mark(x.addr, nextId)}
      /\ todo'[c] = todo[c] \ {x} /\ UNCHANGED <<pc, lock>> /\ (calm'[c] => calm[c])
  BY DEF ApplyCreate, Turn, SetEntry, Resolve, TypeOK, Mark, Disturb
<1> SUFFICES ASSUME calm'[c]
             PROVE  Rightful(todo'[c], entries'[c], remote') /\ Covers(entries'[c], lock, remote')
  BY <1>1 DEF Owning
<1>2. Rightful(todo[c], entries[c], remote) /\ Covers(entries[c], lock, remote)
  BY <1>1 DEF Owning
<1>3. \A e \in lock \cup entries[c] : e.id \in Ids /\ e.id # nextId
  <2>1. \A e \in lock \cup entries[c] : e.id \in Ids /\ e.id < nextId
    BY DEF IdKinds, Kinded, KindedBy, Knows, Issued
  <2> QED BY <1>1, <2>1 DEF Ids
<1>4. \A e \in lock \cup entries[c] : remote'[e.id] = remote[e.id]
  BY <1>1, <1>3 DEF TypeOK
<1>5. PICK M : M = entries'[c]
  OBVIOUS
<1>6. PICK T : T = remote'
  OBVIOUS
<1>7. Rightful(todo[c] \ {x}, M, T)
  <2>1. \A e \in entries[c] : e.addr # x.addr => e \in M
    BY <1>1, <1>5
  <2>2. \A e \in M : e.addr # x.addr => e \in entries[c] /\ T[e.id] = remote[e.id]
    BY <1>1, <1>4, <1>5, <1>6 DEF Mark
  <2> QED BY <1>2, <2>1, <2>2, RightfulShrinks
<1>8. ASSUME NEW e \in lock, remote'[e.id] # Absent PROVE \E f \in entries'[c] : f.id = e.id
  <2>1. PICK f \in entries[c] : f.id = e.id /\ remote[f.id] # Absent
    BY <1>2, <1>4, <1>8 DEF Covers
  <2>2. f.addr # x.addr
    BY <1>1, <1>2, <2>1 DEF Rightful, Claims
  <2> QED BY <1>1, <2>1, <2>2
<1> QED BY <1>1, <1>5, <1>6, <1>7, <1>8 DEF Covers

LEMMA OwnUpdates ==
  ASSUME TypeOK, SlugInv, NEW c \in Clients, Owning(c), NEW x \in cur[c], ApplyUpdate(c, x)
  PROVE  Owning(c)'
<1>1. /\ pc[c] = "write" /\ pc'[c] = "apply" /\ x.action = "update"
      /\ remote' = [remote EXCEPT ![x.id] =
                      [kind |-> x.addr.kind, slug |-> x.addr.slug, val |-> x.after]]
      /\ entries'[c] = {e \in entries[c] : e.addr # x.addr} \cup {Mark(x.addr, x.id)}
      /\ todo'[c] = todo[c] \ {x} /\ lock' = lock /\ (calm'[c] => calm[c])
  BY DEF ApplyUpdate, SetEntry, Resolve, TypeOK, Mark, Disturb
<1> SUFFICES ASSUME calm'[c]
             PROVE  Rightful(todo'[c], entries'[c], remote') /\ Covers(entries'[c], lock, remote')
  BY <1>1 DEF Owning
<1>2. /\ Rightful(todo[c], entries[c], remote) /\ Covers(entries[c], lock, remote)
      /\ x \in todo[c] /\ remote[x.id] # Absent
  BY <1>1 DEF Owning
<1>3. Mark(x.addr, x.id) \in entries[c]
  BY <1>1, <1>2 DEF Rightful, Claims
<1>4. entries'[c] = entries[c]
  <2>1. \A e \in entries[c] : e.addr = x.addr => e = Mark(x.addr, x.id)
    BY <1>3 DEF SlugInv, SlugsUnique, Mark
  <2> QED BY <1>1, <1>3, <2>1
<1>5. \A i : remote'[i] # Absent => remote[i] # Absent
  BY <1>1, <1>2 DEF TypeOK
<1>6. ASSUME NEW i \in Ids, remote[i] = Absent PROVE remote'[i] = Absent
  BY <1>1, <1>2, <1>6 DEF TypeOK
<1>7. PICK T : T = remote'
  OBVIOUS
<1>8. Rightful(todo[c] \ {x}, entries[c], T)
  <2>1. \A e \in entries[c] : e.id \in Ids
    BY DEF TypeOK, Entry
  <2> QED BY <1>2, <1>6, <1>7, <2>1, RightfulShrinks
<1>9. Covers(entries[c], lock, remote')
  BY <1>2, <1>5 DEF Covers
<1> QED BY <1>1, <1>4, <1>7, <1>8, <1>9

LEMMA OwnDeletes ==
  ASSUME TypeOK, SlugInv, NEW c \in Clients, Owning(c), NEW x \in cur[c], ApplyDelete(c, x)
  PROVE  Owning(c)'
<1>1. /\ pc[c] = "write" /\ pc'[c] = "apply" /\ x.action = "delete"
      /\ remote' = [remote EXCEPT ![x.id] = Absent]
      /\ entries'[c] = {e \in entries[c] : e.addr # x.addr}
      /\ todo'[c] = todo[c] \ {x} /\ lock' = lock /\ (calm'[c] => calm[c])
  BY DEF ApplyDelete, Resolve, TypeOK, Disturb
<1> SUFFICES ASSUME calm'[c]
             PROVE  Rightful(todo'[c], entries'[c], remote') /\ Covers(entries'[c], lock, remote')
  BY <1>1 DEF Owning
<1>2. /\ Rightful(todo[c], entries[c], remote) /\ Covers(entries[c], lock, remote)
      /\ x \in todo[c]
  BY <1>1 DEF Owning
<1>3. x.id \in Ids /\ \A e \in lock \cup entries[c] : e.id \in Ids
  BY <1>1, ChangeFields DEF TypeOK, Entry
<1>4. \A e \in entries[c] : e.addr = x.addr => e.id = x.id
  <2>1. Mark(x.addr, x.id) \in entries[c]
    BY <1>1, <1>2 DEF Rightful, Claims
  <2> QED BY <2>1 DEF SlugInv, SlugsUnique, Mark
<1>5. \A i \in Ids : remote'[i] # Absent => remote[i] # Absent /\ i # x.id
  BY <1>1, <1>3 DEF TypeOK
<1>6. PICK M : M = entries'[c]
  OBVIOUS
<1>7. PICK T : T = remote'
  OBVIOUS
<1>8. Rightful(todo[c] \ {x}, M, T)
  <2>1. \A e \in entries[c] : e.addr # x.addr => e \in M
    BY <1>1, <1>6
  <2>2. \A e \in M : e \in entries[c] /\ (remote[e.id] = Absent => T[e.id] = Absent)
    BY <1>1, <1>3, <1>5, <1>6, <1>7
  <2> QED BY <1>2, <2>1, <2>2, RightfulShrinks
<1>9. ASSUME NEW e \in lock, remote'[e.id] # Absent PROVE \E f \in entries'[c] : f.id = e.id
  <2>1. remote[e.id] # Absent /\ e.id # x.id
    BY <1>3, <1>5, <1>9
  <2>2. PICK f \in entries[c] : f.id = e.id
    BY <1>2, <2>1 DEF Covers
  <2> QED BY <1>1, <1>4, <2>1, <2>2
<1> QED BY <1>1, <1>6, <1>7, <1>8, <1>9 DEF Covers

LEMMA NextOwns == TypeOK /\ SlugInv /\ IdKinds /\ OwnInv /\ [Next]_vars => OwnInv'
<1> SUFFICES ASSUME TypeOK, SlugInv, IdKinds, OwnInv, [Next]_vars, NEW c \in Clients
             PROVE  Owning(c)'
  BY DEF OwnInv
<1>0. Owning(c)
  BY DEF OwnInv
<1>1. CASE PullSeed(c) \/ (\E k \in Kinds : PullList(c, k)) \/ (\E i \in Ids : PullRead(c, i))
  BY <1>1, AimPulls DEF Owning
<1>2. CASE Runs(c)
  BY <1>0, <1>1, <1>2, OwnStarts, OwnEnds, OwnLists, OwnChecks, OwnCreates, OwnUpdates, OwnDeletes
     DEF Runs, Step
<1>3. CASE Same(c)
  BY <1>0, <1>3 DEF Owning, Same, shared
<1> QED BY <1>2, <1>3, OwnOrSame

(* However far an undisturbed apply of a fresh plan has come, the lockfile   *)
(* it builds still names every live entity that the one on disk owns, for    *)
(* any number of clients whose operations overlap, and even where one entity *)
(* has two slugs.                                                            *)
THEOREM AppliesOrphanNothing == Spec => []NothingOrphaned
<1>1. Init => OwnInv
  BY DEF Init, OwnInv, Owning
<1>2. OwnInv => NothingOrphaned
  BY DEF OwnInv, Owning, Covers, NothingOrphaned
<1>3. Init => SlugInv
  BY DEF Init, SlugInv, SlugsUnique
<1> QED BY <1>1, <1>2, <1>3, NextOwns, NextSlugs, NextKinds, InitKinds, TypeCorrect, PTL DEF Spec

-----------------------------------------------------------------------------
(* References: a plan is made of a working tree that refers to nothing       *)
(* dangling, and deletes, which come last, are all that removes entries.     *)
RefsIn(w, L) == \A a \in Desired(w) : Refs[w[a]] \subseteq Desired(w) \cup AddrsOf(L)

Referring(c) ==
  /\ \A a \in Desired(want[c]) : a.kind \in Owned[c]
  /\ calm[c] =>
       /\ pc[c] \in {"planList", "destroyList"} => RefsIn(want[c], lock)
       /\ pc[c] = "idle" /\ outcome[c] = "planned" => RefsIn(want[c], lock)
       /\ pc[c] \in {"apply", "write"} /\ Upserts(todo[c]) # {} => RefsIn(want[c], entries[c])
       /\ pc[c] = "write" => \A x \in cur[c] : x.action = "delete" => Upserts(todo[c]) = {}

RefInv == \A c \in Clients : Referring(c)

LEMMA RefsStart ==
  ASSUME TypeOK, NEW c \in Clients, Referring(c), Start(c) \/ DestroyApply(c)
  PROVE  Referring(c)'
<1>0. lock' = lock
  BY DEF Start, PullStart, PlanStart, DestroyStart, ApplyStart, DestroyApply, shared
<1> USE DEF TypeOK
<1>1. CASE PullStart(c)
  <2>1. pc'[c] = "pullList" /\ want' = want
    BY <1>1 DEF PullStart, kept
  <2> QED BY <2>1 DEF Referring
<1>2. CASE PlanStart(c) /\ (Undecodable(c) \/ Dangling(c))
  <2>1. pc'[c] = "idle" /\ outcome'[c] = "invalid" /\ want' = want
    BY <1>2 DEF PlanStart, Begin
  <2> QED BY <2>1 DEF Referring
<1>3. CASE PlanStart(c) /\ ~ (Undecodable(c) \/ Dangling(c))
  <2>1. pc'[c] = "planList" /\ want'[c] = Decoded(c)
    BY <1>3 DEF PlanStart
  <2>2. \A a \in Desired(Decoded(c)) : a.kind \in Owned[c] /\ Decoded(c)[a] = files[a]
    BY DEF Desired, Decoded
  <2>3. RefsIn(Decoded(c), lock)
    BY <1>3, <2>2 DEF Dangling, RefsIn
  <2>4. PICK w : w = Decoded(c)
    OBVIOUS
  <2> QED BY <1>0, <2>1, <2>2, <2>3, <2>4 DEF Referring
<1>4. CASE DestroyStart(c)
  <2>1. pc'[c] = "destroyList" /\ want'[c] = [a \in Addr |-> None]
    BY <1>4 DEF DestroyStart
  <2>2. Desired(want'[c]) = {}
    BY <2>1 DEF Desired
  <2> QED BY <2>1, <2>2 DEF Referring, RefsIn
<1>5. ASSUME NEW d \in Clients, NEW del \in BOOLEAN, ApplyStart(c, d, del) PROVE Referring(c)'
  <2>1. /\ pc[c] = "idle" /\ pc'[c] = "apply" /\ entries'[c] = lock /\ want' = want
        /\ calm'[c] => calm[c] /\ d = c /\ outcome[c] = "planned"
    BY <1>5 DEF ApplyStart, BeginApply, Begin
  <2> QED BY <2>1 DEF Referring
<1>6. CASE DestroyApply(c)
  <2>1. /\ pc[c] = "destroyList" /\ pc'[c] = "apply" /\ entries'[c] = lock /\ want' = want
        /\ calm' = calm
    BY <1>6 DEF DestroyApply, BeginApply
  <2> QED BY <2>1 DEF Referring
<1> QED BY <1>1, <1>2, <1>3, <1>4, <1>5, <1>6 DEF Start

LEMMA RefsEnd ==
  ASSUME TypeOK, NEW c \in Clients, Referring(c),
         \/ Fail(c) \/ PullEnd(c) \/ PlanEnd(c) \/ ApplyEnd(c) \/ PullSeed(c)
         \/ \E k \in Kinds : PullList(c, k) \/ PlanList(c, k) \/ DestroyList(c, k)
         \/ \E i \in Ids : PullRead(c, i)
  PROVE  Referring(c)'
<1> USE DEF TypeOK, Referring
<1>1. CASE Fail(c) \/ PullEnd(c) \/ ApplyEnd(c)
  <2>1. pc'[c] = "idle" /\ outcome'[c] # "planned" /\ want' = want
    BY <1>1 DEF Fail, PullEnd, ApplyEnd, End, kept
  <2> QED BY <2>1
<1>2. CASE PlanEnd(c)
  <2>1. pc[c] = "planList" /\ pc'[c] = "idle" /\ UNCHANGED <<lock, want, calm>>
    BY <1>2 DEF PlanEnd, End, shared
  <2> QED BY <2>1
<1>3. CASE PullSeed(c) \/ (\E k \in Kinds : PullList(c, k)) \/ (\E i \in Ids : PullRead(c, i))
  <2>1. want' = want
    BY <1>3 DEF PullSeed, PullList, PullRead, kept
  <2> QED BY <1>3, <2>1, AimPulls
<1>4. ASSUME NEW k \in Kinds, PlanList(c, k) \/ DestroyList(c, k) PROVE Referring(c)'
  <2>1. pc[c] \in {"planList", "destroyList"} /\ UNCHANGED <<pc, lock, want, calm>>
    BY <1>4 DEF PlanList, DestroyList, shared, kept
  <2> QED BY <2>1
<1> QED BY <1>1, <1>2, <1>3, <1>4

LEMMA RefsApply ==
  ASSUME TypeOK, NEW c \in Clients, Referring(c),
         \/ \E x \in todo[c] : ApplySkip(c, x) \/ ApplyCheck(c, x) \/ ApplyCreate(c, x)
         \/ \E x \in cur[c] : ApplyUpdate(c, x) \/ ApplyDelete(c, x)
  PROVE  Referring(c)'
<1> DEFINE Fewer == /\ pc[c] \in {"apply", "write"} /\ UNCHANGED want /\ todo'[c] \subseteq todo[c]
                    /\ (calm'[c] => calm[c])
<1>1. Fewer
  <2> USE DEF Turn, Resolve, kept, Disturb, TypeOK
  <2>1. ASSUME NEW x \in todo[c], ApplySkip(c, x) \/ ApplyCheck(c, x) PROVE Fewer
    BY <2>1 DEF ApplySkip, ApplyCheck
  <2>2. ASSUME NEW x \in todo[c], ApplyCreate(c, x) PROVE Fewer
    BY <2>2 DEF ApplyCreate
  <2>3. ASSUME NEW x \in cur[c], ApplyUpdate(c, x) \/ ApplyDelete(c, x) PROVE Fewer
    BY <2>3 DEF ApplyUpdate, ApplyDelete
  <2> QED BY <2>1, <2>2, <2>3
<1>2. Upserts(todo'[c]) \subseteq Upserts(todo[c])
  BY <1>1 DEF Upserts
<1>3. ASSUME NEW x \in todo[c], ApplySkip(c, x) PROVE Referring(c)'
  <2>1. pc'[c] = "apply" /\ entries' = entries
    BY <1>3 DEF ApplySkip, Turn
  <2> QED BY <1>1, <1>2, <2>1 DEF Referring
<1>4. ASSUME NEW x \in todo[c], ApplyCheck(c, x) PROVE Referring(c)'
  <2>1. entries' = entries /\ (pc'[c] = "apply" \/ (pc'[c] = "write" /\ cur'[c] = {x}))
    BY <1>4 DEF ApplyCheck, Turn, TypeOK
  <2>2. x.action = "delete" => Upserts(todo[c]) = {}
    BY <1>4 DEF ApplyCheck, Turn, Ready, MayPrecede
  <2> QED BY <1>1, <1>2, <2>1, <2>2 DEF Referring
<1>5. ASSUME NEW x \in todo[c], ApplyCreate(c, x) PROVE Referring(c)'
  <2>1. /\ pc'[c] = "apply"
        /\ entries'[c] = {e \in entries[c] : e.addr # x.addr} \cup {[addr |-> x.addr, id |-> nextId]}
    BY <1>5 DEF ApplyCreate, Turn, SetEntry, TypeOK
  <2>2. AddrsOf(entries[c]) \subseteq AddrsOf(entries'[c])
    BY <2>1 DEF AddrsOf
  <2>3. RefsIn(want[c], entries[c]) => RefsIn(want[c], entries'[c])
    BY <2>2 DEF RefsIn
  <2> QED BY <1>1, <1>2, <2>1, <2>3 DEF Referring
<1>6. ASSUME NEW x \in cur[c], ApplyUpdate(c, x) PROVE Referring(c)'
  <2>1. /\ pc'[c] = "apply"
        /\ entries'[c] = {e \in entries[c] : e.addr # x.addr} \cup {[addr |-> x.addr, id |-> x.id]}
    BY <1>6 DEF ApplyUpdate, SetEntry, TypeOK
  <2>2. AddrsOf(entries[c]) \subseteq AddrsOf(entries'[c])
    BY <2>1 DEF AddrsOf
  <2>3. RefsIn(want[c], entries[c]) => RefsIn(want[c], entries'[c])
    BY <2>2 DEF RefsIn
  <2> QED BY <1>1, <1>2, <2>1, <2>3 DEF Referring
<1>7. ASSUME NEW x \in cur[c], ApplyDelete(c, x) PROVE Referring(c)'
  <2>1. pc[c] = "write" /\ pc'[c] = "apply" /\ x.action = "delete"
    BY <1>7 DEF ApplyDelete, TypeOK
  <2>2. calm[c] => Upserts(todo[c]) = {}
    BY <2>1 DEF Referring
  <2> QED BY <1>1, <1>2, <2>1, <2>2 DEF Referring
<1> QED BY <1>3, <1>4, <1>5, <1>6, <1>7

LEMMA NextRefs == TypeOK /\ RefInv /\ [Next]_vars => RefInv'
<1> SUFFICES ASSUME TypeOK, RefInv, [Next]_vars, NEW c \in Clients PROVE Referring(c)'
  BY DEF RefInv
<1>0. Referring(c)
  BY DEF RefInv
<1>1. CASE Runs(c)
  BY <1>0, <1>1, RefsStart, RefsEnd, RefsApply DEF Runs, Step
<1>2. CASE Same(c)
  BY <1>0, <1>2 DEF Referring, Same, shared
<1> QED BY <1>1, <1>2, OwnOrSame

LEMMA RefsAreResolved == TypeOK /\ SlugInv /\ AimInv /\ RefInv => RefsResolved
<1> SUFFICES ASSUME TypeOK, SlugInv, AimInv, RefInv, NEW c \in Clients, pc[c] = "apply", calm[c],
                    NEW x \in Upserts(todo[c]) \ loops[c], Ready(c, x), ~ Skipped(c, x),
                    NEW a \in Refs[x.after]
             PROVE  /\ a \in AddrsOf(entries[c])
                    /\ want[c][a] # None => remote[LockId(entries[c], a)] # Absent
  BY DEF RefsResolved
<1>1. /\ x \in todo[c] /\ x \in Change /\ x.action # "delete" /\ x.addr.kind \in Owned[c]
      /\ x.addr \in Addr /\ x.after \in Vals
  BY ChangeFields DEF Upserts, Skipped, TypeOK
<1>2. a \in Addr
  BY <1>1, ConstantsOK
<1>3. Aim(todo[c], want[c], entries[c], remote, Owned[c], allow[c])
  BY DEF AimInv, Aiming
<1>4. want[c][x.addr] = x.after /\ x.addr \in Desired(want[c])
  BY <1>1, <1>3, ConstantsOK DEF Aim, Fresh, Desired
<1>5. a \in Desired(want[c]) \cup AddrsOf(entries[c])
  <2>1. RefsIn(want[c], entries[c])
    BY DEF RefInv, Referring
  <2> QED BY <1>4, <2>1 DEF RefsIn
<1>6. \A y \in Upserts(todo[c]) : y.addr # a
  <2>1. Needs(c, todo[c])[x] = Refs[x.after]
    BY <1>1 DEF Needs
  <2> QED BY <1>1, <2>1 DEF Ready, MayPrecede
<1>7. ASSUME want[c][a] # None
      PROVE  \E e \in entries[c] : e.addr = a /\ remote[e.id] # Absent
  <2>1. a.kind \in Owned[c]
    BY <1>2, <1>7 DEF RefInv, Referring, Desired
  <2>2. ~ \E y \in todo[c] : y.addr = a
    BY <1>3, <1>6, <1>7 DEF Aim, Fresh, Upserts
  <2>3. Settled(a, want[c], entries[c], remote, allow[c])
    BY <1>2, <1>3, <2>1, <2>2 DEF Aim
  <2> QED BY <1>7, <2>3 DEF Settled, LiveIn
<1>8. want[c][a] # None => remote[LockId(entries[c], a)] # Absent
  BY <1>7, LockIdOf DEF SlugInv
<1>9. a \in AddrsOf(entries[c])
  BY <1>2, <1>5, <1>7 DEF Desired, AddrsOf
<1> QED BY <1>8, <1>9

(* When the engine is about to create or update an entity, every address it  *)
(* refers to has a remote id in the apply's context, and a live one if the   *)
(* plan wants that address, as long as the lockfile gives each entity one    *)
(* slug and nobody else interferes.                                          *)
THEOREM ReferencesResolve == Spec /\ []OneSlugPerId => []RefsResolved
<1>1. Init => AimInv
  BY DEF Init, AimInv, Aiming
<1>2. Init => RefInv
  BY DEF Init, RefInv, Referring, Desired
<1>3. Init => SlugInv
  BY DEF Init, SlugInv, SlugsUnique
<1> QED BY <1>1, <1>2, <1>3, RefsAreResolved, NextRefs, NextAims, NextSlugs, NextKinds, InitKinds,
           TypeCorrect, PTL DEF Spec

(* Without that proviso for a single client.                                 *)
THEOREM OneClientResolves ==
  ASSUME OneClient
  PROVE  Spec => []RefsResolved
BY OneClientOneSlug, ReferencesResolve, PTL
=============================================================================
