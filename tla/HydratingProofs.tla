-------------------------- MODULE HydratingProofs ---------------------------
(* Proofs about the rate limiter and the hydrating store, for every value of *)
(* their constants: any number of callers, seeders, entities and kinds.      *)
EXTENDS HydratingStore, SequenceTheorems, TLAPS

-----------------------------------------------------------------------------
(* The limiter.  At most one caller holds the permit; its call is the last   *)
(* that started, so its sleep is over only when the interval has passed      *)
(* since that call, and nobody else can start a call before.                 *)

Holds(c) == pc[c] \in {"calling", "sleeping"}

LimiterType ==
  /\ now \in Nat /\ permits \in {0, 1}
  /\ pc \in [Callers -> {"idle", "waiting", "calling", "sleeping"}]
  /\ wake \in [Callers -> Nat]
  /\ starts \in Seq([at : Nat, slept : BOOLEAN])

OnePermit ==
  /\ \A c, d \in Callers : Holds(c) /\ Holds(d) => c = d
  /\ permits = 1 => \A c \in Callers : ~Holds(c)

Last == starts[Len(starts)]

LastCall ==
  /\ \A c \in Callers : Holds(c) => Len(starts) > 0
  /\ Len(starts) > 0 => Last.at <= now /\ (Last.slept => now >= Last.at + Interval)
  /\ \A c \in Callers : pc[c] = "sleeping" => wake[c] >= Last.at + Interval

LimiterInv == LimiterType /\ OnePermit /\ LastCall /\ SpacedAfterSuccess

(* A sequence of calls at a place: what is there.                            *)
LEMMA CallAt ==
  ASSUME LimiterType
  PROVE  /\ Len(starts) \in Nat
         /\ \A i \in 1..Len(starts) : /\ starts[i] \in [at : Nat, slept : BOOLEAN]
                                     /\ starts[i].at \in Nat
<1>1. \A i \in 1..Len(starts) : starts[i] \in [at : Nat, slept : BOOLEAN]
  BY ElementOfSeq DEF LimiterType
<1> QED BY <1>1, LenProperties DEF LimiterType

LEMMA LimiterStarts == Init => LimiterInv
BY LimitsOK DEF Init, LimiterInv, LimiterType, OnePermit, LastCall, Holds, SpacedAfterSuccess

(* A step that leaves the calls and the clock alone.                         *)
LEMMA LimiterMoves ==
  ASSUME LimiterInv, NEW c \in Callers, Ask(c) \/ Fail(c) \/ Interrupt(c)
  PROVE  LimiterInv'
<1> USE DEF LimiterInv, LimiterType, OnePermit, LastCall, Holds, Last
<1>1. UNCHANGED <<now, wake, starts>>
  BY DEF Ask, Fail, Interrupt
<1>2. SpacedAfterSuccess'
  BY <1>1 DEF SpacedAfterSuccess, Apart
<1>3. CASE Ask(c)
  BY <1>1, <1>2, <1>3 DEF Ask
<1>4. CASE Fail(c) \/ Interrupt(c)
  <2>1. pc[c] # "idle" /\ pc' = [pc EXCEPT ![c] = "idle"]
        /\ permits' = IF pc[c] = "waiting" THEN permits ELSE permits + 1
    BY <1>4 DEF Fail, Interrupt, Leave
  <2>2. permits' \in {0, 1}
    BY <2>1
  <2>3. OnePermit'
    BY <2>1
  <2> QED BY <1>1, <1>2, <2>1, <2>2, <2>3
<1> QED BY <1>3, <1>4

LEMMA LimiterAcquires ==
  ASSUME LimiterInv, NEW c \in Callers, Acquire(c)
  PROVE  LimiterInv'
<1> USE LimitsOK DEF LimiterInv, LimiterType, OnePermit, LastCall, Holds
<1> DEFINE call == [at |-> now, slept |-> FALSE]
<1>1. /\ starts' = Append(starts, call) /\ call \in [at : Nat, slept : BOOLEAN]
      /\ permits = 1 /\ permits' = 0 /\ now' = now /\ wake' = wake
      /\ pc' = [pc EXCEPT ![c] = "calling"]
  BY DEF Acquire
<1>2. Len(starts) \in Nat /\ Len(starts') = Len(starts) + 1 /\ Last' = call
      /\ \A i \in 1..Len(starts) : starts'[i] = starts[i]
  BY <1>1 DEF Last
<1>3. LimiterType'
  BY <1>1
<1>4. OnePermit'
  BY <1>1
<1>5. LastCall'
  BY <1>1, <1>2
<1>6. SpacedAfterSuccess'
  <2> SUFFICES ASSUME NEW i \in 1..Len(starts), starts[i].slept
               PROVE  starts'[i + 1].at - starts[i].at >= Interval
    BY <1>1, <1>2 DEF SpacedAfterSuccess, Apart
  <2>0. starts[i].at \in Nat
    BY CallAt
  <2>1. CASE i = Len(starts)
    <3>1. starts'[i + 1].at = now /\ Last = starts[i]
      BY <1>2, <2>1 DEF Last
    <3> QED BY <2>0, <2>1, <3>1
  <2>2. CASE i # Len(starts)
    <3>1. i \in 1..(Len(starts) - 1) /\ starts'[i + 1] = starts[i + 1]
      BY <1>2, <2>2
    <3>2. starts[i + 1].at \in Nat
      <4>1. i + 1 \in 1..Len(starts)
        BY <1>2, <2>2
      <4> QED BY <4>1, CallAt
    <3> QED BY <2>0, <3>1, <3>2 DEF SpacedAfterSuccess, Apart
  <2> QED BY <2>1, <2>2
<1> QED BY <1>3, <1>4, <1>5, <1>6

LEMMA LimiterSucceeds ==
  ASSUME LimiterInv, NEW c \in Callers, Succeed(c)
  PROVE  LimiterInv'
<1> USE LimitsOK DEF LimiterInv, LimiterType, OnePermit, LastCall, Holds, Last
<1>1. SpacedAfterSuccess'
  BY DEF SpacedAfterSuccess, Apart, Succeed
<1>2. Len(starts) > 0 => starts[Len(starts)].at \in Nat
  BY CallAt
<1>3. LimiterType' /\ OnePermit'
  BY DEF Succeed
<1>4. LastCall'
  BY <1>2 DEF Succeed
<1> QED BY <1>1, <1>3, <1>4

(* Only the sleeper itself marks its call, and by then the interval is over. *)
LEMMA LimiterWakes ==
  ASSUME LimiterInv, NEW c \in Callers, Wake(c)
  PROVE  LimiterInv'
<1> USE LimitsOK DEF LimiterInv, LimiterType, OnePermit, LastCall, Holds
<1>1. /\ pc[c] = "sleeping" /\ now >= wake[c] /\ now' = now /\ wake' = wake
      /\ pc' = [pc EXCEPT ![c] = "idle"] /\ permits' = permits + 1 /\ permits = 0
      /\ starts' = [starts EXCEPT ![Len(starts)].slept = TRUE]
  BY DEF Wake, Leave
<1>2. /\ Len(starts) \in Nat \ {0} /\ Last \in [at : Nat, slept : BOOLEAN]
      /\ Last.at \in Nat
  <2>1. Len(starts) \in 1..Len(starts)
    BY <1>1, CallAt
  <2> QED BY <2>1, CallAt DEF Last
<1>3. /\ starts' \in Seq([at : Nat, slept : BOOLEAN]) /\ Len(starts') = Len(starts)
      /\ \A i \in 1..Len(starts) : starts'[i].at = starts[i].at
      /\ \A i \in 1..(Len(starts) - 1) : starts'[i] = starts[i]
  <2> DEFINE new == [Last EXCEPT !.slept = TRUE]
  <2>1. new \in [at : Nat, slept : BOOLEAN] /\ new.at = Last.at
    BY <1>2
  <2>2. starts' = [starts EXCEPT ![Len(starts)] = new]
    BY <1>1 DEF Last
  <2> HIDE DEF new
  <2> QED BY <1>2, <2>1, <2>2 DEF Last
<1>4. LimiterType'
  BY <1>1, <1>3
<1>5. OnePermit'
  BY <1>1
<1>6. Last'.at = Last.at /\ now >= Last.at + Interval
  BY <1>1, <1>2, <1>3 DEF Last
<1>7. LastCall'
  BY <1>1, <1>2, <1>3, <1>6
<1>8. SpacedAfterSuccess'
  BY <1>2, <1>3, SMTT(30) DEF SpacedAfterSuccess, Apart
<1> QED BY <1>4, <1>5, <1>7, <1>8

LEMMA LimiterNext == LimiterInv /\ [Next]_vars => LimiterInv'
<1> SUFFICES ASSUME LimiterInv, [Next]_vars PROVE LimiterInv'
  OBVIOUS
<1>1. CASE Tick
  <2> USE LimitsOK DEF LimiterInv, LimiterType, OnePermit, LastCall, Holds, Last
  <2>1. SpacedAfterSuccess'
    BY <1>1 DEF Tick, SpacedAfterSuccess, Apart
  <2>2. Len(starts) > 0 => starts[Len(starts)].at \in Nat
    BY CallAt
  <2> QED BY <1>1, <2>1, <2>2 DEF Tick
<1>2. CASE UNCHANGED vars
  BY <1>2 DEF vars, LimiterInv, LimiterType, OnePermit, LastCall, Holds, Last,
              SpacedAfterSuccess, Apart
<1>3. ASSUME NEW c \in Callers, Ask(c) \/ Acquire(c) \/ Succeed(c) \/ Wake(c)
                                \/ Fail(c) \/ Interrupt(c)
      PROVE  LimiterInv'
  BY <1>3, LimiterMoves, LimiterAcquires, LimiterSucceeds, LimiterWakes
<1> QED BY <1>1, <1>2, <1>3 DEF Next

(* A call that succeeded and slept is followed by no other within the        *)
(* interval, for any number of callers that fail, are interrupted and come   *)
(* back (makeRateLimiter).                                                   *)
THEOREM LimiterSpaces == Spec => []SpacedAfterSuccess
<1>1. Init => LimiterInv
  BY LimiterStarts
<1>2. LimiterInv /\ [Next]_vars => LimiterInv'
  BY LimiterNext
<1>3. LimiterInv => SpacedAfterSuccess
  BY DEF LimiterInv
<1> QED BY <1>1, <1>2, <1>3, PTL DEF Spec

(* The hydrating store uses the limiter as its callers may: each of its      *)
(* steps is one of the limiter, or leaves it alone.                          *)
THEOREM StoreIsLimited == HydratingSpec => Spec
<1>1. HydratingInit => Init
  BY DEF HydratingInit
<1>2. [HydratingNext]_hydratingVars => [Next]_vars
  <2> SUFFICES ASSUME [HydratingNext]_hydratingVars PROVE [Next]_vars
    OBVIOUS
  <2>1. CASE UNCHANGED hydratingVars
    BY <2>1 DEF hydratingVars
  <2>2. ASSUME NEW s \in Seeders,
               SeedBegins(s) \/ SeedAsks(s) \/ SeedHears(s) \/ SeedLists(s)
               \/ SeedWrites(s) \/ SeedFails(s)
        PROVE  [Next]_vars
    BY <2>2, HydratingAssumption DEF SeedBegins, SeedAsks, SeedHears, SeedLists, SeedWrites,
       SeedFails, Next
  <2>3. ASSUME NEW c \in Callers, Starts(c) \/ Answers(c) \/ Lands(c) \/ FetchFails(c)
        PROVE  [Next]_vars
    BY <2>3 DEF Starts, Answers, Lands, FetchFails, Next
  <2>4. ASSUME NEW c \in Callers, NEW f \in Files, Hydrate(c, f)
        PROVE  [Next]_vars
    BY <2>4 DEF Hydrate, Next
  <2>5. ASSUME NEW f \in Files, Write(f) \/ Create(f) \/ Delete(f)
        PROVE  [Next]_vars
    BY <2>5 DEF Write, Create, Delete
  <2>6. CASE External \/ Time
    BY <2>6 DEF External, Time, Next
  <2> QED BY <2>1, <2>2, <2>3, <2>4, <2>5, <2>6 DEF HydratingNext
<1> QED BY <1>1, <1>2, PTL DEF HydratingSpec, Spec

(* Provider calls of a hydrating store stay the interval apart after a       *)
(* success, whatever seeds, fetches and edits overlap.                       *)
THEOREM StoreSpaces == HydratingSpec => []SpacedAfterSuccess
BY LimiterSpaces, StoreIsLimited, PTL

-----------------------------------------------------------------------------
(* The store.  An edit is settled when no fetch of its file is on the way:   *)
(* none can come before the file is seeded again, because a fetch comes from *)
(* a memo.  And while seeds do not overlap or fail, the lockfile and what    *)
(* the seed under way adds to it only ever grow, with one id per file; a     *)
(* descriptor, a fetch and a content come from there.                        *)

Entries == [kind : Kinds, id : Ids, slug : Slugs]
Seeds   == [on : BOOLEAN, at : Nat, entries : SUBSET Entries, listing : SUBSET Ids]
Fetches == [file : Files, id : Ids \cup {None}, there : BOOLEAN]

StoreType ==
  /\ remote \subseteq Ids
  /\ lock \subseteq Entries
  /\ cache \in [Files -> Ids \cup {Local, None}]
  /\ descriptors \in [Files -> Ids \cup {None}]
  /\ memos \subseteq Files
  /\ seeder \in [Seeders -> Seeds]
  /\ fetch \in [Callers -> {None} \cup Fetches]
  /\ apart \in BOOLEAN
  /\ settled \in [Files -> {None, "written", "deleted"}]
  /\ pc \in [Callers -> {"idle", "waiting", "calling", "sleeping"}]

(* Who is under the limiter is seeding or fetching.                          *)
CallersBusy ==
  /\ \A c \in Callers \ Seeders : pc[c] # "idle" => fetch[c] # None
  /\ \A s \in Seeders : pc[s] # "idle" => seeder[s].on /\ seeder[s].at <= Len(Providers)
  /\ \A s \in Seeders : ~seeder[s].on => seeder[s] = NoSeed
  /\ \A s \in Seeders : \A id \in seeder[s].listing : KindOf[id] = Providers[seeder[s].at]
  /\ \A c \in Callers : fetch[c] # None /\ fetch[c].there => fetch[c].id \in Ids

NothingComes == \A f \in Files : settled[f] # None => ~Fetching(f) /\ f \notin memos

(* What the lockfile holds, or will hold once the seed under way writes it.  *)
Given == lock \cup UNION {seeder[s].entries : s \in Seeders}

Binds(f, id) == \E e \in Given : e.id = id /\ File(e.kind, e.slug) = f

OneAtATime ==
  /\ \A s, t \in Seeders : seeder[s].on /\ seeder[t].on => s = t
  /\ \A s \in Seeders : seeder[s].on => lock \subseteq seeder[s].entries
OneIdPerFile ==
  \A e, x \in Given : File(e.kind, e.slug) = File(x.kind, x.slug) => e.id = x.id
FilesAreBound ==
  /\ \A f \in Files : descriptors[f] \in Ids => Binds(f, descriptors[f])
  /\ \A f \in Files : cache[f] \in Ids => Binds(f, cache[f])
  /\ \A c \in Callers : fetch[c] # None /\ fetch[c].id \in Ids => Binds(fetch[c].file, fetch[c].id)

Owning == apart => OneAtATime /\ OneIdPerFile /\ FilesAreBound

StoreInv ==
  StoreType /\ CallersBusy /\ NothingComes /\ EditsStay /\ Owning

LEMMA StoreStarts == HydratingInit => StoreInv
<1> SUFFICES ASSUME HydratingInit PROVE StoreInv
  OBVIOUS
<1> USE HydratingAssumption DEF HydratingInit, Init
<1>1. NoSeed \in Seeds
  BY DEF NoSeed, Seeds
<1>2. StoreType
  BY <1>1 DEF StoreType
<1>3. CallersBusy
  BY DEF CallersBusy, NoSeed
<1>4. NothingComes /\ EditsStay
  BY NothingAssumption DEF NothingComes, EditsStay
<1>5. Given = {}
  BY DEF Given, NoSeed
<1>6. Owning
  BY <1>5 DEF Owning, OneAtATime, OneIdPerFile, FilesAreBound, NoSeed
<1> QED BY <1>2, <1>3, <1>4, <1>6 DEF StoreInv

(* What nobody seeds stays bound as it is.                                   *)
LEMMA GivenKept ==
  ASSUME seeder' = seeder, lock' = lock, apart' = apart
  PROVE  /\ OneAtATime' = OneAtATime /\ OneIdPerFile' = OneIdPerFile
         /\ \A f, id : Binds(f, id)' = Binds(f, id)
BY DEF OneAtATime, OneIdPerFile, Binds, Given

LEMMA ListedProviders == Len(Providers) \in Nat
BY HydratingAssumption, LenProperties

LEMMA IdNotNone == None \notin Ids /\ Local \notin Ids /\ Local # None
BY HydratingAssumption

(* The places of the limiter that a step moves a caller through.             *)
LEMMA Moves ==
  ASSUME StoreType, NEW c \in Callers,
         Ask(c) \/ Acquire(c) \/ Succeed(c) \/ Wake(c) \/ Fail(c) \/ Interrupt(c)
  PROVE  /\ \A d \in Callers \ {c} : pc'[d] = pc[d]
         /\ pc' \in [Callers -> {"idle", "waiting", "calling", "sleeping"}]
         /\ ~Ask(c) => pc[c] # "idle"
         /\ Wake(c) \/ Fail(c) \/ Interrupt(c) => pc'[c] = "idle"
BY DEF StoreType, Ask, Acquire, Succeed, Wake, Fail, Interrupt, Leave

-----------------------------------------------------------------------------
(* Seeds *)

LEMMA SeedOn ==
  ASSUME StoreInv, NEW s \in Seeders, SeedBegins(s)
  PROVE  StoreInv'
<1> USE DEF StoreInv
<1> DEFINE on == [NoSeed EXCEPT !.on = TRUE, !.entries = lock]
<1>1. /\ ~seeder[s].on /\ seeder' = [seeder EXCEPT ![s] = on]
      /\ UNCHANGED <<vars, storeVars, lock, world, fetch, edits>>
      /\ apart' = (apart /\ \A t \in Seeders : ~seeder[t].on)
  BY DEF SeedBegins
<1>2. on \in Seeds /\ on.on = TRUE /\ on.entries = lock /\ on.listing = {}
  <2> DEFINE begun == [NoSeed EXCEPT !.on = TRUE]
  <2>1. lock \in SUBSET Entries
    BY DEF StoreType
  <2>2. NoSeed \in Seeds /\ NoSeed.listing = {}
    BY DEF NoSeed, Seeds
  <2>3. begun \in Seeds /\ begun.on = TRUE /\ begun.listing = {}
    BY <2>2 DEF Seeds
  <2>4. on = [begun EXCEPT !.entries = lock]
    OBVIOUS
  <2> HIDE DEF begun
  <2> QED BY <2>1, <2>3, <2>4 DEF Seeds
<1> HIDE DEF on
<1>4. StoreType'
  BY <1>1, <1>2 DEF StoreType, vars, storeVars, world
<1>5. pc[s] = "idle"
  BY <1>1, HydratingAssumption DEF CallersBusy
<1>6. CallersBusy'
  BY <1>1, <1>2, <1>5, HydratingAssumption DEF CallersBusy, vars, StoreType
<1>7. NothingComes' /\ EditsStay'
  BY <1>1 DEF NothingComes, EditsStay, Fetching, storeVars
<1>8. Owning'
  <2> SUFFICES ASSUME apart, \A t \in Seeders : ~seeder[t].on
               PROVE  OneAtATime' /\ OneIdPerFile' /\ FilesAreBound'
    BY <1>1 DEF Owning
  <2>1. /\ seeder'[s] = on /\ lock' = lock
        /\ \A t \in Seeders : t # s => seeder'[t] = seeder[t] /\ ~seeder[t].on
    BY <1>1 DEF StoreType
  <2>2. \A t \in Seeders : seeder[t].entries = {}
    BY DEF CallersBusy, NoSeed
  <2>3. Given = lock /\ Given' = lock
    BY <1>2, <2>1, <2>2 DEF Given
  <2>4. OneAtATime'
    BY <1>2, <2>1 DEF OneAtATime
  <2>5. OneIdPerFile'
    BY <2>3 DEF Owning, OneIdPerFile
  <2>6. FilesAreBound'
    BY <1>1, <2>3 DEF Owning, FilesAreBound, Binds, storeVars
  <2> QED BY <2>4, <2>5, <2>6
<1> QED BY <1>4, <1>6, <1>7, <1>8

LEMMA SeedAsking ==
  ASSUME StoreInv, NEW s \in Seeders, SeedAsks(s)
  PROVE  StoreInv'
<1> USE HydratingAssumption DEF StoreInv
<1>1. Ask(s) /\ seeder[s].on /\ seeder[s].at <= Len(Providers)
      /\ UNCHANGED <<storeVars, seedVars, world, fetch, edits>>
  BY DEF SeedAsks
<1>2. StoreType'
  BY <1>1, Moves DEF StoreType, storeVars, seedVars, world
<1>3. CallersBusy'
  BY <1>1, Moves DEF CallersBusy, seedVars
<1>4. NothingComes' /\ EditsStay'
  BY <1>1 DEF NothingComes, EditsStay, Fetching, storeVars
<1>5. Owning'
  BY <1>1, GivenKept DEF Owning, FilesAreBound, seedVars, storeVars
<1> QED BY <1>2, <1>3, <1>4, <1>5

LEMMA SeedHearing ==
  ASSUME StoreInv, NEW s \in Seeders, SeedHears(s)
  PROVE  StoreInv'
<1> USE HydratingAssumption DEF StoreInv
<1> DEFINE found == {id \in remote : KindOf[id] = Providers[seeder[s].at]}
           heard == [seeder[s] EXCEPT !.listing = found]
<1>1. /\ Succeed(s) /\ seeder' = [seeder EXCEPT ![s] = heard]
      /\ UNCHANGED <<storeVars, lock, seeds, apart, world, fetch, edits>>
  BY DEF SeedHears
<1>2. seeder[s] \in Seeds /\ found \subseteq Ids
  BY DEF StoreType
<1>3. /\ heard \in Seeds /\ heard.on = seeder[s].on /\ heard.at = seeder[s].at
      /\ heard.entries = seeder[s].entries /\ heard.listing = found
  BY <1>2 DEF Seeds
<1>4. seeder[s].on /\ seeder[s].at <= Len(Providers)
  BY <1>1, Moves DEF CallersBusy, Succeed
<1> HIDE DEF heard
<1>5. StoreType'
  BY <1>1, <1>3, Moves DEF StoreType, storeVars, world
<1>6. /\ seeder'[s] = heard
      /\ \A t \in Seeders : t # s => seeder'[t] = seeder[t]
  BY <1>1 DEF StoreType
<1>7. CallersBusy'
  <2>1. \A c \in Callers \ {s} : pc'[c] = pc[c]
    BY <1>1, Moves
  <2>2. \A t \in Seeders : \A id \in seeder'[t].listing : KindOf[id] = Providers[seeder'[t].at]
    BY <1>3, <1>6 DEF CallersBusy
  <2>3. \A t \in Seeders : ~seeder'[t].on => seeder'[t] = NoSeed
    BY <1>3, <1>4, <1>6 DEF CallersBusy
  <2>4. \A t \in Seeders : pc'[t] # "idle" => seeder'[t].on /\ seeder'[t].at <= Len(Providers)
    BY <1>3, <1>4, <1>6, <2>1 DEF CallersBusy
  <2> QED BY <1>1, <2>1, <2>2, <2>3, <2>4 DEF CallersBusy
<1>8. NothingComes' /\ EditsStay'
  BY <1>1 DEF NothingComes, EditsStay, Fetching, storeVars
<1>9. \A t \in Seeders : seeder'[t].entries = seeder[t].entries /\ seeder'[t].on = seeder[t].on
  BY <1>3, <1>6
<1>10. Given' = Given
  BY <1>1, <1>9 DEF Given
<1>11. Owning'
  BY <1>1, <1>9, <1>10 DEF Owning, OneAtATime, OneIdPerFile, FilesAreBound, Binds, storeVars
<1> QED BY <1>5, <1>7, <1>8, <1>11

LEMMA SeedWriting ==
  ASSUME StoreInv, NEW s \in Seeders, SeedWrites(s)
  PROVE  StoreInv'
<1> USE HydratingAssumption DEF StoreInv
<1>1. /\ seeder[s].on /\ seeder[s].at > Len(Providers) /\ lock' = seeder[s].entries
      /\ seeder' = [seeder EXCEPT ![s] = NoSeed]
      /\ UNCHANGED <<vars, storeVars, seeds, apart, world, fetch, edits>>
  BY DEF SeedWrites
<1>2. NoSeed \in Seeds /\ ~NoSeed.on /\ NoSeed.entries = {} /\ NoSeed.listing = {}
  BY DEF NoSeed, Seeds
<1>3. seeder[s] \in Seeds /\ lock' \subseteq Entries
  BY <1>1 DEF StoreType, Seeds
<1>4. StoreType'
  BY <1>1, <1>2, <1>3 DEF StoreType, storeVars, world, vars
<1>5. /\ seeder'[s] = NoSeed
      /\ \A t \in Seeders : t # s => seeder'[t] = seeder[t]
  BY <1>1 DEF StoreType
<1>6. pc[s] = "idle"
  <2>1. ~(seeder[s].at <= Len(Providers))
    BY <1>1, <1>3, ListedProviders DEF Seeds
  <2> QED BY <2>1 DEF CallersBusy, StoreType
<1>7. CallersBusy'
  BY <1>1, <1>2, <1>5, <1>6 DEF CallersBusy, vars
<1>8. NothingComes' /\ EditsStay'
  BY <1>1 DEF NothingComes, EditsStay, Fetching, storeVars
<1>9. ASSUME apart PROVE OneAtATime' /\ OneIdPerFile' /\ FilesAreBound'
  <2>1. \A t \in Seeders : t # s => ~seeder[t].on /\ seeder[t].entries = {}
    BY <1>1, <1>9 DEF Owning, OneAtATime, CallersBusy, NoSeed
  <2>2. Given = seeder[s].entries
    BY <1>1, <1>9, <2>1 DEF Owning, OneAtATime, Given
  <2>3. Given' = seeder[s].entries
    BY <1>1, <1>2, <1>5, <2>1 DEF Given
  <2>4. OneAtATime'
    BY <1>2, <1>5, <2>1 DEF OneAtATime
  <2> QED BY <1>1, <1>9, <2>2, <2>3, <2>4 DEF Owning, OneIdPerFile, FilesAreBound, Binds, storeVars
<1> QED BY <1>1, <1>4, <1>7, <1>8, <1>9 DEF Owning

LEMMA SeedFailing ==
  ASSUME StoreInv, NEW s \in Seeders, SeedFails(s)
  PROVE  StoreInv'
<1> USE HydratingAssumption DEF StoreInv
<1>1. /\ seeder[s].on /\ seeder' = [seeder EXCEPT ![s] = NoSeed] /\ apart' = FALSE
      /\ Fail(s) \/ Interrupt(s) \/ (seeder[s].at > Len(Providers) /\ UNCHANGED vars)
      /\ UNCHANGED <<storeVars, lock, seeds, world, fetch, edits>>
  BY DEF SeedFails
<1>2. NoSeed \in Seeds /\ ~NoSeed.on /\ NoSeed.entries = {} /\ NoSeed.listing = {}
  BY DEF NoSeed, Seeds
<1>3. StoreType'
  BY <1>1, <1>2, Moves DEF StoreType, storeVars, world, vars
<1>4. /\ seeder'[s] = NoSeed
      /\ \A t \in Seeders : t # s => seeder'[t] = seeder[t]
  BY <1>1 DEF StoreType
<1>5. pc'[s] = "idle" /\ \A c \in Callers \ {s} : pc'[c] = pc[c]
  <2>1. CASE Fail(s) \/ Interrupt(s)
    BY <2>1, Moves
  <2>2. CASE seeder[s].at > Len(Providers) /\ UNCHANGED vars
    <3>1. ~(seeder[s].at <= Len(Providers))
      BY <2>2, ListedProviders DEF StoreType, Seeds
    <3> QED BY <2>2, <3>1 DEF CallersBusy, vars, StoreType
  <2> QED BY <1>1, <2>1, <2>2
<1>6. CallersBusy'
  BY <1>1, <1>2, <1>4, <1>5 DEF CallersBusy
<1>7. NothingComes' /\ EditsStay'
  BY <1>1 DEF NothingComes, EditsStay, Fetching, storeVars
<1> QED BY <1>1, <1>3, <1>6, <1>7 DEF Owning

(* A new entity gets a file that no entry has, and no two get the same.      *)
LEMMA FreeFiles ==
  ASSUME NEW L \in SUBSET Entries, NEW k, NEW new \in SUBSET Ids,
         \A id \in new : KindOf[id] = k,
         NEW slug \in [new -> Slugs], GivesSlugs(slug, L, k),
         \A e, x \in L : File(e.kind, e.slug) = File(x.kind, x.slug) => e.id = x.id,
         NEW e \in L \cup {EntryOf(id, slug[id]) : id \in new},
         NEW x \in L \cup {EntryOf(id, slug[id]) : id \in new},
         File(e.kind, e.slug) = File(x.kind, x.slug)
  PROVE  e.id = x.id
<1>1. e.kind = x.kind /\ e.slug = x.slug
  BY DEF File
<1>2. \A id \in new : /\ slug[id] \notin SlugsUsed(L, k)
                      /\ \A j \in new : j < id => slug[id] # slug[j]
  BY DEF GivesSlugs
<1>3. \A id \in new, y \in L : y.kind = k => y.slug # slug[id]
  BY <1>2 DEF SlugsUsed
<1>4. \A id \in new : /\ EntryOf(id, slug[id]).kind = k /\ EntryOf(id, slug[id]).id = id
                      /\ EntryOf(id, slug[id]).slug = slug[id]
  BY DEF EntryOf
<1>5. CASE e \in L /\ x \in L
  BY <1>5
<1>6. CASE e \notin L /\ x \notin L
  <2>1. PICK i \in new, j \in new : e = EntryOf(i, slug[i]) /\ x = EntryOf(j, slug[j])
    BY <1>6
  <2>2. slug[i] = slug[j] /\ i \in Nat /\ j \in Nat
    BY <1>1, <1>4, <2>1, HydratingAssumption
  <2>3. ~(i < j) /\ ~(j < i)
    BY <1>2, <2>2
  <2> QED BY <1>4, <2>1, <2>2, <2>3
<1>7. CASE e \in L /\ x \notin L
  BY <1>1, <1>3, <1>4, <1>7
<1>8. CASE e \notin L /\ x \in L
  BY <1>1, <1>3, <1>4, <1>8
<1> QED BY <1>5, <1>6, <1>7, <1>8

LEMMA SeedListing ==
  ASSUME StoreInv, NEW s \in Seeders, SeedLists(s)
  PROVE  StoreInv'
<1> USE HydratingAssumption DEF StoreInv
<1> DEFINE previous == seeder[s].entries
           listing  == seeder[s].listing
           new      == {id \in listing : ~Bound(id, previous)}
           k        == Providers[seeder[s].at]
<1>1. PICK slug \in [new -> Slugs] :
        LET entries == previous \cup {EntryOf(id, slug[id]) : id \in new}
            IdAt(f) == {e.id : e \in {x \in entries : /\ File(x.kind, x.slug) = f
                                                   /\ x.id \in listing}}
            Seeded  == {f \in Files : IdAt(f) # {}}
        IN /\ GivesSlugs(slug, previous, k)
           /\ seeder' = [seeder EXCEPT ![s] = [on |-> TRUE, at |-> seeder[s].at + 1,
                                            entries |-> entries, listing |-> {}]]
           /\ descriptors' = [f \in Files |-> IF f \in Seeded THEN CHOOSE id \in IdAt(f) : TRUE
                                            ELSE descriptors[f]]
           /\ memos' = memos \cup Seeded
           /\ settled' = [f \in Files |-> IF f \in Seeded THEN None ELSE settled[f]]
  BY DEF SeedLists
<1> DEFINE entries == previous \cup {EntryOf(id, slug[id]) : id \in new}
           IdAt(f) == {e.id : e \in {x \in entries : /\ File(x.kind, x.slug) = f
                                                  /\ x.id \in listing}}
           Seeded  == {f \in Files : IdAt(f) # {}}
           listed  == [on |-> TRUE, at |-> seeder[s].at + 1, entries |-> entries, listing |-> {}]
<1>2. /\ Wake(s) /\ GivesSlugs(slug, previous, k)
      /\ seeder' = [seeder EXCEPT ![s] = listed]
      /\ descriptors' = [f \in Files |-> IF f \in Seeded THEN CHOOSE id \in IdAt(f) : TRUE
                                         ELSE descriptors[f]]
      /\ memos' = memos \cup Seeded
      /\ settled' = [f \in Files |-> IF f \in Seeded THEN None ELSE settled[f]]
      /\ UNCHANGED <<cache, lock, seeds, apart, world, fetch, edits>>
  BY <1>1, Zenon DEF SeedLists
<1>3. /\ seeder[s] \in Seeds /\ previous \in SUBSET Entries /\ listing \subseteq Ids
      /\ new \in SUBSET Ids /\ \A id \in new : KindOf[id] = k
  BY DEF StoreType, Seeds, CallersBusy
<1>4. \A id \in new : EntryOf(id, slug[id]) \in Entries
  BY <1>3 DEF EntryOf, Entries, Kinds, Range
<1>5. entries \in SUBSET Entries
  BY <1>3, <1>4
<1>6. \A f : IdAt(f) \subseteq Ids
  BY <1>3
<1>7. /\ listed \in Seeds /\ listed.on = TRUE
      /\ listed.entries = entries /\ listed.listing = {}
  BY <1>3, <1>5 DEF Seeds
<1> HIDE DEF listed
<1>8. /\ seeder'[s] = listed
      /\ \A t \in Seeders : t # s => seeder'[t] = seeder[t]
  BY <1>2 DEF StoreType
<1>9. pc[s] # "idle" /\ pc'[s] = "idle" /\ \A c \in Callers \ {s} : pc'[c] = pc[c]
  BY <1>2, Moves DEF Wake
<1>10. seeder[s].on
  BY <1>9 DEF CallersBusy
<1> HIDE DEF entries
<1>11. \A f \in Files : f \in Seeded => descriptors'[f] \in IdAt(f)
  BY <1>2
<1>12. StoreType'
  <2> HIDE DEF IdAt
  <2>1. descriptors' \in [Files -> Ids \cup {None}]
    BY <1>2, <1>6, <1>11 DEF StoreType
  <2>2. memos' \subseteq Files
    BY <1>2 DEF StoreType
  <2>3. settled' \in [Files -> {None, "written", "deleted"}]
    BY <1>2 DEF StoreType
  <2>4. seeder' \in [Seeders -> Seeds]
    BY <1>2, <1>7 DEF StoreType
  <2>5. pc' \in [Callers -> {"idle", "waiting", "calling", "sleeping"}]
    BY <1>2, Moves
  <2> QED BY <1>2, <2>1, <2>2, <2>3, <2>4, <2>5 DEF StoreType, world
<1>13. CallersBusy'
  <2>1. \A t \in Seeders : \A id \in seeder'[t].listing : KindOf[id] = Providers[seeder'[t].at]
    BY <1>7, <1>8 DEF CallersBusy
  <2>2. \A t \in Seeders : ~seeder'[t].on => seeder'[t] = NoSeed
    BY <1>7, <1>8, <1>10 DEF CallersBusy
  <2>3. \A t \in Seeders : pc'[t] # "idle" => seeder'[t].on /\ seeder'[t].at <= Len(Providers)
    BY <1>8, <1>9 DEF CallersBusy
  <2> QED BY <1>2, <1>9, <2>1, <2>2, <2>3 DEF CallersBusy
<1>14. NothingComes' /\ EditsStay'
  <2> SUFFICES ASSUME NEW f \in Files, settled'[f] # None
               PROVE  /\ ~Fetching(f)' /\ f \notin memos'
                      /\ settled'[f] = "written" => cache'[f] = Local
                      /\ settled'[f] = "deleted" => cache'[f] = None /\ descriptors'[f] = None
    BY NothingAssumption DEF NothingComes, EditsStay
  <2> HIDE DEF IdAt
  <2>1. f \notin Seeded /\ settled'[f] = settled[f]
    BY <1>2
  <2> QED BY <1>2, <2>1 DEF NothingComes, EditsStay, Fetching
<1>15. ASSUME apart PROVE OneAtATime' /\ OneIdPerFile' /\ FilesAreBound'
  <2>1. \A t \in Seeders : t # s => ~seeder[t].on /\ seeder[t].entries = {}
    BY <1>10, <1>15 DEF Owning, OneAtATime, CallersBusy, NoSeed
  <2>2. Given = previous
    BY <1>10, <1>15, <2>1 DEF Owning, OneAtATime, Given
  <2>3. Given' = entries
    <3>1. lock \subseteq entries
      BY <1>10, <1>15 DEF Owning, OneAtATime, entries
    <3> QED BY <1>2, <1>7, <1>8, <2>1, <3>1 DEF Given
  <2>4. OneAtATime'
    BY <1>2, <1>7, <1>8, <1>10, <1>15 DEF Owning, OneAtATime, entries
  <2>5. OneIdPerFile'
    <3>1. \A e, x \in previous : File(e.kind, e.slug) = File(x.kind, x.slug) => e.id = x.id
      BY <1>15, <2>2 DEF Owning, OneIdPerFile
    <3>2. \A e, x \in entries : File(e.kind, e.slug) = File(x.kind, x.slug) => e.id = x.id
      <4> SUFFICES ASSUME NEW e \in entries, NEW x \in entries,
                          File(e.kind, e.slug) = File(x.kind, x.slug)
                   PROVE  e.id = x.id
        OBVIOUS
      <4>1. /\ e \in previous \cup {EntryOf(id, slug[id]) : id \in new}
            /\ x \in previous \cup {EntryOf(id, slug[id]) : id \in new}
        BY DEF entries
      <4> HIDE DEF previous, new, k
      <4> QED BY <1>2, <1>3, <3>1, <4>1, FreeFiles
    <3> QED BY <2>3, <3>2 DEF OneIdPerFile
  <2>6. \A f, id : Binds(f, id) => Binds(f, id)'
    BY <2>2, <2>3 DEF Binds, entries
  <2>7. ASSUME NEW f \in Files, descriptors'[f] \in Ids PROVE Binds(f, descriptors[f])'
    <3>1. CASE f \in Seeded
      BY <1>11, <2>3, <3>1 DEF Binds
    <3>2. CASE f \notin Seeded
      BY <1>2, <1>15, <2>6, <2>7, <3>2 DEF Owning, FilesAreBound
    <3> QED BY <3>1, <3>2
  <2>8. FilesAreBound'
    BY <1>2, <1>15, <2>6, <2>7 DEF Owning, FilesAreBound
  <2> QED BY <2>4, <2>5, <2>8
<1> QED BY <1>2, <1>12, <1>13, <1>14, <1>15 DEF Owning

-----------------------------------------------------------------------------
(* Fetches *)

LEMMA FetchBegins ==
  ASSUME StoreInv, NEW c \in Callers \ Seeders, NEW f \in Files, Hydrate(c, f)
  PROVE  StoreInv'
<1> USE HydratingAssumption DEF StoreInv
<1> DEFINE begun == [file |-> f, id |-> descriptors[f], there |-> FALSE]
<1>1. /\ f \in memos /\ fetch[c] = None /\ memos' = memos \ {f} /\ Ask(c)
      /\ fetch' = [fetch EXCEPT ![c] = begun]
      /\ UNCHANGED <<cache, descriptors, settled, seedVars, world, edits>>
  BY DEF Hydrate
<1>2. begun \in Fetches
  BY DEF StoreType, Fetches
<1>3. begun # None
  BY <1>2, NothingAssumption DEF Fetches
<1>4. /\ fetch'[c] = begun
      /\ \A d \in Callers : d # c => fetch'[d] = fetch[d] /\ pc'[d] = pc[d]
  BY <1>1, Moves DEF StoreType
<1>5. StoreType'
  BY <1>1, <1>2, Moves DEF StoreType, seedVars, world
<1>6. CallersBusy'
  BY <1>1, <1>3, <1>4 DEF CallersBusy, seedVars
<1>7. \A g \in Files : g # f => Fetching(g)' = Fetching(g)
  BY <1>1, <1>4 DEF Fetching
<1>8. NothingComes' /\ EditsStay'
  BY <1>1, <1>7 DEF NothingComes, EditsStay
<1>9. Owning'
  BY <1>1, <1>4, GivenKept DEF Owning, FilesAreBound, seedVars
<1> QED BY <1>5, <1>6, <1>8, <1>9

LEMMA CallStarts ==
  ASSUME StoreInv, NEW c \in Callers, Starts(c)
  PROVE  StoreInv'
<1> USE HydratingAssumption DEF StoreInv
<1>1. Acquire(c) /\ UNCHANGED <<storeVars, seedVars, world, fetch, edits>>
  BY DEF Starts
<1>2. pc[c] # "idle" /\ \A d \in Callers : d # c => pc'[d] = pc[d]
  BY <1>1, Moves DEF Acquire
<1>3. StoreType'
  BY <1>1, Moves DEF StoreType, storeVars, seedVars, world
<1>4. CallersBusy'
  BY <1>1, <1>2 DEF CallersBusy, seedVars
<1>5. NothingComes' /\ EditsStay'
  BY <1>1 DEF NothingComes, EditsStay, Fetching, storeVars
<1>6. Owning'
  BY <1>1, GivenKept DEF Owning, FilesAreBound, seedVars, storeVars
<1> QED BY <1>3, <1>4, <1>5, <1>6

LEMMA CallAnswers ==
  ASSUME StoreInv, NEW c \in Callers \ Seeders, Answers(c)
  PROVE  StoreInv'
<1> USE HydratingAssumption DEF StoreInv
<1> DEFINE told == [fetch[c] EXCEPT !.there = fetch[c].id \in remote]
<1>1. /\ Succeed(c) /\ fetch' = [fetch EXCEPT ![c] = told]
      /\ UNCHANGED <<storeVars, seedVars, world, edits>>
  BY DEF Answers
<1>2. fetch[c] \in Fetches
  BY <1>1 DEF CallersBusy, StoreType, Succeed
<1>3. /\ told \in Fetches /\ told.file = fetch[c].file /\ told.id = fetch[c].id
      /\ told.there = (fetch[c].id \in remote)
  <2> DEFINE there == fetch[c].id \in remote
  <2>1. there \in BOOLEAN /\ told = [fetch[c] EXCEPT !.there = there]
    OBVIOUS
  <2> HIDE DEF there
  <2>2. told \in Fetches /\ told.file = fetch[c].file /\ told.id = fetch[c].id
        /\ told.there = there
    BY <1>2, <2>1, Zenon DEF Fetches
  <2> QED BY <2>2 DEF there
<1>4. told # None /\ fetch[c] # None
  BY <1>2, <1>3, NothingAssumption DEF Fetches
<1> HIDE DEF told
<1>5. /\ fetch'[c] = told
      /\ \A d \in Callers : d # c => fetch'[d] = fetch[d] /\ pc'[d] = pc[d]
  BY <1>1, Moves DEF StoreType
<1>6. StoreType'
  BY <1>1, <1>3, Moves DEF StoreType, storeVars, seedVars, world
<1>7. CallersBusy'
  <2>1. told.there => told.id \in Ids
    BY <1>3, Zenon DEF StoreType
  <2>2. \A d \in Callers : fetch'[d] # None /\ fetch'[d].there => fetch'[d].id \in Ids
    BY <1>5, <2>1 DEF CallersBusy
  <2>3. \A d \in Callers \ Seeders : pc'[d] # "idle" => fetch'[d] # None
    BY <1>4, <1>5 DEF CallersBusy
  <2>4. \A s \in Seeders : pc'[s] = pc[s]
    BY <1>5
  <2> QED BY <1>1, <2>2, <2>3, <2>4 DEF CallersBusy, seedVars
<1>8. \A g : Fetching(g)' = Fetching(g)
  BY <1>3, <1>4, <1>5 DEF Fetching
<1>9. NothingComes' /\ EditsStay'
  BY <1>1, <1>8 DEF NothingComes, EditsStay, storeVars
<1>10. Owning'
  BY <1>1, <1>3, <1>4, <1>5, GivenKept DEF Owning, FilesAreBound, seedVars, storeVars
<1> QED BY <1>6, <1>7, <1>9, <1>10

(* The file a content lands in is being fetched, so no edit of it is settled.*)
LEMMA FetchLands ==
  ASSUME StoreInv, NEW c \in Callers \ Seeders, Lands(c) \/ FetchFails(c)
  PROVE  StoreInv'
<1> USE HydratingAssumption DEF StoreInv
<1>1. /\ Wake(c) \/ Fail(c) \/ Interrupt(c)
      /\ fetch' = [fetch EXCEPT ![c] = None]
      /\ UNCHANGED <<descriptors, memos, settled, seedVars, world, edits>>
  BY DEF Lands, FetchFails, storeVars
<1>2. fetch[c] \in Fetches /\ fetch[c] # None
  <2>1. pc[c] # "idle"
    BY <1>1, Moves DEF Wake, Fail, Interrupt
  <2> QED BY <2>1 DEF CallersBusy, StoreType
<1>3. cache' = cache \/ (fetch[c].there /\ cache' = [cache EXCEPT ![fetch[c].file] = fetch[c].id])
  BY DEF Lands, FetchFails, storeVars
<1>4. /\ fetch[c].file \in Files /\ (fetch[c].there => fetch[c].id \in Ids)
      /\ Fetching(fetch[c].file)
  BY <1>2 DEF CallersBusy, Fetches, Fetching
<1>5. /\ fetch'[c] = None /\ pc'[c] = "idle"
      /\ \A d \in Callers : d # c => fetch'[d] = fetch[d] /\ pc'[d] = pc[d]
  BY <1>1, Moves DEF StoreType
<1>6. \A g : Fetching(g)' => Fetching(g)
  BY <1>5 DEF Fetching
<1>7. \A g \in Files : cache'[g] = cache[g] \/ (g = fetch[c].file /\ cache'[g] = fetch[c].id
                                             /\ fetch[c].there)
  BY <1>3, <1>4 DEF StoreType
<1>8. StoreType'
  <2>1. cache' \in [Files -> Ids \cup {Local, None}]
    BY <1>3, <1>4 DEF StoreType
  <2> QED BY <1>1, <2>1, Moves DEF StoreType, seedVars, world
<1>9. CallersBusy'
  BY <1>1, <1>5 DEF CallersBusy, seedVars
<1>10. NothingComes' /\ EditsStay'
  <2>1. NothingComes'
    BY <1>1, <1>6 DEF NothingComes
  <2>2. \A g \in Files : settled[g] # None => cache'[g] = cache[g]
    BY <1>4, <1>7 DEF NothingComes
  <2> QED BY <1>1, <2>1, <2>2, NothingAssumption DEF EditsStay
<1>11. Owning'
  <2> SUFFICES ASSUME apart PROVE FilesAreBound'
    BY <1>1, GivenKept DEF Owning, seedVars
  <2>1. FilesAreBound
    BY DEF Owning
  <2>2. \A d \in Callers : fetch'[d] # None => fetch'[d] = fetch[d] /\ fetch[d] # None
    BY <1>5
  <2>3. \A g \in Files : cache'[g] \in Ids => Binds(g, cache'[g])
    BY <1>2, <1>4, <1>7, <2>1 DEF FilesAreBound
  <2> QED BY <1>1, <2>1, <2>2, <2>3, GivenKept DEF FilesAreBound, seedVars
<1> QED BY <1>8, <1>9, <1>10, <1>11

-----------------------------------------------------------------------------
(* The user and the world *)

LEMMA UserEdits ==
  ASSUME StoreInv, NEW f \in Files, Write(f) \/ Create(f) \/ Delete(f)
  PROVE  StoreInv'
<1> USE HydratingAssumption DEF StoreInv
<1>1. /\ UNCHANGED <<vars, seedVars, world, fetch>>
      /\ cache' = [cache EXCEPT ![f] = IF Delete(f) THEN None ELSE Local]
         \/ cache' = [cache EXCEPT ![f] = Local]
      /\ descriptors' = descriptors \/ descriptors' = [descriptors EXCEPT ![f] = None]
      /\ memos' \subseteq memos
  BY DEF Write, Create, Delete
<1>2. \/ settled' = [settled EXCEPT ![f] = None]
      \/ /\ ~Fetching(f) /\ f \notin memos'
         /\ \/ settled' = [settled EXCEPT ![f] = "written"] /\ cache'[f] = Local
            \/ /\ settled' = [settled EXCEPT ![f] = "deleted"] /\ cache'[f] = None
               /\ descriptors'[f] = None
  BY DEF Write, Create, Delete, Settle, StoreType
<1>3. \A g \in Files : g # f => /\ cache'[g] = cache[g] /\ settled'[g] = settled[g]
                                /\ descriptors'[g] = descriptors[g]
  BY <1>1, <1>2 DEF StoreType
<1>4. cache'[f] \in {Local, None} /\ descriptors'[f] \in {None, descriptors[f]}
  BY <1>1 DEF StoreType
<1>5. StoreType'
  <2>1. /\ cache' \in [Files -> Ids \cup {Local, None}]
        /\ descriptors' \in [Files -> Ids \cup {None}]
        /\ memos' \subseteq Files
    BY <1>1 DEF StoreType
  <2>2. settled' \in [Files -> {None, "written", "deleted"}]
    BY <1>2 DEF StoreType
  <2> QED BY <1>1, <2>1, <2>2 DEF StoreType, vars, seedVars, world
<1>6. CallersBusy'
  BY <1>1 DEF CallersBusy, vars, seedVars
<1>7. \A g : Fetching(g)' = Fetching(g)
  BY <1>1 DEF Fetching
<1>8. NothingComes' /\ EditsStay'
  <2> SUFFICES ASSUME NEW g \in Files, settled'[g] # None
               PROVE  /\ ~Fetching(g) /\ g \notin memos'
                      /\ settled'[g] = "written" => cache'[g] = Local
                      /\ settled'[g] = "deleted" => cache'[g] = None /\ descriptors'[g] = None
    BY <1>7, NothingAssumption DEF NothingComes, EditsStay
  <2>1. CASE g = f
    BY <1>2, <2>1 DEF StoreType
  <2>2. CASE g # f
    BY <1>1, <1>3, <2>2 DEF NothingComes, EditsStay
  <2> QED BY <2>1, <2>2
<1>9. Owning'
  <2>1. \A g \in Files : /\ cache'[g] \in Ids => cache'[g] = cache[g]
                         /\ descriptors'[g] \in Ids => descriptors'[g] = descriptors[g]
    BY <1>3, <1>4
  <2> QED BY <1>1, <2>1, GivenKept DEF Owning, FilesAreBound, seedVars
<1> QED BY <1>5, <1>6, <1>8, <1>9

LEMMA WorldMoves ==
  ASSUME StoreInv, External \/ Time \/ UNCHANGED hydratingVars
  PROVE  StoreInv'
<1> USE HydratingAssumption DEF StoreInv
<1>1. UNCHANGED <<storeVars, seedVars, fetch, pc>> /\ remote' \subseteq Ids
  BY DEF External, Time, Tick, hydratingVars, vars, world, StoreType
<1>2. StoreType'
  BY <1>1 DEF StoreType, storeVars, seedVars
<1>3. CallersBusy'
  BY <1>1 DEF CallersBusy, seedVars
<1>4. NothingComes' /\ EditsStay'
  BY <1>1 DEF NothingComes, EditsStay, Fetching, storeVars
<1>5. Owning'
  BY <1>1, GivenKept DEF Owning, FilesAreBound, seedVars, storeVars
<1> QED BY <1>2, <1>3, <1>4, <1>5

LEMMA StoreNext == StoreInv /\ [HydratingNext]_hydratingVars => StoreInv'
<1> SUFFICES ASSUME StoreInv, [HydratingNext]_hydratingVars PROVE StoreInv'
  OBVIOUS
<1>1. ASSUME NEW s \in Seeders,
             SeedBegins(s) \/ SeedAsks(s) \/ SeedHears(s) \/ SeedLists(s)
             \/ SeedWrites(s) \/ SeedFails(s)
      PROVE  StoreInv'
  BY <1>1, SeedOn, SeedAsking, SeedHearing, SeedListing, SeedWriting, SeedFailing
<1>2. ASSUME NEW c \in Callers, Starts(c) PROVE StoreInv'
  BY <1>2, CallStarts
<1>3. ASSUME NEW c \in Callers \ Seeders,
             (\E f \in Files : Hydrate(c, f)) \/ Answers(c) \/ Lands(c) \/ FetchFails(c)
      PROVE  StoreInv'
  BY <1>3, FetchBegins, CallAnswers, FetchLands
<1>4. ASSUME NEW f \in Files, Write(f) \/ Create(f) \/ Delete(f) PROVE StoreInv'
  BY <1>4, UserEdits
<1>5. CASE External \/ Time \/ UNCHANGED hydratingVars
  BY <1>5, WorldMoves
<1> QED BY <1>1, <1>2, <1>3, <1>4, <1>5 DEF HydratingNext

(* The store's state stays well typed, who is under the limiter is seeding   *)
(* or fetching, and no fetch of a settled file is on the way.                *)
THEOREM StoreIsSound == HydratingSpec => []StoreInv
<1>1. HydratingInit => StoreInv
  BY StoreStarts
<1>2. StoreInv /\ [HydratingNext]_hydratingVars => StoreInv'
  BY StoreNext
<1> QED BY <1>1, <1>2, PTL DEF HydratingSpec

(* A local edit stays, for any number of callers, files and fetches begun,   *)
(* failed or called off before it (write, create, delete, fetchDescriptor).  *)
THEOREM LocalEditsStay == HydratingSpec => []EditsStay
<1>1. StoreInv => EditsStay
  BY DEF StoreInv
<1> QED BY <1>1, StoreIsSound, PTL

(* What was fetched into a file is the entity the lockfile binds to it, for  *)
(* any number of kinds and entities that come and go (seed, dedupe).         *)
THEOREM FilesHoldTheirOwn == HydratingSpec => []ContentIsOwn
<1>1. StoreInv => ContentIsOwn
  <2> SUFFICES ASSUME StoreInv, apart, \A s \in Seeders : ~seeder[s].on,
                      NEW f \in Files, cache[f] \in Ids
               PROVE  {e.id : e \in {x \in lock : File(x.kind, x.slug) = f}} = {cache[f]}
    BY DEF ContentIsOwn
  <2>1. \A s \in Seeders : seeder[s].entries = {}
    BY DEF StoreInv, CallersBusy, NoSeed
  <2>2. Given = lock
    BY <2>1 DEF Given
  <2>3. PICK e \in lock : e.id = cache[f] /\ File(e.kind, e.slug) = f
    BY <2>2 DEF StoreInv, Owning, FilesAreBound, Binds
  <2>4. \A x \in lock : File(x.kind, x.slug) = f => x.id = cache[f]
    BY <2>2, <2>3 DEF StoreInv, Owning, OneIdPerFile
  <2> QED BY <2>3, <2>4
<1> QED BY <1>1, StoreIsSound, PTL
=============================================================================
