--------------------------- MODULE HydratingStore ---------------------------
(***************************************************************************)
(* makeHydratingArtifactStore over providers that share a rate limiter.    *)
(* A seed lists the entities of one provider after the other and gives     *)
(* each a pending file; the content of a file is fetched when it is first  *)
(* read or when a sync comes to it.  Listings and fetches are provider     *)
(* calls under the limiter: the remote is read when the call is answered,  *)
(* but the caller gets the answer only after the limiter's sleep, and      *)
(* seeds, fetches, local writes and deletions go on meanwhile.             *)
(***************************************************************************)
EXTENDS RateLimiter, FiniteSets, Functions

CONSTANTS
  Providers,    \* the kinds, in the order the store was given its providers
  Ids,          \* remote ids
  KindOf,       \* the kind of each
  Seeders,      \* the callers that seed; the others fetch
  Local,        \* what a user writes into a file
  None,
  MaxSeeds,     \* bound: seeds begun
  MaxExternal,  \* bound: entities that appear or vanish on the remote
  MaxEdits      \* bound: local writes, creations and deletions

ASSUME HydratingAssumption ==
  /\ Ids \subseteq Nat \ {0} /\ DOMAIN KindOf = Ids /\ Seeders \subseteq Callers
  /\ Providers \in Seq(Range(KindOf)) /\ Range(Providers) = Range(KindOf)
  /\ {Local, None} \cap Ids = {} /\ Local # None
  /\ MaxSeeds \in Nat /\ MaxExternal \in Nat /\ MaxEdits \in Nat

(* A file is known by its kind and slug.  Every entity suggests the same   *)
(* name, so the slugs of a kind are name, name-2, name-3 ...               *)
Kinds == Range(KindOf)
File(k, n) == [kind |-> k, slug |-> n]
Slugs == 1..Cardinality(Ids)
Files == {File(k, n) : k \in Kinds, n \in Slugs}

ASSUME NothingAssumption ==
  /\ None \notin {"written", "deleted"}
  /\ None \notin [file : Files, id : Ids \cup {None}, there : BOOLEAN]

VARIABLES
  remote,       \* the ids that are there
  lock,         \* the lockfile's entries
  cache,        \* the loaded files: None, Local or the id a content was read from
  descriptors,  \* None, or the id a file is fetched from
  memos,        \* the files whose fetch was not begun since they were listed
  seeder,       \* what each seed is doing
  fetch,        \* what each caller of the limiter fetches
  \* bounds and history
  seeds, external, edits,  \* how many there have been
  apart,        \* no seed overlapped another or failed so far
  settled       \* "written" or "deleted" with nothing on its way that could undo it

storeVars == <<cache, descriptors, memos, settled>>
seedVars == <<lock, seeder, seeds, apart>>
world == <<remote, external>>
hydratingVars == <<vars, storeVars, seedVars, world, fetch, edits>>

NoSeed == [on |-> FALSE, at |-> 1, entries |-> {}, listing |-> {}]
Fetching(f) == \E c \in Callers : fetch[c] # None /\ fetch[c].file = f

HydratingInit ==
  /\ Init
  /\ remote \in SUBSET Ids
  /\ lock = {}
  /\ cache = [f \in Files |-> None]
  /\ descriptors = [f \in Files |-> None]
  /\ memos = {}
  /\ seeder = [s \in Seeders |-> NoSeed]
  /\ fetch = [c \in Callers |-> None]
  /\ seeds = 0 /\ external = 0 /\ edits = 0
  /\ apart = TRUE
  /\ settled = [f \in Files |-> None]

-----------------------------------------------------------------------------
(* seed: read the lockfile, list a provider, give its entities their files *)
(* (no await in that loop), go on to the next provider, write the lockfile *)
SeedBegins(s) ==
  /\ ~seeder[s].on /\ seeds < MaxSeeds
  /\ seeds' = seeds + 1
  /\ seeder' = [seeder EXCEPT ![s] = [NoSeed EXCEPT !.on = TRUE, !.entries = lock]]
  /\ apart' = (apart /\ \A t \in Seeders : ~seeder[t].on)
  /\ UNCHANGED <<vars, storeVars, lock, world, fetch, edits>>

SeedAsks(s) ==
  /\ seeder[s].on /\ seeder[s].at <= Len(Providers)
  /\ Ask(s)
  /\ UNCHANGED <<storeVars, seedVars, world, fetch, edits>>

\* the provider answers with the entities of its kind
SeedHears(s) ==
  /\ Succeed(s)
  /\ seeder' = [seeder EXCEPT ![s].listing =
                  {id \in remote : KindOf[id] = Providers[seeder[s].at]}]
  /\ UNCHANGED <<storeVars, lock, seeds, apart, world, fetch, edits>>

\* MUTANT of SlugsUsed: the slugs of earlier seeds may be given again
SlugsUsedNow(entries, k) == {}

\* the slugs of a kind that the lockfile has given
SlugsUsed(entries, k) == {e.slug : e \in {x \in entries : x.kind = k}}

Bound(id, entries) == \E e \in entries : e.kind = KindOf[id] /\ e.id = id

\* one after the other, the listed entities without an entry get the first free slug
GivesSlugs(slug, entries, k) ==
  \A id \in DOMAIN slug :
    LET taken == SlugsUsed(entries, k) \cup {slug[j] : j \in {x \in DOMAIN slug : x < id}}
    IN slug[id] \notin taken /\ 1..(slug[id] - 1) \subseteq taken

EntryOf(id, n) == [kind |-> KindOf[id], id |-> id, slug |-> n]

\* an entity keeps the slug its lockfile entry has
SeedLists(s) ==
  /\ Wake(s)
  /\ LET previous == seeder[s].entries
         listing  == seeder[s].listing
         new      == {id \in listing : ~Bound(id, previous)}
     IN \E slug \in [new -> Slugs] :
          LET entries == previous \cup {EntryOf(id, slug[id]) : id \in new}
              IdAt(f) == {e.id : e \in {x \in entries : /\ File(x.kind, x.slug) = f
                                                     /\ x.id \in listing}}
              Seeded  == {f \in Files : IdAt(f) # {}}
          IN /\ GivesSlugs(slug, previous, Providers[seeder[s].at])
             /\ seeder' = [seeder EXCEPT ![s] = [on |-> TRUE, at |-> seeder[s].at + 1,
                                              entries |-> entries, listing |-> {}]]
             /\ descriptors' = [f \in Files |-> IF f \in Seeded THEN CHOOSE id \in IdAt(f) : TRUE
                                              ELSE descriptors[f]]
             /\ memos' = memos \cup Seeded
             /\ settled' = [f \in Files |-> IF f \in Seeded THEN None ELSE settled[f]]
  /\ UNCHANGED <<cache, lock, seeds, apart, world, fetch, edits>>

SeedWrites(s) ==
  /\ seeder[s].on /\ seeder[s].at > Len(Providers)
  /\ lock' = seeder[s].entries
  /\ seeder' = [seeder EXCEPT ![s] = NoSeed]
  /\ UNCHANGED <<vars, storeVars, seeds, apart, world, fetch, edits>>

\* a listing or the lockfile's write fails; the files that were seeded stay
SeedFails(s) ==
  /\ seeder[s].on
  /\ \/ Fail(s) \/ Interrupt(s)
     \/ seeder[s].at > Len(Providers) /\ UNCHANGED vars
  /\ seeder' = [seeder EXCEPT ![s] = NoSeed]
  /\ apart' = FALSE
  /\ UNCHANGED <<storeVars, lock, seeds, world, fetch, edits>>

-----------------------------------------------------------------------------
(* hydrate: the memo of a file runs its fetch once and remembers how that  *)
(* ended, a failure included.  A read comes here when the file is not      *)
(* loaded, a sync comes here for every file it seeded.                     *)
Hydrate(c, f) ==
  /\ f \in memos /\ fetch[c] = None
  /\ memos' = memos \ {f}
  /\ fetch' = [fetch EXCEPT ![c] = [file |-> f, id |-> descriptors[f], there |-> FALSE]]
  /\ Ask(c)
  /\ UNCHANGED <<cache, descriptors, settled, seedVars, world, edits>>

Starts(c) == Acquire(c) /\ UNCHANGED <<storeVars, seedVars, world, fetch, edits>>

\* the provider answers with the entity or with nothing
Answers(c) ==
  /\ Succeed(c)
  /\ fetch' = [fetch EXCEPT ![c].there = fetch[c].id \in remote]
  /\ UNCHANGED <<storeVars, seedVars, world, edits>>

\* whatever the cache holds by now, the content that was read replaces it;
\* an entity that is not there or does not encode is a failed fetch
Lands(c) ==
  /\ Wake(c)
  /\ fetch' = [fetch EXCEPT ![c] = None]
  /\ cache' \in {cache} \cup
       (IF fetch[c].there THEN {[cache EXCEPT ![fetch[c].file] = fetch[c].id]} ELSE {})
  /\ UNCHANGED <<descriptors, memos, settled, seedVars, world, edits>>

FetchFails(c) ==
  /\ Fail(c) \/ Interrupt(c)
  /\ fetch' = [fetch EXCEPT ![c] = None]
  /\ UNCHANGED <<storeVars, seedVars, world, edits>>

-----------------------------------------------------------------------------
(* The user.  An edit is settled when no fetch of the file is under way    *)
(* and none can begin before the file is seeded again.                     *)
Edit == edits < MaxEdits /\ edits' = edits + 1

Settle(f, how) ==
  settled' = [settled EXCEPT ![f] = IF Fetching(f) THEN None ELSE how]

\* MUTANT of Write: the fetch that is still to come is not called off
WriteKeepingMemo(f) ==
  /\ Edit
  /\ cache' = [cache EXCEPT ![f] = Local]
  /\ Settle(f, "written")
  /\ UNCHANGED <<vars, descriptors, memos, seedVars, world, fetch>>

Write(f) ==
  /\ Edit
  /\ cache' = [cache EXCEPT ![f] = Local]
  /\ memos' = memos \ {f}
  /\ Settle(f, "written")
  /\ UNCHANGED <<vars, descriptors, seedVars, world, fetch>>

\* a creation leaves the memo of a pending file: a sync may still come to it
Create(f) ==
  /\ Edit
  /\ cache[f] = None
  /\ cache' = [cache EXCEPT ![f] = Local]
  /\ settled' = [settled EXCEPT ![f] = IF Fetching(f) \/ f \in memos THEN None ELSE "written"]
  /\ UNCHANGED <<vars, descriptors, memos, seedVars, world, fetch>>

Delete(f) ==
  /\ Edit
  /\ cache[f] # None \/ descriptors[f] # None
  /\ cache' = [cache EXCEPT ![f] = None]
  /\ descriptors' = [descriptors EXCEPT ![f] = None]
  /\ memos' = memos \ {f}
  /\ Settle(f, "deleted")
  /\ UNCHANGED <<vars, seedVars, world, fetch>>

\* entities appear and vanish
External ==
  /\ external < MaxExternal /\ external' = external + 1
  /\ \E id \in Ids : remote' = IF id \in remote THEN remote \ {id} ELSE remote \cup {id}
  /\ UNCHANGED <<vars, storeVars, seedVars, fetch, edits>>

Time == Tick /\ UNCHANGED <<storeVars, seedVars, world, fetch, edits>>

-----------------------------------------------------------------------------
HydratingNext ==
  \/ \E s \in Seeders : \/ SeedBegins(s) \/ SeedAsks(s) \/ SeedHears(s) \/ SeedLists(s)
                        \/ SeedWrites(s) \/ SeedFails(s)
  \/ \E c \in Callers : Starts(c)
  \/ \E c \in Callers \ Seeders :
       \/ \E f \in Files : Hydrate(c, f)
       \/ Answers(c) \/ Lands(c) \/ FetchFails(c)
  \/ \E f \in Files : Write(f) \/ Create(f) \/ Delete(f)
  \/ External \/ Time

HydratingSpec == HydratingInit /\ [][HydratingNext]_hydratingVars

-----------------------------------------------------------------------------
(* A local edit stays: a file that was written keeps what was written, and *)
(* a deleted one stays deleted, whatever fetches of it were begun, failed  *)
(* or called off before, as long as none was on its way when the edit was  *)
(* made and the file is not seeded again (write, create and delete against *)
(* the landing of fetchDescriptor).                                        *)
EditsStay ==
  \A f \in Files :
    /\ settled[f] = "written" => cache[f] = Local
    /\ settled[f] = "deleted" => cache[f] = None /\ descriptors[f] = None

(* With no seed under way, what was fetched into a file is the entity the  *)
(* lockfile binds to it and no other, however often entities vanish and    *)
(* new ones want their names, unless seeds have overlapped or failed half  *)
(* way: plan and apply would push one entity's content to another.         *)
ContentIsOwn ==
  apart /\ (\A s \in Seeders : ~seeder[s].on) =>
    \A f \in Files : cache[f] \in Ids =>
      {e.id : e \in {x \in lock : File(x.kind, x.slug) = f}} = {cache[f]}
=============================================================================
