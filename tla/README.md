# Schematics, verified

TLA+ models, TLC runs and TLAPS proofs for the parts of Schematics whose
correctness depends on the order in which things happen: the config-as-code
engine, the services around it, the workspaces files are kept in, the IDE on top
of one, the git mirror a hosted page keeps, and the ingest runner.

Paths below are relative to `src/packages/`.

## The system

Schematics keeps the configuration of a SaaS product as files. A *provider* per
entity kind knows the remote API; the *engine* pulls remote entities into files,
plans the difference, applies it and can destroy what it owns. Around the engine
are a deploy service, three ways to keep a workspace (a local directory with
git, a hosted durable object, a store in the browser), an IDE, an agent and an
ingest workflow.

| Component | State | Operations | What is hard | What makes it correct |
|---|---|---|---|---|
| Engine `alchemy/src/engine.ts` | working tree (an artifact store), `config.lock.json` (kind, slug, remote id), the remote | pull, plan, apply, destroy | no locks and no transaction: each operation reads the lockfile, makes many remote calls and writes its copy back; plans are values a caller may apply late, twice or elsewhere; any call may fail | identity of lockfile entries, convergence of apply, pull mirrors the remote, apply orphans nothing |
| Order `alchemy/src/order.ts` | locals of one sort | orderForApply | double edges, cycles, deletes in reverse | every change once, in a legal order |
| Rate limiter `alchemy/src/rate-limiter.ts` | one semaphore | limit | failing and interrupted calls | one call at a time, spaced |
| Hydrating store `alchemy/src/hydrating-store.ts` | cache, descriptors, memoised fetches, the lockfile | seed, hydrate, sync, read, write, create, delete | a fetch in flight while its file is written, deleted or seeded again | local edits stay unless a fetch was already under way; a file holds its own entity |
| Provider adapters `provider/src` | none | list, read, create, update, delete | ids that are the entity's own key | the engine's provider contract |
| Deploy service `deploy/src/deploy-service.ts` | connection records, secrets, cached engines, runs, subscribers | connect, delete, pull, plan, apply | awaits between check and use; a restart keeps records and loses the cache | an engine serves its own connection; connections stay until deleted and are unused after |
| Artifact history `artifacts/src/store.ts` | contents, revisions, cursor | apply, undo, redo | patches that must fit the store they meet, revisions cut off by a change after an undo | undo and redo walk along whole versions and never fail |
| Artifact cache, registry `artifacts/src` | a bounded map | memoised lookups | eviction | a hit equals a recomputation |
| Git artifact store `git-artifacts/src/git-artifact-store.ts` | tree, head, dirty; the index below it | seed, read, write, create, delete, commit | listing, staging and push are awaited, and the tree is emptied before it is listed | what was written is committed |
| Local workspace `cli/src/local-artifact-project-client.ts` | the directory, latest snapshot, revision, the git index | refresh, watch, applyChange, applyArtifactChange, commit | the watcher and the requests refresh concurrently; the disk changes underneath; commits share an index | revisions order snapshots; at rest the snapshot is the disk; what is staged is committed, secrets never |
| Hosted workspace `cloudflare/src/workspace-object.ts` | files, metadata, change records in one durable object | initialize, applyChange, applyArtifactChange, git metadata, reads | many clients; a refused change must leave nothing | a revision names one set of files, a record names what changed |
| IDE store `ide/src/artifact-project-store.ts` | snapshot, hydrated contents, active file, drafts, conflicts, session | start, stop, events, edits, saves, refreshes | late, reordered and lost answers, sessions that end | the snapshots it holds never go back; drafts are never lost silently; conflicts are seen |
| Ingest `ingest/src/workflow.ts` | manifest, step outputs, the project's files; the run's locals | define, run, resume, run from a step | killed between two store writes; resumed with other inputs | a recorded step has its output; a completed run is of one piece |
| Hosted page `../apps/playground/src/hosted-git.ts` | a git repository in memory, what it committed last, the git store's tree | commit after a change, refresh, deploy operations, history, fork, merge | requests of one page share repository and store without a lock; pushes fail; a reload forgets | at rest the remote branch mirrors the workspace |
| CLI, server, protocol, core, agent, views, examples, apps and scripts | none of their own, or a library's | – | – | pure functions and plumbing |

Components call each other directly (Effect programs on one event loop, so a
step between two awaits is atomic); the IDE and the CLI reach the services by
RPC and receive events on streams.

## The modules

| Module | Models |
|---|---|
| `ConfigEngine` | `makeConfigDeploy`: pull, plan, apply, destroy |
| `OrderRules` | what `orderForApply` promises; used by `ConfigEngine` |
| `ApplyOrder` | `topoSort` as it runs, checked against `OrderRules` |
| `RateLimiter` | `makeRateLimiter` |
| `DeployService` | `makeConfigDeployService` over the connection file |
| `HydratingStore` | `makeHydratingArtifactStore` over throttled providers; extends `RateLimiter` |
| `ArtifactChange` | change requests, patches, changed paths: what all workspaces do to their files |
| `ArtifactHistory` | abstract: a history of whole contents with undo and redo |
| `VersionedStore` | `createVersionedArtifactStore`; implements `ArtifactHistory` |
| `LocalWorkspace` | `createLocalFilesystemArtifactProjectClient` and its git committer |
| `HostedWorkspace` | the durable object's storage and requests |
| `IdeProject` | `createSchematicsArtifactProjectStore`, its calls open |
| `HostedIde` | composes the two; implements `SharedWorkspace` |
| `SharedWorkspace` | abstract: a reader of a workspace that others change |
| `HostedGit` | `createHostedGitCommitter` with the git store and repository below it |
| `IngestWorkflow` | `defineArtifactWorkflow` and `runArtifactWorkflow` |
| `MC...` | constants, and what one run puts together, for TLC |
| `ConfigEngineProofs` | theorems about `ConfigEngine` |
| `ApplyOrderProofs` | theorems about `ApplyOrder` |
| `DeployProofs` | theorems about `DeployService` |
| `HydratingProofs` | theorems about `RateLimiter` and `HydratingStore` |
| `ArtifactProofs` | theorems about `VersionedStore` and `LocalWorkspace` |
| `HostedProofs` | theorems about `HostedIde` |
| `HostedGitProofs` | theorems about `HostedGit` |
| `IngestProofs` | theorems about `IngestWorkflow` |

### ConfigEngine

`files`, `lock` and `remote` are the three shared stores. Each client runs at
most one operation; `pc` says where it is, and the operation's local variables
(`base`, `entries`, `kindsLeft`, `reads`, `todo`, `loops`, `cur`) are the locals
of the generator in the code. `plan`, `want` and `allow` outlive the operation:
the plan is a value in the caller's hands. Operations are cut at every call on a
provider:

| Action | Code in `engine.ts` |
|---|---|
| `PullStart`, `PullList`, `PullSeed` | read the lockfile; per provider `listSummaries`, slugs, empty files; the seeding lockfile write (189-227) |
| `PullRead`, `PullEnd` | read and write one entity; the final lockfile write (229-261) |
| `PlanStart` | decode every file, validate references, refuse (268-312) |
| `PlanList`, `PlanEnd` | per provider `list` and diff (313-386) |
| `ApplyStart`, `DestroyStart`, `DestroyList`, `DestroyApply` | read the lockfile and order the changes (390-411, 505-533) |
| `ApplySkip`, `ApplyCheck` | the skips and the re-read before an update or a delete (413-449) |
| `ApplyCreate`, `ApplyUpdate`, `ApplyDelete` | the remote call and the entry (450-496) |
| `ApplyEnd` | the one lockfile write of an apply (499) |
| `Fail` | a call fails or the fiber is interrupted, at any step |
| `Edit`, `External...` | users, agents and other clients of the remote |

The order of changes is a guard (`Ready`), not a computation: whenever several
changes may come next the model tries each. `ApplyOrder` shows, and
`ApplyOrderProofs` proves for plans of any length, that the algorithm's result
obeys these rules, so the code's order is among those tried.

What is abstracted, and why it is safe to:

- A decoded document is one of `Vals`; `Refs` gives its references. Hashes are
  equality. `appliedHash` is recorded by the code and never read, so it is left
  out. Codec and schema failures of provider data are a `Fail`.
- Listing a kind and writing its skeleton files is one step; `plan`'s reads of
  the local files are one step. Providers are listed in any order.
- Remote ids are issued in increasing order and shared by all kinds; an entity
  keeps its id when it is updated. Where the id is the entity's own key
  (`provider/src/reconcile.ts:49`) a rename changes it: not modelled.
- `dedupe` renumbers a base slug past the slugs in use. A base that already ends
  in a number is renumbered in place here (`a-2` gives `a-3`, the code gives
  `a-2-2`): both are fresh slugs, which is what the properties see.
- An update whose target vanished after the re-read may recreate it or fail.

### OrderRules and ApplyOrder

`ApplyOrder` runs Kahn's algorithm with its worklist, its indegrees that count
edges, its `seen` set and the append of what no order reaches, once for the
upserts and once, reversed, for the deletes. A change is its address, a number in
input order: `InOrder` lists a set of changes as the code's loops over the input do.
`EdgesInto` numbers the edges into a change, so that its cardinality is the indegree.

### RateLimiter

`limit` wraps a call in a semaphore of one permit and sleeps after a success,
inside the permit. Callers ask, wait, call, sleep; a call may fail and a fiber
may be interrupted at each of these points. Time is a counter, `starts` records
when calls started.

### DeployService

`file` and `secrets` outlive the process, `engines`, `counter` and `runs` do not.
Each fiber carries one request: `pc` says which await it is at, `job` what it
does, `conn` the connection it is about. A connection is an id and the account
behind it. A token and an engine are stood for by the account they belong to.

| Action | Code in `deploy/src` |
|---|---|
| `Connect`, `Issue`, `Probe`, `Put` | connect up to the store's save: `nextConnectionId`, `options.connect`, the token, the engine cache (`deploy-service.ts` 94-101, 197-221) |
| `ReadFile`, `OpenFile`, `FillFile` | save and delete of the file store (`node-connection-store.ts` 26-77) |
| `Delete`, `DropSecret` | `deleteConnection`: record, token, cached engine, in this order (245-250) |
| `Operate`, `Resolve`, `Token`, `Reconnect` | `withRun` up to its engine: `resolveConnection`, `requireDeploy` (103-152) |
| `Finish`, `Failed` | the end of a run (167-190) |
| `Fail`, `Die`, `Interrupt`, `Restart` | any await fails with a typed error; an engine dies of a defect, which `tapError` does not hear (`git-artifacts/src/git-artifact-store.ts:109`); the fiber is interrupted; the process dies and starts again |

What is abstracted:

- What an operation does with its engine (`ConfigEngine`), the event stream, the
  requests that only read.
- `writeFile` truncates the file, then writes it. When two texts were opened
  before either was written, the second write replaces the first whole, or, if
  it is the shorter one, leaves a tail of the first behind it: the file is torn.
  A file that does not parse makes every reader fail. A missing file reads as
  one without records.
- A promise that writes the file goes on when its fiber is interrupted.
- The secret store survives restarts and its calls are atomic. With the memory
  store for connections the file's updates never overlap, and a restart empties
  it: those behaviours are not modelled apart.
- Clients delete and operate on ids they know (`Seen`), or on no id.
- `answered`, `doomed`, `gone`, `known`, `revived` and `clash` are history variables
  for the properties.

### HydratingStore

Every listing and every fetch is a call of `RateLimiter`: the steps `Ask`,
`Acquire`, `Succeed`, `Wake`, `Fail` and `Interrupt` of the limiter are parts of
this module's steps, so a call reads the remote when it is answered and its
caller gets the answer after the sleep.

| Action | Code in `hydrating-store.ts` |
|---|---|
| `SeedBegins`, `SeedAsks`, `SeedHears`, `SeedLists`, `SeedWrites`, `SeedFails` | `seed`: the lockfile's read, each provider's listing, the slugs, the lockfile's write (112-148) |
| `Hydrate`, `Starts`, `Answers`, `Lands`, `FetchFails` | a memo's one fetch, by a read or a sync (84-110, 150-174) |
| `Write`, `Create`, `Delete` | the store's own operations (208-241) |
| `External` | the remote changes |

All entities of a kind suggest the same name, so slugs collide as often as they
can. A content is the id it was read from. `sync` is a seed and then fetches of
what it seeded: since fetches may begin at any time, it needs no steps of its
own. The lockfile is the seed's alone here; the engine also writes it
(`ConfigEngine`), and the two are not composed. A read is `Hydrate` when the file
is not loaded and changes nothing when it is.

### ArtifactChange and VersionedStore

`ArtifactChange` has no state: `Accepts` says which requests a store admits,
`PatchOf`, `ApplyPatch` and `InvertPatch` are `artifacts/src/store.ts`'s patches
with the memory store's create, write and delete below them, `ChangedPaths` is the
workspaces' `changedPathsForChange`. A store is a function from paths to contents,
with `None` where there is no file.

`VersionedStore` has the memory store (`files`), `revisions`, `cursor` and
`revisionSequence`, and `Apply`, `Undo` and `Redo` (228-274). The memory store's
operations run without a wait, so each is one step. `ArtifactHistory` is what is
promised: `versions` and a place in them. `KeepsHistory` is the refinement, with
`at <- cursor + 2`; `versions` is a history variable that no step reads.

### LocalWorkspace

One process, one thread; each file or git operation is awaited. `fiber` holds what
the watcher and each request have reached, with their locals.

| Action | Code in `cli/src/local-artifact-project-client.ts` |
|---|---|
| `Watch`, `RefreshEnds` | the watcher's refresh |
| `Refreshing`, `Read`, `ReadFails`, `Published` | `refresh`: count, list, read one by one, publish (145-163) |
| `Take`, `Decided`, `FirstRefreshEnds` | a request takes the cached snapshot or makes one; refused at once if the files do not admit it |
| `Write`, `Remove`, `WriteFails`, `WrittenRefresh` | `writeFilesystemFiles`, then the refresh (233-247, 672-681) |
| `LastRefreshEnds`, `Stage`, `Unstage`, `Compare`, `Commit`, `CommitFails` | `commitToGit` (111-142) and the git committer (`git-artifacts/src/node.ts` 188-213) |
| `Edit` | the developer |

What is abstracted: loops take paths in one fixed order (`Turn`), where the code
goes by the directory listing or by name; a commit is a new `head`; `event` merges the file events that
were not handled yet (the watcher debounces them); `latestFrom` and `gitFailed` are
history variables. `GitInside` says whether git's own files lie below the watched
directory and so wake the watcher.

### HostedWorkspace, IdeProject, HostedIde

`HostedWorkspace` keeps the durable object's records. A handler waits only for its
own storage, during which the object takes no other request, and writes inside a
storage transaction, which a refused change aborts: so a request is one step.

`IdeProject` is the browser's store. A `flow` is one chain of awaited calls, begun
by the user, by `start` or by an event: a change, then the snapshot, then the
artifact state, then a view of the active file.

| Action | Code in `ide/src/artifact-project-store.ts` |
|---|---|
| `Start`, `Stop`, `Deliver` | start, stop and the watch stream, with the session count that drops late events (452-497) |
| `SetActiveFile`, `UpdateActiveFile`, `SaveActiveFile`, `DiscardActiveDraft`, `AddFile`, `DeleteActiveFile`, `ApplyProjectChange` | the user's operations (498-584, 422-428) |
| `ApplyAnswered`, `ApplyFails`, `Ends` | `applyChange` and what its callers do after it (396-410, 552-583) |
| `SnapshotAnswered`, `SnapshotFails`, `ApplySnapshot` | `refreshSnapshot`, `applySnapshot`, `detectDraftConflicts` (226-250, 384-394, 899-933) |
| `StateAnswered`, `StateFails`, `ViewAnswered`, `ViewFails` | `refreshArtifactState`, `hydrateFile` (274-382) |

`HostedIde` puts the two together: `HandleChange`, `HandleSnapshot` and `HandleView`
are the workspace's side of a call, and the answer is then on its way for any time.
A flow may fail before its call was handled or after it: a request or an answer is
lost. `Others` are the workspace's other clients.

`SharedWorkspace` is the promise: whole revisions, one per accepted change, and a
reader whose snapshots never go back. `SharesRevisions` is the refinement, the reader
being the snapshot the IDE's store holds. What the views show (`Committed`, `Shown`)
is the snapshot with hydrated contents and drafts laid over it, and may mix
revisions: the promise is not about it.

What is abstracted: validation summaries, diagnostics, reflection and previews;
`base`, `text` and `expected` are history variables for the properties. Others
initialize the workspace; the IDE starts on it before or after.

### HostedGit

The page that shows a hosted workspace commits its files to git after each change,
from the browser, with the repository in memory. The deploy operations of the same
page work on a store over that repository and then replace the workspace's files by
the store's. `files` is the workspace, `remote` the branch on the server; `head` and
`index` are the page's repository, `tree` the git store, the rest the committer's and
the page's memory. `request` holds what each request under way has reached.

| Action | Code in `../apps/playground/src/hosted-git.ts` |
|---|---|
| `Mount`, `Edit`, `Connect`, `Deploy`, `GetHistory` | a request begins: the effect of `PlaygroundApp.tsx` 214-240, a change (268-289), the deploy service's calls (313-347), the history (119-141) |
| `EnterInit`, `Clone`, `CloneFails`, `Initialized` | `ensureInitialized` (351-381) |
| `GetSnapshot`, `SameSignature`, `NewSignature`, `Stage`, `Commit`, `Push`, `Committed` | the commit of a snapshot (143-181, 259-267) |
| `Fetch`, `Fetched`, `FetchFails`, `ReadHead`, `Seed`, `Seeded` | `refreshStore` (107-117), `fetch` and the store's `seed` |
| `WriteStore`, `WriteLockfile`, `CommitStore`, `Push` | the operation on the store, `commitStore` (182-197) |
| `ListStore`, `ReadStore`, `SnapshotStore`, `ReplaceFiles` | `snapshotStore` (236-251), `commitAndMirror` (299-311) |
| `Fails`, `AnswerLost`, `Reload`, `OtherChanges`, `OtherPushes` | failures, a reload of the page, others at work |

What is abstracted: a commit knows its tree and the commits before it; a push
succeeds if the branch descends from the remote one. Asking the remote for its branch
and sending to it are one step: that a push is refused because another push of the
page landed in between is among the failures (`Fails`). An operation writes any files
and the lockfile last (`alchemy/src/engine.ts:247` and `:499`, through the store of
`alchemy/src/state.ts:63`), so the store always has
changes when `commitStore` looks; it deletes none. The panel runs one thing at a time
(`ide/src/useSchematicsDeploy.ts:192`). What the git library leaves of two clones at a
time is not known from this code: no property speaks of requests that overlap while
the repository is still cloned (`raced`). `spoilt` is the history variable that says
what came between since the page was loaded.

### IngestWorkflow

`manifest`, `outputs` and `files` are in the artifact store and survive; `run` is
the memory of the run under way. A run is sequential, so what matters is where it
ends: `Stop` is possible between any two store writes.

| Action | Code in `ingest/src/workflow.ts` |
|---|---|
| `Visit`, `Leave`, `Define` | `topoSort`, a step of the walk each, and `defineArtifactWorkflow` (308-332, 631-666) |
| `Start` | the run's head: a manifest that is there is taken over (359-411) |
| `Skip`, `Reuse`, `BeginStep` | the loop's three ways with a step (413-512) |
| `ActionWrites`, `ActionSucceeds`, `Record`, `ActionFails` | the action, its output, the manifest after it (526-606, 860-897) |
| `Finish` | the patch and the final manifest (609-628) |
| `Stop` | killed, or a store operation or a schema fails |

What is abstracted: inputs are opaque, an output is one of two values, the input of
a step is the record of the run's input and the outputs it waits for; `Hash` is a
parameter, since 32 bits may collide. Stored outputs are JSON, and `Skip` and `Reuse`
read them back as the action returned them: for a value that JSON changes (a date, an
`undefined`) a resumed run would hold and hash another one. A step's stored input and diagnostics are
never read back and left out. The walk's recursion is the stack `visiting`: a visit
lies within the visit of the step that waits for it. The code visits siblings in the
order of the definition, the model in any order, so the code's order is among those
of the model.

## The runs

| Run | Question | Bounds |
|---|---|---|
| `EngineSolo` | Is one client right, with files and a remote that change underneath it and failures everywhere? | 2 kinds, 2 slugs, 3 remote ids, 2 contents of which one has a reference (to itself or across kinds), 2 edits, 2 external changes, 3 operations |
| `EngineOverlap` | What still holds when operations overlap? Is an entity ever orphaned? | 2 clients, 1 kind, 3 slugs, 3 ids, 1 edit, 1 external change, 3 operations |
| `EngineTurns` | Do engines with different providers share a lockfile safely, and does every operation end? | 2 clients of one kind each, 2 slugs, 3 ids, 1 edit, 1 external change, 3 operations |
| `ApplyOrder` | Is the sort right? | all graphs of 3 changes, up to 2 edges per pair |
| `DeployRestarts` | Does every operation run on its own account and every connection last, with requests that overlap, fail and die, and a restart? | 2 fibers, 2 accounts, 3 ids, 4 requests, 1 restart |
| `DeployReissued` | Does an operation always run on the account its record names? (violated) | the same with 2 ids |
| `HydratedFiles` | Do local edits stay and contents keep to their own files, with fetches under the limiter? Are successes spaced? | 2 fetching callers, 1 seeding, 2 entities of one kind and name, 2 seeds, 1 change of the remote, 1 edit, 4 calls, interval 1, 3 ticks |
| `LocalFiles` | Do revisions order snapshots, is the snapshot the disk at rest, is what is staged committed? Are undo and redo right? | 2 requests (a write, a rename) at a time, 2 paths of which one is secret, 2 contents, 1 edit beside at most 1 request under way; the store: all requests, 3 revisions |
| `HostedIde` | Are the snapshots the IDE holds whole revisions in order, does it see conflicts and keep what was typed? | 2 files, 3 contents, 2 flows at a time, 3 in all, 1 edit typed, 2 changes of the workspace |
| `IngestRuns` | Is the order legal, and is a completed run of one piece wherever earlier ones ended? | all graphs of 3 steps defined, one run; 3 runs, 2 inputs, 2 outputs, 2 different edits, 1 per action |
| `HostedGit` | Does the remote branch mirror the workspace at rest, and is all that was staged pushed? | 2 requests at a time, 2 paths, 2 changes of files, 3 commits, 1 reload |
| `HostedGitMirror` | Do workspace and git store agree after an operation, when requests overlap? (violated) | 2 requests at a time, 2 paths, 2 contents, 1 change, 2 commits, no reload, nobody else |

Three operations are enough for pull, plan, apply and for plan, apply, apply
again; two edits make a file and a file that refers to it; two external changes
create an entity and change or remove it. Three ids hold an original, its
duplicate and a stranger. Two slugs of one name are the smallest collision, and
`EngineOverlap` has a third so that two clients may collide.

Four requests in two fibers and one restart are what it takes to connect,
restart, delete, connect again under an old id and operate meanwhile. Three ids
leave room for the records a new counter has to skip. Fibers and accounts are
interchangeable, and no property singles one out, so both are symmetry sets.

A seed, a change of the remote and a second seed are what it takes to give a slug
twice; two listings and two fetches are the calls for it, and three ticks space
them. Two fetching callers let one fetch be under way while another file is edited.
The callers that fetch are interchangeable and so are requests and flows: they are
symmetry sets.

In `LocalFiles` two requests and the watcher refresh, write and commit at the same
time. The developer's one edit happens beside at most one request (`EditsBeside`):
with two the interleavings of three writers outgrow a run. It removes or
rewrites the served file, or makes or removes the secret one (`Edits`). The repository lies above
the served directory (`GitInside` is false), so commits do not wake the watcher; writes
do, and its refresh may come at any time after them. The theorems have neither bound. A rename is there because it changes two paths, one of them secret. The
store's half of the run is independent of it; its requests are all writes,
creations, deletions, renames and replacements over two paths.

In `HostedIde` three flows are a start, an own change and a refresh that overtakes
it, and two changes of the workspace let an own and a foreign one meet one draft.
`IngestRuns` runs three times to break off twice and complete; every graph of three
steps, cycles included, goes through the walk, and the one where each waits for the
one before goes through the runner (`Runnable`). The actions' edits are to one file and
differ in content, so it matters which comes last. Inputs, outputs and those contents
are symmetry sets: the code compares them and hashes them, and nothing else.

In `HostedGit` one content is enough: files come and go. Two changes and three commits
make two edits that overlap after the first commit, or a deploy operation and an edit
that takes back what it did. Where the invariants say nothing before the next reload
the page is followed for less long (`Followed`, a constraint that names the bounds):
one change, two commits and one kind of trouble from outside are enough to leave
remote, files and memory at odds, and the reload is what has to heal them.

What the properties say:

- `OneIdPerSlug`: no slug of a kind is bound to two ids, ever, overlapping
  operations and stale plans included. `OneSlugPerId`: the converse, for a single
  client. Several clients can break it with stale plans; nothing promises it.
- `ApplyConverges`: after an apply that nobody interfered with since its plan,
  each wanted file is live under the id in the lockfile, and with `allowDelete`
  nothing the lockfile owns besides. `calm` is the ghost that records
  interference.
- `PullMirrors`: after a pull nobody interfered with, every live entity has an
  entry and its content in the file.
- `NothingOrphaned`: however far an apply of a fresh plan that nobody interfered with
  has come, the lockfile it builds still names every live entity that the one on disk
  owns; so a create takes no slug of a live entity and nothing drops the entry of one.
- `RefsResolved`: when an entity is created or updated, everything it refers to
  has an id already, and a live one if the plan wants it.
- `OthersKept`: entries of kinds without a provider are carried through.
- `OperationsEnd`: every operation ends; `EachChangeOnce`, `OrderIsLegal` and
  `SortEnds` say the same of the sort.
- `SpacedAfterSuccess`: the limiter.
- `EditsStay`: an edited file keeps its edit until it is seeded again, unless a
  fetch of it was under way when it was edited; a creation also leaves a fetch that
  is still to come (see below). `ContentIsOwn`: with no seed under way, a fetched
  content is that of the entity the lockfile binds to the file, unless seeds
  overlapped or failed half way.
- `CanStep`: no undo or redo fails; `KeepsHistory`: the versioned store implements
  the history of whole contents.
- `RevisionsNeverGoBack`: the snapshots a subscriber of the local workspace gets are
  in order. `RestIsCurrent`: at rest the cached snapshot is the disk, unless a
  refresh that began earlier ended after the last one. `StagedIsCommitted` and
  `SecretsStay`: what is staged is committed once no request is under way, and
  secrets are neither.
- `RecordsNameChanges`: a change record names what its revision changed.
  `SharesRevisions`: every accepted change makes one revision, and the snapshot the IDE
  holds is a whole one, never older than the one before it.
  `ReadsOwnChanges`: nor older than an own change it has read back.
  `ConflictsSeen`: a draft whose file was changed under it is marked.
  `TypedIsKept`: what was typed is the draft or in a revision, whatever is lost,
  unless it was typed while a save of the file was under way.
- `LegalOrder`, `OutputsMatch`, `OfOnePiece`, `EditsAccounted`: the order is legal or
  the definition refused exactly for a cycle; what is recorded as done has its
  output; a completed run used its own input and the outputs now stored; the edits of
  the actions it ran are in its patch or in the files.
- `MirrorCurrent`: a page at rest whose requests did not overlap, with no failure and
  nobody else at work since it was loaded, leaves exactly the workspace's files in the
  remote branch, whatever state an earlier page left. `StagedIsPushed`: with requests
  that overlap, all that was staged is committed and pushed, unless a refresh of the
  store was among them.
- `RunsOwnAccount`: an operation on a connection that nobody asked to delete runs
  on that connection's account, and `ListedCanReconnect`: each such connection
  on file has its own token. Both hold across restarts that count ids from 0
  again, and through torn files and lost updates.
- `AnsweredKept`: a connection that `connect` answered with stays on file until
  somebody asks to delete it, updates of the file that overlap aside (`clash`).
- `DeletedUnused`: a request that starts after `deleteConnection` answered never runs
  on that connection until `connect` takes its id anew, in the process that deleted it
  and in later ones, even if a save that overlapped the deletion put its record back.
  Excepted is a connection that another operation was connecting when it was dropped:
  that operation caches its engine afterwards (150), and the next ones run on it. The
  ghost `revived` records that it happened; in a process that was never restarted it
  cannot.

`TypeOK` is a model's type invariant, with what a request or a run must know by the
place it is at.

Fairness: `EngineTurns` assumes weak fairness of each client's operation steps:
the Effect runtime keeps scheduling a runnable fiber, and the promise behind a
provider call settles. Operations are not assumed to start, to succeed or to be
left alone. `ApplyOrder` is a loop without waits, so weak fairness of its next
step is all it needs. The other runs check safety only.

Deadlock checking is off where the bounds let the model stop.

### Divergences

- The architecture ends a hosted deploy operation with "DO snapshot matches committed
  git store" (`../docs/architecture-deployment-modes.md:305`). The operation commits the
  git index, and then makes the workspace's files those of the git store. A refresh
  that seeds the store while a commit of the page is staged and not yet made leaves
  the two different: the commit has the user's files, the store does not, and the
  workspace loses them. `HostedGitMirror` shows it with no failure and nobody else at
  work. A history that is read while an operation is about to list its store, which
  the history's own seed has just emptied, does the same. `MirrorCurrent` is what
  remains true.

- The deploy plan promises a UI that sees "connected as <account>"
  (`../docs/plan-config-deploy-ui.md:129`). `requireDeploy` looks up a record, awaits
  the token and never looks again, while a counter that restarted may issue the
  id of a deleted connection anew: the operation then runs on another account
  than its record names. `DeployReissued` shows it; `RunsOwnAccount` is what
  remains true.

Smaller ones, met while modelling and without a run: a test states that a plan right
after a pull is all no-op (`alchemy/test/config-deploy.test.ts:147`), but `pull` leaves
the file of an entity that vanished on the remote, and the next plan creates it again;
the limiter's comments promise spacing between consecutive calls
(`alchemy/src/rate-limiter.ts:8` and `:23`), but after a failed call the next starts at
once, and `SpacedAfterSuccess` is what remains true; `options.connect` is said to
come after the token was persisted (`deploy-service.ts:51`) and comes before it
(207); `withRun` is to publish an end of every run (153) and publishes none of a run
that is interrupted or dies of a defect, which stays "running" (180-192); saves that overlap
lose records and may tear the file, after which every request fails.

In the workspaces: `../docs/architecture-deployment-modes.md:59` says that in a git
repository "every change is committed", but a replacement does not name the files it
drops, so their deletion stays uncommitted (`cli/src/local-artifact-project-client.ts:118`).
A local change overwrites edits of the disk that the cached snapshot has not seen
(235). A refresh that is overtaken leaves a stale snapshot until the next event. The
hosted `applyChange` reads its validation summary after its transaction
(`cloudflare/src/workspace-object.ts:282`).

In the IDE (`ide/src/artifact-project-store.ts`): a save drops what was typed while
it was under way (552); a draft whose file vanished and came back with other content
is not marked; a hydrated content hides that of a newer snapshot until it is read
again.

In the ingest runner (`ingest/src/workflow.ts`): a step that was skipped in one run is
run again by the next, since "skipped" is not "completed" (425); the edits of skipped
steps are missing from a proposed patch, so a run resumed after a kill proposes less
than was done; a resumed manifest keeps the first run's input hash and write mode; a
refused input or output leaves the manifest "running"; a run from a chosen step takes
stored outputs unchecked.

In the hydrating store: a creation leaves the memo, so a running sync overwrites the
created file (222), and a second seed gives every file a new memo, so its sync
overwrites local edits (132). Seeds that overlap, or one that fails after it seeded
some providers, leave files that disagree with the lockfile.

## The proofs

The theorems hold for every value of the constants that meets the assumptions of
their module, which TLC evaluates in each run. `ConstantsOK` types the constants of
`ConfigEngine` and of `DeployService`; elsewhere `None`, `Nothing` and the like are kept
apart from data (`NoneAssumption`, `NoPatchAssumption`, `NothingAssumption`), sets of
requests and paths are put in their place and bounds are in `Nat`. Every invariant and
every action property of the passing runs has a theorem; so have the three
refinements (`KeepsHistory`, `SharesRevisions`, and the limiter below the hydrating
store).

### The engine (`ConfigEngineProofs`)

- `TypeCorrect`: `Spec => []TypeOK`. `TypeOK` is inductive: it has `plan`, `todo` and
  `cur` hold changes whose id and contents fit their action, which is what the remote
  calls need to leave the remote well typed.
- `LockfileIdentity`: `Spec => []OneIdPerSlug`. The lockfile is only ever replaced by
  what an operation built from the lockfile it once read, so `SlugInv` says the same of
  every operation's copies, and that a pull lists each kind into a copy that has no
  entry of that kind yet. `AssignedApart` is the key lemma: a listing never gives two
  entities one slug.
- `AppliesOrphanNothing`: `Spec => []NothingOrphaned`, for any number of clients and
  without `OneSlugPerId`. `OwnInv` says where the entry of an owned entity is at each
  point of plan and apply: the changes left claim addresses, each once (`Claims`), and
  whoever holds an address that is claimed for a create is not alive (`Rightful`), so
  no change takes away the entry of a live entity (`RightfulShrinks`).
- `ForeignKindsKept`: `OthersKept` if operations do not overlap. `CarryInv` says that a
  single operation runs at a time, that its copy agrees with the lockfile on foreign
  kinds while it builds it, and that the change it is about to write is of a kind of
  its own. Without the assumption it is false: a slow apply writes back foreign entries
  that another engine has changed.
- `PullsMirror`: `Spec => []PullMirrors`. `Mirroring` says what a pull has at each point
  of its way, as long as it is left alone: an entry for each live entity of the kinds it
  has listed, then the content of those it has read.
- `OneClientOneSlug`: `OneSlugPerId` for a single client. A plan is a value that may be
  applied late and twice, so the invariant `Sole` is about plans: what a plan updates or
  deletes is no longer alive, or is still where the plan found it, in the lockfile and in
  every copy that will replace it (`Fits`). That needs ids that are never issued again
  and never change their kind (`IdKinds`). With several clients it is false.
- `AppliesConverge`: `Spec /\ []OneSlugPerId => []ApplyConverges`. `Aim` says that while
  nobody interferes the changes left are what separates lockfile and remote from the
  working tree the plan was made of, address by address: an address has a change left
  that is in force, or is settled. Listings let it grow (`AimGrows`), writes let it
  shrink (`AimShrinks`). Two slugs for one id would let one change undo another, hence
  the hypothesis; `OneClientConverges` discharges it for a single client.
- `ReferencesResolve`: `Spec /\ []OneSlugPerId => []RefsResolved`, and
  `OneClientResolves`. A plan is refused if its working tree refers to nothing
  (`RefsIn`), the order of changes lets no change run before those it refers to, and
  only deletes, which come last, remove entries.

### The sort (`ApplyOrderProofs`)

- `ChangesComeOnce`: `Spec => []EachChangeOnce`. `Sorting` is the loop's invariant: an
  indegree is the number of edges from members not yet seen, and `ready` has exactly the
  members without such edges that are not seen. `EdgesLess` is the counting: taking a
  member away takes away as many edges as the code decrements.
- `OrderAlwaysLegal`: `Spec => []OrderIsLegal`. `Kahn` says of a sorted half that a head
  of it is settled, each after what it depends on, and that each of the tail waits for
  one of the tail; so the tail is what reaches a cycle and nothing else (`CycleIsTail`),
  which is where `OrderRules` allows a change before its dependency.

### The deploy service (`DeployProofs`)

- `TypeCorrect`: `TypeOK`. `RequestsOK` says where each kind of request may be and what
  it knows by then.
- `OwnAccount` and `CanReconnect`: `RunsOwnAccount` and `ListedCanReconnect`. An id is
  safe to issue if no record with it is left anywhere: on file, in a text about to be
  written, in the hands of an operation. `Issue` looks at the file only, and the file may
  be put back by a late save. So the inductive invariant `ConnInv` says that issued ids
  are apart (`IdsApart`) and fresh until their token is stored (`IdsFresh`), and that all
  who have read the file since the process started agree on the ids its counter has not
  come to yet (`ViewsAgree`), ids that somebody asked to delete aside.
- `AnswersLast`: `Spec => []AnsweredKept`. `InTurn`: as long as no updates overlap a
  writer is alone, and what it has read and is about to write has every connection that
  was answered.
- `DeletedStayUnused`: `Spec => []DeletedUnused`, of every process. `DroppedInv`: a
  deleted id has no token, so nobody begins to connect it again, and no engine unless
  somebody had begun already. `FirstProcess`, for the process that was not restarted:
  it has an engine for each token it stored, so nobody connects at all, and the ids
  anybody can come upon are below its counter.

### Limiter and hydrating store (`HydratingProofs`)

- `LimiterSpaces`: `Spec => []SpacedAfterSuccess`. `LimiterInv`: the one permit is free
  or held by one caller, and a sleeper wakes an interval after the last start.
- `StoreIsLimited`: each step of the store is a step of the limiter or leaves it alone,
  so `StoreSpaces` holds of the store too.
- `LocalEditsStay` and `FilesHoldTheirOwn`: `EditsStay` and `ContentIsOwn`, from
  `StoreInv`: an edited file that is settled has no fetch and no memo (`NothingComes`);
  with seeds apart, lockfile and the seed under way bind a file to one id and what is in
  hand for a file is of the id it is bound to (`Owning`).

### Workspaces (`ArtifactProofs`, `HostedProofs`)

- `StepsAreOpen` and `StoreKeepsHistory`: the invariant `Chain` says that each
  revision's patch leads from its version to the next and its inverse back, with no
  operation that can fail, and that the store is at the cursor's version. Every step
  then is one of `ArtifactHistory`, or a stutter. `StoreTypes` is its type invariant.
- `LocalTypes`, `RevisionsGoForward`, `RestShowsDisk`, `StagedGetsCommitted`,
  `SecretsAlwaysStay`, all from one invariant of three parts. `FibersInv`: what a fiber
  holds at each step, and that without an event the refresh that began last has read the
  disk as it is, as far as it has got. `CacheInv`: the same of the cached snapshot it
  makes. `GitInv`: a path staged and not committed is owned by a request that still has
  its commit before it (`Owns`); the commit of any other may take it along, which is why
  the shared index does no harm.
- `RecordsAlwaysName`, `ConflictsAlwaysSeen`, `OwnChangesStay` and the refinement
  `ReaderSeesRevisions`. `WorkspaceInv`: the stored files are the newest version and
  records are right. `FlowInv`: an answer on its way is a revision there was, and a
  snapshot asked for after an own change is not older than it. `HeldInv`: the same of
  what the IDE holds. `DraftInv`: `ConflictsSeen`, with what it needs of drafts, their
  bases and the snapshot.
- `TypedTextIsKept`: `Spec => []TypedIsKept`. `Holds`: a save under way writes what was
  typed last, unless that is in a revision already or nothing waits to be kept.

### The hosted page (`HostedGitProofs`)

- `StagedGetsPushed` and `MirrorIsCurrent`: `StagedIsPushed` and `MirrorCurrent`, from
  `GitInv`. `PushInv`: with no failure and nobody else at work, the index differs from the
  head and the head from the remote only while a request has its commit or its push
  before it. `MirrorInv`: what a request that is alone has got to,
  by its place (`CommitsFiles`, `RefreshesStore`), and what the committer remembers when
  none runs (`Remembered`). `FirstRequest`: the first request after a load makes the
  repository what the remote is, which is how a reload heals what an earlier page left.

### The ingest runner (`IngestProofs`)

- `OrderAlwaysLegal`: `Spec => []LegalOrder`, for every graph. `Walked`: what was visited
  is in order (`Ordered`), and the visits under way are a path along which each step
  waits for the next (`Path`). A step met again on the path closes a circle
  (`PathCloses`); an order excludes one, since its step of least position would wait for
  a step before it (`OrderedHasNoCircle`).
- `OutputsAlwaysMatch` and `RunsAreOfOnePiece`: `OutputsMatch` and `OfOnePiece`. The
  invariant `Piece` says that the steps behind a run's position were done with its input
  and the outputs it has seen.
- `NoEditIsLost`: `Spec => []EditsAccounted`. The writes of a run's steps are joined in
  order, which is recursive; `Tells` tells the joined sequence position by position, and
  `Telling` says that the run's edits are what was told up to the step it is at.
- `TypeCorrect`: `Spec => []TypeOK`.

### What is only model-checked

- `OperationsEnd` and `SortEnds`: liveness under fairness, which needs `ENABLED`.
- `OneSlugPerId` beyond a single client is neither proved nor checked: stale plans of
  several clients break it.

Where an argument is by induction it takes the least of a set of numbers (`LeastNat`,
from the well-foundedness of `<`), and what the code computes by recursion is a stack
(`IngestWorkflow`), a loop's steps or a choice of the sequence with the properties it
has (`ApplyOrder`).

## Not modelled

- Drafts of a hosted page (`forkDraft`, `mergeDraft`), the change of branch that makes a
  new committer, and how the git library writes its files.
- `ide/src/useSchematicsDeploy.ts`: a view's memory of the last plan. What an engine
  does with a plan of another is in `EngineOverlap`.
- The in-memory workspace (`ide/src/artifact-project-client.ts`): the changes of
  `ArtifactChange` on one store, without a second actor.
- Identity-keyed transports (`provider/src/reconcile.ts:49`), where a rename changes an
  id under the lockfile: ids are stable in `ConfigEngine`.
- Parsing, validation, reflection, rendering, the language services, wire schemas,
  views, command lines, the agent's toolkits, the apps' shells, `../examples`,
  `../alchemy` (the deployment's resources), `../scripts` and RPC plumbing: pure
  functions, data, libraries or I/O, whose correctness is not a matter of order. They are most of the
  repository's lines.

## Plan

1. `HydratingStore` and `ConfigEngine` over one lockfile.
2. Identity-keyed transports as a second remote for `ConfigEngine`.
3. The local workspace under the IDE's store, as `HostedIde` does it with the hosted
   one, and the refinement from one to the other proved as in `HostedProofs`.
4. How a plan's caller must behave for several clients to keep `OneSlugPerId`, and
   `AppliesConverge` from that.
