---------------------------- MODULE DeployService ----------------------------
(***************************************************************************)
(* The deploy service (packages/deploy/src/deploy-service.ts) over the     *)
(* connection store kept in a file (node-connection-store.ts): connections *)
(* come and go, engines are cached per connection, operations are tracked  *)
(* as runs, and the process restarts.                                      *)
(*                                                                         *)
(* A request is cut at its awaits.  Reading the file, opening it (which    *)
(* truncates it) and filling it are separate calls of node:fs.  An engine  *)
(* and a token are stood for by the account they belong to; what an        *)
(* operation does with its engine is ConfigEngine's subject.               *)
(***************************************************************************)
EXTENDS Integers, Sequences, FiniteSets

CONSTANTS
  Fibers,        \* requests in flight at a time
  Accounts,      \* accounts whose tokens clients connect with
  NoAccount,
  MaxIds,        \* bound on connection ids
  MaxRequests,   \* bound on the requests that start
  MaxRestarts    \* bound on the restarts of the process

Ids    == 1..MaxIds
AnyId  == 0      \* a request without connectionId
Record == [id : Ids, account : Accounts]
File   == [form : {"whole"}, records : SUBSET Record]
     \cup [form : {"empty", "torn"}, records : {{}}]
Status == {"running", "succeeded", "failed", "aborted"}
Phase  == {"idle", "list", "probe", "put", "read", "open", "fill", "secret",
           "resolve", "token", "reconnect", "running"}
Operating == {"resolve", "token", "reconnect", "running"}

ASSUME ConstantsOK ==
  /\ MaxIds \in Nat /\ MaxRequests \in Nat /\ MaxRestarts \in Nat
  /\ NoAccount \notin Accounts

VARIABLES
  file,       \* connections.json: whole, empty (opened to be written), or torn
  secrets,    \* the secret store: id -> whose token, or NoAccount
  engines,    \* deploys: id -> whose engine, or NoAccount
  counter,    \* connectionCounter
  runs,       \* the status of run-1, run-2, ...
  pc,         \* where each fiber's request is
  job,        \* connect, delete, operation, or a write left without its fiber
  conn,       \* the connection a request is about
  text,       \* what a request is about to write to the file
  using,      \* whose engine an operation runs
  run,        \* the number of an operation's run
  requests, restarts   \* so far (bounds)

\* Ghosts, read by properties only.
VARIABLES
  answered,   \* the connections that connect answered with
  doomed,     \* ids that somebody asked to delete
  gone,       \* ids whose deletion was answered, and not connected under again since
  known,      \* those of gone that were so when a fiber's request began
  revived,    \* those of gone that an operation was connecting when they were dropped
  clash       \* two updates of the file overlapped, or one was cut short

disk    == <<file, secrets>>
memory  == <<engines, counter, runs>>
request == <<pc, job, conn, text, using, run>>
bounds  == <<requests, restarts>>
ghosts  == <<answered, doomed, gone, known, revived, clash>>
vars    == <<disk, memory, request, bounds, ghosts>>

-----------------------------------------------------------------------------
(* readConnections: a file that does not parse is an error, so only a Fail   *)
(* is left to the reader.                                                    *)
Readable == file.form = "whole"

Contents(form, records) == [form |-> form, records |-> records]

Goto(f, phase) == pc' = [pc EXCEPT ![f] = phase]

Nothing == [id |-> AnyId, account |-> NoAccount]

(* The request's variables go with its fiber. *)
Leave(f) ==
  /\ Goto(f, "idle")
  /\ job' = [job EXCEPT ![f] = "none"] /\ conn' = [conn EXCEPT ![f] = Nothing]
  /\ text' = [text EXCEPT ![f] = {}] /\ using' = [using EXCEPT ![f] = NoAccount]
  /\ run' = [run EXCEPT ![f] = 0] /\ known' = [known EXCEPT ![f] = {}]

Accept(f, kind, about, phase) ==
  /\ pc[f] = "idle" /\ requests < MaxRequests
  /\ requests' = requests + 1
  /\ Goto(f, phase)
  /\ job' = [job EXCEPT ![f] = kind]
  /\ conn' = [conn EXCEPT ![f] = about]
  /\ known' = [known EXCEPT ![f] = gone]

-----------------------------------------------------------------------------
(* connect *)

Connect(f, account) ==
  /\ Accept(f, "connect", [id |-> AnyId, account |-> account], "list")
  /\ UNCHANGED <<disk, memory, text, using, run, restarts, answered, doomed, gone,
                 revived, clash>>

(* Mutant of IsNextId: the counter alone, whatever records there are.        *)
IsNextNumber(id, taken) == id = counter + 1

(* nextConnectionId: count on, past the ids of existing records.             *)
IsNextId(id, taken) ==
  id > counter /\ id \notin taken /\ (counter + 1)..(id - 1) \subseteq taken

Issue(f) ==
  /\ pc[f] = "list" /\ Readable
  /\ \E id \in Ids :
       /\ IsNextId(id, {r.id : r \in file.records})
       /\ counter' = id
       /\ conn' = [conn EXCEPT ![f].id = id]
  /\ Goto(f, "probe")
  /\ UNCHANGED <<disk, engines, runs, job, text, using, run, bounds, ghosts>>

(* options.connect builds the engine and asks the remote for its account.    *)
Probe(f) ==
  /\ pc[f] = "probe"
  /\ Goto(f, "put")
  /\ UNCHANGED <<disk, memory, job, conn, text, using, run, bounds, ghosts>>

(* From here on the id names a connection again. *)
Reused(id) ==
  /\ gone' = gone \ {id} /\ revived' = revived \ {id}
  /\ known' = [g \in Fibers |-> known[g] \ {id}]

(* Mutant of Put: a token that is stored already is not replaced.            *)
PutUnlessStored(f) ==
  /\ pc[f] = "put"
  /\ secrets' = [secrets EXCEPT ![conn[f].id] = IF @ = NoAccount THEN conn[f].account ELSE @]
  /\ engines' = [engines EXCEPT ![conn[f].id] = conn[f].account]
  /\ Goto(f, "read")
  /\ Reused(conn[f].id)
  /\ UNCHANGED <<file, counter, runs, job, conn, text, using, run, bounds, answered,
                 doomed, clash>>

(* secrets.put, then deploys.set; connectionStore.save comes next.           *)
Put(f) ==
  /\ pc[f] = "put"
  /\ secrets' = [secrets EXCEPT ![conn[f].id] = conn[f].account]
  /\ engines' = [engines EXCEPT ![conn[f].id] = conn[f].account]
  /\ Goto(f, "read")
  /\ Reused(conn[f].id)
  /\ UNCHANGED <<file, counter, runs, job, conn, text, using, run, bounds, answered,
                 doomed, clash>>

-----------------------------------------------------------------------------
(* save and delete of the store: read, change, write *)

(* Mutant of Changed: save forgets the other connections.                    *)
ChangedAlone(f, records) ==
  IF job[f] = "connect" THEN {conn[f]} ELSE {r \in records : r.id # conn[f].id}

(* Mutant of Changed: delete goes the way of save.                           *)
ChangedAlways(f, records) == {r \in records : r.id # conn[f].id} \cup {conn[f]}

Changed(f, records) ==
  {r \in records : r.id # conn[f].id} \cup (IF job[f] = "connect" THEN {conn[f]} ELSE {})

ReadFile(f) ==
  /\ pc[f] = "read" /\ Readable
  /\ text' = [text EXCEPT ![f] = Changed(f, file.records)]
  /\ Goto(f, "open")
  /\ UNCHANGED <<disk, memory, job, conn, using, run, bounds, ghosts>>

OpenFile(f) ==
  /\ pc[f] = "open"
  /\ file' = Contents("empty", {})
  /\ Goto(f, "fill")
  /\ clash' = (clash \/ \E g \in Fibers \ {f} : pc[g] \in {"open", "fill"})
  /\ UNCHANGED <<secrets, memory, job, conn, text, using, run, bounds, answered, doomed,
                 gone, known, revived>>

(* Over another text written since open, a shorter one leaves a tail of it.  *)
FillFile(f) ==
  /\ pc[f] = "fill"
  /\ \/ /\ Readable => Cardinality(text[f]) >= Cardinality(file.records)
        /\ file' = Contents("whole", text[f])
     \/ /\ Readable => Cardinality(text[f]) <= Cardinality(file.records)
        /\ file.form # "empty"
        /\ file' = Contents("torn", {})
  /\ answered' = IF job[f] = "connect" THEN answered \cup {conn[f]} ELSE answered
  /\ IF job[f] = "delete"
     THEN Goto(f, "secret") /\ UNCHANGED <<job, conn, text, using, run, known>>
     ELSE Leave(f)
  /\ UNCHANGED <<secrets, memory, bounds, doomed, gone, revived, clash>>

-----------------------------------------------------------------------------
(* deleteConnection: the record, then the secret, then the engine *)

Delete(f, id) ==
  /\ Accept(f, "delete", [id |-> id, account |-> NoAccount], "read")
  /\ doomed' = doomed \cup {id}
  /\ UNCHANGED <<disk, memory, text, using, run, restarts, answered, gone,
                 revived, clash>>

Dropped(id) ==
  /\ gone' = gone \cup {id}
  /\ revived' = IF \E g \in Fibers : pc[g] = "reconnect" /\ conn[g].id = id
                THEN revived \cup {id} ELSE revived

(* Mutant of DropSecret: the cached engine stays.                            *)
DropSecretOnly(f) ==
  /\ pc[f] = "secret"
  /\ secrets' = [secrets EXCEPT ![conn[f].id] = NoAccount]
  /\ Dropped(conn[f].id)
  /\ Leave(f)
  /\ UNCHANGED <<file, memory, bounds, answered, doomed, clash>>

DropSecret(f) ==
  /\ pc[f] = "secret"
  /\ secrets' = [secrets EXCEPT ![conn[f].id] = NoAccount]
  /\ engines' = [engines EXCEPT ![conn[f].id] = NoAccount]
  /\ Dropped(conn[f].id)
  /\ Leave(f)
  /\ UNCHANGED <<file, counter, runs, bounds, answered, doomed, clash>>

-----------------------------------------------------------------------------
(* pull, plan, apply and destroy: withRun around requireDeploy and an engine *)

Operate(f, id) ==
  /\ Accept(f, "operation", [id |-> id, account |-> NoAccount], "resolve")
  /\ runs' = Append(runs, "running")
  /\ run' = [run EXCEPT ![f] = Len(runs) + 1]
  /\ UNCHANGED <<disk, engines, counter, text, using, restarts, answered, doomed,
                 gone, revived, clash>>

(* resolveConnection: the record asked for, or the only one there is.        *)
Resolves(f, r) ==
  /\ r \in file.records
  /\ IF conn[f].id = AnyId THEN file.records = {r} ELSE conn[f].id = r.id

(* The cached engine of the connection, or the token to make one.            *)
Resolve(f, r) ==
  /\ pc[f] = "resolve" /\ Resolves(f, r)
  /\ conn' = [conn EXCEPT ![f] = r]
  /\ IF engines[r.id] # NoAccount
     THEN Goto(f, "running") /\ using' = [using EXCEPT ![f] = engines[r.id]]
     ELSE Goto(f, "token") /\ UNCHANGED using
  /\ UNCHANGED <<disk, memory, job, text, run, bounds, ghosts>>

(* Without a stored token only a Fail is left.                               *)
Token(f) ==
  /\ pc[f] = "token" /\ secrets[conn[f].id] # NoAccount
  /\ using' = [using EXCEPT ![f] = secrets[conn[f].id]]
  /\ Goto(f, "reconnect")
  /\ UNCHANGED <<disk, memory, job, conn, text, run, bounds, ghosts>>

(* options.connect again, and deploys.set.                                   *)
Reconnect(f) ==
  /\ pc[f] = "reconnect"
  /\ engines' = [engines EXCEPT ![conn[f].id] = using[f]]
  /\ Goto(f, "running")
  /\ UNCHANGED <<disk, counter, runs, job, conn, text, using, run, bounds, ghosts>>

Finish(f, status) ==
  /\ pc[f] = "running"
  /\ runs' = [runs EXCEPT ![run[f]] = status]
  /\ Leave(f)
  /\ UNCHANGED <<disk, engines, counter, bounds, answered, doomed, gone, revived, clash>>

-----------------------------------------------------------------------------
(* Failures *)

Failed(f) == runs' = IF job[f] = "operation" THEN [runs EXCEPT ![run[f]] = "failed"] ELSE runs

(* Whatever a request waits for fails with a typed error, and so does the    *)
(* request.                                                                  *)
Fail(f) ==
  /\ pc[f] # "idle"
  /\ Failed(f)
  /\ Leave(f)
  /\ clash' = (clash \/ pc[f] = "fill")
  /\ UNCHANGED <<disk, engines, counter, bounds, answered, doomed, gone, revived>>

(* An engine dies of a defect, as the stores over git and over a directory   *)
(* do when a read fails (orDie): tapError hears of errors only, and the run  *)
(* stays "running".                                                          *)
Die(f) ==
  /\ pc[f] \in {"reconnect", "running"}
  /\ Leave(f)
  /\ UNCHANGED <<disk, memory, bounds, answered, doomed, gone, revived, clash>>

(* The caller goes away and the fiber is interrupted: neither tap nor        *)
(* tapError of withRun runs, and a promise that writes the file goes on.     *)
Interrupt(f) ==
  /\ pc[f] # "idle" /\ job[f] # "detached"
  /\ IF pc[f] \in {"open", "fill"}
     THEN job' = [job EXCEPT ![f] = "detached"] /\ UNCHANGED <<pc, conn, text, using, run, known>>
     ELSE Leave(f)
  /\ UNCHANGED <<disk, memory, bounds, answered, doomed, gone, revived, clash>>

(* The process dies and starts again: what it held in memory is gone.        *)
Restart ==
  /\ restarts < MaxRestarts
  /\ restarts' = restarts + 1
  /\ pc' = [f \in Fibers |-> "idle"] /\ job' = [f \in Fibers |-> "none"]
  /\ conn' = [f \in Fibers |-> Nothing] /\ text' = [f \in Fibers |-> {}]
  /\ using' = [f \in Fibers |-> NoAccount] /\ run' = [f \in Fibers |-> 0]
  /\ engines' = [i \in Ids |-> NoAccount] /\ counter' = 0 /\ runs' = <<>>
  /\ known' = [f \in Fibers |-> {}] /\ revived' = {}
  /\ clash' = (clash \/ \E f \in Fibers : pc[f] = "fill")
  /\ UNCHANGED <<disk, requests, answered, doomed, gone>>

-----------------------------------------------------------------------------
Init ==
  /\ file = Contents("whole", {}) /\ secrets = [i \in Ids |-> NoAccount]
  /\ engines = [i \in Ids |-> NoAccount] /\ counter = 0 /\ runs = <<>>
  /\ pc = [f \in Fibers |-> "idle"]
  /\ job = [f \in Fibers |-> "none"]
  /\ conn = [f \in Fibers |-> Nothing]
  /\ text = [f \in Fibers |-> {}]
  /\ using = [f \in Fibers |-> NoAccount]
  /\ run = [f \in Fibers |-> 0]
  /\ requests = 0 /\ restarts = 0
  /\ answered = {} /\ doomed = {} /\ gone = {} /\ known = [f \in Fibers |-> {}]
  /\ revived = {} /\ clash = FALSE

(* Clients know ids from connect's answers and from listConnections.         *)
Seen == {r.id : r \in answered \cup file.records}

Request(f) ==
  \/ \E a \in Accounts : Connect(f, a)
  \/ \E i \in Seen : Delete(f, i)
  \/ \E i \in Seen \cup {AnyId} : Operate(f, i)

Step(f) ==
  \/ Issue(f) \/ Probe(f) \/ Put(f)
  \/ ReadFile(f) \/ OpenFile(f) \/ FillFile(f) \/ DropSecret(f)
  \/ \E r \in Record : Resolve(f, r)
  \/ Token(f) \/ Reconnect(f)
  \/ \E s \in {"succeeded", "aborted"} : Finish(f, s)

Next == Restart \/ \E f \in Fibers : Request(f) \/ Step(f) \/ Fail(f) \/ Die(f) \/ Interrupt(f)

Spec == Init /\ [][Next]_vars

-----------------------------------------------------------------------------
(* Properties *)

Connection == [id : Ids \cup {AnyId}, account : Accounts \cup {NoAccount}]

TypeOK ==
  /\ file \in File
  /\ secrets \in [Ids -> Accounts \cup {NoAccount}]
  /\ engines \in [Ids -> Accounts \cup {NoAccount}]
  /\ counter \in Ids \cup {0} /\ runs \in Seq(Status)
  /\ pc \in [Fibers -> Phase]
  /\ job \in [Fibers -> {"connect", "delete", "operation", "detached", "none"}]
  /\ conn \in [Fibers -> Connection]
  /\ text \in [Fibers -> SUBSET Record]
  /\ using \in [Fibers -> Accounts \cup {NoAccount}]
  /\ run \in [Fibers -> Nat] /\ requests \in Nat /\ restarts \in Nat
  /\ answered \in SUBSET Record
  /\ doomed \in SUBSET Ids /\ gone \in SUBSET Ids /\ known \in [Fibers -> SUBSET Ids]
  /\ revived \in SUBSET Ids /\ clash \in BOOLEAN

(* An operation runs against the account that its connection's record names. *)
RunsNamedAccount == \A f \in Fibers : pc[f] = "running" => using[f] = conn[f].account

(* It does so for every connection that nobody asked to delete.              *)
RunsOwnAccount ==
  \A f \in Fibers : pc[f] = "running" /\ conn[f].id \notin doomed =>
    using[f] = conn[f].account

(* A connection that connect answered with stays on file, across restarts,   *)
(* until somebody asks to delete it; overlapping updates of the file aside.  *)
AnsweredKept ==
  ~ clash /\ Readable => {r \in answered : r.id \notin doomed} \subseteq file.records

(* A connection on file can reconnect: its own token was stored before it.   *)
ListedCanReconnect ==
  \A r \in file.records : r.id \notin doomed => secrets[r.id] = r.account

(* After deleteConnection answered, no request that comes later runs on that *)
(* connection, in this process or the next, even if an overlapping save put  *)
(* its record back, until connect takes the id anew.  An operation that was  *)
(* connecting at that moment caches its engine afterwards and revives the    *)
(* connection; but not in a process that was never restarted, which makes    *)
(* no engine twice.                                                          *)
DeletedUnused ==
  /\ \A f \in Fibers : pc[f] = "running" /\ conn[f].id \in known[f] => conn[f].id \in revived
  /\ restarts = 0 => revived = {}
=============================================================================
