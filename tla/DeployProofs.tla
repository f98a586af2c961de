---------------------------- MODULE DeployProofs ----------------------------
(* What the deploy service guarantees for any number of requests, restarts   *)
(* and overlapping updates of the connection file.                           *)
EXTENDS DeployService, SequenceTheorems, TLAPS

(* Where each kind of request may be, and what it knows by then.             *)
RequestOK(f) ==
  /\ job[f] = "none" <=> pc[f] = "idle"
  /\ job[f] = "connect" =>
       /\ pc[f] \in {"list", "probe", "put", "read", "open", "fill"}
       /\ conn[f].account \in Accounts
       /\ pc[f] # "list" => conn[f].id \in Ids
  /\ job[f] = "delete" => pc[f] \in {"read", "open", "fill", "secret"} /\ conn[f].id \in Ids
  /\ job[f] = "operation" =>
       /\ pc[f] \in Operating /\ run[f] \in 1..Len(runs)
       /\ pc[f] # "resolve" => conn[f] \in Record
       /\ pc[f] \in {"reconnect", "running"} => using[f] \in Accounts
  /\ job[f] = "detached" => pc[f] \in {"open", "fill"}

RequestsOK == \A f \in Fibers : RequestOK(f)

Writing(f)  == pc[f] \in {"open", "fill"}
Resolved(f) == pc[f] \in {"token", "reconnect", "running"}
Issued(f)   == job[f] = "connect" /\ pc[f] # "list"
HasId(S, i) == \E r \in S : r.id = i

(* The token stored for a connection is its own.                             *)
Vouched(r)  == r.id \in doomed \/ secrets[r.id] = r.account

TokensOwn ==
  /\ \A r \in file.records : Vouched(r)
  /\ \A f \in Fibers : Writing(f) => \A r \in text[f] : Vouched(r)
  /\ \A f \in Fibers : Resolved(f) => Vouched(conn[f])
  /\ \A f \in Fibers : job[f] = "connect" /\ pc[f] \in {"read", "open", "fill"} => Vouched(conn[f])

EnginesOwn ==
  /\ \A i \in Ids : i \in doomed \/ engines[i] \in {NoAccount, secrets[i]}
  /\ \A f \in Fibers : pc[f] \in {"reconnect", "running"} =>
       conn[f].id \in doomed \/ using[f] = conn[f].account

DeletesDoomed == \A f \in Fibers : job[f] = "delete" => conn[f].id \in doomed

(* Ids are issued in increasing order and never to two requests.             *)
IdsApart ==
  /\ \A f \in Fibers : Issued(f) => conn[f].id <= counter
  /\ \A f, g \in Fibers : Issued(f) /\ Issued(g) /\ conn[f].id = conn[g].id => f = g

(* Before its token is stored, nobody has a record with an id just issued.   *)
IdsFresh ==
  \A f \in Fibers : Issued(f) /\ pc[f] \in {"probe", "put"} =>
    \/ conn[f].id \in doomed
    \/ /\ ~ HasId(file.records, conn[f].id)
       /\ \A g \in Fibers : Writing(g) => ~ HasId(text[g], conn[f].id)
       /\ \A g \in Fibers : Resolved(g) => conn[g].id # conn[f].id

(* The ids this process has not come to yet: whoever has read the file since *)
(* it started saw the same of them, those somebody asked to delete aside.    *)
ViewsAgree ==
  \A i \in Ids \ doomed : i > counter =>
    /\ \A g \in Fibers : Writing(g) =>
         /\ Readable => (HasId(text[g], i) <=> HasId(file.records, i))
         /\ \A h \in Fibers : Writing(h) /\ HasId(text[g], i) => HasId(text[h], i)
    /\ \A f \in Fibers : Resolved(f) /\ conn[f].id = i =>
         /\ Readable => HasId(file.records, i)
         /\ \A g \in Fibers : Writing(g) => HasId(text[g], i)

ConnInv == TokensOwn /\ EnginesOwn /\ DeletesDoomed /\ IdsApart /\ IdsFresh /\ ViewsAgree
-----------------------------------------------------------------------------
(* Types *)

TypeInv == TypeOK /\ RequestsOK

LEMMA NothingType == Nothing \in Connection
BY DEF Nothing, Connection

LEMMA InitTypes == Init => TypeInv
<1> SUFFICES ASSUME Init PROVE TypeInv
  OBVIOUS
<1>1. file \in File
  <2>1. Contents("whole", {}) \in [form : {"whole"}, records : SUBSET Record]
    BY DEF Contents
  <2> QED BY <2>1 DEF Init, File
<1>2. pc \in [Fibers -> Phase] /\ conn \in [Fibers -> Connection]
  BY NothingType DEF Init, Phase
<1>3. runs \in Seq(Status)
  BY DEF Init
<1>4. TypeOK
  BY <1>1, <1>2, <1>3 DEF Init, TypeOK
<1>5. RequestsOK
  BY DEF Init, RequestsOK, RequestOK
<1> QED BY <1>4, <1>5 DEF TypeInv

LEMMA StutterTypes == TypeInv /\ UNCHANGED vars => TypeInv'
BY DEF TypeInv, TypeOK, RequestsOK, RequestOK, vars, disk, memory, request, bounds, ghosts, Readable

LEMMA ConnectTypes ==
  ASSUME TypeInv, NEW f \in Fibers,
         (\E a \in Accounts : Connect(f, a)) \/ Issue(f) \/ Probe(f) \/ Put(f)
  PROVE  TypeInv'
<1> USE DEF TypeInv, TypeOK, disk, memory, request, bounds, ghosts, Goto
<1>1. ASSUME NEW a \in Accounts, Connect(f, a) PROVE TypeInv'
  <2>1. TypeOK'
    BY <1>1 DEF Connect, Accept, Phase, Connection, AnyId
  <2>2. RequestsOK'
    BY <1>1 DEF Connect, Accept, RequestsOK, RequestOK
  <2> QED BY <2>1, <2>2
<1>2. CASE Issue(f)
  <2>1. PICK i \in Ids : counter' = i /\ conn' = [conn EXCEPT ![f].id = i]
    BY <1>2 DEF Issue
  <2>2. [conn[f] EXCEPT !.id = i] \in Connection
    <3>1. conn[f] \in [id : Ids \cup {AnyId}, account : Accounts \cup {NoAccount}]
      BY DEF Connection
    <3>2. [conn[f] EXCEPT !.id = i] \in [id : Ids \cup {AnyId}, account : Accounts \cup {NoAccount}]
      BY ONLY <3>1, i \in Ids
    <3> QED BY <3>2 DEF Connection
  <2>3. conn' \in [Fibers -> Connection]
    BY <2>1, <2>2
  <2>4. TypeOK'
    BY <1>2, <2>1, <2>3 DEF Issue, Phase
  <2>5. RequestsOK'
    BY <1>2, <2>1 DEF Issue, RequestsOK, RequestOK, Connection, Operating
  <2> QED BY <2>4, <2>5
<1>3. CASE Probe(f)
  BY <1>3 DEF Probe, RequestsOK, RequestOK, Phase, Operating
<1>4. CASE Put(f)
  <2>1. conn[f].id \in Ids /\ conn[f].account \in Accounts
    BY <1>4 DEF Put, RequestsOK, RequestOK, Operating
  <2>2. TypeOK'
    BY <1>4, <2>1 DEF Put, Reused, Phase
  <2>3. RequestsOK'
    BY <1>4 DEF Put, RequestsOK, RequestOK, Operating
  <2> QED BY <2>2, <2>3
<1> QED BY <1>1, <1>2, <1>3, <1>4

(* The request of f ends.                                                    *)
LEMMA LeaveTypes ==
  ASSUME TypeInv, NEW f \in Fibers, Leave(f), Len(runs') = Len(runs)
  PROVE  /\ pc' \in [Fibers -> Phase] /\ conn' \in [Fibers -> Connection]
         /\ job' \in [Fibers -> {"connect", "delete", "operation", "detached", "none"}]
         /\ text' \in [Fibers -> SUBSET Record] /\ run' \in [Fibers -> Nat]
         /\ using' \in [Fibers -> Accounts \cup {NoAccount}]
         /\ known' \in [Fibers -> SUBSET Ids]
         /\ RequestsOK'
<1> USE DEF TypeInv, TypeOK, Goto
<1>1. pc' \in [Fibers -> Phase]
  BY DEF Leave, Phase
<1>2. conn' \in [Fibers -> Connection]
  BY NothingType DEF Leave
<1>3. RequestOK(f)'
  BY DEF Leave, RequestOK
<1>4. ASSUME NEW g \in Fibers \ {f} PROVE RequestOK(g)'
  BY DEF Leave, RequestsOK, RequestOK
<1>5. RequestsOK'
  BY <1>3, <1>4 DEF RequestsOK
<1> QED BY <1>1, <1>2, <1>5 DEF Leave

LEMMA WriteTypes ==
  ASSUME TypeInv, NEW f \in Fibers, ReadFile(f) \/ OpenFile(f) \/ FillFile(f)
  PROVE  TypeInv'
<1> USE DEF TypeInv, TypeOK, disk, memory, request, bounds, ghosts, Goto
<1>1. CASE ReadFile(f)
  <2>1. file.records \in SUBSET Record
    BY DEF File
  <2>2. job[f] = "connect" => conn[f] \in Record
    BY <1>1 DEF ReadFile, RequestsOK, RequestOK, Connection, Record
  <2>3. Changed(f, file.records) \in SUBSET Record
    BY <2>1, <2>2 DEF Changed
  <2>4. TypeOK'
    BY <1>1, <2>3 DEF ReadFile, Phase
  <2>5. RequestsOK'
    BY <1>1 DEF ReadFile, RequestsOK, RequestOK, Operating
  <2> QED BY <2>4, <2>5
<1>2. CASE OpenFile(f)
  <2>1. Contents("empty", {}) \in File
    BY DEF Contents, File
  <2>2. TypeOK'
    BY <1>2, <2>1 DEF OpenFile, Phase
  <2>3. RequestsOK'
    BY <1>2 DEF OpenFile, RequestsOK, RequestOK, Operating
  <2> QED BY <2>2, <2>3
<1>3. CASE FillFile(f)
  <2>1. Contents("whole", text[f]) \in File /\ Contents("torn", {}) \in File
    BY DEF Contents, File
  <2>2. file' \in File
    BY <1>3, <2>1 DEF FillFile
  <2>3. job[f] = "connect" => conn[f] \in Record
    BY <1>3 DEF FillFile, RequestsOK, RequestOK, Connection, Record
  <2>4. answered' \in SUBSET Record
    BY <1>3, <2>3 DEF FillFile
  <2>5. CASE job[f] = "delete"
    <3>1. TypeOK'
      BY <1>3, <2>2, <2>4, <2>5 DEF FillFile, Phase
    <3>2. RequestsOK'
      BY <1>3, <2>5 DEF FillFile, RequestsOK, RequestOK, Operating
    <3> QED BY <3>1, <3>2
  <2>6. CASE job[f] # "delete"
    <3>1. Leave(f) /\ Len(runs') = Len(runs)
      BY <1>3, <2>6 DEF FillFile
    <3> QED BY <1>3, <2>2, <2>4, <3>1, LeaveTypes DEF FillFile
  <2> QED BY <2>5, <2>6
<1> QED BY <1>1, <1>2, <1>3

LEMMA DeleteTypes ==
  ASSUME TypeInv, NEW f \in Fibers, (\E i \in Seen : Delete(f, i)) \/ DropSecret(f)
  PROVE  TypeInv'
<1> USE DEF TypeInv, TypeOK, disk, memory, request, bounds, ghosts, Goto
<1>1. ASSUME NEW i \in Seen, Delete(f, i) PROVE TypeInv'
  <2>1. i \in Ids
    BY DEF Seen, File, Record
  <2>2. TypeOK'
    BY <1>1, <2>1 DEF Delete, Accept, Phase, Connection
  <2>3. RequestsOK'
    BY <1>1, <2>1 DEF Delete, Accept, RequestsOK, RequestOK
  <2> QED BY <2>2, <2>3
<1>2. CASE DropSecret(f)
  <2>1. conn[f].id \in Ids
    BY <1>2 DEF DropSecret, RequestsOK, RequestOK, Operating
  <2>2. Leave(f) /\ Len(runs') = Len(runs)
    BY <1>2 DEF DropSecret
  <2> QED BY <1>2, <2>1, <2>2, LeaveTypes DEF DropSecret, Dropped
<1> QED BY <1>1, <1>2

LEMMA OperateTypes ==
  ASSUME TypeInv, NEW f \in Fibers,
         \/ \E i \in Seen \cup {AnyId} : Operate(f, i)
         \/ \E r \in Record : Resolve(f, r)
         \/ Token(f) \/ Reconnect(f)
  PROVE  TypeInv'
<1> USE DEF TypeInv, TypeOK, disk, memory, request, bounds, ghosts, Goto
<1>1. ASSUME NEW i \in Seen \cup {AnyId}, Operate(f, i) PROVE TypeInv'
  <2>1. i \in Ids \cup {AnyId}
    BY DEF Seen, File, Record
  <2>2. TypeOK'
    BY <1>1, <2>1 DEF Operate, Accept, Phase, Connection, Status
  <2>3. RequestsOK'
    BY <1>1 DEF Operate, Accept, RequestsOK, RequestOK, Operating
  <2> QED BY <2>2, <2>3
<1>2. ASSUME NEW r \in Record, Resolve(f, r) PROVE TypeInv'
  <2>1. r.id \in Ids /\ r \in Connection /\ engines[r.id] \in Accounts \cup {NoAccount}
    BY DEF Record, Connection
  <2>2. TypeOK'
    BY <1>2, <2>1 DEF Resolve, Phase
  <2>3. RequestsOK'
    BY <1>2, <2>1 DEF Resolve, RequestsOK, RequestOK, Operating
  <2> QED BY <2>2, <2>3
<1>3. CASE Token(f)
  <2>1. conn[f].id \in Ids
    BY <1>3 DEF Token, RequestsOK, RequestOK, Operating, Record
  <2>2. TypeOK'
    BY <1>3, <2>1 DEF Token, Phase
  <2>3. RequestsOK'
    BY <1>3, <2>1 DEF Token, RequestsOK, RequestOK, Operating
  <2> QED BY <2>2, <2>3
<1>4. CASE Reconnect(f)
  <2>1. TypeOK'
    BY <1>4 DEF Reconnect, Phase
  <2>2. RequestsOK'
    BY <1>4 DEF Reconnect, RequestsOK, RequestOK, Operating
  <2> QED BY <2>1, <2>2
<1> QED BY <1>1, <1>2, <1>3, <1>4

LEMMA EndTypes ==
  ASSUME TypeInv, NEW f \in Fibers,
         \/ \E s \in {"succeeded", "aborted"} : Finish(f, s)
         \/ Fail(f) \/ Die(f) \/ Interrupt(f)
  PROVE  TypeInv'
<1> USE DEF TypeInv, TypeOK, disk, memory, request, bounds, ghosts, Goto
<1>1. ASSUME NEW s \in Status, job[f] = "operation", runs' = [runs EXCEPT ![run[f]] = s]
      PROVE  runs' \in Seq(Status) /\ Len(runs') = Len(runs)
  <2>1. run[f] \in 1..Len(runs)
    BY <1>1 DEF RequestsOK, RequestOK
  <2> QED BY <1>1, <2>1, ExceptSeq
<1>2. ASSUME Leave(f), Len(runs') = Len(runs), runs' \in Seq(Status),
             UNCHANGED <<disk, engines, counter, bounds, answered, doomed, gone, revived>>,
             clash' \in BOOLEAN
      PROVE  TypeInv'
  BY <1>2, LeaveTypes
<1>3. ASSUME NEW s \in {"succeeded", "aborted"}, Finish(f, s) PROVE TypeInv'
  <2>1. s \in Status /\ job[f] = "operation"
    BY <1>3 DEF Status, Finish, RequestsOK, RequestOK
  <2> QED BY <1>1, <1>2, <1>3, <2>1 DEF Finish
<1>4. CASE Fail(f)
  <2>1. "failed" \in Status
    BY DEF Status
  <2>2. runs' \in Seq(Status) /\ Len(runs') = Len(runs)
    BY <1>1, <1>4, <2>1 DEF Fail, Failed
  <2> QED BY <1>2, <1>4, <2>2 DEF Fail
<1>5. CASE Die(f)
  BY <1>2, <1>5 DEF Die
<1>6. CASE Interrupt(f)
  <2>1. CASE pc[f] \in {"open", "fill"}
    BY <1>6, <2>1 DEF Interrupt, RequestsOK, RequestOK
  <2>2. CASE pc[f] \notin {"open", "fill"}
    BY <1>2, <1>6, <2>2 DEF Interrupt
  <2> QED BY <2>1, <2>2
<1> QED BY <1>3, <1>4, <1>5, <1>6

LEMMA RestartTypes == TypeInv /\ Restart => TypeInv'
<1> SUFFICES ASSUME TypeInv, Restart PROVE TypeInv'
  OBVIOUS
<1>1. TypeOK'
  BY DEF TypeInv, TypeOK, Restart, disk, Nothing, Connection, AnyId, Phase
<1>2. RequestsOK'
  BY DEF Restart, RequestsOK, RequestOK
<1> QED BY <1>1, <1>2 DEF TypeInv

LEMMA StepTypes == TypeInv /\ [Next]_vars => TypeInv'
BY ConnectTypes, WriteTypes, DeleteTypes, OperateTypes, EndTypes, RestartTypes, StutterTypes
   DEF Next, Request, Step

(* Every state of the service has the types of TypeOK.                       *)
THEOREM TypeCorrect == Spec => []TypeOK
<1>1. TypeInv => TypeOK
  BY DEF TypeInv
<1> QED BY InitTypes, StepTypes, <1>1, PTL DEF Spec
-----------------------------------------------------------------------------
(* Connections *)

(* Where the records and ids that ConnInv speaks of come from.               *)
LEMMA Holders ==
  ASSUME TypeInv
  PROVE  /\ file.records \subseteq Record
         /\ ~ Readable => file.records = {}
         /\ \A g \in Fibers : text[g] \subseteq Record
         /\ \A g \in Fibers : Resolved(g) => job[g] = "operation" /\ conn[g] \in Record
         /\ \A g \in Fibers : Issued(g) => conn[g] \in Record
         /\ \A g \in Fibers : pc[g] \in {"probe", "put"} => Issued(g)
<1> USE DEF TypeInv
<1>1. file.records \subseteq Record /\ (~ Readable => file.records = {})
  BY DEF TypeOK, File, Readable
<1>2. \A g \in Fibers : text[g] \subseteq Record
  BY DEF TypeOK
<1>3. \A g \in Fibers : Resolved(g) => job[g] = "operation"
  BY DEF TypeOK, RequestsOK, RequestOK, Resolved
<1>4. \A g \in Fibers : Resolved(g) => conn[g] \in Record
  BY <1>3 DEF RequestsOK, RequestOK, Resolved
<1>5. \A g \in Fibers : Issued(g) => conn[g] \in Record
  BY DEF TypeOK, RequestsOK, RequestOK, Issued, Connection, Record
<1>6. \A g \in Fibers : pc[g] \in {"probe", "put"} => Issued(g)
  BY DEF TypeOK, RequestsOK, RequestOK, Issued, Operating
<1> QED BY <1>1, <1>2, <1>3, <1>4, <1>5, <1>6

(* Nothing that ConnInv speaks of is new in what fiber g holds.              *)
Keeps(g) ==
  /\ Writing(g)' => Writing(g) /\ text'[g] = text[g]
  /\ Resolved(g)' => Resolved(g) /\ conn'[g] = conn[g]
  /\ pc'[g] \in {"reconnect", "running"} =>
       pc[g] \in {"reconnect", "running"} /\ using'[g] = using[g]
  /\ Issued(g)' => Issued(g) /\ conn'[g] = conn[g]
  /\ Issued(g)' /\ pc'[g] \in {"probe", "put"} => pc[g] \in {"probe", "put"}
  /\ job'[g] = "connect" /\ pc'[g] \in {"read", "open", "fill"} => pc[g] \in {"read", "open", "fill"}
  /\ job'[g] = "delete" => conn'[g].id \in doomed'

LEMMA KeepingHolds ==
  ASSUME ConnInv, UNCHANGED <<disk, counter>>, doomed \subseteq doomed',
         \A i \in Ids : engines'[i] \in {NoAccount, engines[i]},
         \A g \in Fibers : Keeps(g)
  PROVE  ConnInv'
<1> USE DEF ConnInv, disk
<1>1. \A r : Vouched(r) => Vouched(r)'
  BY DEF Vouched
<1>2. TokensOwn'
  <2>1. \A r \in file'.records : Vouched(r)'
    BY <1>1 DEF TokensOwn
  <2>2. \A g \in Fibers : Writing(g)' => \A r \in text'[g] : Vouched(r)'
    BY <1>1 DEF TokensOwn, Keeps
  <2>3. \A g \in Fibers : Resolved(g)' => Vouched(conn[g])' 
    BY <1>1 DEF TokensOwn, Keeps, Vouched
  <2>4. \A g \in Fibers : job'[g] = "connect" /\ pc'[g] \in {"read", "open", "fill"} => Vouched(conn[g])'
    BY <1>1 DEF TokensOwn, Keeps, Issued, Vouched
  <2> QED BY <2>1, <2>2, <2>3, <2>4 DEF TokensOwn
<1>3. EnginesOwn'
  BY DEF EnginesOwn, Keeps, Resolved
<1>4. DeletesDoomed'
  BY DEF DeletesDoomed, Keeps
<1>5. IdsApart'
  BY DEF IdsApart, Keeps
<1>6. IdsFresh'
  BY DEF IdsFresh, Keeps
<1>7. ViewsAgree'
  BY DEF ViewsAgree, Keeps, Readable
<1> QED BY <1>2, <1>3, <1>4, <1>5, <1>6, <1>7

LEMMA InitConn == Init => ConnInv
BY DEF Init, ConnInv, TokensOwn, EnginesOwn, DeletesDoomed, IdsApart, IdsFresh, ViewsAgree,
       Contents, Writing, Resolved, Issued

(* The id that Issue takes is new to every record around.                    *)
LEMMA IssueConn ==
  ASSUME TypeInv, ConnInv, NEW f \in Fibers, Issue(f)
  PROVE  ConnInv'
<1> USE DEF ConnInv, disk, memory, request, bounds, ghosts, Goto
<1>1. PICK i \in Ids : /\ i > counter /\ ~ HasId(file.records, i)
                       /\ counter' = i /\ conn' = [conn EXCEPT ![f].id = i]
  BY DEF Issue, IsNextId, HasId
<1>2. /\ UNCHANGED <<file, secrets, engines, job, text, using, doomed>>
      /\ pc[f] = "list" /\ Readable
      /\ pc' = [pc EXCEPT ![f] = "probe"]
  BY DEF Issue
<1>3. job[f] = "connect" /\ counter \in Nat /\ i \in Nat
  <2>1. Ids \subseteq Nat /\ counter \in Ids \cup {0}
    BY ConstantsOK DEF TypeInv, TypeOK, Ids
  <2>2. job[f] = "connect"
    BY <1>2 DEF TypeInv, TypeOK, RequestsOK, RequestOK, Operating
  <2> QED BY <2>1, <2>2
<1>4. \A g \in Fibers \ {f} : pc'[g] = pc[g] /\ conn'[g] = conn[g]
  BY <1>1, <1>2
<1>5. pc'[f] = "probe" /\ conn'[f].id = i
  BY <1>1, <1>2 DEF TypeInv, TypeOK, Connection
<1>6. \A g \in Fibers : Issued(g) => conn[g].id \in Ids
  BY Holders DEF Record
<1>7. TokensOwn'
  BY <1>2, <1>4, <1>5 DEF TokensOwn, Vouched, Writing, Resolved
<1>8. EnginesOwn'
  BY <1>2, <1>4, <1>5 DEF EnginesOwn
<1>9. DeletesDoomed'
  BY <1>2, <1>3, <1>4 DEF DeletesDoomed
<1>10. IdsApart'
  <2>1. \A g \in Fibers \ {f} : Issued(g)' => Issued(g) /\ conn'[g].id <= i /\ conn'[g].id # i
    BY <1>1, <1>2, <1>3, <1>4, <1>6 DEF IdsApart, Issued, Ids
  <2> QED BY <1>1, <1>3, <1>4, <1>5, <2>1 DEF IdsApart
<1>11. IdsFresh'
  <2>1. \/ i \in doomed
        \/ /\ \A g \in Fibers : Writing(g) => ~ HasId(text[g], i)
           /\ \A g \in Fibers : Resolved(g) => conn[g].id # i
    BY <1>1, <1>2 DEF ViewsAgree
  <2>2. \A g \in Fibers : (Writing(g)' => Writing(g)) /\ (Resolved(g)' => Resolved(g) /\ g # f)
    BY <1>4, <1>5 DEF Writing, Resolved
  <2>3. \A g \in Fibers \ {f} : Issued(g)' => Issued(g)
    BY <1>2, <1>4 DEF Issued
  <2> QED BY <1>1, <1>2, <1>4, <1>5, <2>1, <2>2, <2>3 DEF IdsFresh
<1>12. ViewsAgree'
  <2>1. \A j \in Ids : j > counter' => j > counter
    BY <1>1, <1>3 DEF Ids
  <2>2. \A g \in Fibers : (Writing(g)' => Writing(g)) /\ (Resolved(g)' => Resolved(g) /\ g # f)
    BY <1>4, <1>5 DEF Writing, Resolved
  <2> QED BY <1>2, <1>4, <2>1, <2>2 DEF ViewsAgree, Readable
<1> QED BY <1>7, <1>8, <1>9, <1>10, <1>11, <1>12

(* Nobody else has a record of the id whose token Put stores.                *)
LEMMA PutConn ==
  ASSUME TypeInv, ConnInv, NEW f \in Fibers, Put(f)
  PROVE  ConnInv'
<1> USE DEF ConnInv, disk, memory, request, bounds, ghosts, Goto
<1> DEFINE i == conn[f].id
<1>1. /\ UNCHANGED <<file, counter, job, conn, text, using, doomed>>
      /\ pc[f] = "put" /\ pc' = [pc EXCEPT ![f] = "read"]
  BY DEF Put
<1>2. Issued(f) /\ conn[f] \in Record /\ i \in Ids
  BY <1>1, Holders DEF Record
<1>3. pc'[f] = "read" /\ \A g \in Fibers \ {f} : pc'[g] = pc[g]
  BY <1>1 DEF TypeInv, TypeOK
<1>4. secrets'[i] = conn[f].account /\ engines'[i] = conn[f].account
  BY <1>2 DEF Put, TypeInv, TypeOK
<1>5. \A j \in Ids \ {i} : secrets'[j] = secrets[j] /\ engines'[j] = engines[j]
  BY DEF Put, TypeInv, TypeOK
<1>6. ASSUME NEW r \in Record, r.id # i \/ i \in doomed, Vouched(r) PROVE Vouched(r)'
  <2>1. r.id \in Ids
    BY DEF Record
  <2> QED BY <1>1, <1>5, <1>6, <2>1 DEF Vouched
<1>7. \A g \in Fibers : (Writing(g)' => Writing(g)) /\ (Resolved(g)' => Resolved(g))
  BY <1>3 DEF Writing, Resolved
<1>8. \/ i \in doomed
      \/ /\ ~ HasId(file.records, i)
         /\ \A g \in Fibers : Writing(g) => ~ HasId(text[g], i)
         /\ \A g \in Fibers : Resolved(g) => conn[g].id # i
  BY <1>1, <1>2 DEF IdsFresh
<1>9. TokensOwn'
  <2>1. \A r \in file'.records : Vouched(r)'
    BY <1>1, <1>6, <1>8, Holders DEF TokensOwn, HasId
  <2>2. \A g \in Fibers : Writing(g)' => \A r \in text'[g] : Vouched(r)'
    BY <1>1, <1>6, <1>7, <1>8, Holders DEF TokensOwn, HasId
  <2>3. \A g \in Fibers : Resolved(g)' => Vouched(conn[g])'
    <3> SUFFICES ASSUME NEW g \in Fibers, Resolved(g) PROVE Vouched(conn[g])'
      BY <1>7
    <3>1. Vouched(conn[g]) /\ conn[g].id \in Ids
      BY Holders DEF TokensOwn, Record
    <3>2. conn[g].id # i \/ i \in doomed
      BY <1>8
    <3> QED BY <1>1, <1>5, <3>1, <3>2 DEF Vouched
  <2>4. ASSUME NEW g \in Fibers, job'[g] = "connect", pc'[g] \in {"read", "open", "fill"}
        PROVE  Vouched(conn[g])'
    <3>1. CASE g = f
      BY <1>1, <1>4, <3>1 DEF Vouched
    <3>2. CASE g # f
      <4>1. Issued(g) /\ conn[g] \in Record /\ Vouched(conn[g])
        BY <1>1, <1>3, <2>4, <3>2, Holders DEF TokensOwn, Issued
      <4>2. conn[g].id # i
        BY <1>2, <3>2, <4>1 DEF IdsApart
      <4> QED BY <1>1, <1>5, <4>1, <4>2 DEF Vouched, Record
    <3> QED BY <3>1, <3>2
  <2> QED BY <2>1, <2>2, <2>3, <2>4 DEF TokensOwn
<1>10. EnginesOwn'
  BY <1>1, <1>3, <1>4, <1>5 DEF EnginesOwn
<1>11. DeletesDoomed'
  BY <1>1 DEF DeletesDoomed
<1>12. IdsApart'
  BY <1>1, <1>2, <1>3 DEF IdsApart, Issued
<1>13. IdsFresh'
  BY <1>1, <1>3, <1>7 DEF IdsFresh, Issued
<1>14. ViewsAgree'
  BY <1>1, <1>7 DEF ViewsAgree, Readable
<1> QED BY <1>9, <1>10, <1>11, <1>12, <1>13, <1>14

(* What a request is about to write is the file as it was read, with its own *)
(* connection in it or out of it.                                            *)
LEMMA ReadConn ==
  ASSUME TypeInv, ConnInv, NEW f \in Fibers, ReadFile(f)
  PROVE  ConnInv'
<1> USE DEF ConnInv, disk, memory, request, bounds, ghosts, Goto
<1>1. /\ UNCHANGED <<file, secrets, engines, counter, job, conn, using, doomed>>
      /\ pc[f] = "read" /\ Readable
      /\ pc' = [pc EXCEPT ![f] = "open"]
      /\ text' = [text EXCEPT ![f] = Changed(f, file.records)]
  BY DEF ReadFile
<1>2. pc'[f] = "open" /\ \A g \in Fibers \ {f} : pc'[g] = pc[g]
  BY <1>1 DEF TypeInv, TypeOK
<1>3. \A g \in Fibers \ {f} : text'[g] = text[g]
  BY <1>1
<1>4. /\ text'[f] = {r \in file.records : r.id # conn[f].id}
                     \cup (IF job[f] = "connect" THEN {conn[f]} ELSE {})
  BY <1>1 DEF TypeInv, TypeOK, Changed
<1>5. job[f] = "connect" => Issued(f) /\ Vouched(conn[f])
  BY <1>1 DEF TokensOwn, Issued
<1>6. job[f] \in {"connect", "delete"}
  BY <1>1 DEF TypeInv, TypeOK, RequestsOK, RequestOK, Operating
<1>7. \A g \in Fibers : (Resolved(g)' <=> Resolved(g)) /\ (Writing(g)' => g = f \/ Writing(g))
  BY <1>1, <1>2 DEF Resolved, Writing
<1>8. TokensOwn'
  <2>1. \A r : Vouched(r)' <=> Vouched(r)
    BY <1>1 DEF Vouched
  <2>2. \A r \in text'[f] : Vouched(r)
    BY <1>4, <1>5 DEF TokensOwn
  <2>3. \A g \in Fibers : Writing(g)' => \A r \in text'[g] : Vouched(r)'
    BY <1>3, <1>7, <2>1, <2>2 DEF TokensOwn
  <2>4. \A g \in Fibers : Resolved(g)' => Vouched(conn[g])'
    BY <1>1, <1>7 DEF TokensOwn, Vouched
  <2>5. \A g \in Fibers : job'[g] = "connect" /\ pc'[g] \in {"read", "open", "fill"} => Vouched(conn[g])'
    BY <1>1, <1>2 DEF TokensOwn, Vouched
  <2> QED BY <1>1, <2>1, <2>3, <2>4, <2>5 DEF TokensOwn
<1>9. EnginesOwn'
  BY <1>1, <1>2 DEF EnginesOwn
<1>10. DeletesDoomed'
  BY <1>1 DEF DeletesDoomed
<1>11. IdsApart'
  BY <1>1, <1>2 DEF IdsApart, Issued
<1>12. IdsFresh'
  <2> SUFFICES ASSUME NEW g \in Fibers, Issued(g)', pc'[g] \in {"probe", "put"}, conn[g].id \notin doomed
               PROVE  /\ ~ HasId(file.records, conn[g].id)
                      /\ \A h \in Fibers : Writing(h)' => ~ HasId(text'[h], conn[g].id)
                      /\ \A h \in Fibers : Resolved(h)' => conn[h].id # conn[g].id
    BY <1>1 DEF IdsFresh
  <2>1. g # f /\ Issued(g) /\ pc[g] \in {"probe", "put"}
    BY <1>1, <1>2 DEF Issued
  <2>2. /\ ~ HasId(file.records, conn[g].id)
        /\ \A h \in Fibers : Writing(h) => ~ HasId(text[h], conn[g].id)
        /\ \A h \in Fibers : Resolved(h) => conn[h].id # conn[g].id
    BY <2>1 DEF IdsFresh
  <2>3. job[f] = "connect" => conn[f].id # conn[g].id
    BY <1>5, <2>1 DEF IdsApart
  <2>4. ~ HasId(text'[f], conn[g].id)
    BY <1>4, <2>2, <2>3 DEF HasId
  <2> QED BY <1>3, <1>7, <2>2, <2>4
<1>13. ViewsAgree'
  <2> SUFFICES ASSUME NEW i \in Ids \ doomed, i > counter
               PROVE  /\ \A g \in Fibers : Writing(g)' => (HasId(text'[g], i) <=> HasId(file.records, i))
                      /\ \A g \in Fibers : Resolved(g) /\ conn[g].id = i => HasId(file.records, i)
    BY <1>1, <1>7 DEF ViewsAgree, Readable
  <2>1. i # conn[f].id
    <3>1. CASE job[f] = "connect"
      <4>1. conn[f].id <= counter /\ conn[f].id \in Ids /\ Ids \subseteq Nat /\ counter \in Nat
        BY <1>5, <3>1, Holders, ConstantsOK DEF IdsApart, Record, TypeInv, TypeOK, Ids
      <4> QED BY <4>1
    <3>2. CASE job[f] = "delete"
      BY <3>2 DEF DeletesDoomed
    <3> QED BY <1>6, <3>1, <3>2
  <2>2. HasId(text'[f], i) <=> HasId(file.records, i)
    BY <1>4, <2>1 DEF HasId
  <2>3. \A g \in Fibers : Writing(g) => (HasId(text[g], i) <=> HasId(file.records, i))
    BY <1>1 DEF ViewsAgree
  <2>4. \A g \in Fibers : Resolved(g) /\ conn[g].id = i => HasId(file.records, i)
    BY <1>1 DEF ViewsAgree
  <2> QED BY <1>3, <1>7, <2>2, <2>3, <2>4
<1> QED BY <1>8, <1>9, <1>10, <1>11, <1>12, <1>13

LEMMA OpenConn ==
  ASSUME TypeInv, ConnInv, NEW f \in Fibers, OpenFile(f)
  PROVE  ConnInv'
<1> USE DEF ConnInv, disk, memory, request, bounds, ghosts, Goto
<1>1. /\ UNCHANGED <<secrets, engines, counter, job, conn, text, using, doomed>>
      /\ pc[f] = "open" /\ pc' = [pc EXCEPT ![f] = "fill"]
      /\ file'.records = {} /\ ~ Readable'
  BY DEF OpenFile, Contents, Readable
<1>2. pc'[f] = "fill" /\ \A g \in Fibers \ {f} : pc'[g] = pc[g]
  BY <1>1 DEF TypeInv, TypeOK
<1>3. \A g \in Fibers : (Resolved(g)' <=> Resolved(g)) /\ (Writing(g)' <=> Writing(g))
  BY <1>1, <1>2 DEF Resolved, Writing
<1>4. TokensOwn'
  BY <1>1, <1>2, <1>3 DEF TokensOwn, Vouched
<1>5. EnginesOwn'
  BY <1>1, <1>2 DEF EnginesOwn
<1>6. DeletesDoomed'
  BY <1>1 DEF DeletesDoomed
<1>7. IdsApart'
  BY <1>1, <1>2 DEF IdsApart, Issued
<1>8. IdsFresh'
  BY <1>1, <1>2, <1>3 DEF IdsFresh, Issued, HasId
<1>9. ViewsAgree'
  BY <1>1, <1>3 DEF ViewsAgree
<1> QED BY <1>4, <1>5, <1>6, <1>7, <1>8, <1>9

LEMMA FillConn ==
  ASSUME TypeInv, ConnInv, NEW f \in Fibers, FillFile(f)
  PROVE  ConnInv'
<1> USE DEF ConnInv, disk, memory, request, bounds, ghosts, Goto
<1>1. UNCHANGED <<secrets, engines, counter, doomed>> /\ Writing(f)
  BY DEF FillFile, Writing
<1>2. \/ file'.records = text[f]
      \/ file'.records = {} /\ ~ Readable'
  BY DEF FillFile, Contents, Readable
<1>3. \/ /\ job[f] = "delete" /\ pc' = [pc EXCEPT ![f] = "secret"]
         /\ UNCHANGED <<job, conn, text, using>>
      \/ Leave(f)
  BY DEF FillFile
<1>4. \A g \in Fibers \ {f} : /\ pc'[g] = pc[g] /\ job'[g] = job[g] /\ conn'[g] = conn[g]
                              /\ text'[g] = text[g] /\ using'[g] = using[g]
  <2>1. CASE Leave(f)
    BY <2>1 DEF Leave
  <2>2. CASE ~ Leave(f)
    BY <1>3, <2>2 DEF TypeInv, TypeOK
  <2> QED BY <2>1, <2>2
<1>5. /\ pc'[f] \in {"idle", "secret"} /\ job'[f] \in {"none", "delete"}
      /\ job'[f] = "delete" => conn'[f].id \in doomed
  <2>1. CASE Leave(f)
    BY <2>1 DEF Leave, TypeInv, TypeOK
  <2>2. CASE ~ Leave(f)
    BY <1>3, <2>2 DEF DeletesDoomed, TypeInv, TypeOK
  <2> QED BY <2>1, <2>2
<1>6. ~ Writing(f)' /\ ~ Resolved(f)' /\ ~ Issued(f)'
  BY <1>5 DEF Writing, Resolved, Issued
<1>7. \A g \in Fibers \ {f} : /\ Writing(g)' <=> Writing(g)
                              /\ Resolved(g)' <=> Resolved(g)
                              /\ Issued(g)' <=> Issued(g)
  BY <1>4 DEF Writing, Resolved, Issued
<1>8. TokensOwn'
  <2>1. \A r : Vouched(r)' <=> Vouched(r)
    BY <1>1 DEF Vouched
  <2>2. \A r \in file'.records : Vouched(r)'
    BY <1>1, <1>2, <2>1 DEF TokensOwn
  <2>3. \A g \in Fibers : Writing(g)' => \A r \in text'[g] : Vouched(r)'
    BY <1>4, <1>6, <1>7, <2>1 DEF TokensOwn
  <2>4. \A g \in Fibers : Resolved(g)' => Vouched(conn[g])'
    BY <1>1, <1>4, <1>6, <1>7 DEF TokensOwn, Vouched
  <2>5. \A g \in Fibers : job'[g] = "connect" /\ pc'[g] \in {"read", "open", "fill"} => Vouched(conn[g])'
    BY <1>1, <1>4, <1>5 DEF TokensOwn, Vouched
  <2> QED BY <2>2, <2>3, <2>4, <2>5 DEF TokensOwn
<1>9. EnginesOwn'
  BY <1>1, <1>4, <1>5 DEF EnginesOwn
<1>10. DeletesDoomed'
  BY <1>1, <1>4, <1>5 DEF DeletesDoomed
<1>11. IdsApart'
  BY <1>1, <1>4, <1>6, <1>7 DEF IdsApart
<1>12. IdsFresh'
  <2>1. \A i : HasId(file'.records, i) => HasId(text[f], i)
    BY <1>2 DEF HasId
  <2> QED BY <1>1, <1>4, <1>6, <1>7, <2>1 DEF IdsFresh
<1>13. ViewsAgree'
  <2> SUFFICES ASSUME NEW i \in Ids \ doomed, i > counter
               PROVE  /\ \A g \in Fibers : Writing(g)' =>
                           /\ Readable' => (HasId(text'[g], i) <=> HasId(file'.records, i))
                           /\ \A h \in Fibers : Writing(h)' /\ HasId(text'[g], i) => HasId(text'[h], i)
                      /\ \A g \in Fibers : Resolved(g)' /\ conn'[g].id = i =>
                           /\ Readable' => HasId(file'.records, i)
                           /\ \A h \in Fibers : Writing(h)' => HasId(text'[h], i)
    BY <1>1 DEF ViewsAgree
  <2>1. \A g, h \in Fibers : Writing(g) /\ Writing(h) => (HasId(text[g], i) <=> HasId(text[h], i))
    BY DEF ViewsAgree
  <2>2. \A g, h \in Fibers : Resolved(g) /\ conn[g].id = i /\ Writing(h) => HasId(text[h], i)
    BY DEF ViewsAgree
  <2>3. Readable' => (HasId(file'.records, i) <=> HasId(text[f], i))
    BY <1>2 DEF HasId
  <2> QED BY <1>1, <1>4, <1>6, <1>7, <2>1, <2>2, <2>3
<1> QED BY <1>8, <1>9, <1>10, <1>11, <1>12, <1>13

(* Who asks to delete an id gives up what is promised of it.                 *)
LEMMA DropConn ==
  ASSUME TypeInv, ConnInv, NEW f \in Fibers, DropSecret(f)
  PROVE  ConnInv'
<1> USE DEF ConnInv, disk, memory, request, bounds, ghosts, Goto
<1>1. /\ UNCHANGED <<file, counter, doomed>> /\ Leave(f)
      /\ secrets' = [secrets EXCEPT ![conn[f].id] = NoAccount]
      /\ engines' = [engines EXCEPT ![conn[f].id] = NoAccount]
  BY DEF DropSecret
<1>2. conn[f].id \in doomed
  BY DEF DropSecret, TypeInv, TypeOK, RequestsOK, RequestOK, Operating, DeletesDoomed
<1>3. \A i \in Ids \ doomed : secrets'[i] = secrets[i] /\ engines'[i] = engines[i]
  BY <1>1, <1>2 DEF TypeInv, TypeOK
<1>4. /\ pc'[f] = "idle" /\ job'[f] = "none"
      /\ \A g \in Fibers \ {f} : /\ pc'[g] = pc[g] /\ job'[g] = job[g] /\ conn'[g] = conn[g]
                                 /\ text'[g] = text[g] /\ using'[g] = using[g]
  BY <1>1 DEF Leave, TypeInv, TypeOK
<1>5. ~ Writing(f)' /\ ~ Resolved(f)' /\ ~ Issued(f)'
  BY <1>4 DEF Writing, Resolved, Issued
<1>6. \A g \in Fibers \ {f} : /\ Writing(g)' <=> Writing(g)
                              /\ Resolved(g)' <=> Resolved(g)
                              /\ Issued(g)' <=> Issued(g)
  BY <1>4 DEF Writing, Resolved, Issued
<1>7. TokensOwn'
  <2>1. ASSUME NEW r \in Record, Vouched(r) PROVE Vouched(r)'
    BY <1>1, <1>3, <2>1 DEF Vouched, Record
  <2>2. \A r \in file'.records : Vouched(r)'
    BY <1>1, <2>1, Holders DEF TokensOwn
  <2>3. \A g \in Fibers : Writing(g)' => \A r \in text'[g] : Vouched(r)'
    BY <1>4, <1>5, <1>6, <2>1, Holders DEF TokensOwn
  <2>4. ASSUME NEW g \in Fibers, Resolved(g)' PROVE Vouched(conn[g])'
    <3>1. Vouched(conn[g]) /\ conn[g].id \in Ids /\ conn'[g] = conn[g]
      BY <1>4, <1>5, <1>6, <2>4, Holders DEF TokensOwn, Record
    <3> QED BY <1>1, <1>3, <3>1 DEF Vouched
  <2>5. ASSUME NEW g \in Fibers, job'[g] = "connect", pc'[g] \in {"read", "open", "fill"}
        PROVE  Vouched(conn[g])'
    <3>1. Vouched(conn[g]) /\ conn[g].id \in Ids /\ conn'[g] = conn[g]
      BY <1>4, <2>5, Holders DEF TokensOwn, Record, Issued
    <3> QED BY <1>1, <1>3, <3>1 DEF Vouched
  <2> QED BY <2>2, <2>3, <2>4, <2>5 DEF TokensOwn
<1>8. EnginesOwn'
  BY <1>1, <1>3, <1>4 DEF EnginesOwn
<1>9. DeletesDoomed'
  BY <1>1, <1>4 DEF DeletesDoomed
<1>10. IdsApart'
  BY <1>1, <1>4, <1>5, <1>6 DEF IdsApart
<1>11. IdsFresh'
  BY <1>1, <1>4, <1>5, <1>6 DEF IdsFresh
<1>12. ViewsAgree'
  BY <1>1, <1>4, <1>5, <1>6 DEF ViewsAgree, Readable
<1> QED BY <1>7, <1>8, <1>9, <1>10, <1>11, <1>12

(* An operation takes its connection from the file.                          *)
LEMMA ResolveConn ==
  ASSUME TypeInv, ConnInv, NEW f \in Fibers, NEW r \in Record, Resolve(f, r)
  PROVE  ConnInv'
<1> USE DEF ConnInv, disk, memory, request, bounds, ghosts, Goto
<1>1. /\ UNCHANGED <<file, secrets, engines, counter, job, text, doomed>>
      /\ r \in file.records /\ conn' = [conn EXCEPT ![f] = r]
      /\ Readable /\ pc[f] = "resolve"
  BY Holders DEF Resolve, Resolves
<1>2. job[f] = "operation"
  BY <1>1 DEF TypeInv, TypeOK, RequestsOK, RequestOK
<1>3. /\ conn'[f] = r /\ pc'[f] \in {"token", "running"}
      /\ pc'[f] = "running" => using'[f] = engines[r.id] /\ engines[r.id] # NoAccount
  BY DEF Resolve, TypeInv, TypeOK
<1>4. \A g \in Fibers \ {f} : pc'[g] = pc[g] /\ conn'[g] = conn[g] /\ using'[g] = using[g]
  BY DEF Resolve, TypeInv, TypeOK
<1>5. r.id \in Ids /\ Vouched(r)
  BY <1>1 DEF TokensOwn, Record
<1>6. \A g \in Fibers : (Writing(g)' <=> Writing(g)) /\ (Resolved(g)' => g = f \/ Resolved(g))
  BY <1>1, <1>3, <1>4 DEF Writing, Resolved
<1>7. TokensOwn'
  BY <1>1, <1>2, <1>3, <1>4, <1>5, <1>6 DEF TokensOwn, Vouched
<1>8. EnginesOwn'
  BY <1>1, <1>3, <1>4, <1>5 DEF EnginesOwn, Vouched
<1>9. DeletesDoomed'
  BY <1>1, <1>2, <1>4 DEF DeletesDoomed
<1>10. IdsApart'
  BY <1>1, <1>2, <1>4 DEF IdsApart, Issued
<1>11. IdsFresh'
  <2> SUFFICES ASSUME NEW g \in Fibers, Issued(g)', pc'[g] \in {"probe", "put"}, conn'[g].id \notin doomed
               PROVE  /\ ~ HasId(file.records, conn'[g].id)
                      /\ \A h \in Fibers : Writing(h)' => ~ HasId(text[h], conn'[g].id)
                      /\ \A h \in Fibers : Resolved(h)' => conn'[h].id # conn'[g].id
    BY <1>1 DEF IdsFresh
  <2>1. g # f /\ Issued(g) /\ pc[g] \in {"probe", "put"} /\ conn'[g] = conn[g]
    BY <1>1, <1>3, <1>4 DEF Issued
  <2>2. /\ ~ HasId(file.records, conn[g].id)
        /\ \A h \in Fibers : Writing(h) => ~ HasId(text[h], conn[g].id)
        /\ \A h \in Fibers : Resolved(h) => conn[h].id # conn[g].id
    BY <2>1 DEF IdsFresh
  <2>3. r.id # conn[g].id
    BY <1>1, <2>2 DEF HasId
  <2> QED BY <1>3, <1>4, <1>6, <2>1, <2>2, <2>3
<1>12. ViewsAgree'
  <2> SUFFICES ASSUME NEW i \in Ids \ doomed, i > counter, r.id = i
               PROVE  HasId(file.records, i) /\ \A g \in Fibers : Writing(g) => HasId(text[g], i)
    BY <1>1, <1>3, <1>4, <1>6 DEF ViewsAgree, Readable
  <2>1. HasId(file.records, i)
    BY <1>1 DEF HasId
  <2> QED BY <1>1, <2>1 DEF ViewsAgree
<1> QED BY <1>7, <1>8, <1>9, <1>10, <1>11, <1>12

(* It reconnects with the token stored for that connection.                  *)
LEMMA ReconnectConn ==
  ASSUME TypeInv, ConnInv, NEW f \in Fibers, Token(f) \/ Reconnect(f)
  PROVE  ConnInv'
<1> USE DEF ConnInv, disk, memory, request, bounds, ghosts, Goto
<1>1. /\ UNCHANGED <<file, secrets, counter, job, conn, text, doomed>> /\ Resolved(f)
      /\ pc'[f] \in {"reconnect", "running"}
      /\ \A g \in Fibers \ {f} : pc'[g] = pc[g] /\ using'[g] = using[g]
  BY DEF Token, Reconnect, Resolved, TypeInv, TypeOK
<1>2. job[f] = "operation" /\ conn[f] \in Record /\ conn[f].id \in Ids
  BY <1>1, Holders DEF Record
<1>3. Vouched(conn[f])
  BY <1>1 DEF TokensOwn
<1>4. conn[f].id \in doomed \/ using'[f] = conn[f].account
  <2>1. CASE Token(f)
    BY <1>3, <2>1 DEF Token, Vouched, TypeInv, TypeOK
  <2>2. CASE Reconnect(f)
    BY <2>2 DEF Reconnect, EnginesOwn
  <2> QED BY <2>1, <2>2
<1>5. ASSUME NEW i \in Ids
      PROVE  engines'[i] = engines[i] \/ (i = conn[f].id /\ (i \in doomed \/ engines'[i] = secrets[i]))
  <2>1. CASE Token(f)
    BY <2>1 DEF Token
  <2>2. CASE Reconnect(f)
    BY <1>2, <1>3, <1>4, <2>2 DEF Reconnect, Vouched, TypeInv, TypeOK
  <2> QED BY <2>1, <2>2
<1>6. \A g \in Fibers : (Writing(g)' <=> Writing(g)) /\ (Resolved(g)' <=> Resolved(g))
  BY <1>1 DEF Writing, Resolved
<1>7. TokensOwn'
  BY <1>1, <1>2, <1>6 DEF TokensOwn, Vouched
<1>8. EnginesOwn'
  BY <1>1, <1>4, <1>5 DEF EnginesOwn
<1>9. DeletesDoomed'
  BY <1>1 DEF DeletesDoomed
<1>10. IdsApart'
  BY <1>1, <1>2 DEF IdsApart, Issued
<1>11. IdsFresh'
  BY <1>1, <1>2, <1>6 DEF IdsFresh, Issued
<1>12. ViewsAgree'
  BY <1>1, <1>6 DEF ViewsAgree, Readable
<1> QED BY <1>7, <1>8, <1>9, <1>10, <1>11, <1>12

(* The steps that leave every record, token and engine as it is.             *)
LEMMA OtherConn ==
  ASSUME TypeInv, ConnInv, NEW f \in Fibers,
         \/ Request(f) \/ Probe(f) \/ Fail(f) \/ Die(f) \/ Interrupt(f)
         \/ \E s \in {"succeeded", "aborted"} : Finish(f, s)
  PROVE  ConnInv'
<1> USE DEF disk, memory, request, bounds, ghosts, Goto
<1>1. UNCHANGED <<disk, counter, engines>> /\ doomed \subseteq doomed'
  BY DEF Request, Connect, Delete, Operate, Probe, Fail, Die, Interrupt, Finish, Accept
<1>2. \A g \in Fibers \ {f} : /\ pc'[g] = pc[g] /\ job'[g] = job[g] /\ conn'[g] = conn[g]
                              /\ text'[g] = text[g] /\ using'[g] = using[g]
  <2>1. CASE Request(f)
    BY <2>1 DEF Request, Connect, Delete, Operate, Accept, TypeInv, TypeOK
  <2>2. CASE Probe(f)
    BY <2>2 DEF Probe, TypeInv, TypeOK
  <2>3. CASE Leave(f)
    BY <2>3 DEF Leave, TypeInv, TypeOK
  <2>4. CASE Interrupt(f) /\ ~ Leave(f)
    BY <2>4 DEF Interrupt, TypeInv, TypeOK
  <2> QED BY <2>1, <2>2, <2>3, <2>4 DEF Fail, Die, Finish
<1>3. ASSUME NEW g \in Fibers \ {f} PROVE Keeps(g)
  BY <1>1, <1>2 DEF Keeps, Writing, Resolved, Issued, ConnInv, DeletesDoomed
<1>4. Keeps(f)
  <2> USE DEF TypeInv, TypeOK, Keeps, Writing, Resolved, Issued
  <2>1. CASE \E a \in Accounts : Connect(f, a)
    BY <2>1 DEF Connect, Accept
  <2>2. CASE \E i \in Seen : Delete(f, i)
    BY <2>2 DEF Delete, Accept
  <2>3. CASE \E i \in Seen \cup {AnyId} : Operate(f, i)
    BY <2>3 DEF Operate, Accept
  <2>4. CASE Probe(f)
    BY <2>4 DEF Probe, ConnInv, DeletesDoomed
  <2>5. CASE Leave(f)
    BY <2>5 DEF Leave
  <2>6. CASE Interrupt(f) /\ ~ Leave(f)
    BY <2>6 DEF Interrupt
  <2> QED BY <2>1, <2>2, <2>3, <2>4, <2>5, <2>6 DEF Request, Fail, Die, Finish
<1>5. \A i \in Ids : engines'[i] \in {NoAccount, engines[i]}
  BY <1>1
<1> QED BY <1>1, <1>3, <1>4, <1>5, KeepingHolds

LEMMA RestartConn ==
  ASSUME TypeInv, ConnInv, Restart \/ UNCHANGED vars
  PROVE  ConnInv'
<1> USE DEF disk, memory, request, bounds, ghosts
<1>1. UNCHANGED disk /\ doomed' = doomed
  BY DEF Restart, vars
<1>2. CASE Restart
  <2>1. \A g \in Fibers : pc'[g] = "idle" /\ job'[g] = "none"
    BY <1>2 DEF Restart
  <2>2. \A g \in Fibers : ~ Writing(g)' /\ ~ Resolved(g)' /\ ~ Issued(g)'
    BY <2>1 DEF Writing, Resolved, Issued
  <2>3. TokensOwn'
    BY <1>1, <2>1, <2>2 DEF ConnInv, TokensOwn, Vouched
  <2>4. EnginesOwn'
    BY <1>2, <2>1 DEF Restart, EnginesOwn
  <2> QED BY <2>1, <2>2, <2>3, <2>4 DEF ConnInv, DeletesDoomed, IdsApart, IdsFresh, ViewsAgree
<1>3. CASE UNCHANGED vars
  <2>1. \A g \in Fibers : Keeps(g)
    BY <1>3 DEF vars, Keeps, Writing, Resolved, Issued, ConnInv, DeletesDoomed
  <2> QED BY <1>3, <2>1, KeepingHolds DEF vars
<1> QED BY <1>2, <1>3

LEMMA StepConn == TypeInv /\ ConnInv /\ [Next]_vars => ConnInv'
<1> SUFFICES ASSUME TypeInv, ConnInv, [Next]_vars PROVE ConnInv'
  OBVIOUS
<1>1. ASSUME NEW f \in Fibers, Step(f) PROVE ConnInv'
  BY <1>1, IssueConn, PutConn, ReadConn, OpenConn, FillConn, DropConn, ResolveConn,
     ReconnectConn, OtherConn DEF Step
<1> QED BY <1>1, OtherConn, RestartConn DEF Next

LEMMA ConnAlways == Spec => []ConnInv
<1>1. TypeInv /\ ConnInv /\ [Next]_vars => TypeInv' /\ ConnInv'
  BY StepTypes, StepConn
<1> QED BY InitTypes, InitConn, <1>1, PTL DEF Spec

(* Whatever overlaps, is interrupted or restarts: an operation on a          *)
(* connection that nobody asked to delete runs on that connection's account. *)
THEOREM OwnAccount == Spec => []RunsOwnAccount
<1>1. ConnInv => RunsOwnAccount
  BY DEF ConnInv, EnginesOwn, RunsOwnAccount
<1> QED BY ConnAlways, <1>1, PTL

(* And a connection on file that nobody asked to delete has its own token    *)
(* in the secret store.                                                      *)
THEOREM CanReconnect == Spec => []ListedCanReconnect
<1>1. ConnInv => ListedCanReconnect
  BY DEF ConnInv, TokensOwn, Vouched, ListedCanReconnect
<1> QED BY ConnAlways, <1>1, PTL
-----------------------------------------------------------------------------
(* Connections that were answered stay on file                               *)

(* All connections that were answered and that nobody asked to delete.       *)
Kept(S) == \A r \in answered : r.id \notin doomed => r \in S

(* As long as updates of the file come one after the other, whoever is about *)
(* to write it has read all that is there, and the one who is writing is     *)
(* alone.                                                                    *)
InTurn ==
  /\ \A f \in Fibers : pc[f] = "fill" =>
       file.form = "empty" /\ \A g \in Fibers \ {f} : ~ Writing(g)
  /\ Readable => Kept(file.records)
  /\ \A f \in Fibers : Writing(f) => Kept(text[f])
  /\ \A f \in Fibers : Writing(f) /\ job[f] = "connect" => conn[f] \in text[f]
  /\ \A f \in Fibers : Issued(f) =>
       \A r \in answered : r.id \notin doomed => r.id # conn[f].id

KeptInv == ~ clash => InTurn

(* Nothing that InTurn speaks of is new in what fiber g holds.               *)
Holding(g) ==
  /\ Writing(g)' => Writing(g) /\ text'[g] = text[g] /\ conn'[g] = conn[g]
                    /\ (job'[g] = "connect" => job[g] = "connect")
  /\ pc'[g] = "fill" => pc[g] = "fill"
  /\ Issued(g)' => Issued(g) /\ conn'[g].id = conn[g].id

LEMMA KeptHolds ==
  ASSUME KeptInv, clash => clash', UNCHANGED <<file, answered>>, doomed \subseteq doomed',
         \A g \in Fibers : Holding(g)
  PROVE  KeptInv'
<1> SUFFICES ASSUME ~ clash' PROVE InTurn'
  BY DEF KeptInv
<1>1. InTurn
  BY DEF KeptInv
<1>2. \A f \in Fibers : (pc[f] = "fill")' =>
        (file.form = "empty" /\ \A g \in Fibers \ {f} : ~ Writing(g))'
  BY <1>1 DEF InTurn, Holding
<1>3. (Readable => Kept(file.records))'
  BY <1>1 DEF InTurn, Kept, Readable
<1>4. \A f \in Fibers : (Writing(f) => Kept(text[f]))'
  BY <1>1 DEF InTurn, Kept, Holding
<1>5. \A f \in Fibers : (Writing(f) /\ job[f] = "connect" => conn[f] \in text[f])'
  BY <1>1 DEF InTurn, Holding
<1>6. \A f \in Fibers : (Issued(f) => \A r \in answered : r.id \notin doomed => r.id # conn[f].id)'
  BY <1>1 DEF InTurn, Holding
<1> QED BY <1>2, <1>3, <1>4, <1>5, <1>6 DEF InTurn

(* A new id is not that of a connection on file, and so of none that was     *)
(* answered.                                                                 *)
LEMMA IssueKept ==
  ASSUME TypeInv, KeptInv, NEW f \in Fibers, Issue(f)
  PROVE  KeptInv'
<1> SUFFICES ASSUME ~ clash' PROVE InTurn'
  BY DEF KeptInv
<1> USE DEF disk, memory, request, bounds, ghosts, Goto
<1>1. InTurn /\ Readable
  BY DEF KeptInv, Issue
<1>2. PICK i \in Ids : /\ ~ HasId(file.records, i)
                       /\ conn' = [conn EXCEPT ![f].id = i]
  BY DEF Issue, IsNextId, HasId
<1>3. /\ UNCHANGED <<file, answered, doomed, job, text>>
      /\ pc' = [pc EXCEPT ![f] = "probe"]
  BY DEF Issue
<1>4. /\ pc'[f] = "probe" /\ conn'[f].id = i
      /\ \A g \in Fibers \ {f} : pc'[g] = pc[g] /\ conn'[g] = conn[g]
  BY <1>2, <1>3 DEF TypeInv, TypeOK, Connection
<1>5. \A g \in Fibers : Writing(g)' => Writing(g) /\ g # f
  BY <1>4 DEF Writing
<1>6. \A r \in answered : r.id \notin doomed => r.id # i
  BY <1>1, <1>2 DEF InTurn, Kept, HasId
<1>7. \A g \in Fibers : (Issued(g) => \A r \in answered : r.id \notin doomed => r.id # conn[g].id)'
  BY <1>1, <1>3, <1>4, <1>6 DEF InTurn, Issued
<1>8. \A g \in Fibers : (pc[g] = "fill")' =>
        (file.form = "empty" /\ \A h \in Fibers \ {g} : ~ Writing(h))'
  BY <1>1, <1>3, <1>4, <1>5 DEF InTurn
<1>9. \A g \in Fibers : (Writing(g) => Kept(text[g]))'
  BY <1>1, <1>3, <1>5 DEF InTurn, Kept
<1>10. \A g \in Fibers : (Writing(g) /\ job[g] = "connect" => conn[g] \in text[g])'
  BY <1>1, <1>3, <1>4, <1>5 DEF InTurn
<1>11. (Readable => Kept(file.records))'
  BY <1>1, <1>3 DEF InTurn, Kept, Readable
<1> QED BY <1>7, <1>8, <1>9, <1>10, <1>11 DEF InTurn

(* What is read is whole, and only the request's own record is changed.      *)
LEMMA ReadKept ==
  ASSUME TypeInv, ConnInv, KeptInv, NEW f \in Fibers, ReadFile(f)
  PROVE  KeptInv'
<1> SUFFICES ASSUME ~ clash' PROVE InTurn'
  BY DEF KeptInv
<1> USE DEF disk, memory, request, bounds, ghosts, Goto
<1>1. InTurn /\ Readable /\ pc[f] = "read"
  BY DEF KeptInv, ReadFile
<1>2. /\ UNCHANGED <<file, answered, doomed, job, conn>>
      /\ pc' = [pc EXCEPT ![f] = "open"]
      /\ text' = [text EXCEPT ![f] = Changed(f, file.records)]
  BY DEF ReadFile
<1>3. /\ pc'[f] = "open" /\ text'[f] = Changed(f, file.records)
      /\ \A g \in Fibers \ {f} : pc'[g] = pc[g] /\ text'[g] = text[g]
  BY <1>2 DEF TypeInv, TypeOK
<1>4. \A g \in Fibers : pc[g] # "fill"
  BY <1>1 DEF InTurn, Readable
<1>5. job[f] = "connect" \/ job[f] = "delete"
  BY <1>1 DEF TypeInv, TypeOK, RequestsOK, RequestOK, Operating
<1>6. \A r \in answered : r.id \notin doomed => r.id # conn[f].id
  BY <1>1, <1>5 DEF InTurn, Issued, ConnInv, DeletesDoomed
<1>7. Kept(Changed(f, file.records)) /\ (job[f] = "connect" => conn[f] \in Changed(f, file.records))
  BY <1>1, <1>6 DEF Changed, Kept, InTurn
<1>8. \A g \in Fibers : (pc[g] = "fill")' =>
        (file.form = "empty" /\ \A h \in Fibers \ {g} : ~ Writing(h))'
  BY <1>3, <1>4
<1>9. \A g \in Fibers : (Writing(g) => Kept(text[g]))'
  BY <1>1, <1>2, <1>3, <1>7 DEF InTurn, Kept, Writing
<1>10. \A g \in Fibers : (Writing(g) /\ job[g] = "connect" => conn[g] \in text[g])'
  BY <1>1, <1>2, <1>3, <1>7 DEF InTurn, Writing
<1>11. (Readable => Kept(file.records))'
  BY <1>1, <1>2 DEF InTurn, Kept, Readable
<1>12. \A g \in Fibers : (Issued(g) => \A r \in answered : r.id \notin doomed => r.id # conn[g].id)'
  BY <1>1, <1>2, <1>3 DEF InTurn, Issued
<1> QED BY <1>8, <1>9, <1>10, <1>11, <1>12 DEF InTurn

LEMMA OpenKept ==
  ASSUME TypeInv, KeptInv, NEW f \in Fibers, OpenFile(f)
  PROVE  KeptInv'
<1> SUFFICES ASSUME ~ clash' PROVE InTurn'
  BY DEF KeptInv
<1> USE DEF disk, memory, request, bounds, ghosts, Goto
<1>1. ~ clash /\ \A g \in Fibers \ {f} : ~ Writing(g)
  BY DEF OpenFile, Writing
<1>2. InTurn /\ Writing(f) /\ pc[f] = "open"
  BY <1>1 DEF KeptInv, OpenFile, Writing
<1>3. /\ file'.form = "empty" /\ UNCHANGED <<answered, doomed, job, conn, text>>
      /\ pc'[f] = "fill" /\ \A g \in Fibers \ {f} : pc'[g] = pc[g]
  BY DEF OpenFile, Contents, TypeInv, TypeOK
<1>4. \A g \in Fibers : Writing(g)' => g = f
  BY <1>1, <1>3 DEF Writing
<1>5. \A g \in Fibers : (pc[g] = "fill")' =>
        (file.form = "empty" /\ \A h \in Fibers \ {g} : ~ Writing(h))'
  BY <1>3, <1>4 DEF Writing
<1>6. \A g \in Fibers : (Writing(g) => Kept(text[g]))'
  BY <1>2, <1>3, <1>4 DEF InTurn, Kept
<1>7. \A g \in Fibers : (Writing(g) /\ job[g] = "connect" => conn[g] \in text[g])'
  BY <1>2, <1>3, <1>4 DEF InTurn
<1>8. (Readable => Kept(file.records))'
  BY <1>3 DEF Readable
<1>9. \A g \in Fibers : (Issued(g) => \A r \in answered : r.id \notin doomed => r.id # conn[g].id)'
  BY <1>2, <1>3 DEF InTurn, Issued
<1> QED BY <1>5, <1>6, <1>7, <1>8, <1>9 DEF InTurn

(* Alone, the writer replaces the file by what it read and changed.          *)
LEMMA FillKept ==
  ASSUME TypeInv, ConnInv, KeptInv, NEW f \in Fibers, FillFile(f)
  PROVE  KeptInv'
<1> SUFFICES ASSUME ~ clash' PROVE InTurn'
  BY DEF KeptInv
<1> USE DEF disk, memory, request, bounds, ghosts, Goto
<1>1. InTurn /\ pc[f] = "fill" /\ Writing(f)
  BY DEF KeptInv, FillFile, Writing
<1>2. file.form = "empty" /\ \A g \in Fibers \ {f} : ~ Writing(g)
  BY <1>1 DEF InTurn
<1>3. file'.form = "whole" /\ file'.records = text[f]
  BY <1>2 DEF FillFile, Contents
<1>4. /\ doomed' = doomed /\ answered' \subseteq answered \cup {conn[f]}
      /\ answered' = answered \/ (job[f] = "connect" /\ Issued(f))
      /\ job[f] # "delete" => pc'[f] = "idle" /\ job'[f] = "none"
      /\ job[f] = "delete" => pc'[f] = "secret" /\ job' = job
      /\ \A g \in Fibers \ {f} : pc'[g] = pc[g] /\ job'[g] = job[g] /\ conn'[g] = conn[g]
  BY <1>1 DEF FillFile, Leave, TypeInv, TypeOK, Issued
<1>5. \A g \in Fibers : ~ Writing(g)'
  BY <1>2, <1>4 DEF Writing
<1>6. \A g \in Fibers : (Issued(g) => \A r \in answered : r.id \notin doomed => r.id # conn[g].id)'
  <2> SUFFICES ASSUME NEW g \in Fibers, Issued(g)',
                      NEW r \in answered', r.id \notin doomed
               PROVE  r.id # conn'[g].id
    BY <1>4
  <2>1. g # f /\ Issued(g) /\ conn'[g] = conn[g]
    BY <1>4 DEF Issued
  <2>2. CASE r \in answered
    BY <1>1, <2>1, <2>2 DEF InTurn
  <2>3. CASE r \notin answered
    BY <1>4, <2>1, <2>3 DEF ConnInv, IdsApart
  <2> QED BY <2>2, <2>3
<1>7. \A g \in Fibers : pc'[g] # "fill"
  BY <1>5 DEF Writing
<1>8. (Readable => Kept(file.records))'
  <2>1. Kept(text[f]) /\ (job[f] = "connect" => conn[f] \in text[f])
    BY <1>1 DEF InTurn
  <2> QED BY <1>3, <1>4, <2>1 DEF Kept
<1> QED BY <1>5, <1>6, <1>7, <1>8 DEF InTurn

LEMMA OtherKept ==
  ASSUME TypeInv, KeptInv, NEW f \in Fibers,
         \/ Request(f) \/ Probe(f) \/ Put(f) \/ DropSecret(f) \/ \E r \in Record : Resolve(f, r)
         \/ Token(f) \/ Reconnect(f) \/ Fail(f) \/ Die(f) \/ Interrupt(f)
         \/ \E s \in {"succeeded", "aborted"} : Finish(f, s)
  PROVE  KeptInv'
<1> USE DEF disk, memory, request, bounds, ghosts, Goto
<1>1. (clash => clash') /\ UNCHANGED <<file, answered>> /\ doomed \subseteq doomed'
  <2>1. UNCHANGED <<file, answered>> /\ doomed \subseteq doomed'
    BY DEF Request, Connect, Delete, Operate, Probe, Put, DropSecret, Resolve, Token, Reconnect,
           Fail, Die, Interrupt, Finish, Accept
  <2>2. CASE Fail(f)
    BY <2>1, <2>2 DEF Fail
  <2>3. CASE ~ Fail(f)
    BY <2>1, <2>3 DEF Request, Connect, Delete, Operate, Probe, Put, DropSecret, Resolve, Token,
                      Reconnect, Die, Interrupt, Finish, Accept
  <2> QED BY <2>2, <2>3
<1>2. \A g \in Fibers \ {f} : /\ pc'[g] = pc[g] /\ job'[g] = job[g] /\ conn'[g] = conn[g]
                              /\ text'[g] = text[g]
  <2>1. CASE Request(f)
    BY <2>1 DEF Request, Connect, Delete, Operate, Accept, TypeInv, TypeOK
  <2>2. CASE Probe(f) \/ Put(f) \/ Token(f) \/ Reconnect(f)
    BY <2>2 DEF Probe, Put, Token, Reconnect, TypeInv, TypeOK
  <2>3. CASE Leave(f)
    BY <2>3 DEF Leave, TypeInv, TypeOK
  <2>4. CASE Interrupt(f) /\ ~ Leave(f)
    BY <2>4 DEF Interrupt, TypeInv, TypeOK
  <2>5. CASE \E r \in Record : Resolve(f, r)
    BY <2>5 DEF Resolve, TypeInv, TypeOK
  <2> QED BY <2>1, <2>2, <2>3, <2>4, <2>5 DEF Fail, Die, Finish, DropSecret
<1>3. \A g \in Fibers \ {f} : Holding(g)
  BY <1>2 DEF Holding, Writing, Issued
<1>4. Holding(f)
  <2> USE DEF TypeInv, TypeOK, Holding, Writing, Issued
  <2>1. CASE \E a \in Accounts : Connect(f, a)
    BY <2>1 DEF Connect, Accept
  <2>2. CASE \E i \in Seen : Delete(f, i)
    BY <2>2 DEF Delete, Accept
  <2>3. CASE \E i \in Seen \cup {AnyId} : Operate(f, i)
    BY <2>3 DEF Operate, Accept
  <2>4. CASE Probe(f) \/ Put(f) \/ Token(f) \/ Reconnect(f)
    BY <2>4 DEF Probe, Put, Token, Reconnect
  <2>5. CASE Leave(f)
    BY <2>5 DEF Leave
  <2>6. CASE Interrupt(f) /\ ~ Leave(f)
    BY <2>6 DEF Interrupt
  <2>7. CASE \E r \in Record : Resolve(f, r)
    BY <2>7 DEF Resolve, RequestsOK, RequestOK
  <2> QED BY <2>1, <2>2, <2>3, <2>4, <2>5, <2>6, <2>7 DEF Request, Fail, Die, Finish, DropSecret
<1> QED BY <1>1, <1>3, <1>4, KeptHolds

LEMMA StepKept == TypeInv /\ ConnInv /\ KeptInv /\ [Next]_vars => KeptInv'
<1> SUFFICES ASSUME TypeInv, ConnInv, KeptInv, [Next]_vars PROVE KeptInv'
  OBVIOUS
<1>1. CASE Restart
  <2>1. \A g \in Fibers : Holding(g)
    BY <1>1 DEF Restart, Holding, Writing, Issued
  <2> QED BY <1>1, <2>1, KeptHolds DEF Restart, disk
<1>2. CASE UNCHANGED vars
  <2>1. \A g \in Fibers : Holding(g)
    BY <1>2 DEF vars, request, Holding, Writing, Issued
  <2> QED BY <1>2, <2>1, KeptHolds DEF vars, disk, ghosts
<1>3. ASSUME NEW f \in Fibers, Step(f) PROVE KeptInv'
  BY <1>3, IssueKept, ReadKept, OpenKept, FillKept, OtherKept DEF Step
<1> QED BY <1>1, <1>2, <1>3, OtherKept DEF Next

(* A connection that connect answered with stays on file until somebody asks *)
(* to delete it, through any number of restarts and other updates, as long   *)
(* as updates of the file come one after the other.                          *)
THEOREM AnswersLast == Spec => []AnsweredKept
<1>1. Init => KeptInv
  BY DEF Init, KeptInv, InTurn, Kept, Writing, Issued
<1>2. KeptInv => AnsweredKept
  BY DEF KeptInv, InTurn, Kept, AnsweredKept
<1>3. /\ Init => TypeInv /\ ConnInv /\ KeptInv
      /\ TypeInv /\ ConnInv /\ KeptInv /\ [Next]_vars => TypeInv' /\ ConnInv' /\ KeptInv'
  BY <1>1, InitTypes, InitConn, StepTypes, StepConn, StepKept
<1> QED BY <1>2, <1>3, PTL DEF Spec

-----------------------------------------------------------------------------
(* Deleted connections stay unused                                           *)

(* A deleted id has no token, and no engine either unless an operation was   *)
(* connecting when it was dropped.                                           *)
DroppedInv ==
  /\ \A i \in gone : secrets[i] = NoAccount
  /\ \A i \in gone \ revived :
       engines[i] = NoAccount /\ \A g \in Fibers : pc[g] = "reconnect" => conn[g].id # i
  /\ \A g \in Fibers :
       /\ known[g] \subseteq gone
       /\ pc[g] = "running" /\ conn[g].id \in known[g] => conn[g].id \in revived

(* Nothing that DroppedInv speaks of is new in what fiber g holds.           *)
Settled(g) ==
  /\ known'[g] \in {{}, known[g], gone}
  /\ pc'[g] = "reconnect" => pc[g] = "reconnect" /\ conn'[g] = conn[g]
  /\ pc'[g] = "running" => pc[g] = "running" /\ conn'[g] = conn[g] /\ known'[g] = known[g]

LEMMA SettledHolds ==
  ASSUME DroppedInv, UNCHANGED <<secrets, engines, gone, revived>>,
         \A g \in Fibers : Settled(g)
  PROVE  DroppedInv'
<1>1. \A i \in gone' \ revived' :
        engines'[i] = NoAccount /\ \A g \in Fibers : pc'[g] = "reconnect" => conn'[g].id # i
  BY DEF DroppedInv, Settled
<1>2. \A g \in Fibers :
        /\ known'[g] \subseteq gone'
        /\ pc'[g] = "running" /\ conn'[g].id \in known'[g] => conn'[g].id \in revived'
  BY DEF DroppedInv, Settled
<1> QED BY <1>1, <1>2 DEF DroppedInv

(* connect takes an id anew.                                                 *)
LEMMA PutDropped ==
  ASSUME TypeInv, DroppedInv, NEW f \in Fibers, Put(f)
  PROVE  DroppedInv'
<1> USE DEF disk, memory, request, bounds, ghosts, Goto
<1> DEFINE i == conn[f].id
<1>1. /\ conn' = conn /\ pc' = [pc EXCEPT ![f] = "read"]
      /\ gone' = gone \ {i} /\ revived' = revived \ {i}
      /\ \A g \in Fibers : known'[g] = known[g] \ {i}
  BY DEF Put, Reused
<1>2. \A g \in Fibers : pc'[g] \in {"reconnect", "running"} => pc'[g] = pc[g]
  BY <1>1 DEF TypeInv, TypeOK
<1>3. \A j \in Ids \ {i} : secrets'[j] = secrets[j] /\ engines'[j] = engines[j]
  BY DEF Put, TypeInv, TypeOK
<1>4. gone \subseteq Ids
  BY DEF TypeInv, TypeOK
<1> HIDE DEF i
<1>5. \A j \in gone' : secrets'[j] = NoAccount
  BY <1>1, <1>3, <1>4 DEF DroppedInv
<1>6. \A j \in gone' \ revived' :
        engines'[j] = NoAccount /\ \A g \in Fibers : pc'[g] = "reconnect" => conn'[g].id # j
  BY <1>1, <1>2, <1>3, <1>4 DEF DroppedInv
<1>7. \A g \in Fibers :
        /\ known'[g] \subseteq gone'
        /\ pc'[g] = "running" /\ conn'[g].id \in known'[g] => conn'[g].id \in revived'
  BY <1>1, <1>2 DEF DroppedInv
<1> QED BY <1>5, <1>6, <1>7 DEF DroppedInv

(* A deletion drops the token and the engine; a fiber that is connecting has *)
(* the token already.                                                        *)
LEMMA DropDropped ==
  ASSUME TypeInv, DroppedInv, NEW f \in Fibers, DropSecret(f)
  PROVE  DroppedInv'
<1> USE DEF disk, memory, request, bounds, ghosts, Goto
<1> DEFINE i == conn[f].id
<1>1. /\ gone' = gone \cup {i} /\ revived \subseteq revived' /\ revived' \subseteq revived \cup {i}
      /\ (\E g \in Fibers : pc[g] = "reconnect" /\ conn[g].id = i) => i \in revived'
  BY DEF DropSecret, Dropped
<1>2. /\ pc'[f] = "idle" /\ known'[f] = {}
      /\ \A g \in Fibers \ {f} : pc'[g] = pc[g] /\ conn'[g] = conn[g] /\ known'[g] = known[g]
  BY DEF DropSecret, Leave, TypeInv, TypeOK
<1>3. i \in Ids /\ gone \subseteq Ids
  BY DEF DropSecret, TypeInv, TypeOK, RequestsOK, RequestOK, Operating
<1>4. /\ secrets'[i] = NoAccount /\ engines'[i] = NoAccount
      /\ \A j \in Ids \ {i} : secrets'[j] = secrets[j] /\ engines'[j] = engines[j]
  BY <1>3 DEF DropSecret, TypeInv, TypeOK
<1> HIDE DEF i
<1>5. \A j \in gone' : secrets'[j] = NoAccount
  BY <1>1, <1>3, <1>4 DEF DroppedInv
<1>6. ASSUME NEW j \in gone', j \notin revived'
      PROVE  engines'[j] = NoAccount /\ \A g \in Fibers : pc'[g] = "reconnect" => conn'[g].id # j
  <2>1. CASE j = i
    BY <1>1, <1>2, <1>4, <1>6, <2>1
  <2>2. CASE j # i
    <3>1. j \in gone \ revived /\ j \in Ids
      BY <1>1, <1>3, <1>6, <2>2
    <3> QED BY <1>2, <1>4, <2>2, <3>1 DEF DroppedInv
  <2> QED BY <2>1, <2>2
<1>7. \A g \in Fibers :
        /\ known'[g] \subseteq gone'
        /\ pc'[g] = "running" /\ conn'[g].id \in known'[g] => conn'[g].id \in revived'
  BY <1>1, <1>2 DEF DroppedInv
<1> QED BY <1>5, <1>6, <1>7 DEF DroppedInv

(* An operation finds neither an engine nor a token of a deleted id.         *)
LEMMA ResolveDropped ==
  ASSUME TypeInv, DroppedInv, NEW f \in Fibers,
         (\E r \in Record : Resolve(f, r)) \/ Token(f) \/ Reconnect(f)
  PROVE  DroppedInv'
<1> USE DEF disk, memory, request, bounds, ghosts, Goto
<1>1. /\ UNCHANGED <<secrets, gone, revived, known>>
      /\ \A g \in Fibers \ {f} : pc'[g] = pc[g] /\ conn'[g] = conn[g]
  BY DEF Resolve, Token, Reconnect, TypeInv, TypeOK
<1>2. \A g \in Fibers : known'[g] \subseteq gone'
  BY <1>1 DEF DroppedInv
<1>3. \A i \in gone' : secrets'[i] = NoAccount
  BY <1>1 DEF DroppedInv
<1>4. ASSUME NEW r \in Record, Resolve(f, r) PROVE DroppedInv'
  <2>1. /\ conn'[f] = r /\ UNCHANGED engines /\ pc'[f] \in {"token", "running"}
        /\ pc'[f] = "running" => engines[r.id] # NoAccount
    BY <1>4 DEF Resolve, TypeInv, TypeOK
  <2>2. pc'[f] = "running" /\ conn'[f].id \in known'[f] => conn'[f].id \in revived'
    BY <1>1, <2>1 DEF DroppedInv
  <2>3. \A g \in Fibers : pc'[g] = "running" /\ conn'[g].id \in known'[g] => conn'[g].id \in revived'
    BY <1>1, <2>2 DEF DroppedInv
  <2>4. \A i \in gone' \ revived' :
          engines'[i] = NoAccount /\ \A g \in Fibers : pc'[g] = "reconnect" => conn'[g].id # i
    BY <1>1, <2>1 DEF DroppedInv
  <2> QED BY <1>2, <1>3, <2>3, <2>4 DEF DroppedInv
<1>5. CASE Token(f)
  <2>1. /\ conn'[f] = conn[f] /\ UNCHANGED engines /\ pc'[f] = "reconnect"
        /\ secrets[conn[f].id] # NoAccount
    BY <1>5 DEF Token, TypeInv, TypeOK
  <2>2. conn[f].id \notin gone
    BY <2>1 DEF DroppedInv
  <2>3. \A g \in Fibers : pc'[g] = "running" /\ conn'[g].id \in known'[g] => conn'[g].id \in revived'
    BY <1>1, <2>1 DEF DroppedInv
  <2>4. \A i \in gone' \ revived' :
          engines'[i] = NoAccount /\ \A g \in Fibers : pc'[g] = "reconnect" => conn'[g].id # i
    BY <1>1, <2>1, <2>2 DEF DroppedInv
  <2> QED BY <1>2, <1>3, <2>3, <2>4 DEF DroppedInv
<1>6. CASE Reconnect(f)
  <2>1. /\ conn'[f] = conn[f] /\ pc[f] = "reconnect" /\ pc'[f] = "running"
        /\ engines' = [engines EXCEPT ![conn[f].id] = using[f]]
    BY <1>6 DEF Reconnect, TypeInv, TypeOK
  <2>2. conn[f].id \notin gone \ revived
    BY <2>1 DEF DroppedInv
  <2>3. \A i \in gone \ revived : i \in Ids /\ engines'[i] = engines[i]
    BY <2>1, <2>2 DEF TypeInv, TypeOK
  <2>4. \A g \in Fibers : pc'[g] = "running" /\ conn'[g].id \in known'[g] => conn'[g].id \in revived'
    BY <1>1, <1>2, <2>1, <2>2 DEF DroppedInv
  <2>5. \A i \in gone' \ revived' :
          engines'[i] = NoAccount /\ \A g \in Fibers : pc'[g] = "reconnect" => conn'[g].id # i
    BY <1>1, <2>1, <2>3 DEF DroppedInv
  <2> QED BY <1>2, <1>3, <2>4, <2>5 DEF DroppedInv
<1> QED BY <1>4, <1>5, <1>6

LEMMA OtherDropped ==
  ASSUME TypeInv, DroppedInv, NEW f \in Fibers,
         \/ Request(f) \/ Issue(f) \/ Probe(f) \/ ReadFile(f) \/ OpenFile(f) \/ FillFile(f)
         \/ Fail(f) \/ Die(f) \/ Interrupt(f)
         \/ \E s \in {"succeeded", "aborted"} : Finish(f, s)
  PROVE  DroppedInv'
<1> USE DEF disk, memory, request, bounds, ghosts, Goto
<1>1. UNCHANGED <<secrets, engines, gone, revived>>
  BY DEF Request, Connect, Delete, Operate, Issue, Probe, ReadFile, OpenFile, FillFile, Leave,
         Fail, Die, Interrupt, Finish, Accept
<1>2. \A g \in Fibers : Settled(g)
  <2> USE DEF TypeInv, TypeOK, Settled
  <2>1. CASE Request(f)
    BY <2>1 DEF Request, Connect, Delete, Operate, Accept
  <2>2. CASE Issue(f)
    BY <2>2 DEF Issue
  <2>3. CASE Leave(f)
    BY <2>3 DEF Leave
  <2>4. CASE UNCHANGED <<conn, known>> /\ \E p \in {"put", "open", "fill", "secret", pc[f]} : Goto(f, p)
    BY <2>4
  <2>5. Probe(f) \/ ReadFile(f) \/ OpenFile(f) \/ FillFile(f) \/ Interrupt(f) =>
          \/ Leave(f)
          \/ UNCHANGED <<conn, known>> /\ \E p \in {"put", "open", "fill", "secret", pc[f]} : Goto(f, p)
    BY DEF Probe, ReadFile, OpenFile, FillFile, Interrupt
  <2> QED BY <2>1, <2>2, <2>3, <2>4, <2>5 DEF Fail, Die, Finish
<1> QED BY <1>1, <1>2, SettledHolds

LEMMA StepDropped == TypeInv /\ DroppedInv /\ [Next]_vars => DroppedInv'
<1> SUFFICES ASSUME TypeInv, DroppedInv, [Next]_vars PROVE DroppedInv'
  OBVIOUS
<1>1. CASE Restart
  <2>1. /\ \A i \in Ids : engines'[i] = NoAccount /\ secrets'[i] = secrets[i]
        /\ \A g \in Fibers : pc'[g] = "idle" /\ known'[g] = {}
        /\ gone' = gone /\ gone \subseteq Ids
    BY <1>1 DEF Restart, disk, TypeInv, TypeOK
  <2> QED BY <2>1 DEF DroppedInv
<1>2. CASE UNCHANGED vars
  <2>1. \A g \in Fibers : Settled(g)
    BY <1>2 DEF vars, request, ghosts, Settled
  <2> QED BY <1>2, <2>1, SettledHolds DEF vars, disk, memory, ghosts
<1>3. ASSUME NEW f \in Fibers, Step(f) PROVE DroppedInv'
  BY <1>3, PutDropped, DropDropped, ResolveDropped, OtherDropped DEF Step
<1> QED BY <1>1, <1>2, <1>3, OtherDropped DEF Next

-----------------------------------------------------------------------------
(* A process that was never restarted                                        *)

(* An id that somebody may come upon: it was issued and its token stored.    *)
Met(i) ==
  \/ i \in doomed \/ HasId(answered, i) \/ HasId(file.records, i)
  \/ \E g \in Fibers : Writing(g) /\ HasId(text[g], i)
  \/ \E g \in Fibers : pc[g] = "token" /\ conn[g].id = i

(* It has an engine for every token, so it never makes one again, and what   *)
(* it deleted is not revived.                                                *)
FirstProcess ==
  /\ \A i \in Ids : Met(i) =>
       /\ i <= counter
       /\ \A f \in Fibers : pc[f] \in {"probe", "put"} => conn[f].id # i
  /\ \A i \in Ids : engines[i] = NoAccount => secrets[i] = NoAccount
  /\ \A f \in Fibers :
       /\ pc[f] # "reconnect"
       /\ pc[f] = "token" => secrets[conn[f].id] = NoAccount
  /\ revived = {}

FirstInv == restarts = 0 => FirstProcess

(* Nothing that FirstProcess speaks of is new in what fiber g holds.         *)
Staying(g) ==
  /\ pc'[g] \in {"probe", "put"} => pc[g] \in {"probe", "put"} /\ conn'[g].id = conn[g].id
  /\ pc'[g] = "reconnect" => pc[g] = "reconnect"
  /\ pc'[g] = "token" => pc[g] = "token" /\ conn'[g] = conn[g]

LEMMA FirstStays ==
  ASSUME FirstInv, UNCHANGED <<restarts, counter, secrets, engines, revived>>,
         \A i \in Ids : Met(i)' => Met(i),
         \A g \in Fibers : Staying(g)
  PROVE  FirstInv'
<1> SUFFICES ASSUME restarts = 0 PROVE FirstProcess'
  BY DEF FirstInv
<1>1. FirstProcess
  BY DEF FirstInv
<1>2. (\A i \in Ids : Met(i) =>
         i <= counter /\ \A f \in Fibers : pc[f] \in {"probe", "put"} => conn[f].id # i)'
  <2> SUFFICES ASSUME NEW i \in Ids, Met(i)'
               PROVE  i <= counter' /\ \A f \in Fibers : pc'[f] \in {"probe", "put"} => conn'[f].id # i
    OBVIOUS
  <2>1. i <= counter /\ \A f \in Fibers : pc[f] \in {"probe", "put"} => conn[f].id # i
    BY <1>1 DEF FirstProcess
  <2> QED BY <2>1 DEF Staying
<1>3. \A g \in Fibers : /\ pc'[g] # "reconnect"
                        /\ pc'[g] = "token" => secrets'[conn'[g].id] = NoAccount
  BY <1>1 DEF FirstProcess, Staying
<1>4. \A i \in Ids : engines'[i] = NoAccount => secrets'[i] = NoAccount
  BY <1>1 DEF FirstProcess
<1> QED BY <1>1, <1>2, <1>3, <1>4 DEF FirstProcess

LEMMA IssueFirst ==
  ASSUME TypeInv, ConnInv, FirstInv, NEW f \in Fibers, Issue(f)
  PROVE  FirstInv'
<1> USE DEF disk, memory, request, bounds, ghosts, Goto
<1>1. PICK i \in Ids : /\ i > counter /\ counter' = i /\ conn' = [conn EXCEPT ![f].id = i]
  BY DEF Issue, IsNextId
<1>2. /\ UNCHANGED <<file, secrets, engines, job, text, doomed, revived, answered, restarts>>
      /\ pc' = [pc EXCEPT ![f] = "probe"]
  BY DEF Issue
<1>3. /\ pc'[f] = "probe" /\ conn'[f].id = i
      /\ \A g \in Fibers \ {f} : pc'[g] = pc[g] /\ conn'[g] = conn[g]
  BY <1>1, <1>2 DEF TypeInv, TypeOK, Connection
<1> SUFFICES ASSUME restarts = 0 PROVE FirstProcess'
  BY <1>2 DEF FirstInv
<1>4. FirstProcess
  BY DEF FirstInv
<1>5. \A j \in Ids : Met(j)' => Met(j)
  BY <1>2, <1>3 DEF Met, Writing
<1>6. counter \in Nat /\ Ids \subseteq Nat
  BY ConstantsOK DEF TypeInv, TypeOK, Ids
<1>7. (\A j \in Ids : Met(j) =>
         j <= counter /\ \A g \in Fibers : pc[g] \in {"probe", "put"} => conn[g].id # j)'
  <2> SUFFICES ASSUME NEW j \in Ids, Met(j)'
               PROVE  j <= counter' /\ \A g \in Fibers : pc'[g] \in {"probe", "put"} => conn'[g].id # j
    OBVIOUS
  <2>1. j <= counter /\ \A g \in Fibers : pc[g] \in {"probe", "put"} => conn[g].id # j
    BY <1>4, <1>5 DEF FirstProcess
  <2>2. j < i /\ j <= counter'
    BY <1>1, <1>6, <2>1
  <2> QED BY <1>3, <1>6, <2>1, <2>2
<1> QED BY <1>2, <1>3, <1>4, <1>7 DEF FirstProcess

(* Nobody has come upon the id whose token Put stores.                       *)
LEMMA PutFirst ==
  ASSUME TypeInv, ConnInv, FirstInv, NEW f \in Fibers, Put(f)
  PROVE  FirstInv'
<1> USE DEF disk, memory, request, bounds, ghosts, Goto
<1> DEFINE i == conn[f].id
<1>1. /\ UNCHANGED <<file, counter, conn, text, doomed, answered, restarts>>
      /\ pc[f] = "put" /\ pc' = [pc EXCEPT ![f] = "read"]
      /\ revived' \subseteq revived
  BY DEF Put, Reused
<1>2. Issued(f) /\ conn[f] \in Record /\ i \in Ids /\ conn[f].account # NoAccount
  BY <1>1, Holders, ConstantsOK DEF Record
<1>3. pc'[f] = "read" /\ \A g \in Fibers \ {f} : pc'[g] = pc[g]
  BY <1>1 DEF TypeInv, TypeOK
<1>4. /\ engines'[i] # NoAccount
      /\ \A j \in Ids \ {i} : secrets'[j] = secrets[j] /\ engines'[j] = engines[j]
  BY <1>2 DEF Put, TypeInv, TypeOK
<1> SUFFICES ASSUME restarts = 0 PROVE FirstProcess'
  BY <1>1 DEF FirstInv
<1>5. FirstProcess /\ ~ Met(i)
  BY <1>1, <1>2 DEF FirstInv, FirstProcess
<1>6. \A j \in Ids : Met(j)' => Met(j)
  BY <1>1, <1>3 DEF Met, Writing
<1>7. \A g \in Fibers : pc[g] = "token" => conn[g].id \in Ids \ {i}
  BY <1>5, Holders DEF Met, Resolved, Record
<1>8. (\A j \in Ids : Met(j) =>
         j <= counter /\ \A g \in Fibers : pc[g] \in {"probe", "put"} => conn[g].id # j)'
  BY <1>1, <1>3, <1>5, <1>6 DEF FirstProcess
<1>9. \A j \in Ids : engines'[j] = NoAccount => secrets'[j] = NoAccount
  BY <1>4, <1>5 DEF FirstProcess
<1>10. \A g \in Fibers : /\ pc'[g] # "reconnect"
                         /\ pc'[g] = "token" => secrets'[conn'[g].id] = NoAccount
  BY <1>1, <1>3, <1>4, <1>5, <1>7 DEF FirstProcess
<1>11. revived' = {}
  BY <1>1, <1>5 DEF FirstProcess
<1> HIDE DEF i
<1> QED BY <1>8, <1>9, <1>10, <1>11 DEF FirstProcess

(* A file's update brings no id but those that were there and its own.       *)
LEMMA WriteFirst ==
  ASSUME TypeInv, ConnInv, FirstInv, NEW f \in Fibers, ReadFile(f) \/ OpenFile(f) \/ FillFile(f)
  PROVE  FirstInv'
<1> USE DEF disk, memory, request, bounds, ghosts, Goto
<1>1. /\ UNCHANGED <<counter, secrets, engines, doomed, revived, restarts>>
      /\ pc[f] \in {"read", "open", "fill"}
      /\ pc'[f] \in {"open", "fill", "secret", "idle"}
      /\ \A g \in Fibers \ {f} : pc'[g] = pc[g] /\ conn'[g] = conn[g] /\ text'[g] = text[g]
  BY DEF ReadFile, OpenFile, FillFile, Leave, TypeInv, TypeOK
<1> SUFFICES ASSUME restarts = 0 PROVE FirstProcess'
  BY <1>1 DEF FirstInv
<1>2. FirstProcess
  BY DEF FirstInv
<1> DEFINE own(i) == job[f] = "connect" /\ conn[f].id = i
<1>3. \A i \in Ids : Met(i)' => Met(i) \/ own(i)
  <2>1. CASE ReadFile(f)
    <3>1. \A i : HasId(text'[f], i) => HasId(file.records, i) \/ own(i)
      BY <2>1 DEF ReadFile, Changed, HasId, TypeInv, TypeOK
    <3> QED BY <1>1, <2>1, <3>1 DEF ReadFile, Met, Writing
  <2>2. CASE OpenFile(f)
    BY <1>1, <2>2 DEF OpenFile, Met, Writing, Contents, HasId
  <2>3. CASE FillFile(f)
    <3>1. file'.records = text[f] \/ file'.records = {}
      BY <2>3 DEF FillFile, Contents
    <3>2. \A i : HasId(file'.records, i) => HasId(text[f], i)
      BY <3>1 DEF HasId
    <3>3. \A i : HasId(answered', i) => HasId(answered, i) \/ own(i)
      BY <2>3 DEF FillFile, HasId
    <3>4. Writing(f) /\ ~ Writing(f)'
      BY <2>3 DEF FillFile, Leave, Writing, TypeInv, TypeOK
    <3> QED BY <1>1, <3>2, <3>3, <3>4 DEF Met, Writing
  <2> QED BY <2>1, <2>2, <2>3
<1>4. ASSUME NEW i \in Ids, own(i)
      PROVE  i <= counter /\ \A g \in Fibers \ {f} : pc[g] \in {"probe", "put"} => conn[g].id # i
  <2>1. Issued(f)
    BY <1>1, <1>4 DEF Issued
  <2> QED BY <1>4, <2>1, Holders DEF ConnInv, IdsApart
<1> HIDE DEF own
<1>5. (\A i \in Ids : Met(i) =>
         i <= counter /\ \A g \in Fibers : pc[g] \in {"probe", "put"} => conn[g].id # i)'
  <2> SUFFICES ASSUME NEW i \in Ids, Met(i)'
               PROVE  i <= counter /\ \A g \in Fibers : pc'[g] \in {"probe", "put"} => conn'[g].id # i
    BY <1>1
  <2>1. i <= counter /\ \A g \in Fibers \ {f} : pc[g] \in {"probe", "put"} => conn[g].id # i
    BY <1>2, <1>3, <1>4 DEF FirstProcess
  <2> QED BY <1>1, <2>1
<1>6. \A g \in Fibers : /\ pc'[g] # "reconnect"
                        /\ pc'[g] = "token" => secrets'[conn'[g].id] = NoAccount
  BY <1>1, <1>2 DEF FirstProcess
<1> QED BY <1>1, <1>2, <1>5, <1>6 DEF FirstProcess

(* No operation is connecting, so a deletion drops the last of its id.       *)
LEMMA DropFirst ==
  ASSUME TypeInv, ConnInv, FirstInv, NEW f \in Fibers, DropSecret(f)
  PROVE  FirstInv'
<1> USE DEF disk, memory, request, bounds, ghosts, Goto
<1> DEFINE i == conn[f].id
<1>1. /\ UNCHANGED <<file, counter, doomed, answered, restarts>>
      /\ pc[f] = "secret" /\ pc'[f] = "idle"
      /\ \A g \in Fibers \ {f} : pc'[g] = pc[g] /\ conn'[g] = conn[g] /\ text'[g] = text[g]
  BY DEF DropSecret, Leave, TypeInv, TypeOK
<1>2. i \in Ids
  BY <1>1 DEF TypeInv, TypeOK, RequestsOK, RequestOK, Operating
<1>3. /\ secrets'[i] = NoAccount /\ engines'[i] = NoAccount
      /\ \A j \in Ids \ {i} : secrets'[j] = secrets[j] /\ engines'[j] = engines[j]
  BY <1>2 DEF DropSecret, TypeInv, TypeOK
<1> SUFFICES ASSUME restarts = 0 PROVE FirstProcess'
  BY <1>1 DEF FirstInv
<1>4. FirstProcess
  BY DEF FirstInv
<1>5. \A j \in Ids : Met(j)' => Met(j)
  BY <1>1 DEF Met, Writing
<1>6. (\A j \in Ids : Met(j) =>
         j <= counter /\ \A g \in Fibers : pc[g] \in {"probe", "put"} => conn[g].id # j)'
  BY <1>1, <1>4, <1>5 DEF FirstProcess
<1>7. \A j \in Ids : engines'[j] = NoAccount => secrets'[j] = NoAccount
  BY <1>3, <1>4 DEF FirstProcess
<1>8. \A g \in Fibers : pc[g] = "token" => conn[g].id \in Ids
  BY Holders DEF Resolved, Record
<1>9. \A g \in Fibers : /\ pc'[g] # "reconnect"
                        /\ pc'[g] = "token" => secrets'[conn'[g].id] = NoAccount
  BY <1>1, <1>3, <1>4, <1>8 DEF FirstProcess
<1>10. revived' = {}
  BY <1>4 DEF DropSecret, Dropped, FirstProcess
<1> HIDE DEF i
<1> QED BY <1>6, <1>7, <1>9, <1>10 DEF FirstProcess

(* An operation runs on a cached engine, or has no token to make one.        *)
LEMMA ResolveFirst ==
  ASSUME TypeInv, FirstInv, NEW f \in Fibers,
         (\E r \in Record : Resolve(f, r)) \/ Token(f) \/ Reconnect(f)
  PROVE  FirstInv'
<1> USE DEF disk, memory, request, bounds, ghosts, Goto
<1>1. /\ UNCHANGED <<file, secrets, counter, doomed, answered, restarts, revived, text>>
      /\ \A g \in Fibers \ {f} : pc'[g] = pc[g] /\ conn'[g] = conn[g]
  BY DEF Resolve, Token, Reconnect, TypeInv, TypeOK
<1> SUFFICES ASSUME restarts = 0 PROVE FirstProcess'
  BY <1>1 DEF FirstInv
<1>2. FirstProcess
  BY DEF FirstInv
<1>3. ~ Reconnect(f) /\ ~ Token(f)
  BY <1>2 DEF FirstProcess, Reconnect, Token
<1>4. PICK r \in Record : Resolve(f, r)
  BY <1>3
<1>5. /\ r \in file.records /\ r.id \in Ids /\ conn'[f] = r /\ engines' = engines
      /\ pc[f] = "resolve"
      /\ IF engines[r.id] # NoAccount THEN pc'[f] = "running" ELSE pc'[f] = "token"
  BY <1>4 DEF Resolve, Resolves, Record, TypeInv, TypeOK
<1>6. HasId(file.records, r.id)
  BY <1>5 DEF HasId
<1>7. \A i \in Ids : Met(i)' => Met(i)
  BY <1>1, <1>5, <1>6 DEF Met, Writing
<1>8. (\A j \in Ids : Met(j) =>
         j <= counter /\ \A g \in Fibers : pc[g] \in {"probe", "put"} => conn[g].id # j)'
  BY <1>1, <1>2, <1>5, <1>7 DEF FirstProcess
<1>9. pc'[f] = "token" => secrets[r.id] = NoAccount
  BY <1>2, <1>5 DEF FirstProcess
<1>10. \A g \in Fibers : /\ pc'[g] # "reconnect"
                         /\ pc'[g] = "token" => secrets'[conn'[g].id] = NoAccount
  BY <1>1, <1>2, <1>5, <1>9 DEF FirstProcess
<1> QED BY <1>1, <1>2, <1>5, <1>8, <1>10 DEF FirstProcess

LEMMA OtherFirst ==
  ASSUME TypeInv, FirstInv, NEW f \in Fibers,
         \/ Request(f) \/ Probe(f) \/ Fail(f) \/ Die(f) \/ Interrupt(f)
         \/ \E s \in {"succeeded", "aborted"} : Finish(f, s)
  PROVE  FirstInv'
<1> USE DEF disk, memory, request, bounds, ghosts, Goto
<1>1. UNCHANGED <<file, answered, restarts, counter, secrets, engines, revived>>
  BY DEF Request, Connect, Delete, Operate, Probe, Fail, Die, Interrupt, Finish, Accept
<1>2. \A g \in Fibers \ {f} : /\ pc'[g] = pc[g] /\ conn'[g] = conn[g]
                              /\ text'[g] = text[g]
  <2>1. CASE Request(f)
    BY <2>1 DEF Request, Connect, Delete, Operate, Accept, TypeInv, TypeOK
  <2>2. CASE Probe(f)
    BY <2>2 DEF Probe, TypeInv, TypeOK
  <2>3. CASE Leave(f)
    BY <2>3 DEF Leave, TypeInv, TypeOK
  <2>4. CASE Interrupt(f) /\ ~ Leave(f)
    BY <2>4 DEF Interrupt, TypeInv, TypeOK
  <2> QED BY <2>1, <2>2, <2>3, <2>4 DEF Fail, Die, Finish
<1>3. Staying(f) /\ (Writing(f)' => Writing(f) /\ text'[f] = text[f])
  <2>1. CASE Request(f)
    <3>1. pc'[f] \in {"list", "read", "resolve"}
      BY <2>1 DEF Request, Connect, Delete, Operate, Accept, TypeInv, TypeOK
    <3> QED BY <3>1 DEF Staying, Writing
  <2>2. CASE Probe(f)
    <3>1. pc[f] = "probe" /\ pc'[f] = "put" /\ UNCHANGED conn
      BY <2>2 DEF Probe, TypeInv, TypeOK
    <3> QED BY <3>1 DEF Staying, Writing
  <2>3. CASE Leave(f)
    <3>1. pc'[f] = "idle"
      BY <2>3 DEF Leave, TypeInv, TypeOK
    <3> QED BY <3>1 DEF Staying, Writing
  <2>4. CASE UNCHANGED <<pc, conn, text>>
    BY <2>4 DEF Staying, Writing
  <2>5. Interrupt(f) => Leave(f) \/ UNCHANGED <<pc, conn, text>>
    BY DEF Interrupt
  <2> QED BY <2>1, <2>2, <2>3, <2>4, <2>5 DEF Fail, Die, Finish
<1>4. \A i \in doomed' : i \in doomed \/ HasId(answered, i) \/ HasId(file.records, i)
  <2>1. CASE \E i \in Seen : Delete(f, i)
    BY <2>1 DEF Delete, Seen, HasId
  <2>2. CASE doomed' = doomed
    BY <2>2
  <2> QED BY <2>1, <2>2 DEF Request, Connect, Operate, Probe, Fail, Die, Interrupt, Finish
<1>5. \A g \in Fibers \ {f} : Staying(g)
  BY <1>2 DEF Staying
<1>6. \A i \in Ids : Met(i)' => Met(i)
  BY <1>1, <1>2, <1>3, <1>4 DEF Met, Writing, Staying
<1>7. \A g \in Fibers : Staying(g)
  BY <1>3, <1>5
<1> QED BY <1>1, <1>6, <1>7, FirstStays

LEMMA StepFirst == TypeInv /\ ConnInv /\ FirstInv /\ [Next]_vars => FirstInv'
<1> SUFFICES ASSUME TypeInv, ConnInv, FirstInv, [Next]_vars PROVE FirstInv'
  OBVIOUS
<1>1. CASE Restart
  BY <1>1 DEF Restart, FirstInv, TypeInv, TypeOK
<1>2. CASE UNCHANGED vars
  <2>1. \A g \in Fibers : Staying(g)
    BY <1>2 DEF vars, request, ghosts, Staying
  <2>2. \A i \in Ids : Met(i)' => Met(i)
    BY <1>2 DEF vars, disk, request, ghosts, Met, Writing
  <2> QED BY <1>2, <2>1, <2>2, FirstStays DEF vars, disk, memory, bounds, ghosts
<1>3. ASSUME NEW f \in Fibers, Step(f) PROVE FirstInv'
  BY <1>3, IssueFirst, PutFirst, WriteFirst, DropFirst, ResolveFirst, OtherFirst DEF Step
<1> QED BY <1>1, <1>2, <1>3, OtherFirst DEF Next

-----------------------------------------------------------------------------
(* A request that begins after deleteConnection answered never runs on that  *)
(* connection until connect takes its id anew, in this process or any later  *)
(* one, whatever overlaps and even if a save put the record back; except     *)
(* where an operation was connecting when the connection was dropped, which  *)
(* cannot be in a process that was never restarted.                          *)
THEOREM DeletedStayUnused == Spec => []DeletedUnused
<1>1. Init => DroppedInv /\ FirstInv
  BY DEF Init, DroppedInv, FirstInv, FirstProcess, Met, HasId, Writing, Contents
<1>2. DroppedInv /\ FirstInv => DeletedUnused
  BY DEF DroppedInv, FirstInv, FirstProcess, DeletedUnused
<1>3. /\ Init => TypeInv /\ ConnInv /\ DroppedInv /\ FirstInv
      /\ TypeInv /\ ConnInv /\ DroppedInv /\ FirstInv /\ [Next]_vars =>
           TypeInv' /\ ConnInv' /\ DroppedInv' /\ FirstInv'
  BY <1>1, InitTypes, InitConn, StepTypes, StepConn, StepDropped, StepFirst
<1> QED BY <1>2, <1>3, PTL DEF Spec
=============================================================================
