----------------------------- MODULE ApplyOrder -----------------------------
(***************************************************************************)
(* orderForApply of packages/alchemy/src/order.ts: Kahn's algorithm over   *)
(* the upserts and over the deletes of a plan, as the loop runs.           *)
(*                                                                         *)
(* A change is one of the addresses 1..N, in input order.  edges[x][d] is  *)
(* how often x names d among its dependencies: a reference derived from    *)
(* the schema and the provider's own dependsOn may name the same one.      *)
(***************************************************************************)
EXTENDS Integers, Sequences, FiniteSets, SequencesExt, OrderRules

CONSTANTS
  N,          \* number of changes of a plan
  MaxEdges    \* bound on how often a change names one dependency

Addrs == 1..N
ASSUME BoundsOK == N \in Nat /\ MaxEdges \in Nat

VARIABLES
  action,     \* action[x]: what the plan does with address x
  edges,
  side,       \* which half is being sorted
  indegree, ready, seen, ordered,    \* the locals of topoSort
  result      \* orderForApply's result so far

input  == <<action, edges>>
sorter == <<indegree, ready, seen, ordered>>
vars   == <<input, side, sorter, result>>

Present(s) == {x \in Addrs : (action[x] = "delete") = (s = "deletes")}

(* The changes of S in input order.                                          *)
InOrder(S) ==
  CHOOSE q \in [1..Cardinality(S) -> S] :
    \A i, j \in 1..Cardinality(S) : i < j => q[i] < q[j]

(* The edges from members of S into x, numbered where x names one of them    *)
(* more than once.                                                           *)
EdgesInto(x, S) == {e \in S \X (1..MaxEdges) : e[2] <= edges[x][e[1]]}

(* Dependencies that are not part of this half are not counted.             *)
(* Mutant of Indegrees: a dependency named twice counts once.                *)
IndegreesOfSet(s) ==
  [x \in Addrs |-> IF x \in Present(s)
                   THEN Cardinality({d \in Present(s) : edges[x][d] > 0}) ELSE 0]

Indegrees(s) ==
  [x \in Addrs |-> IF x \in Present(s) THEN Cardinality(EdgesInto(x, Present(s))) ELSE 0]

StartSort(s) ==
  /\ side' = s
  /\ indegree' = Indegrees(s)
  /\ ready' = InOrder({x \in Present(s) : Indegrees(s)[x] = 0})
  /\ seen' = {} /\ ordered' = <<>>

Init ==
  /\ action \in [Addrs -> {"update", "delete"}]
  /\ edges \in [Addrs -> [Addrs -> 0..MaxEdges]]
  /\ side = "start"
  /\ indegree = [x \in Addrs |-> 0] /\ ready = <<>> /\ seen = {} /\ ordered = <<>>
  /\ result = <<>>

Begin == side = "start" /\ StartSort("upserts") /\ UNCHANGED <<input, result>>

(* Mutant of Pop: the head of the worklist is read but not shifted.          *)
Peek ==
  /\ side \in {"upserts", "deletes"} /\ ready # <<>>
  /\ LET id    == Head(ready)
         freed == InOrder({x \in Present(side) : edges[x][id] > 0 /\ indegree[x] = edges[x][id]})
     IN IF id \in seen
        THEN UNCHANGED <<ready, seen, ordered, indegree>>
        ELSE /\ seen' = seen \cup {id}
             /\ ordered' = Append(ordered, id)
             /\ indegree' = [x \in Addrs |-> IF x \in Present(side)
                                             THEN indegree[x] - edges[x][id] ELSE indegree[x]]
             /\ ready' = ready \o freed
  /\ UNCHANGED <<input, side, result>>

(* dependents.get(id), one element per edge, decremented one by one: a       *)
(* dependent becomes ready when its last edge goes.                          *)
Pop ==
  /\ side \in {"upserts", "deletes"} /\ ready # <<>>
  /\ LET id    == Head(ready)
         freed == InOrder({x \in Present(side) : edges[x][id] > 0 /\ indegree[x] = edges[x][id]})
     IN IF id \in seen
        THEN ready' = Tail(ready) /\ UNCHANGED <<seen, ordered, indegree>>
        ELSE /\ seen' = seen \cup {id}
             /\ ordered' = Append(ordered, id)
             /\ indegree' = [x \in Addrs |-> IF x \in Present(side)
                                             THEN indegree[x] - edges[x][id] ELSE indegree[x]]
             /\ ready' = Tail(ready) \o freed
  /\ UNCHANGED <<input, side, result>>

(* Mutant of Sorted: what no order reaches is dropped.                       *)
SortedOnly(s) == ordered

(* The rest lies on a cycle or behind one: appended in input order.          *)
Sorted(s) == ordered \o InOrder(Present(s) \ seen)

FinishUpserts ==
  /\ side = "upserts" /\ ready = <<>>
  /\ result' = Sorted("upserts")
  /\ StartSort("deletes")
  /\ UNCHANGED input

FinishDeletes ==
  /\ side = "deletes" /\ ready = <<>>
  /\ result' = result \o Reverse(Sorted("deletes"))
  /\ side' = "done"
  /\ UNCHANGED <<input, sorter>>

Next == Begin \/ Pop \/ FinishUpserts \/ FinishDeletes
Spec == Init /\ [][Next]_vars /\ WF_vars(Next)

-----------------------------------------------------------------------------
(* Every change comes out exactly once, even when references form a cycle.   *)
EachChangeOnce ==
  side = "done" => Len(result) = N /\ ToSet(result) = Addrs

(* Each change of the result may come first among those from it on: upserts  *)
(* after their dependencies, deletes before them, cycles out of the way.     *)
AsChange(x)     == [addr |-> x, action |-> action[x]]
AsChanges(S)    == {AsChange(x) : x \in S}
NeedsOf(S)      == [x \in AsChanges(S) |-> {d \in Addrs : edges[x.addr][d] > 0}]
From(p)         == {result[q] : q \in p..N}

OrderIsLegal ==
  side = "done" =>
    LET cyc == Unsorted(AsChanges(Addrs), NeedsOf(Addrs)) IN
    \A p \in 1..N : MayPrecede(AsChange(result[p]), AsChanges(From(p)), cyc, NeedsOf(From(p)))

(* The sort ends: the worklist runs dry.                                     *)
SortEnds == <>(side = "done")
=============================================================================
