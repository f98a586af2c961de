----------------------------- MODULE OrderRules -----------------------------
(***************************************************************************)
(* What orderForApply (packages/alchemy/src/order.ts) promises about the   *)
(* order of a plan's changes, whatever order they come in.  ConfigEngine   *)
(* executes changes by these rules; ApplyOrder is the algorithm itself.    *)
(*                                                                         *)
(* A change is a record with an addr and an action; needs[x] is the set of *)
(* addresses change x depends on.                                          *)
(***************************************************************************)

Upserts(S) == {x \in S : x.action # "delete"}
Deletes(S) == {x \in S : x.action = "delete"}

(* Mutant of OnCycle: cycles are not set apart.                              *)
NoCycle(S, needs) == {}

(* The changes of S that reach a cycle: Kahn's algorithm never readies them. *)
OnCycle(S, needs) ==
  UNION {X \in SUBSET S : \A x \in X : \E y \in X : y.addr \in needs[x]}

Unsorted(S, needs) == OnCycle(Upserts(S), needs) \cup OnCycle(Deletes(S), needs)

(* May x come first among the changes that rest holds?  An upsert comes       *)
(* after the upserts it depends on, and those that reach a cycle after all    *)
(* others; deletes come last, in the reverse of such an order.                *)
MayPrecede(x, rest, cyc, needs) ==
  IF x.action # "delete"
  THEN IF x \in cyc THEN Upserts(rest) \subseteq cyc
       ELSE \A y \in Upserts(rest) : y.addr \notin needs[x]
  ELSE /\ Upserts(rest) = {}
       /\ x \in cyc \/ \A y \in rest : y \notin cyc /\ x.addr \notin needs[y]
=============================================================================
