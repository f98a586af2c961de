--------------------------- MODULE MCConfigEngine ---------------------------
(* Constants of the TLC runs of ConfigEngine. *)
EXTENDS ConfigEngine

CONSTANTS alice, bob, form, policy, draft, plain, linked

FormA  == [kind |-> form,   slug |-> [name |-> draft, n |-> 1]]
PolicyA == [kind |-> policy, slug |-> [name |-> draft, n |-> 1]]

(* A policy (or a form) with content "linked" refers to the form draft.      *)
MCRefs  == [v \in {plain, linked} |-> IF v = linked THEN {FormA} ELSE {}]
OwnsAll == [c \in Clients |-> Kinds]
OwnsOne == [c \in Clients |-> IF c = alice THEN {form} ELSE {policy}]

FormFirst == {FormA}
BothFirst == {FormA, PolicyA}
=============================================================================
