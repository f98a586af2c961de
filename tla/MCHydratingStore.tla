-------------------------- MODULE MCHydratingStore --------------------------
(* Two entities of one kind; one caller seeds, two fetch. *)
EXTENDS HydratingStore, TLC

CONSTANTS c1, c2, s1, k1

MCProviders == <<k1>>
MCKindOf == [id \in Ids |-> k1]

FetchersAlike == Permutations({c1, c2})
=============================================================================
