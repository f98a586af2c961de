--------------------------- MODULE MCDeployService ---------------------------
(* Constants of the TLC runs of DeployService. *)
EXTENDS DeployService, TLC

CONSTANTS f1, f2, acme, beta

Alike == Permutations(Fibers) \cup Permutations(Accounts)
=============================================================================
