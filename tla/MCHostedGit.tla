----------------------------- MODULE MCHostedGit -----------------------------
(* Constants of the TLC runs of HostedGit: a file and the lockfile. *)
EXTENDS HostedGit, TLC

CONSTANTS file, lock, v1, v2, r1, r2

Symmetry == Permutations(Contents) \cup Permutations(Requests)

\* Where the invariants say nothing before the next reload, the page is followed
\* for less long, with one kind of trouble from outside, and only if it can still
\* be reloaded; two clones at a time are not followed.
Followed ==
  \/ spoilt \subseteq {"files", "overlapped"}
  \/ /\ reloads < MaxReloads /\ changes <= 1 /\ made <= 2
     /\ "raced" \notin spoilt
     /\ Cardinality(spoilt \cap {"failed", "files", "remote"}) <= 1
=============================================================================
