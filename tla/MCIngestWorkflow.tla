--------------------------- MODULE MCIngestWorkflow ---------------------------
(* Three steps: every graph of them is defined; the chain of the three is  *)
(* run.                                                                    *)
EXTENDS IngestWorkflow, TLC

CONSTANTS s1, s2, s3, p, a, b

\* no two values share a hash
MCHash(v) == v

MCEdits == {[path |-> p, content |-> a], [path |-> p, content |-> b]}

\* nothing tells two inputs, two outputs or two contents apart but their names
Alike == Permutations(Inputs) \cup Permutations(Outputs) \cup Permutations({a, b})

MCRunnable == {[s \in Steps |-> CASE s = s1 -> {} [] s = s2 -> {s1} [] s = s3 -> {s2}]}
=============================================================================
