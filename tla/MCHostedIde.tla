----------------------------- MODULE MCHostedIde -----------------------------
(* Bounds for HostedIde: two files, a template with both. *)
EXTENDS HostedIde, TLC

CONSTANTS app, doc, x, y, z

MCTemplates == {[r \in Paths |-> x]}
MCViewChanges == {RenameFile(app, doc)}
MCOthersChanges == {WriteFile(app, y), DeleteFile(doc)}

CallSymmetry == Permutations(Calls)
=============================================================================
