--------------------------- MODULE ArtifactChange ---------------------------
(***************************************************************************)
(* The changes a workspace accepts and what they do to its files.  The     *)
(* hosted workspace, the local workspace and the in-memory workspace all   *)
(* turn a change request into a store change, apply it through a versioned *)
(* artifact store over a memory store, and answer with the changed paths.  *)
(* A store is a function from paths to contents, None where there is no    *)
(* file; the memory store's operations run in one go.                      *)
(***************************************************************************)
CONSTANTS
  Paths,      \* the file paths a change may name
  Contents,   \* what a file may hold
  None        \* no file, no content, no patch

Entry == Contents \cup {None}
Files == [Paths -> Entry]
NoFiles == [p \in Paths |-> None]
Present(f) == {p \in Paths : f[p] # None}

(* Change requests, by what their handler does with them *)
WriteFile(p, c)   == [type |-> "write", path |-> p, content |-> c]
CreateFile(p, c)  == [type |-> "create", path |-> p, content |-> c]
DeleteFile(p)     == [type |-> "delete", path |-> p]
RenameFile(p, q)  == [type |-> "rename", path |-> p, to |-> q]
ReplaceFiles(f)   == [type |-> "replace", files |-> f]

WriteRequests   == {WriteFile(p, c) : p \in Paths, c \in Contents}
CreateRequests  == {CreateFile(p, c) : p \in Paths, c \in Contents}
DeleteRequests  == {DeleteFile(p) : p \in Paths}
RenameRequests  == {RenameFile(p, q) : p, q \in Paths}
ReplaceRequests == {ReplaceFiles(f) : f \in Files}
Requests == WriteRequests \cup CreateRequests \cup DeleteRequests
            \cup RenameRequests \cup ReplaceRequests

ASSUME NoneAssumption ==
  /\ None \notin Contents /\ None \notin Paths
  /\ None \notin Files /\ None \notin Requests

-----------------------------------------------------------------------------
(* Patches: what a revision of the versioned store records *)
WritePatch(p, b, a) == [type |-> "write", path |-> p, before |-> b, after |-> a]
DeletePatch(p, b)   == [type |-> "delete", path |-> p, before |-> b]
ReplacePatch(b, a)  == [type |-> "replace", before |-> b, after |-> a]

WritePatches   == {WritePatch(p, b, a) : p \in Paths, b \in Entry, a \in Contents}
DeletePatches  == {DeletePatch(p, b) : p \in Paths, b \in Contents}
ReplacePatches == {ReplacePatch(b, a) : b, a \in Files}
Patches == WritePatches \cup DeletePatches \cup ReplacePatches

ASSUME NoPatchAssumption == None \notin Patches

(* The requests a store with files f accepts; the others are answered with *)
(* not-found or already-exists and change nothing.                         *)
Accepts(f, c) ==
  \/ c.type \in {"write", "delete"} /\ f[c.path] # None
  \/ c.type = "create" /\ f[c.path] = None
  \/ c.type = "rename" /\ f[c.path] # None /\ (c.path = c.to \/ f[c.to] = None)
  \/ c.type = "replace"

\* a rename is a replacement in which one entry carries another path
Renamed(f, p, q) ==
  [x \in Paths |-> CASE x = q -> f[p] [] x = p /\ p # q -> None [] OTHER -> f[x]]

(* The patch of an accepted request, None when it would change nothing *)
PatchOf(f, c) ==
  CASE c.type = "write"   -> IF f[c.path] = c.content THEN None
                             ELSE WritePatch(c.path, f[c.path], c.content)
    [] c.type = "create"  -> WritePatch(c.path, None, c.content)
    [] c.type = "delete"  -> DeletePatch(c.path, f[c.path])
    [] c.type = "rename"  -> IF c.path = c.to THEN None
                             ELSE ReplacePatch(f, Renamed(f, c.path, c.to))
    [] c.type = "replace" -> IF f = c.files THEN None ELSE ReplacePatch(f, c.files)

(* A patch runs through the memory store's create, write and delete, which *)
(* fail when the file is there, respectively is not.                       *)
Applies(f, patch) ==
  CASE patch.type = "write"   -> (patch.before = None) <=> (f[patch.path] = None)
    [] patch.type = "delete"  -> f[patch.path] # None
    [] patch.type = "replace" -> TRUE

ApplyPatch(f, patch) ==
  CASE patch.type = "write"   -> [f EXCEPT ![patch.path] = patch.after]
    [] patch.type = "delete"  -> [f EXCEPT ![patch.path] = None]
    [] patch.type = "replace" -> patch.after

\* MUTANT of InvertPatch: a replacement is undone by doing it again
InvertPatchUnswapped(patch) ==
  CASE patch.type = "write"   -> IF patch.before = None
                                 THEN DeletePatch(patch.path, patch.after)
                                 ELSE WritePatch(patch.path, patch.after, patch.before)
    [] patch.type = "delete"  -> WritePatch(patch.path, None, patch.before)
    [] patch.type = "replace" -> patch

\* MUTANT of InvertPatch: a deletion is undone by a write, not by a creation
InvertPatchWriting(patch) ==
  CASE patch.type = "write"   -> IF patch.before = None
                                 THEN DeletePatch(patch.path, patch.after)
                                 ELSE WritePatch(patch.path, patch.after, patch.before)
    [] patch.type = "delete"  -> WritePatch(patch.path, patch.before, patch.before)
    [] patch.type = "replace" -> ReplacePatch(patch.after, patch.before)

InvertPatch(patch) ==
  CASE patch.type = "write"   -> IF patch.before = None
                                 THEN DeletePatch(patch.path, patch.after)
                                 ELSE WritePatch(patch.path, patch.after, patch.before)
    [] patch.type = "delete"  -> WritePatch(patch.path, None, patch.before)
    [] patch.type = "replace" -> ReplacePatch(patch.after, patch.before)

\* filesFromArtifactStoreChange: the files after an accepted request
Applied(f, c) == IF PatchOf(f, c) = None THEN f ELSE ApplyPatch(f, PatchOf(f, c))

\* MUTANT of ChangedPaths: a renamed file is named by its new path only
ChangedPathsTo(f, c) ==
  CASE c.type \in {"write", "create", "delete"} -> {c.path}
    [] c.type = "rename"  -> {c.to}
    [] c.type = "replace" -> {p \in Present(c.files) : c.files[p] # f[p]}

(* changedPathsForChange: the paths an answer, a change record or a commit *)
(* names.  A replacement names the files it brings with other content, not *)
(* the ones it drops.                                                      *)
ChangedPaths(f, c) ==
  CASE c.type \in {"write", "create", "delete"} -> {c.path}
    [] c.type = "rename"  -> {c.path, c.to}
    [] c.type = "replace" -> {p \in Present(c.files) : c.files[p] # f[p]}
=============================================================================
