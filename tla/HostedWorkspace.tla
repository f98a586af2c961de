--------------------------- MODULE HostedWorkspace ---------------------------
(***************************************************************************)
(* The workspace a Cloudflare Durable Object keeps: metadata with the      *)
(* revision, one record per file, one record per change.  A handler reads, *)
(* and writes in a storage transaction; while it waits for its storage the *)
(* object takes no other request, so a request is one step here.           *)
(***************************************************************************)
EXTENDS ArtifactChange, Integers, Sequences

CONSTANT Templates   \* the files a workspace may be initialized with

ASSUME TemplatesAssumption == Templates \subseteq Files

\* no workspace and no snapshot are told from one
ASSUME NothingAssumption ==
  /\ None \notin [revision : Nat, git : BOOLEAN]
  /\ None \notin [revision : Nat, files : Files]

VARIABLES
  metadata,  \* None, or the revision and whether git metadata was stored
  stored,    \* the "file:" records
  records,   \* the "change:" records, by revision from 1
  versions   \* history variable: the contents by revision from 0

hostedVars == <<metadata, stored, records, versions>>

HostedInit ==
  /\ metadata = None
  /\ stored = NoFiles
  /\ records = <<>>
  /\ versions = <<>>

\* a workspace that is there already is left as it is
InitializeWorkspace(template) ==
  /\ metadata = None
  /\ metadata' = [revision |-> 0, git |-> FALSE]
  /\ stored' = template
  /\ versions' = <<template>>
  /\ UNCHANGED records

\* MUTANT of ChangeFiles: a write of what is there already is no revision
ChangeFilesIfChanged(c) ==
  /\ metadata # None
  /\ Accepts(stored, c)
  /\ stored' = Applied(stored, c)
  /\ metadata' = [metadata EXCEPT !.revision = IF stored' = stored THEN @ ELSE @ + 1]
  /\ records' = Append(records, [type |-> c.type, changedPaths |-> ChangedPaths(stored, c)])
  /\ versions' = Append(versions, stored')

(* applyChange and applyArtifactChange: files, revision and change record  *)
(* in one transaction, which a refused change aborts.  A change that       *)
(* changes nothing is a revision all the same.                             *)
ChangeFiles(c) ==
  /\ metadata # None
  /\ Accepts(stored, c)
  /\ stored' = Applied(stored, c)
  /\ metadata' = [metadata EXCEPT !.revision = @ + 1]
  /\ records' = Append(records, [type |-> c.type, changedPaths |-> ChangedPaths(stored, c)])
  /\ versions' = Append(versions, stored')

SetGitMetadata ==
  /\ metadata # None
  /\ metadata' = [metadata EXCEPT !.git = TRUE]
  /\ UNCHANGED <<stored, records, versions>>

Snapshot == [revision |-> metadata.revision, files |-> stored]

-----------------------------------------------------------------------------
HostedTypeOK ==
  /\ metadata \in {None} \cup [revision : Nat, git : BOOLEAN]
  /\ stored \in Files
  /\ records \in Seq([type : {"write", "create", "delete", "rename", "replace"},
                      changedPaths : SUBSET Paths])
  /\ versions \in Seq(Files)
  /\ Len(versions) = IF metadata = None THEN 0 ELSE metadata.revision + 1

\* the newest version is what is stored, and there is a record for every change
Current ==
  metadata # None =>
    /\ stored = versions[metadata.revision + 1]
    /\ Len(records) = metadata.revision

(* Every path whose content one revision changed is named by the record of *)
(* that revision, except the files a replacement drops: who reads the      *)
(* records or answers (the IDE follows changedPaths) misses nothing else.  *)
RecordsNameChanges ==
  \A r \in 1..Len(records) : \A p \in Paths :
    versions[r + 1][p] # versions[r][p] =>
      \/ p \in records[r].changedPaths
      \/ records[r].type = "replace" /\ versions[r + 1][p] = None
=============================================================================
