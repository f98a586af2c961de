---------------------------- MODULE HostedProofs ----------------------------
(***************************************************************************)
(* Proofs about HostedIde, for every set of paths, contents and changes,   *)
(* any number of calls and of lost or late answers: change records name    *)
(* what changed, the IDE and the workspace implement the shared workspace, *)
(* the IDE reads its own changes back, and no conflict goes unseen.        *)
(***************************************************************************)
EXTENDS HostedIde, SequenceTheorems, TLAPS

-----------------------------------------------------------------------------
(* The workspace *)

\* an accepted change leads to files, and its changed paths are what it says
LEMMA ChangeNames ==
  ASSUME NEW f \in Files, NEW c \in Requests, Accepts(f, c)
  PROVE  /\ Applied(f, c) \in Files
         /\ ChangedPaths(f, c) \in SUBSET Paths
         /\ c.type \in {"write", "create", "delete", "rename", "replace"}
         /\ \A p \in Paths : Applied(f, c)[p] # f[p] =>
              \/ p \in ChangedPaths(f, c)
              \/ c.type = "replace" /\ Applied(f, c)[p] = None
<1>1. CASE c \in WriteRequests \cup CreateRequests
  <2>1. PICK p \in Paths, d \in Contents : c = WriteFile(p, d) \/ c = CreateFile(p, d)
    BY <1>1 DEF WriteRequests, CreateRequests
  <2>2. Applied(f, c) = f \/ Applied(f, c) = [f EXCEPT ![p] = d]
    <3>1. PatchOf(f, c) \in {None, WritePatch(p, f[p], d), WritePatch(p, None, d)}
      BY <2>1 DEF PatchOf, WriteFile, CreateFile
    <3>2. \A b : ApplyPatch(f, WritePatch(p, b, d)) = [f EXCEPT ![p] = d]
      BY DEF ApplyPatch, WritePatch
    <3> QED BY <3>1, <3>2 DEF Applied
  <2>3. ChangedPaths(f, c) = {p} /\ c.type \in {"write", "create"}
    BY <2>1 DEF ChangedPaths, WriteFile, CreateFile
  <2> QED BY <2>2, <2>3 DEF Files, Entry
<1>2. CASE c \in DeleteRequests
  <2>1. PICK p \in Paths : c = DeleteFile(p)
    BY <1>2 DEF DeleteRequests
  <2>2. Applied(f, c) = f \/ Applied(f, c) = [f EXCEPT ![p] = None]
    <3>1. PatchOf(f, c) = DeletePatch(p, f[p])
      BY <2>1 DEF PatchOf, DeleteFile
    <3>2. ApplyPatch(f, DeletePatch(p, f[p])) = [f EXCEPT ![p] = None]
      BY DEF ApplyPatch, DeletePatch
    <3> QED BY <3>1, <3>2 DEF Applied
  <2>3. ChangedPaths(f, c) = {p} /\ c.type = "delete"
    BY <2>1 DEF ChangedPaths, DeleteFile
  <2> QED BY <2>2, <2>3 DEF Files, Entry
<1>3. CASE c \in RenameRequests
  <2>1. PICK p \in Paths, q \in Paths : c = RenameFile(p, q)
    BY <1>3 DEF RenameRequests
  <2>2. c.type = "rename" /\ c.path = p /\ c.to = q
    BY <2>1 DEF RenameFile
  <2>3. Renamed(f, p, q) \in Files /\ \A x \in Paths \ {p, q} : Renamed(f, p, q)[x] = f[x]
    BY DEF Renamed, Files, Entry
  <2>4. Applied(f, c) = f \/ Applied(f, c) = Renamed(f, p, q)
    <3>1. PatchOf(f, c) \in {None, ReplacePatch(f, Renamed(f, p, q))}
      BY <2>2 DEF PatchOf
    <3>2. ApplyPatch(f, ReplacePatch(f, Renamed(f, p, q))) = Renamed(f, p, q)
      BY DEF ApplyPatch, ReplacePatch
    <3> QED BY <3>1, <3>2 DEF Applied
  <2>5. ChangedPaths(f, c) = {p, q}
    BY <2>2 DEF ChangedPaths
  <2> QED BY <2>2, <2>3, <2>4, <2>5
<1>4. CASE c \in ReplaceRequests
  <2>1. PICK g \in Files : c = ReplaceFiles(g)
    BY <1>4 DEF ReplaceRequests
  <2>2. c.type = "replace" /\ c.files = g
    BY <2>1 DEF ReplaceFiles
  <2>3. Applied(f, c) = f \/ Applied(f, c) = g
    <3>1. PatchOf(f, c) \in {None, ReplacePatch(f, g)}
      BY <2>2 DEF PatchOf
    <3>2. ApplyPatch(f, ReplacePatch(f, g)) = g
      BY DEF ApplyPatch, ReplacePatch
    <3> QED BY <3>1, <3>2 DEF Applied
  <2>4. ChangedPaths(f, c) = {p \in Present(g) : g[p] # f[p]}
    BY <2>2 DEF ChangedPaths
  <2> QED BY <2>2, <2>3, <2>4 DEF Present
<1> QED BY <1>1, <1>2, <1>3, <1>4 DEF Requests

WorkspaceInv ==
  /\ HostedTypeOK /\ Current /\ RecordsNameChanges
  /\ metadata = None => records = <<>>

\* a revision that has been stays as it was
Grows ==
  metadata # None =>
    /\ metadata' # None /\ metadata'.revision \in Nat
    /\ metadata.revision <= metadata'.revision
    /\ \A i \in 1..(metadata.revision + 1) : versions'[i] = versions[i]

LEMMA MetadataType ==
  ASSUME HostedTypeOK, metadata # None
  PROVE  metadata.revision \in Nat /\ metadata.git \in BOOLEAN
         /\ metadata = [revision |-> metadata.revision, git |-> metadata.git]
BY DEF HostedTypeOK

LEMMA InitializeInv ==
  ASSUME WorkspaceInv, NEW t \in Templates, InitializeWorkspace(t)
  PROVE  WorkspaceInv' /\ Grows
<1>1. /\ metadata' = [revision |-> 0, git |-> FALSE] /\ stored' = t /\ versions' = <<t>>
      /\ records' = records /\ t \in Files /\ metadata = None
  BY TemplatesAssumption DEF InitializeWorkspace
<1>2. metadata' # None /\ metadata' \in [revision : Nat, git : BOOLEAN] /\ metadata'.revision = 0
  <2>1. metadata' \in [revision : Nat, git : BOOLEAN] /\ metadata'.revision = 0
    BY <1>1
  <2> QED BY <2>1, NothingAssumption
<1>3. versions' \in Seq(Files) /\ Len(versions') = 1 /\ versions'[1] = t
  BY <1>1
<1>4. records \in Seq([type : {"write", "create", "delete", "rename", "replace"},
                       changedPaths : SUBSET Paths])
  BY DEF WorkspaceInv, HostedTypeOK
<1>5. Len(records) = 0
  BY <1>1 DEF WorkspaceInv
<1>6. HostedTypeOK' /\ Current'
  BY <1>1, <1>2, <1>3, <1>4, <1>5 DEF HostedTypeOK, Current
<1>7. RecordsNameChanges'
  BY <1>1, <1>5 DEF RecordsNameChanges
<1> QED BY <1>1, <1>2, <1>6, <1>7 DEF WorkspaceInv, Grows

LEMMA ChangeFilesInv ==
  ASSUME WorkspaceInv, NEW c \in Requests, ChangeFiles(c)
  PROVE  WorkspaceInv' /\ Grows
<1> DEFINE Record == [type : {"write", "create", "delete", "rename", "replace"},
                      changedPaths : SUBSET Paths]
           record == [type |-> c.type, changedPaths |-> ChangedPaths(stored, c)]
<1>1. /\ metadata # None /\ Accepts(stored, c) /\ stored' = Applied(stored, c)
      /\ metadata' = [metadata EXCEPT !.revision = @ + 1]
      /\ records' = Append(records, record) /\ versions' = Append(versions, stored')
  BY DEF ChangeFiles
<1>2. /\ stored \in Files /\ versions \in Seq(Files) /\ records \in Seq(Record)
      /\ metadata.revision \in Nat /\ metadata.git \in BOOLEAN
      /\ metadata = [revision |-> metadata.revision, git |-> metadata.git]
      /\ Len(versions) = metadata.revision + 1 /\ Len(records) = metadata.revision
      /\ stored = versions[metadata.revision + 1]
  BY <1>1, MetadataType DEF WorkspaceInv, HostedTypeOK, Current
<1>3. metadata' \in [revision : Nat, git : BOOLEAN] /\ metadata'.revision = metadata.revision + 1
  BY <1>1, <1>2, SMTT(30)
<1>4. metadata' # None
  BY <1>3, NothingAssumption
<1>5. stored' \in Files /\ record \in Record
  BY <1>1, <1>2, ChangeNames
<1>6. /\ versions' \in Seq(Files) /\ Len(versions') = metadata'.revision + 1
      /\ versions'[metadata'.revision + 1] = stored'
      /\ \A i \in 1..(metadata.revision + 1) : versions'[i] = versions[i]
  BY <1>1, <1>2, <1>3, <1>5
<1>7. /\ records' \in Seq(Record) /\ Len(records') = metadata'.revision
      /\ records'[metadata'.revision] = record
      /\ \A i \in 1..metadata.revision : records'[i] = records[i]
  <2> HIDE DEF record, Record
  <2> QED BY <1>1, <1>2, <1>3, <1>5
<1>8. HostedTypeOK' /\ Current'
  BY <1>3, <1>4, <1>5, <1>6, <1>7 DEF HostedTypeOK, Current
<1>9. RecordsNameChanges'
  <2> SUFFICES ASSUME NEW r \in 1..Len(records'), NEW p \in Paths,
                      versions'[r + 1][p] # versions'[r][p]
               PROVE  \/ p \in records'[r].changedPaths
                      \/ records'[r].type = "replace" /\ versions'[r + 1][p] = None
    BY DEF RecordsNameChanges
  <2>1. CASE r \in 1..metadata.revision
    <3>1. r \in 1..Len(records) /\ r + 1 \in 1..(metadata.revision + 1)
          /\ r \in 1..(metadata.revision + 1)
      BY <2>1, <1>2
    <3> HIDE DEF record, Record
    <3> QED BY <3>1, <2>1, <1>6, <1>7, SMTT(30) DEF WorkspaceInv, RecordsNameChanges
  <2>2. CASE r = metadata.revision + 1
    <3>1. versions'[r] = stored /\ versions'[r + 1] = Applied(stored, c)
      BY <2>2, <1>1, <1>2, <1>3, <1>6
    <3>2. records'[r].changedPaths = ChangedPaths(stored, c) /\ records'[r].type = c.type
      BY <2>2, <1>3, <1>7
    <3> QED BY <3>1, <3>2, <1>1, <1>2, ChangeNames
  <2> QED BY <2>1, <2>2, <1>2, <1>3, <1>7
<1> QED BY <1>2, <1>3, <1>4, <1>6, <1>8, <1>9 DEF WorkspaceInv, Grows

LEMMA SetGitInv ==
  ASSUME WorkspaceInv, SetGitMetadata
  PROVE  WorkspaceInv' /\ Grows /\ metadata'.revision = metadata.revision
<1>1. /\ metadata # None /\ metadata' = [metadata EXCEPT !.git = TRUE]
      /\ UNCHANGED <<stored, records, versions>>
  BY DEF SetGitMetadata
<1>2. metadata = [revision |-> metadata.revision, git |-> metadata.git] /\ metadata.revision \in Nat
  BY <1>1, MetadataType DEF WorkspaceInv
<1>3. metadata' \in [revision : Nat, git : BOOLEAN] /\ metadata'.revision = metadata.revision
  BY <1>1, <1>2
<1>4. metadata' # None
  BY <1>3, NothingAssumption
<1> QED BY <1>1, <1>2, <1>3, <1>4
        DEF WorkspaceInv, HostedTypeOK, Current, RecordsNameChanges, Grows

LEMMA SameInv ==
  ASSUME WorkspaceInv, UNCHANGED hostedVars
  PROVE  WorkspaceInv' /\ Grows
<1>1. UNCHANGED <<metadata, stored, records, versions>>
  BY DEF hostedVars
<1>2. metadata # None => metadata.revision \in Nat
  BY MetadataType DEF WorkspaceInv
<1> QED BY <1>1, <1>2 DEF WorkspaceInv, HostedTypeOK, Current, RecordsNameChanges, Grows

-----------------------------------------------------------------------------
(* The IDE *)

\* a revision there has been, and a snapshot the workspace has given
Past(n) == metadata # None /\ n \in 0..metadata.revision

IsSnapshot(s) ==
  /\ s \in [revision : Nat, files : Files]
  /\ Past(s.revision)
  /\ s.files = versions[s.revision + 1]

FlowFields == {"pc", "kind", "change", "follow", "answer", "reply", "path", "readBack"}

\* what a flow has been answered
Answered(r) ==
  /\ DOMAIN r = FlowFields
  /\ r.pc = "apply" => r.change \in Requests
  /\ r.kind = "add" => r.change.path \in Paths
  /\ r.pc = "applied" => Past(r.answer.revision)
  /\ r.reply # None => Past(r.reply.revision)
  /\ r.pc = "snapped" =>
       IsSnapshot(r.answer) /\ (r.reply # None => r.answer.revision >= r.reply.revision)
  /\ r.pc \in {"view", "viewed"} => r.path \in Paths
  /\ r.pc = "viewed" => r.answer \in Contents
  /\ r.pc \in {"apply", "applied"} => ~r.readBack
  /\ r.readBack =>
       r.reply # None /\ snapshot # None /\ snapshot.revision >= r.reply.revision

FlowInv ==
  /\ DOMAIN flow = Calls
  /\ \A r \in {flow[f] : f \in Calls} : Answered(r)

HeldInv ==
  /\ snapshot # None => IsSnapshot(snapshot)
  /\ hydrated \in Files /\ drafts \in Files
  /\ activeFile \in Paths \cup {None}
  /\ DOMAIN base = Paths /\ DOMAIN conflicts = Paths
  /\ expected \in Nat /\ ReadsOwnChanges

\* a draft's file was there when the draft was begun, and is there since
DraftInv ==
  \A p \in Paths : base[p] # None =>
    /\ snapshot # None /\ snapshot.files[p] # None
    /\ drafts[p] # None /\ snapshot.files[p] # base[p] => conflicts[p] # 0

Inv == WorkspaceInv /\ FlowInv /\ HeldInv /\ DraftInv

LEMMA InitInv == Init => Inv
<1> SUFFICES ASSUME Init PROVE Inv
  OBVIOUS
<1>1. WorkspaceInv
  BY DEF Init, HostedInit, WorkspaceInv, HostedTypeOK, Current, RecordsNameChanges,
         NoFiles, Files, Entry
<1>2. \A r : r = Idle => Answered(r)
  BY DEF Idle, Answered, FlowFields
<1>3. FlowInv
  BY <1>2 DEF Init, IdeInit, FlowInv
<1>4. HeldInv /\ DraftInv
  BY DEF Init, IdeInit, HeldInv, DraftInv, ReadsOwnChanges, NoFiles, Files, Entry
<1> QED BY <1>1, <1>3, <1>4 DEF Inv

\* the reader does not go back
Later ==
  snapshot # None =>
    /\ snapshot' # None /\ snapshot'.revision \in Nat
    /\ snapshot.revision \in Nat /\ snapshot.revision <= snapshot'.revision

LEMMA SnapshotKept ==
  ASSUME WorkspaceInv, Grows
  PROVE  /\ \A n : Past(n) => Past(n)'
         /\ \A s : IsSnapshot(s) => IsSnapshot(s)'
<1>1. metadata # None => metadata.revision \in Nat
  BY MetadataType DEF WorkspaceInv
<1>2. \A n : Past(n) => Past(n)'
  BY <1>1 DEF Past, Grows
<1>3. ASSUME NEW s, IsSnapshot(s) PROVE IsSnapshot(s)'
  <2>1. s.revision + 1 \in 1..(metadata.revision + 1) /\ metadata # None
    BY <1>1, <1>3 DEF IsSnapshot, Past
  <2> QED BY <2>1, <1>2, <1>3 DEF IsSnapshot, Grows
<1> QED BY <1>2, <1>3

LEMMA AnsweredKept ==
  ASSUME WorkspaceInv, Grows, Later
  PROVE  \A r : Answered(r) => Answered(r)'
<1> SUFFICES ASSUME NEW r, Answered(r) PROVE Answered(r)'
  OBVIOUS
<1>1. r.readBack => snapshot' # None /\ snapshot'.revision >= r.reply.revision
  <2>1. r.reply # None => r.reply.revision \in Nat
    BY MetadataType DEF Answered, Past, WorkspaceInv
  <2> QED BY <2>1 DEF Answered, Later
<1> QED BY <1>1, SnapshotKept DEF Answered

LEMMA SameSnapshot ==
  ASSUME HeldInv, snapshot' = snapshot
  PROVE  Later
BY DEF HeldInv, IsSnapshot, Later

\* one flow goes on, the others stay
LEMMA OneFlow ==
  ASSUME WorkspaceInv, FlowInv, Grows, Later,
         NEW f \in Calls, NEW n, flow' = [flow EXCEPT ![f] = n], Answered(n)'
  PROVE  FlowInv'
<1>1. \A r \in {flow[g] : g \in Calls} : Answered(r)'
  BY AnsweredKept DEF FlowInv
<1>2. \A g \in Calls : flow'[g] = n \/ flow'[g] \in {flow[h] : h \in Calls}
  BY DEF FlowInv
<1> QED BY <1>1, <1>2 DEF FlowInv

LEMMA SameFlows ==
  ASSUME WorkspaceInv, FlowInv, Grows, Later, flow' = flow
  PROVE  FlowInv'
BY AnsweredKept DEF FlowInv

LEMMA SameHeld ==
  ASSUME WorkspaceInv, HeldInv, DraftInv, Grows,
         UNCHANGED <<snapshot, hydrated, drafts, activeFile, base, conflicts, expected>>
  PROVE  HeldInv' /\ DraftInv'
BY SnapshotKept DEF HeldInv, DraftInv, ReadsOwnChanges

LEMMA FlowIs ==
  ASSUME FlowInv, NEW f \in Calls
  PROVE  Answered(flow[f])
<1>1. PICK r : r = flow[f]
  OBVIOUS
<1>2. Answered(r)
  BY <1>1 DEF FlowInv
<1> QED BY <1>1, <1>2 DEF Answered

-----------------------------------------------------------------------------
(* The steps of the workspace *)

LEMMA OthersInv ==
  ASSUME Inv, Others
  PROVE  Inv' /\ Grows
<1>1. WorkspaceInv' /\ Grows
  <2>1. CASE \E t \in Templates : InitializeWorkspace(t)
    BY <2>1, InitializeInv DEF Inv
  <2>2. CASE \E c \in OthersChanges : Len(records) < MaxChanges /\ ChangeFiles(c)
    BY <2>2, ChangeFilesInv, OthersAssumption DEF Inv
  <2>3. CASE SetGitMetadata
    BY <2>3, SetGitInv DEF Inv
  <2> QED BY <2>1, <2>2, <2>3 DEF Others
<1>2. /\ UNCHANGED <<snapshot, hydrated, drafts, activeFile, base, conflicts, expected>>
      /\ flow' = flow
  BY DEF Others, ideVars, ideFiles, ideHistory
<1>3. FlowInv'
  BY <1>1, <1>2, SameFlows, SameSnapshot DEF Inv
<1>4. HeldInv' /\ DraftInv'
  BY <1>1, <1>2, SameHeld DEF Inv
<1> QED BY <1>1, <1>3, <1>4 DEF Inv

\* an answer that says what it should leaves everything else alone
LEMMA AnsweredWithInv ==
  ASSUME Inv, NEW f \in Calls, NEW pc, NEW a, AnsweredWith(f, pc, a), WorkspaceInv', Grows,
         pc \in {"applied", "snapped", "viewed"},
         pc = "applied" => Past(a.revision)' /\ flow[f].pc = "apply",
         pc = "snapped" => IsSnapshot(a)' /\ (flow[f].reply # None =>
                             a.revision >= flow[f].reply.revision),
         pc = "viewed" => a \in Contents /\ flow[f].path \in Paths
  PROVE  Inv'
<1>1. PICK r : r = flow[f]
  OBVIOUS
<1>2. PICK n : n = [r EXCEPT !.pc = pc, !.answer = a]
  OBVIOUS
<1>3. /\ flow' = [flow EXCEPT ![f] = n]
      /\ UNCHANGED <<snapshot, hydrated, drafts, activeFile, base, conflicts, expected>>
  BY <1>1, <1>2 DEF AnsweredWith, ideFiles, ideHistory, Inv, FlowInv
<1>4. Later
  BY <1>3, SameSnapshot DEF Inv
<1>5. Answered(r) /\ Answered(r)'
  BY <1>1, <1>4, AnsweredKept DEF Inv, FlowInv
<1>6. /\ DOMAIN n = FlowFields /\ n.pc = pc /\ n.answer = a /\ n.kind = r.kind
      /\ n.change = r.change /\ n.reply = r.reply /\ n.path = r.path
      /\ n.readBack = r.readBack
  BY <1>2, <1>5 DEF Answered, FlowFields
<1>7. Answered(n)'
  BY <1>1, <1>5, <1>6 DEF Answered
<1>8. FlowInv'
  BY <1>3, <1>4, <1>7, OneFlow DEF Inv
<1>9. HeldInv' /\ DraftInv'
  BY <1>3, SameHeld DEF Inv
<1> QED BY <1>8, <1>9 DEF Inv

LEMMA HandleInv ==
  ASSUME Inv, NEW f \in Calls, Handle(f)
  PROVE  Inv' /\ Grows
<1>0. Answered(flow[f])
  BY FlowIs DEF Inv
<1>1. CASE HandleChange(f)
  <2>1. flow[f].change \in Requests /\ ChangeFiles(flow[f].change)
    BY <1>0, <1>1 DEF HandleChange, At, Answered
  <2>2. WorkspaceInv' /\ Grows
    BY <2>1, ChangeFilesInv DEF Inv
  <2>3. PICK a : a = [revision |-> metadata'.revision,
                      changedPaths |-> records'[Len(records')].changedPaths]
    OBVIOUS
  <2>4. AnsweredWith(f, "applied", a)
    BY <1>1, <2>3 DEF HandleChange
  <2>5. metadata # None
    BY <2>1 DEF ChangeFiles
  <2>6. Past(a.revision)' /\ flow[f].pc = "apply"
    BY <1>1, <2>2, <2>3, <2>5 DEF Past, Grows, HandleChange, At
  <2> QED BY <2>2, <2>4, <2>6, AnsweredWithInv
<1>2. CASE HandleSnapshot(f)
  <2>1. metadata # None /\ WorkspaceInv' /\ Grows /\ flow[f].pc = "snapshot"
    BY <1>2, SameInv DEF HandleSnapshot, Inv, At
  <2>2. PICK a : a = Snapshot
    OBVIOUS
  <2>3. AnsweredWith(f, "snapped", a)
    BY <1>2, <2>2 DEF HandleSnapshot
  <2>4. metadata.revision \in Nat
    BY <2>1, MetadataType DEF Inv, WorkspaceInv
  <2>5. IsSnapshot(a)
    BY <2>1, <2>2, <2>4 DEF IsSnapshot, Past, Snapshot, Inv, WorkspaceInv, HostedTypeOK, Current
  <2>6. IsSnapshot(a)'
    BY <2>1, <2>5, SnapshotKept DEF Inv
  <2>7. flow[f].reply # None => a.revision >= flow[f].reply.revision
    BY <1>0, <2>2, <2>4 DEF Answered, Past, Snapshot
  <2> QED BY <2>1, <2>3, <2>6, <2>7, AnsweredWithInv
<1>3. CASE HandleView(f)
  <2>1. WorkspaceInv' /\ Grows /\ flow[f].pc = "view" /\ stored[flow[f].path] # None
    BY <1>3, SameInv DEF HandleView, Inv, At
  <2>2. PICK a : a = stored[flow[f].path]
    OBVIOUS
  <2>3. AnsweredWith(f, "viewed", a)
    BY <1>3, <2>2 DEF HandleView
  <2>4. a \in Contents /\ flow[f].path \in Paths
    BY <1>0, <2>1, <2>2 DEF Answered, Inv, WorkspaceInv, HostedTypeOK, Files, Entry
  <2> QED BY <2>1, <2>3, <2>4, AnsweredWithInv
<1> QED BY <1>1, <1>2, <1>3 DEF Handle

-----------------------------------------------------------------------------
(* The steps of the IDE; the workspace stays as it is *)

LEMMA FirstIn == \A S : FirstOf(S) # None => FirstOf(S) \in S
BY DEF FirstOf

LEMMA ListedIs ==
  ASSUME HeldInv, WorkspaceInv
  PROVE  /\ Listed \subseteq Paths
         /\ \A p \in Listed : snapshot # None /\ snapshot.files[p] \in Contents
         /\ SelectedFile # None => SelectedFile \in Listed
<1>1. snapshot # None => snapshot.files \in Files
  BY DEF HeldInv, IsSnapshot
<1>2. /\ Listed \subseteq Paths
      /\ \A p \in Listed : snapshot # None /\ snapshot.files[p] \in Contents
  BY <1>1 DEF Listed, Present, Files, Entry
<1> QED BY <1>2, FirstIn DEF SelectedFile

\* a new flow knows of no answer
LEMMA BeginInv ==
  ASSUME Inv, WorkspaceInv', Grows, snapshot' = snapshot, NEW n, Begin(n),
         DOMAIN n = FlowFields, n.reply = None, n.readBack = FALSE,
         n.pc \in {"snapshot", "view", "apply"},
         n.pc = "view" => n.path \in Paths,
         n.pc = "apply" => n.change \in Requests,
         n.kind = "add" => n.change.path \in Paths
  PROVE  FlowInv'
<1>1. PICK f \in Calls : flow' = [flow EXCEPT ![f] = n]
  BY DEF Begin
<1>2. Later
  BY SameSnapshot DEF Inv
<1>3. Answered(n)'
  BY DEF Answered
<1> QED BY <1>1, <1>2, <1>3, OneFlow DEF Inv

LEMMA StartInv ==
  ASSUME Inv, UNCHANGED hostedVars, NEW n, n = Refresh(TRUE) \/ n = Refresh(FALSE), Begin(n),
         UNCHANGED <<ideFiles, ideHistory>>
  PROVE  Inv'
<1>1. WorkspaceInv' /\ Grows
  BY SameInv DEF Inv
<1>2. DOMAIN n = FlowFields /\ n.reply = None /\ n.readBack = FALSE /\ n.pc = "snapshot"
      /\ n.kind = "refresh"
  BY DEF Refresh, Idle, FlowFields
<1>3. UNCHANGED <<snapshot, hydrated, drafts, activeFile, base, conflicts, expected>>
  BY DEF ideFiles, ideHistory
<1>4. FlowInv'
  BY <1>1, <1>2, <1>3, BeginInv
<1>5. HeldInv' /\ DraftInv'
  BY <1>1, <1>3, SameHeld DEF Inv
<1> QED BY <1>1, <1>4, <1>5 DEF Inv

LEMMA ChangeInv ==
  ASSUME Inv, UNCHANGED hostedVars, NEW kind \in {"save", "add", "delete", "view", "agent"},
         NEW c \in Requests, kind = "add" => c.path \in Paths, Begin(Change(kind, c)),
         UNCHANGED <<ideFiles, ideHistory>>
  PROVE  Inv'
<1>1. WorkspaceInv' /\ Grows
  BY SameInv DEF Inv
<1>2. PICK n : n = Change(kind, c)
  OBVIOUS
<1>3. DOMAIN n = FlowFields /\ n.reply = None /\ n.readBack = FALSE /\ n.pc = "apply"
      /\ n.kind = kind /\ n.change = c
  BY <1>2 DEF Change, Idle, FlowFields
<1>4. UNCHANGED <<snapshot, hydrated, drafts, activeFile, base, conflicts, expected>>
  BY DEF ideFiles, ideHistory
<1>5. Begin(n)
  BY <1>2
<1>6. FlowInv'
  BY <1>1, <1>3, <1>4, <1>5, BeginInv
<1>7. HeldInv' /\ DraftInv'
  BY <1>1, <1>4, SameHeld DEF Inv
<1> QED BY <1>1, <1>6, <1>7 DEF Inv

LEMMA SetActiveFileInv ==
  ASSUME Inv, UNCHANGED hostedVars, NEW p \in Paths, SetActiveFile(p)
  PROVE  Inv'
<1>1. WorkspaceInv' /\ Grows
  BY SameInv DEF Inv
<1>2. PICK n : n = Hydrate(p)
  OBVIOUS
<1>3. DOMAIN n = FlowFields /\ n.reply = None /\ n.readBack = FALSE /\ n.pc = "view"
      /\ n.kind = "hydrate" /\ n.path = p
  BY <1>2 DEF Hydrate, Idle, FlowFields
<1>4. /\ UNCHANGED <<snapshot, hydrated, drafts, base, conflicts, expected>>
      /\ activeFile' = p /\ Begin(n)
  BY <1>2 DEF SetActiveFile, ideHistory
<1>5. FlowInv'
  BY <1>1, <1>3, <1>4, BeginInv
<1>6. HeldInv' /\ DraftInv'
  BY <1>1, <1>4, SnapshotKept DEF Inv, HeldInv, DraftInv, ReadsOwnChanges
<1> QED BY <1>1, <1>5, <1>6 DEF Inv

\* typing and discarding: nothing but one draft and what is known of it
EditsDraft(p) ==
  /\ UNCHANGED <<snapshot, hydrated, activeFile, flow, expected>>
  /\ drafts' \in Files /\ DOMAIN base' = Paths /\ DOMAIN conflicts' = Paths
  /\ \A q \in Paths \ {p} : base'[q] = base[q] /\ drafts'[q] = drafts[q]
                            /\ conflicts'[q] = conflicts[q]
  /\ \/ base'[p] = None
     \/ base'[p] = snapshot.files[p]
     \/ base'[p] = base[p] /\ drafts[p] # None /\ conflicts'[p] = conflicts[p]

LEMMA TypingInv ==
  ASSUME Inv, UNCHANGED hostedVars, DiscardActiveDraft \/ \E c \in Typed : UpdateActiveFile(c)
  PROVE  Inv'
<1>1. WorkspaceInv' /\ Grows
  BY SameInv DEF Inv
<1>2. PICK p : p = SelectedFile
  OBVIOUS
<1>3. /\ p \in Paths /\ snapshot # None /\ snapshot.files[p] \in Contents
      /\ snapshot.files[p] # None
  BY <1>2, ListedIs, NoneAssumption DEF DiscardActiveDraft, UpdateActiveFile, Inv
<1>4. EditsDraft(p)
  <2>1. CASE DiscardActiveDraft
    BY <1>2, <1>3, <2>1 DEF DiscardActiveDraft, EditsDraft, Inv, HeldInv, Files, Entry
  <2>2. ASSUME NEW c \in Typed, UpdateActiveFile(c)
        PROVE  EditsDraft(p)
    <3>1. PICK draft : draft = IF c = Committed(p) THEN None ELSE c
      OBVIOUS
    <3>2. draft \in Entry
      BY <3>1, IdeAssumption DEF Entry
    <3>3. /\ UNCHANGED <<snapshot, hydrated, activeFile, flow, expected, conflicts>>
          /\ drafts' = [drafts EXCEPT ![p] = draft]
          /\ base' = [base EXCEPT ![p] =
                       IF draft = None THEN None
                       ELSE IF drafts[p] = None THEN snapshot.files[p] ELSE @]
      BY <1>2, <2>2, <3>1 DEF UpdateActiveFile
    <3>4. drafts' \in Files /\ \A q \in Paths \ {p} : drafts'[q] = drafts[q]
      BY <3>2, <3>3 DEF Inv, HeldInv, Files
    <3>5. /\ DOMAIN base' = Paths /\ \A q \in Paths \ {p} : base'[q] = base[q]
          /\ \/ base'[p] = None
             \/ base'[p] = snapshot.files[p]
             \/ base'[p] = base[p] /\ drafts[p] # None
      BY <1>3, <3>3 DEF Inv, HeldInv
    <3> QED BY <3>3, <3>4, <3>5 DEF Inv, HeldInv, EditsDraft
  <2> QED BY <2>1, <2>2
<1>5. FlowInv'
  BY <1>1, <1>4, SameFlows, SameSnapshot DEF Inv, EditsDraft
<1>6. HeldInv'
  BY <1>1, <1>4, SnapshotKept DEF Inv, HeldInv, ReadsOwnChanges, EditsDraft
<1>7. DraftInv'
  BY <1>3, <1>4 DEF Inv, DraftInv, EditsDraft
<1> QED BY <1>1, <1>5, <1>6, <1>7 DEF Inv

LEMMA UserInv ==
  ASSUME Inv, UNCHANGED hostedVars, User
  PROVE  Inv'
<1>1. CASE \E p \in Paths : SetActiveFile(p)
  BY <1>1, SetActiveFileInv
<1>2. CASE DiscardActiveDraft \/ \E c \in Typed : UpdateActiveFile(c)
  BY <1>2, TypingInv
<1>3. CASE SaveActiveFile
  <2>1. SelectedFile \in Paths /\ Shown(SelectedFile) \in Contents
    BY <1>3, ListedIs DEF SaveActiveFile, Shown, Committed, Inv, HeldInv, Files, Entry
  <2>2. WriteFile(SelectedFile, Shown(SelectedFile)) \in Requests
    BY <2>1 DEF Requests, WriteRequests
  <2> QED BY <1>3, <2>2, ChangeInv DEF SaveActiveFile
<1>4. CASE AddFile
  <2>1. PICK p \in Paths : Begin(Change("add", CreateFile(p, Blank)))
                           /\ UNCHANGED <<ideFiles, ideHistory>>
    BY <1>4 DEF AddFile
  <2>2. CreateFile(p, Blank) \in Requests /\ CreateFile(p, Blank).path \in Paths
    BY IdeAssumption DEF Requests, CreateRequests, CreateFile
  <2> QED BY <2>1, <2>2, ChangeInv
<1>5. CASE DeleteActiveFile
  <2>1. SelectedFile \in Paths
    BY <1>5, ListedIs DEF DeleteActiveFile, Inv
  <2>2. DeleteFile(SelectedFile) \in Requests
    BY <2>1 DEF Requests, DeleteRequests
  <2> QED BY <1>5, <2>2, ChangeInv DEF DeleteActiveFile
<1>6. CASE ApplyProjectChange
  <2>1. PICK kind \in {"view", "agent"}, c \in ViewChanges :
          Begin(Change(kind, c)) /\ UNCHANGED <<ideFiles, ideHistory>>
    BY <1>6 DEF ApplyProjectChange
  <2>2. c \in Requests
    BY IdeAssumption
  <2> QED BY <2>1, <2>2, ChangeInv
<1> QED BY <1>1, <1>2, <1>3, <1>4, <1>5, <1>6 DEF User

LEMMA StreamInv ==
  ASSUME Inv, UNCHANGED hostedVars, Start \/ Stop \/ \E e \in deliveries : Deliver(e)
  PROVE  Inv'
<1>1. ASSUME UNCHANGED <<ideFiles, flow, ideHistory>> PROVE Inv'
  <2>1. /\ UNCHANGED <<snapshot, hydrated, drafts, activeFile, base, conflicts, expected>>
        /\ WorkspaceInv' /\ Grows /\ flow' = flow
    BY <1>1, SameInv DEF ideFiles, ideHistory, Inv
  <2>2. FlowInv'
    BY <2>1, SameFlows, SameSnapshot DEF Inv
  <2>3. HeldInv' /\ DraftInv'
    BY <2>1, SameHeld DEF Inv
  <2> QED BY <2>1, <2>2, <2>3 DEF Inv
<1>2. CASE Start
  <2>1. PICK n : n = Refresh(FALSE)
    OBVIOUS
  <2>2. Begin(n) /\ UNCHANGED <<ideFiles, ideHistory>>
    BY <1>2, <2>1 DEF Start
  <2> QED BY <2>1, <2>2, StartInv
<1>3. CASE Stop
  BY <1>1, <1>3 DEF Stop
<1>4. ASSUME NEW e \in deliveries, Deliver(e) PROVE Inv'
  <2>1. CASE flow' = flow
    BY <1>1, <1>4, <2>1 DEF Deliver
  <2>2. CASE Begin(Refresh(TRUE))
    <3>1. PICK n : n = Refresh(TRUE)
      OBVIOUS
    <3>2. Begin(n) /\ UNCHANGED <<ideFiles, ideHistory>>
      BY <1>4, <2>2, <3>1 DEF Deliver
    <3> QED BY <3>1, <3>2, StartInv
  <2> QED BY <1>4, <2>1, <2>2 DEF Deliver
<1> QED BY <1>2, <1>3, <1>4

-----------------------------------------------------------------------------
(* How flows go on and end *)

LEMMA IdleAnswered == \A r : r = Idle => Answered(r)'
BY DEF Idle, Answered, FlowFields

LEMMA EndsInv ==
  ASSUME Inv, UNCHANGED hostedVars, NEW f \in Calls, Ends(f),
         snapshot' = snapshot, hydrated' \in Files
  PROVE  Inv'
<1>1. WorkspaceInv' /\ Grows /\ Later
  BY SameInv, SameSnapshot DEF Inv
<1>2. PICK r : r = flow[f]
  OBVIOUS
<1>3. Answered(r)
  BY <1>2 DEF Inv, FlowInv
<1>4. FlowInv'
  <2>1. PICK n : n = Idle
    OBVIOUS
  <2>2. Answered(n)' /\ flow' = [flow EXCEPT ![f] = n]
    BY <2>1, IdleAnswered DEF Ends
  <2> QED BY <2>2, <1>1, OneFlow DEF Inv
<1>5. activeFile' \in Paths \cup {None}
  <2>1. Follows(r, snapshot) \in Paths \cup {None}
    BY <1>3, FirstIn DEF Follows, Answered, Present
  <2> QED BY <2>1, <1>2 DEF Ends, Inv, HeldInv
<1>6. /\ drafts' \in Files /\ DOMAIN base' = Paths /\ DOMAIN conflicts' = Paths
      /\ \A p \in Paths : base'[p] # None =>
           base'[p] = base[p] /\ drafts'[p] = drafts[p] /\ conflicts'[p] = conflicts[p]
  BY <1>2 DEF Ends, Inv, HeldInv, Files, Entry
<1>7. expected' \in Nat /\ ReadsOwnChanges'
  <2>1. CASE r.readBack /\ r.reply.revision > expected
    BY <1>2, <1>3, <2>1, MetadataType
       DEF Ends, Answered, Past, ReadsOwnChanges, Inv, WorkspaceInv
  <2>2. CASE ~(r.readBack /\ r.reply.revision > expected)
    BY <1>2, <2>2 DEF Ends, Inv, HeldInv, ReadsOwnChanges
  <2> QED BY <2>1, <2>2
<1>8. HeldInv'
  BY <1>1, <1>5, <1>6, <1>7, SnapshotKept DEF Inv, HeldInv
<1>9. DraftInv'
  BY <1>6 DEF Inv, DraftInv
<1> QED BY <1>1, <1>4, <1>8, <1>9 DEF Inv

\* a flow goes on with n, nothing that the IDE holds but what it read changes
LEMMA GoesOnWith ==
  ASSUME Inv, UNCHANGED hostedVars, NEW f \in Calls, NEW n, flow' = [flow EXCEPT ![f] = n],
         Answered(n)', hydrated' \in Files,
         UNCHANGED <<snapshot, drafts, activeFile, base, conflicts, expected>>
  PROVE  Inv'
<1>1. WorkspaceInv' /\ Grows /\ Later
  BY SameInv, SameSnapshot DEF Inv
<1>2. FlowInv'
  BY <1>1, OneFlow DEF Inv
<1>3. HeldInv' /\ DraftInv'
  BY <1>1, SnapshotKept DEF Inv, HeldInv, DraftInv, ReadsOwnChanges
<1> QED BY <1>1, <1>2, <1>3 DEF Inv

LEMMA ApplyAnsweredInv ==
  ASSUME Inv, UNCHANGED hostedVars, NEW f \in Calls, ApplyAnswered(f)
  PROVE  Inv'
<1>1. WorkspaceInv' /\ Grows /\ Later
  BY SameInv, SameSnapshot DEF Inv, ApplyAnswered, ideFiles
<1>2. PICK r : r = flow[f]
  OBVIOUS
<1>3. PICK n : n = [r EXCEPT !.pc = "snapshot", !.reply = r.answer, !.answer = None]
  OBVIOUS
<1>4. /\ flow' = [flow EXCEPT ![f] = n] /\ r.pc = "applied"
      /\ UNCHANGED <<snapshot, hydrated, drafts, activeFile, base, conflicts, expected>>
  BY <1>2, <1>3 DEF ApplyAnswered, At, ideFiles, ideHistory, Inv, FlowInv
<1>5. Answered(r) /\ Answered(r)'
  BY <1>1, <1>2, AnsweredKept DEF Inv, FlowInv
<1>6. /\ DOMAIN n = FlowFields /\ n.pc = "snapshot" /\ n.kind = r.kind
      /\ n.change = r.change /\ n.reply = r.answer /\ n.readBack = r.readBack
  BY <1>3, <1>5 DEF Answered, FlowFields
<1>7. Answered(n)'
  BY <1>4, <1>5, <1>6 DEF Answered
<1> QED BY <1>4, <1>7, GoesOnWith DEF Inv, HeldInv

\* the newer of two snapshots is kept, and what is done to conflicts and drafts
LEMMA ApplySnapshotInv ==
  ASSUME Inv, NEW next, IsSnapshot(next), NEW follow, ApplySnapshot(next, follow),
         UNCHANGED <<drafts, hydrated, expected>>
  PROVE  /\ snapshot' # None /\ IsSnapshot(snapshot') /\ Later
         /\ snapshot'.revision >= next.revision
         /\ activeFile' \in Paths \cup {None}
         /\ DOMAIN base' = Paths /\ DOMAIN conflicts' = Paths
         /\ ReadsOwnChanges' /\ DraftInv'
<1>1. next # None /\ next.revision \in Nat /\ next.files \in Files
  BY NothingAssumption DEF IsSnapshot
<1>2. snapshot # None => snapshot.revision \in Nat /\ snapshot.files \in Files
  BY DEF Inv, HeldInv, IsSnapshot
<1>3. CASE ~Newer(next)
  <2>1. /\ UNCHANGED <<snapshot, activeFile, conflicts, base>> /\ snapshot # None
        /\ ~(next.revision >= snapshot.revision)
    BY <1>3 DEF ApplySnapshot, Newer
  <2> QED BY <2>1, <1>1, <1>2 DEF Inv, HeldInv, DraftInv, ReadsOwnChanges, Later, IsSnapshot
<1>4. CASE Newer(next)
  <2>1. snapshot' = next /\ (snapshot # None => next.revision >= snapshot.revision)
    BY <1>4 DEF ApplySnapshot, Newer
  <2>2. activeFile' \in Paths \cup {None}
    <3>1. \A S : S \subseteq Paths => FirstOf(S) \in Paths \cup {None}
      BY FirstIn
    <3>2. Changed(next) \subseteq Paths /\ Present(next.files) \subseteq Paths
      BY DEF Changed, Present
    <3> QED BY <1>4, <3>1, <3>2 DEF ApplySnapshot, Stays, Inv, HeldInv
  <2>3. /\ conflicts' = [p \in Paths |-> IF InConflict(next, p) THEN next.revision
                                         ELSE conflicts[p]]
        /\ base' = [p \in Paths |->
             IF base[p] = None \/ next.files[p] = None THEN None
             ELSE IF next.files[p] = drafts[p] THEN drafts[p] ELSE base[p]]
    BY <1>4 DEF ApplySnapshot
  <2>4. DraftInv'
    <3> SUFFICES ASSUME NEW p \in Paths, base'[p] # None
                 PROVE  /\ next # None /\ next.files[p] # None
                        /\ drafts[p] # None /\ next.files[p] # base'[p] => conflicts'[p] # 0
      BY <2>1 DEF DraftInv
    <3>1. /\ base[p] # None /\ next.files[p] # None
          /\ \/ next.files[p] = drafts[p] /\ base'[p] = drafts[p]
             \/ next.files[p] # drafts[p] /\ base'[p] = base[p]
      BY <2>3
    <3>2. /\ snapshot # None /\ snapshot.files[p] # None
          /\ drafts[p] # None /\ snapshot.files[p] # base[p] => conflicts[p] # 0
      BY <3>1 DEF Inv, DraftInv
    <3>3. CASE InConflict(next, p)
      <4>1. next.files[p] # snapshot.files[p]
        BY <3>3 DEF InConflict
      <4>2. next.revision # snapshot.revision
        BY <4>1, <3>2 DEF Inv, HeldInv, IsSnapshot
      <4>3. next.revision # 0
        BY <4>2, <2>1, <3>2, <1>1, <1>2
      <4> QED BY <3>1, <3>3, <4>3, <2>3, <1>1
    <3>4. CASE ~InConflict(next, p)
      <4>1. conflicts'[p] = conflicts[p]
        BY <3>4, <2>3
      <4>2. drafts[p] # None /\ next.files[p] # drafts[p] => next.files[p] = snapshot.files[p]
        BY <3>1, <3>2, <3>4 DEF InConflict
      <4> QED BY <3>1, <3>2, <4>1, <4>2, <1>1
    <3> QED BY <3>3, <3>4
  <2>5. ReadsOwnChanges'
    BY <2>1, <1>1, <1>2 DEF Inv, HeldInv, ReadsOwnChanges
  <2> QED BY <1>1, <1>2, <2>1, <2>2, <2>3, <2>4, <2>5 DEF Later
<1> QED BY <1>3, <1>4

LEMMA SnapshotAnsweredInv ==
  ASSUME Inv, UNCHANGED hostedVars, NEW f \in Calls, SnapshotAnswered(f)
  PROVE  Inv' /\ IsSnapshot(snapshot') /\ Later
<1>1. WorkspaceInv' /\ Grows
  BY SameInv DEF Inv
<1>2. PICK r : r = flow[f]
  OBVIOUS
<1>3. PICK n : n = [r EXCEPT !.pc = "state", !.answer = None, !.readBack = (r.reply # None)]
  OBVIOUS
<1>4. PICK next : next = r.answer
  OBVIOUS
<1>5. /\ flow' = [flow EXCEPT ![f] = n] /\ r.pc = "snapped"
      /\ UNCHANGED <<hydrated, drafts, expected>>
  BY <1>2, <1>3 DEF SnapshotAnswered, At, Inv, FlowInv
<1>6. Answered(r)
  BY <1>2 DEF Inv, FlowInv
<1>7. IsSnapshot(next) /\ (r.reply # None => next.revision >= r.reply.revision
                                             /\ r.reply.revision \in Nat)
  BY <1>4, <1>5, <1>6, MetadataType DEF Answered, Past, Inv, WorkspaceInv
<1>8. ApplySnapshot(next, r.follow)
  BY <1>2, <1>4 DEF SnapshotAnswered
<1>9. /\ snapshot' # None /\ IsSnapshot(snapshot') /\ Later
      /\ snapshot'.revision >= next.revision
      /\ activeFile' \in Paths \cup {None}
      /\ DOMAIN base' = Paths /\ DOMAIN conflicts' = Paths
      /\ ReadsOwnChanges' /\ DraftInv'
  BY <1>5, <1>7, <1>8, ApplySnapshotInv
<1>10. Answered(r)'
  BY <1>1, <1>6, <1>9, AnsweredKept DEF Inv
<1>11. /\ DOMAIN n = FlowFields /\ n.pc = "state" /\ n.kind = r.kind
       /\ n.change = r.change /\ n.reply = r.reply /\ n.readBack = (r.reply # None)
  BY <1>3, <1>6 DEF Answered, FlowFields
<1>12. Answered(n)'
  <2>1. snapshot'.revision \in Nat /\ next.revision \in Nat
    BY <1>7, <1>9 DEF IsSnapshot
  <2>2. r.reply # None => snapshot'.revision >= r.reply.revision
    BY <2>1, <1>7, <1>9
  <2> QED BY <1>9, <1>10, <1>11, <2>2 DEF Answered
<1>13. FlowInv'
  BY <1>1, <1>5, <1>9, <1>12, OneFlow DEF Inv
<1>14. IsSnapshot(snapshot)'
  <2>1. PICK s : s = snapshot'
    OBVIOUS
  <2>2. IsSnapshot(s)'
    BY <1>1, <1>9, <2>1, SnapshotKept DEF Inv
  <2> QED BY <2>1, <2>2 DEF IsSnapshot
<1>15. HeldInv'
  BY <1>5, <1>9, <1>14 DEF Inv, HeldInv
<1> QED BY <1>1, <1>9, <1>13, <1>15 DEF Inv

LEMMA GoesOnInv ==
  ASSUME Inv, UNCHANGED hostedVars, NEW f \in Calls, At(f, "state"), GoesOn(f),
         snapshot' = snapshot, hydrated' \in Files
  PROVE  Inv'
<1>1. CASE activeFile = None
  BY <1>1, EndsInv DEF GoesOn
<1>2. CASE activeFile # None
  <2>1. WorkspaceInv' /\ Grows /\ Later
    BY SameInv, SameSnapshot DEF Inv
  <2>2. PICK r : r = flow[f]
    OBVIOUS
  <2>3. PICK n : n = [r EXCEPT !.pc = "view", !.path = activeFile]
    OBVIOUS
  <2>4. /\ flow' = [flow EXCEPT ![f] = n] /\ r.pc = "state"
        /\ UNCHANGED <<drafts, activeFile, base, conflicts, expected>>
    BY <1>2, <2>2, <2>3 DEF GoesOn, At, ideHistory, Inv, FlowInv
  <2>5. Answered(r) /\ Answered(r)'
    BY <2>1, <2>2, AnsweredKept DEF Inv, FlowInv
  <2>6. /\ DOMAIN n = FlowFields /\ n.pc = "view" /\ n.kind = r.kind /\ n.path = activeFile
        /\ n.change = r.change /\ n.reply = r.reply /\ n.readBack = r.readBack
    BY <2>3, <2>5 DEF Answered, FlowFields
  <2>7. Answered(n)'
    BY <1>2, <2>5, <2>6 DEF Answered, Inv, HeldInv
  <2> QED BY <2>4, <2>7, GoesOnWith
<1> QED BY <1>1, <1>2

LEMMA AnswersInv ==
  ASSUME Inv, UNCHANGED hostedVars, NEW f \in Calls, Answers(f)
  PROVE  Inv' /\ (snapshot' = snapshot \/ SnapshotAnswered(f))
<1>0. hydrated \in Files /\ NoFiles \in Files
  BY DEF Inv, HeldInv, NoFiles, Files, Entry
<1>1. CASE ApplyAnswered(f)
  BY <1>1, ApplyAnsweredInv DEF ApplyAnswered, ideFiles
<1>2. CASE ApplyFails(f)
  <2>1. PICK n : n = Idle
    OBVIOUS
  <2>2. /\ Answered(n)' /\ flow' = [flow EXCEPT ![f] = n]
        /\ UNCHANGED <<snapshot, hydrated, drafts, activeFile, base, conflicts, expected>>
    BY <1>2, <2>1, IdleAnswered DEF ApplyFails, ideFiles, ideHistory
  <2> QED BY <1>0, <2>2, GoesOnWith
<1>3. CASE SnapshotAnswered(f)
  BY <1>3, SnapshotAnsweredInv
<1>4. CASE SnapshotFails(f)
  BY <1>0, <1>4, EndsInv DEF SnapshotFails
<1>5. CASE StateAnswered(f)
  BY <1>0, <1>5, GoesOnInv DEF StateAnswered
<1>6. CASE StateFails(f)
  BY <1>0, <1>6, GoesOnInv DEF StateFails
<1>7. CASE ViewAnswered(f)
  <2>1. Answered(flow[f])
    BY FlowIs DEF Inv
  <2>2. flow[f].answer \in Contents
    BY <1>7, <2>1 DEF ViewAnswered, At, Answered
  <2>3. hydrated' \in Files
    BY <1>0, <1>7, <2>2 DEF ViewAnswered, Files, Entry
  <2> QED BY <1>7, <2>3, EndsInv DEF ViewAnswered
<1>8. CASE ViewFails(f)
  BY <1>0, <1>8, EndsInv DEF ViewFails
<1> QED BY <1>1, <1>2, <1>3, <1>4, <1>5, <1>6, <1>7, <1>8 DEF Answers

-----------------------------------------------------------------------------
LEMMA NextInv == Inv /\ [Next]_vars => Inv'
<1> SUFFICES ASSUME Inv, [Next]_vars PROVE Inv'
  OBVIOUS
<1>1. CASE UNCHANGED vars
  <2>1. UNCHANGED <<hostedVars, flow, snapshot, hydrated, drafts, activeFile, base, conflicts,
                    expected>>
    BY <1>1 DEF vars, ideVars, ideFiles, ideHistory
  <2>2. WorkspaceInv' /\ Grows /\ Later
    BY <2>1, SameInv, SameSnapshot DEF Inv
  <2> QED BY <2>1, <2>2, SameFlows, SameHeld DEF Inv
<1>2. CASE Others
  BY <1>2, OthersInv
<1>3. ASSUME NEW f \in Calls, Handle(f) PROVE Inv'
  BY <1>3, HandleInv
<1>4. CASE IdeNext /\ UNCHANGED hostedVars
  BY <1>4, StreamInv, UserInv, AnswersInv DEF IdeNext
<1> QED BY <1>1, <1>2, <1>3, <1>4 DEF Next

LEMMA SpecInv == Spec => []Inv
BY InitInv, NextInv, PTL DEF Spec

(* Change records and answers name every path their revision changed, for  *)
(* every kind of change and any number of them (changedPathsForChange).    *)
THEOREM RecordsAlwaysName == Spec => []RecordsNameChanges
<1>1. Inv => RecordsNameChanges
  BY DEF Inv, WorkspaceInv
<1> QED BY <1>1, SpecInv, PTL

(* No change under a draft goes unmarked, whatever calls were under way    *)
(* and however their answers were ordered or lost (detectDraftConflicts).  *)
THEOREM ConflictsAlwaysSeen == Spec => []ConflictsSeen
<1>1. Inv => ConflictsSeen
  BY DEF Inv, DraftInv, ConflictsSeen
<1> QED BY <1>1, SpecInv, PTL

(* An own change that was answered and read back is never lost from sight, *)
(* also when older answers arrive later (applySnapshot).                   *)
THEOREM OwnChangesStay == Spec => []ReadsOwnChanges
<1>1. Inv => ReadsOwnChanges
  BY DEF Inv, HeldInv
<1> QED BY <1>1, SpecInv, PTL

-----------------------------------------------------------------------------
(* The refinement *)

LEMMA InitShared == Init => Shared!Init
BY DEF Init, HostedInit, IdeInit, Shared!Init

\* as long as the reader sees what it saw, a step is one of the workspace
LEMMA WorkspaceStep ==
  ASSUME Inv, snapshot' = snapshot,
         \/ \E t \in Templates : InitializeWorkspace(t)
         \/ \E c \in Requests : ChangeFiles(c)
         \/ SetGitMetadata
         \/ UNCHANGED hostedVars
  PROVE  [Shared!Next]_(Shared!vars)
<1>1. ASSUME NEW t \in Templates, InitializeWorkspace(t) PROVE Shared!Create
  <2>1. metadata' = [revision |-> 0, git |-> FALSE] /\ metadata = None
        /\ stored' = t /\ versions' = <<t>>
    BY <1>1 DEF InitializeWorkspace
  <2>2. metadata' \in [revision : Nat, git : BOOLEAN] /\ metadata'.revision = 0
    BY <2>1
  <2>3. metadata' # None
    BY <2>2, NothingAssumption
  <2> QED BY <2>1, <2>2, <2>3 DEF Shared!Create
<1>2. ASSUME NEW c \in Requests, ChangeFiles(c) PROVE Shared!Change
  <2>1. /\ metadata # None /\ Accepts(stored, c) /\ stored' = Applied(stored, c)
        /\ metadata' = [metadata EXCEPT !.revision = @ + 1]
        /\ versions' = Append(versions, stored')
    BY <1>2 DEF ChangeFiles
  <2>2. metadata.revision \in Nat
        /\ metadata = [revision |-> metadata.revision, git |-> metadata.git]
    BY <2>1, MetadataType DEF Inv, WorkspaceInv
  <2>3. metadata'.revision = metadata.revision + 1
    BY <2>1, <2>2
  <2>4. metadata' # None
    BY <1>2, <2>1, ChangeFilesInv DEF Inv, Grows
  <2>5. OneChange(stored, stored')
    BY <2>1 DEF OneChange
  <2> QED BY <2>1, <2>2, <2>3, <2>4, <2>5 DEF Shared!Change
<1>3. CASE SetGitMetadata
  <2>1. metadata # None /\ metadata' # None /\ metadata'.revision = metadata.revision
        /\ stored' = stored /\ versions' = versions
    BY <1>3, SetGitInv DEF Inv, Grows, SetGitMetadata
  <2> QED BY <2>1 DEF Shared!vars
<1>4. CASE UNCHANGED hostedVars
  BY <1>4 DEF hostedVars, Shared!vars
<1> QED BY <1>1, <1>2, <1>3, <1>4 DEF Shared!Next

\* an answered refresh is a look at a whole revision, not older than the last
LEMMA ReaderStep ==
  ASSUME Inv, UNCHANGED hostedVars, NEW f \in Calls, SnapshotAnswered(f)
  PROVE  Shared!Look
<1>1. IsSnapshot(snapshot') /\ Later
  BY SnapshotAnsweredInv
<1>2. UNCHANGED <<metadata, stored, versions>>
  BY DEF hostedVars
<1>3. snapshot' # None
  BY <1>1, NothingAssumption DEF IsSnapshot
<1> QED BY <1>1, <1>2, <1>3 DEF IsSnapshot, Past, Later, Shared!Look

LEMMA NextShared == Inv /\ [Next]_vars => [Shared!Next]_(Shared!vars)
<1> SUFFICES ASSUME Inv, [Next]_vars PROVE [Shared!Next]_(Shared!vars)
  OBVIOUS
<1>1. CASE UNCHANGED vars
  BY <1>1, WorkspaceStep DEF vars, ideVars, ideFiles
<1>2. CASE Others
  <2>1. snapshot' = snapshot
    BY <1>2 DEF Others, ideVars, ideFiles
  <2> QED BY <1>2, <2>1, WorkspaceStep, OthersAssumption DEF Others
<1>3. ASSUME NEW f \in Calls, Handle(f) PROVE [Shared!Next]_(Shared!vars)
  <2>1. snapshot' = snapshot
    BY <1>3 DEF Handle, HandleChange, HandleSnapshot, HandleView, AnsweredWith, ideFiles
  <2>2. CASE HandleChange(f)
    <3>1. Answered(flow[f])
      BY FlowIs DEF Inv
    <3>2. flow[f].change \in Requests /\ ChangeFiles(flow[f].change)
      BY <2>2, <3>1 DEF HandleChange, At, Answered
    <3> QED BY <2>1, <3>2, WorkspaceStep
  <2>3. CASE HandleSnapshot(f) \/ HandleView(f)
    BY <2>1, <2>3, WorkspaceStep DEF HandleSnapshot, HandleView
  <2> QED BY <1>3, <2>2, <2>3 DEF Handle
<1>4. CASE IdeNext /\ UNCHANGED hostedVars
  <2>1. CASE snapshot' = snapshot
    BY <1>4, <2>1, WorkspaceStep
  <2>2. ASSUME NEW f \in Calls, SnapshotAnswered(f) PROVE [Shared!Next]_(Shared!vars)
    BY <1>4, <2>2, ReaderStep DEF Shared!Next
  <2>3. CASE Start \/ Stop \/ \E e \in deliveries : Deliver(e)
    <3>1. snapshot' = snapshot
      BY <2>3 DEF Start, Stop, Deliver, ideFiles
    <3> QED BY <2>1, <3>1
  <2>4. CASE User
    <3>1. snapshot' = snapshot
      BY <2>4 DEF User, SetActiveFile, UpdateActiveFile, SaveActiveFile, DiscardActiveDraft,
                  AddFile, DeleteActiveFile, ApplyProjectChange, ideFiles
    <3> QED BY <2>1, <3>1
  <2>5. ASSUME NEW f \in Calls, Answers(f) PROVE [Shared!Next]_(Shared!vars)
    BY <1>4, <2>1, <2>2, <2>5, AnswersInv
  <2> QED BY <1>4, <2>3, <2>4, <2>5 DEF IdeNext
<1> QED BY <1>1, <1>2, <1>3, <1>4 DEF Next

(* The snapshot that the IDE's store holds is a whole revision of the      *)
(* workspace, and the one that replaces it is never of an older revision,  *)
(* whoever else changes the workspace and whatever is lost or late: with   *)
(* the snapshot as the reader, IDE and workspace implement the shared      *)
(* workspace.  Of the contents that are hydrated over it this says nothing.*)
THEOREM ReaderSeesRevisions == Spec => SharesRevisions
<1> QED BY InitShared, SpecInv, NextShared, PTL DEF Spec, SharesRevisions, Shared!Spec

-----------------------------------------------------------------------------
(* What was typed *)

\* what a flow has read is in a revision, and so is what a save has written;
\* a save under way writes what was typed last, unless that is safe already
Holds(r) ==
  /\ r.pc = "viewed" => Contains(r.path, r.answer)
  /\ r.kind = "save" /\ r.pc # "idle" =>
       /\ r.change \in WriteRequests
       /\ LET p == r.change.path
          IN /\ text[p] \in {None, r.change.content} \/ Contains(p, text[p])
             /\ r.pc # "apply" => Contains(p, r.change.content)

FlowsHold == \A r \in {flow[f] : f \in Calls} : Holds(r)
ReadIsThere == \A p \in Paths : hydrated[p] # None => Contains(p, hydrated[p])
TypedInv ==
  /\ DOMAIN text = Paths
  /\ FlowsHold /\ ReadIsThere /\ TypedIsKept

LEMMA InitTyped == Init => TypedInv
<1>1. \A r : r = Idle => Holds(r)
  BY DEF Idle, Holds
<1> QED BY <1>1 DEF Init, IdeInit, TypedInv, FlowsHold, ReadIsThere, TypedIsKept, NoFiles

\* contents that were in a revision stay in it
LEMMA ContainsKept ==
  ASSUME WorkspaceInv, WorkspaceInv', Grows
  PROVE  \A p, c : Contains(p, c) => Contains(p, c)'
<1> SUFFICES ASSUME NEW p, NEW c, Contains(p, c) PROVE Contains(p, c)'
  OBVIOUS
<1>1. PICK i \in 1..Len(versions) : versions[i][p] = c
  BY DEF Contains
<1>2. metadata # None /\ metadata.revision \in Nat /\ Len(versions) = metadata.revision + 1
  BY <1>1, MetadataType DEF WorkspaceInv, HostedTypeOK
<1>3. metadata' # None /\ metadata'.revision \in Nat /\ metadata.revision <= metadata'.revision
      /\ versions'[i] = versions[i]
  BY <1>1, <1>2 DEF Grows
<1>4. Len(versions') = metadata'.revision + 1
  BY <1>3 DEF WorkspaceInv, HostedTypeOK
<1>5. i \in 1..Len(versions')
  BY <1>1, <1>2, <1>3, <1>4
<1> QED BY <1>1, <1>3, <1>5 DEF Contains

\* what is stored, or in a snapshot, is in a revision
LEMMA StoredIsThere ==
  ASSUME WorkspaceInv, metadata # None
  PROVE  \A p : Contains(p, stored[p])
<1>1. /\ metadata.revision \in Nat /\ Len(versions) = metadata.revision + 1
      /\ stored = versions[metadata.revision + 1]
  BY MetadataType DEF WorkspaceInv, HostedTypeOK, Current
<1>2. metadata.revision + 1 \in 1..Len(versions)
  BY <1>1
<1> QED BY <1>1, <1>2 DEF Contains

LEMMA SnapshotIsThere ==
  ASSUME WorkspaceInv, NEW s, IsSnapshot(s)
  PROVE  \A p : Contains(p, s.files[p])
<1>1. /\ metadata # None /\ s.revision \in 0..metadata.revision
      /\ s.files = versions[s.revision + 1]
  BY DEF IsSnapshot, Past
<1>2. metadata.revision \in Nat /\ Len(versions) = metadata.revision + 1
  BY <1>1, MetadataType DEF WorkspaceInv, HostedTypeOK
<1>3. s.revision + 1 \in 1..Len(versions)
  BY <1>1, <1>2
<1> QED BY <1>1, <1>3 DEF Contains

\* nothing is typed in the step, some of it may be settled
Untyped == DOMAIN text' = Paths /\ \A q \in Paths : text'[q] \in {text[q], None}

LEMMA PathOfWrite ==
  \A c \in WriteRequests : c.path \in Paths /\ c.content \in Contents /\ c.type = "write"
BY DEF WriteRequests, WriteFile

LEMMA HoldsKept ==
  ASSUME WorkspaceInv, WorkspaceInv', Grows, Untyped
  PROVE  \A r : Holds(r) => Holds(r)'
<1>1. \A p, c : Contains(p, c) => Contains(p, c)'
  BY ContainsKept
<1> SUFFICES ASSUME NEW r, Holds(r) PROVE Holds(r)'
  OBVIOUS
<1>2. ASSUME r.kind = "save", r.pc # "idle"
      PROVE  /\ r.change \in WriteRequests
             /\ text'[r.change.path] \in {None, r.change.content}
                \/ Contains(r.change.path, text[r.change.path])'
             /\ r.pc # "apply" => Contains(r.change.path, r.change.content)'
  <2>1. r.change \in WriteRequests /\ r.change.path \in Paths
    BY <1>2, PathOfWrite DEF Holds
  <2>2. PICK t : t = text[r.change.path]
    OBVIOUS
  <2>3. t \in {None, r.change.content} \/ Contains(r.change.path, t)'
    BY <1>1, <1>2, <2>2 DEF Holds
  <2>4. text'[r.change.path] \in {t, None}
    BY <2>1, <2>2 DEF Untyped
  <2>5. \/ text'[r.change.path] \in {None, r.change.content}
        \/ text'[r.change.path] = t /\ Contains(r.change.path, t)'
    BY <2>3, <2>4
  <2>6. r.pc # "apply" => Contains(r.change.path, r.change.content)'
    BY <1>1, <1>2 DEF Holds
  <2> QED BY <2>1, <2>5, <2>6 DEF Contains
<1>3. r.pc = "viewed" => Contains(r.path, r.answer)'
  BY <1>1 DEF Holds
<1> QED BY <1>2, <1>3 DEF Holds

LEMMA OneFlowHolds ==
  ASSUME Inv, TypedInv, WorkspaceInv', Grows, Untyped,
         NEW f \in Calls, NEW n, flow' = [flow EXCEPT ![f] = n], Holds(n)'
  PROVE  FlowsHold'
<1>1. \A r \in {flow[g] : g \in Calls} : Holds(r)'
  BY HoldsKept DEF Inv, TypedInv, FlowsHold
<1>2. \A g \in Calls : flow'[g] = n \/ flow'[g] \in {flow[h] : h \in Calls}
  BY DEF Inv, FlowInv
<1> QED BY <1>1, <1>2 DEF FlowsHold

\* drafts and what was typed stay, and the contents read are the same
LEMMA SameTyped ==
  ASSUME Inv, TypedInv, WorkspaceInv', Grows, UNCHANGED <<drafts, text>>
  PROVE  /\ Untyped /\ TypedIsKept'
         /\ hydrated' = hydrated => ReadIsThere'
<1>1. \A p, c : Contains(p, c) => Contains(p, c)'
  BY ContainsKept DEF Inv
<1>2. TypedIsKept'
  <2> SUFFICES ASSUME NEW p \in Paths, text'[p] # None
               PROVE  drafts'[p] = text'[p] \/ Contains(p, text[p])'
    BY DEF TypedIsKept
  <2>1. PICK t : t = text[p]
    OBVIOUS
  <2>2. drafts[p] = t \/ Contains(p, t)'
    BY <1>1, <2>1 DEF TypedInv, TypedIsKept
  <2> QED BY <2>1, <2>2 DEF Contains
<1>3. ASSUME hydrated' = hydrated PROVE ReadIsThere'
  <2> SUFFICES ASSUME NEW p \in Paths, hydrated'[p] # None
               PROVE  Contains(p, hydrated[p])'
    BY DEF ReadIsThere
  <2>1. PICK t : t = hydrated[p]
    OBVIOUS
  <2>2. Contains(p, t)'
    BY <1>1, <1>3, <2>1 DEF TypedInv, ReadIsThere
  <2> QED BY <1>3, <2>1, <2>2 DEF Contains
<1> QED BY <1>2, <1>3 DEF Untyped, TypedInv

\* a flow is answered with a: it holds to what it held to
LEMMA AnsweredTyped ==
  ASSUME Inv, TypedInv, WorkspaceInv', Grows, NEW f \in Calls, NEW pc, NEW a, NEW r,
         AnsweredWith(f, pc, a), pc \in {"applied", "snapped", "viewed"},
         r = flow[f], r.pc # "idle",
         pc = "viewed" => Contains(r.path, a)',
         r.kind = "save" /\ r.pc = "apply" => Contains(r.change.path, r.change.content)'
  PROVE  TypedInv'
<1>2. PICK n : n = [r EXCEPT !.pc = pc, !.answer = a]
  OBVIOUS
<1>3. /\ flow' = [flow EXCEPT ![f] = n] /\ UNCHANGED <<hydrated, drafts, text>>
  BY <1>2 DEF AnsweredWith, ideFiles, ideHistory, Inv, FlowInv
<1>4. Untyped /\ TypedIsKept' /\ ReadIsThere'
  BY <1>3, SameTyped
<1>5. Answered(r) /\ Holds(r)
  BY DEF Inv, FlowInv, TypedInv, FlowsHold
<1>6. Holds(r)'
  BY <1>4, <1>5, HoldsKept DEF Inv
<1>7. /\ n.pc = pc /\ n.answer = a /\ n.kind = r.kind /\ n.change = r.change /\ n.path = r.path
  BY <1>2, <1>5 DEF Answered, FlowFields
<1>10. Holds(n)'
  BY <1>6, <1>7 DEF Holds
<1>11. FlowsHold'
  BY <1>3, <1>4, <1>10, OneFlowHolds
<1> QED BY <1>4, <1>11 DEF TypedInv, Untyped

\* an accepted write leads to a revision with what it wrote
LEMMA WriteIsThere ==
  ASSUME WorkspaceInv, NEW c \in WriteRequests, ChangeFiles(c)
  PROVE  Contains(c.path, c.content)'
<1>1. c.path \in Paths /\ c.type = "write"
  BY PathOfWrite
<1>2. stored \in Files /\ versions \in Seq(Files) /\ stored' = Applied(stored, c)
      /\ versions' = Append(versions, stored')
  BY DEF ChangeFiles, WorkspaceInv, HostedTypeOK
<1>3. stored'[c.path] = c.content
  <2>1. CASE stored[c.path] = c.content
    BY <1>1, <1>2, <2>1 DEF Applied, PatchOf
  <2>2. CASE stored[c.path] # c.content
    <3>1. PatchOf(stored, c) = WritePatch(c.path, stored[c.path], c.content)
      BY <1>1, <2>2 DEF PatchOf
    <3>2. WritePatch(c.path, stored[c.path], c.content) \in Patches
      BY <1>1, <1>2, PathOfWrite DEF Patches, WritePatches, Files
    <3>3. stored' = [stored EXCEPT ![c.path] = c.content]
      BY <1>2, <3>1, <3>2, NoPatchAssumption DEF Applied, ApplyPatch, WritePatch
    <3> QED BY <1>1, <1>2, <3>3 DEF Files
  <2> QED BY <2>1, <2>2
<1>4. Len(versions) + 1 \in 1..Len(versions') /\ versions'[Len(versions) + 1] = stored'
  <2> HIDE DEF Files
  <2> QED BY <1>2
<1> QED BY <1>3, <1>4 DEF Contains

LEMMA HandleTyped ==
  ASSUME Inv, TypedInv, NEW f \in Calls, Handle(f)
  PROVE  TypedInv'
<1>1. Inv' /\ WorkspaceInv' /\ Grows
  BY HandleInv DEF Inv
<1>0. PICK r : r = flow[f]
  OBVIOUS
<1>2. CASE HandleChange(f)
  <2>1. PICK a : a = [revision |-> metadata'.revision,
                      changedPaths |-> records'[Len(records')].changedPaths]
    OBVIOUS
  <2>2. AnsweredWith(f, "applied", a) /\ r.pc = "apply" /\ ChangeFiles(r.change)
    BY <1>0, <1>2, <2>1 DEF HandleChange, At
  <2>3. r.kind = "save" => r.change \in WriteRequests
    BY <1>0, <2>2 DEF TypedInv, FlowsHold, Holds
  <2>4. r.kind = "save" => Contains(r.change.path, r.change.content)'
    BY <2>2, <2>3, WriteIsThere DEF Inv
  <2> QED BY <1>0, <1>1, <2>2, <2>4, AnsweredTyped
<1>3. CASE HandleSnapshot(f)
  <2>1. PICK a : a = Snapshot
    OBVIOUS
  <2>2. AnsweredWith(f, "snapped", a) /\ r.pc = "snapshot"
    BY <1>0, <1>3, <2>1 DEF HandleSnapshot, At
  <2> QED BY <1>0, <1>1, <2>2, AnsweredTyped
<1>4. CASE HandleView(f)
  <2>1. PICK a : a = stored[r.path]
    OBVIOUS
  <2>2. AnsweredWith(f, "viewed", a) /\ r.pc = "view" /\ metadata # None
    BY <1>0, <1>4, <2>1 DEF HandleView, At
  <2>3. Contains(r.path, a)'
    BY <1>1, <2>1, <2>2, StoredIsThere, ContainsKept DEF Inv
  <2> QED BY <1>0, <1>1, <2>2, <2>3, AnsweredTyped
<1> QED BY <1>2, <1>3, <1>4 DEF Handle

-----------------------------------------------------------------------------
\* what the user does and the stream brings; the workspace stays as it is

LEMMA BeginTyped ==
  ASSUME Inv, TypedInv, UNCHANGED hostedVars, NEW n, Begin(n), Holds(n),
         UNCHANGED <<hydrated, drafts, text>>
  PROVE  TypedInv'
<1>1. WorkspaceInv' /\ Grows
  BY SameInv DEF Inv
<1>2. Untyped /\ TypedIsKept' /\ ReadIsThere'
  BY <1>1, SameTyped
<1>3. PICK f \in Calls : flow' = [flow EXCEPT ![f] = n]
  BY DEF Begin
<1>4. Holds(n)'
  BY <1>1, <1>2, HoldsKept DEF Inv
<1>5. FlowsHold'
  BY <1>1, <1>2, <1>3, <1>4, OneFlowHolds
<1> QED BY <1>2, <1>5 DEF TypedInv, Untyped

LEMMA StillTyped ==
  ASSUME Inv, TypedInv, WorkspaceInv', Grows, UNCHANGED <<flow, hydrated, drafts, text>>
  PROVE  TypedInv'
<1>1. Untyped /\ TypedIsKept' /\ ReadIsThere'
  BY SameTyped
<1>2. FlowsHold'
  BY <1>1, HoldsKept DEF Inv, TypedInv, FlowsHold
<1> QED BY <1>1, <1>2 DEF TypedInv, Untyped

LEMMA CommittedIsThere ==
  ASSUME Inv, TypedInv, NEW p \in Listed
  PROVE  p \in Paths /\ Contains(p, Committed(p)) /\ Committed(p) # None
<1>1. p \in Paths /\ snapshot # None /\ snapshot.files[p] \in Contents
  BY ListedIs DEF Inv
<1>2. PICK s : s = snapshot
  OBVIOUS
<1>3. Contains(p, s.files[p])
  BY <1>1, <1>2, SnapshotIsThere DEF Inv, HeldInv
<1> QED BY <1>1, <1>2, <1>3, NoneAssumption DEF Committed, TypedInv, ReadIsThere

LEMMA SaveHolds ==
  ASSUME Inv, TypedInv, SelectedFile # None, NEW n,
         n = Change("save", WriteFile(SelectedFile, Shown(SelectedFile)))
  PROVE  Holds(n)
<1>1. PICK p : p = SelectedFile
  OBVIOUS
<1>2. p \in Listed /\ p \in Paths
  BY <1>1, ListedIs DEF Inv
<1>3. PICK d : d = Shown(p)
  OBVIOUS
<1>4. PICK c : c = WriteFile(p, d)
  OBVIOUS
<1>5. n.pc = "apply" /\ n.kind = "save" /\ n.change = c
  BY <1>1, <1>3, <1>4 DEF Change, Idle
<1>6. c.path = p /\ c.content = d
  BY <1>4 DEF WriteFile
<1>7. d \in Contents
  <2>1. drafts[p] \in Entry /\ hydrated[p] \in Entry /\ snapshot.files[p] \in Contents
    BY <1>2, ListedIs DEF Inv, HeldInv, Files
  <2> QED BY <1>3, <2>1 DEF Shown, Committed, Entry
<1>8. c \in WriteRequests
  BY <1>2, <1>4, <1>7 DEF WriteRequests
<1>9. text[p] \in {None, d} \/ Contains(p, text[p])
  <2>1. CASE drafts[p] # None
    BY <1>2, <1>3, <2>1 DEF Shown, TypedInv, TypedIsKept
  <2>2. CASE drafts[p] = None
    BY <1>2, <2>2 DEF TypedInv, TypedIsKept
  <2> QED BY <2>1, <2>2
<1> QED BY <1>5, <1>6, <1>8, <1>9 DEF Holds

\* a path that nothing saves or deletes is no save's
LEMMA NotSaved ==
  ASSUME FlowsHold, NEW p, ~ BeingSaved(p), NEW r \in {flow[f] : f \in Calls},
         r.kind = "save", r.pc # "idle"
  PROVE  r.change.path # p
BY DEF BeingSaved, At

LEMMA TypingTyped ==
  ASSUME Inv, TypedInv, UNCHANGED hostedVars, NEW c \in Typed, UpdateActiveFile(c)
  PROVE  TypedInv'
<1>1. WorkspaceInv' /\ Grows
  BY SameInv DEF Inv
<1>2. PICK p : p = SelectedFile
  OBVIOUS
<1>3. p \in Listed /\ p \in Paths
  BY <1>2, ListedIs DEF UpdateActiveFile, Inv
<1>4. Contains(p, Committed(p)) /\ c # None
  BY <1>3, CommittedIsThere, IdeAssumption, NoneAssumption
<1>5. PICK draft : draft = IF c = Committed(p) THEN None ELSE c
  OBVIOUS
<1>6. PICK t : t = IF BeingSaved(p) THEN None ELSE c
  OBVIOUS
<1>7. /\ UNCHANGED <<hydrated, flow>>
      /\ drafts' = [drafts EXCEPT ![p] = draft] /\ text' = [text EXCEPT ![p] = t]
  BY <1>2, <1>5, <1>6 DEF UpdateActiveFile
<1>8. /\ DOMAIN text' = Paths /\ drafts'[p] = draft /\ text'[p] = t
      /\ \A q \in Paths \ {p} : drafts'[q] = drafts[q] /\ text'[q] = text[q]
  BY <1>3, <1>7 DEF Inv, HeldInv, Files, TypedInv
<1>9. \A q, d : Contains(q, d) <=> Contains(q, d)'
  BY DEF Contains, hostedVars
<1>10. TypedIsKept'
  <2> SUFFICES ASSUME NEW q \in Paths, text'[q] # None
               PROVE  drafts'[q] = text'[q] \/ Contains(q, text[q])'
    BY DEF TypedIsKept
  <2>1. PICK d : d = text'[q]
    OBVIOUS
  <2>2. drafts'[q] = d \/ Contains(q, d)
    BY <1>4, <1>5, <1>6, <1>8, <2>1 DEF TypedInv, TypedIsKept
  <2> QED BY <1>9, <2>1, <2>2 DEF Contains
<1>11. ReadIsThere'
  BY <1>7 DEF TypedInv, ReadIsThere, Contains, hostedVars
<1>12. FlowsHold'
  <2> SUFFICES ASSUME NEW r \in {flow[f] : f \in Calls} PROVE Holds(r)'
    BY <1>7 DEF FlowsHold
  <2>1. Holds(r)
    BY DEF TypedInv, FlowsHold
  <2>2. r.pc = "viewed" => Contains(r.path, r.answer)'
    BY <1>9, <2>1 DEF Holds
  <2>3. ASSUME r.kind = "save", r.pc # "idle"
        PROVE  /\ text'[r.change.path] \in {None, r.change.content}
                  \/ Contains(r.change.path, text'[r.change.path])
               /\ r.pc # "apply" => Contains(r.change.path, r.change.content)
    <3>1. r.change.path \in Paths
      BY <2>1, <2>3, PathOfWrite DEF Holds
    <3>2. CASE r.change.path = p
      BY <1>6, <1>8, <2>1, <2>3, <3>2, NotSaved DEF TypedInv, Holds
    <3>3. CASE r.change.path # p
      BY <1>8, <2>1, <2>3, <3>1, <3>3 DEF Holds
    <3> QED BY <3>2, <3>3
  <2>4. ASSUME NEW q, NEW d, d = text'[q] PROVE Contains(q, d) => Contains(q, text[q])'
    BY <2>4 DEF Contains, hostedVars
  <2> QED BY <1>9, <2>1, <2>2, <2>3, <2>4 DEF Holds
<1> QED BY <1>8, <1>10, <1>11, <1>12 DEF TypedInv

LEMMA DiscardTyped ==
  ASSUME Inv, TypedInv, UNCHANGED hostedVars, DiscardActiveDraft
  PROVE  TypedInv'
<1>1. WorkspaceInv' /\ Grows
  BY SameInv DEF Inv
<1>2. PICK p : p = SelectedFile
  OBVIOUS
<1>3. p \in Paths
  BY <1>2, ListedIs DEF DiscardActiveDraft, Inv
<1>4. /\ UNCHANGED <<hydrated, flow>> /\ DOMAIN text' = Paths /\ text'[p] = None
      /\ \A q \in Paths \ {p} : drafts'[q] = drafts[q] /\ text'[q] = text[q]
  BY <1>2, <1>3 DEF DiscardActiveDraft, Inv, HeldInv, Files, TypedInv
<1>5. Untyped
  BY <1>4 DEF Untyped
<1>6. FlowsHold'
  BY <1>1, <1>4, <1>5, HoldsKept DEF Inv, TypedInv, FlowsHold
<1>7. TypedIsKept' /\ ReadIsThere'
  BY <1>4 DEF TypedInv, TypedIsKept, ReadIsThere, Contains, hostedVars
<1> QED BY <1>4, <1>6, <1>7 DEF TypedInv

\* neither a refresh, a look at a file nor another change is a save
LEMMA OtherFlowsHold ==
  \A n : \/ n \in {Refresh(TRUE), Refresh(FALSE), Idle}
         \/ \E p : n = Hydrate(p)
         \/ \E kind \in {"add", "delete", "view", "agent"} : \E c : n = Change(kind, c)
         => Holds(n)
<1>1. \A n : n.pc # "viewed" /\ n.kind # "save" => Holds(n)
  BY DEF Holds
<1>2. \A n : n \in {Refresh(TRUE), Refresh(FALSE), Idle} => Holds(n)
  BY <1>1 DEF Refresh, Idle
<1>3. \A n, p : n = Hydrate(p) => Holds(n)
  BY <1>1 DEF Hydrate, Idle
<1>4. \A n, c : \A kind \in {"add", "delete", "view", "agent"} :
        n = Change(kind, c) => Holds(n)
  BY <1>1 DEF Change, Idle
<1> QED BY <1>2, <1>3, <1>4

LEMMA UserTyped ==
  ASSUME Inv, TypedInv, UNCHANGED hostedVars, User
  PROVE  TypedInv'
<1>1. ASSUME NEW p \in Paths, SetActiveFile(p) PROVE TypedInv'
  <2>1. PICK n : n = Hydrate(p)
    OBVIOUS
  <2>2. Begin(n) /\ Holds(n) /\ UNCHANGED <<hydrated, drafts, text>>
    BY <1>1, <2>1, OtherFlowsHold DEF SetActiveFile, ideHistory
  <2> QED BY <2>2, BeginTyped
<1>2. CASE \E c \in Typed : UpdateActiveFile(c)
  BY <1>2, TypingTyped
<1>3. CASE SaveActiveFile
  <2>1. PICK n : n = Change("save", WriteFile(SelectedFile, Shown(SelectedFile)))
    OBVIOUS
  <2>2. /\ SelectedFile # None /\ Begin(n) /\ UNCHANGED <<hydrated, drafts, text>>
    BY <1>3, <2>1 DEF SaveActiveFile, ideFiles, ideHistory
  <2> QED BY <2>1, <2>2, SaveHolds, BeginTyped
<1>4. CASE DiscardActiveDraft
  BY <1>4, DiscardTyped
<1>5. CASE AddFile \/ DeleteActiveFile \/ ApplyProjectChange
  <2>1. PICK kind \in {"add", "delete", "view", "agent"} : \E c : Begin(Change(kind, c))
    BY <1>5 DEF AddFile, DeleteActiveFile, ApplyProjectChange
  <2>5. PICK c : Begin(Change(kind, c))
    BY <2>1
  <2>2. PICK n : n = Change(kind, c)
    OBVIOUS
  <2>3. Begin(n) /\ Holds(n)
    BY <2>2, <2>5, OtherFlowsHold
  <2>4. UNCHANGED <<hydrated, drafts, text>>
    BY <1>5 DEF AddFile, DeleteActiveFile, ApplyProjectChange, ideFiles, ideHistory
  <2> QED BY <2>3, <2>4, BeginTyped
<1> QED BY <1>1, <1>2, <1>3, <1>4, <1>5 DEF User

LEMMA StreamTyped ==
  ASSUME Inv, TypedInv, UNCHANGED hostedVars, Start \/ Stop \/ \E e \in deliveries : Deliver(e)
  PROVE  TypedInv'
<1>1. WorkspaceInv' /\ Grows
  BY SameInv DEF Inv
<1>2. UNCHANGED <<hydrated, drafts, text>>
  BY DEF Start, Stop, Deliver, ideFiles, ideHistory
<1>3. flow' = flow \/ \E n \in {Refresh(TRUE), Refresh(FALSE)} : Begin(n)
  BY DEF Start, Stop, Deliver
<1>4. CASE flow' = flow
  BY <1>1, <1>2, <1>4, StillTyped
<1>5. ASSUME NEW n \in {Refresh(TRUE), Refresh(FALSE)}, Begin(n) PROVE TypedInv'
  <2>1. Holds(n)
    BY OtherFlowsHold
  <2> QED BY <1>2, <1>5, <2>1, BeginTyped
<1> QED BY <1>3, <1>4, <1>5

-----------------------------------------------------------------------------
\* how flows go on and end

\* whatever is in a revision stays there while the workspace does
LEMMA ContainsSame ==
  ASSUME UNCHANGED hostedVars
  PROVE  \A p, c : Contains(p, c)' <=> Contains(p, c)
BY DEF hostedVars, Contains

\* a save that ends has written: what it drops of the drafts is in a revision
LEMMA EndsTyped ==
  ASSUME Inv, TypedInv, UNCHANGED hostedVars, NEW f \in Calls, Ends(f),
         flow[f].pc \notin {"idle", "apply"}, ReadIsThere'
  PROVE  TypedInv'
<1>1. WorkspaceInv' /\ Grows
  BY SameInv DEF Inv
<1>2. PICK r : r = flow[f]
  OBVIOUS
<1>3. Holds(r) /\ r.pc \notin {"idle", "apply"}
  BY <1>2 DEF TypedInv, FlowsHold
<1>4. /\ DOMAIN text' = Paths
      /\ \A p \in Paths :
           /\ drafts'[p] = IF Settles(r, p) THEN None ELSE drafts[p]
           /\ text'[p] = IF Settles(r, p) /\ r.kind = "delete" THEN None ELSE text[p]
  BY <1>2 DEF Ends
<1>5. Untyped
  BY <1>4 DEF Untyped
<1>6. FlowsHold'
  <2>1. PICK n : n = Idle
    OBVIOUS
  <2>2. Holds(n)
    BY <2>1, OtherFlowsHold
  <2>3. Holds(n)' /\ flow' = [flow EXCEPT ![f] = n]
    BY <1>1, <1>5, <2>1, <2>2, HoldsKept DEF Ends, Inv
  <2> QED BY <1>1, <1>5, <2>3, OneFlowHolds
<1>7. TypedIsKept'
  <2> SUFFICES ASSUME NEW p \in Paths, text'[p] # None
               PROVE  drafts'[p] = text'[p] \/ Contains(p, text[p])'
    BY DEF TypedIsKept
  <2>1. PICK t : t = text[p]
    OBVIOUS
  <2>2. text'[p] = t /\ ~ (Settles(r, p) /\ r.kind = "delete")
    BY <1>4, <2>1
  <2>3. CASE ~ Settles(r, p)
    <3>1. drafts'[p] = t \/ Contains(p, t)
      BY <1>4, <2>1, <2>2, <2>3 DEF TypedInv, TypedIsKept
    <3> QED BY <2>2, <3>1, ContainsSame DEF Contains
  <2>4. CASE Settles(r, p)
    <3>1. r.kind = "save" /\ r.change.path = p
      BY <2>2, <2>4 DEF Settles
    <3>2. t \in {None, r.change.content} \/ Contains(p, t)
      BY <1>3, <2>1, <3>1 DEF Holds
    <3>3. Contains(p, r.change.content)
      BY <1>3, <3>1 DEF Holds
    <3>4. Contains(p, t)
      BY <2>2, <3>2, <3>3
    <3> QED BY <2>2, <3>4, ContainsSame DEF Contains
  <2> QED BY <2>3, <2>4
<1> QED BY <1>4, <1>6, <1>7 DEF TypedInv

\* a flow that goes on as n holds to what it held to
LEMMA GoesOnTyped ==
  ASSUME Inv, TypedInv, UNCHANGED hostedVars, NEW f \in Calls, NEW r, NEW n,
         r = flow[f], flow' = [flow EXCEPT ![f] = n],
         n.kind = r.kind, n.change = r.change, n.pc \notin {"apply", "viewed"},
         r.pc \notin {"idle", "apply"}, UNCHANGED <<drafts, text>>, ReadIsThere'
  PROVE  TypedInv'
<1>1. WorkspaceInv' /\ Grows
  BY SameInv DEF Inv
<1>2. Untyped /\ TypedIsKept'
  BY <1>1, SameTyped
<1>3. Holds(r)
  BY DEF TypedInv, FlowsHold
<1>4. Holds(r)'
  BY <1>1, <1>2, <1>3, HoldsKept DEF Inv
<1>5. Holds(n)'
  BY <1>4 DEF Holds
<1>6. FlowsHold'
  BY <1>1, <1>2, <1>5, OneFlowHolds
<1> QED BY <1>2, <1>6 DEF TypedInv, Untyped

LEMMA AnswersTyped ==
  ASSUME Inv, TypedInv, UNCHANGED hostedVars, NEW f \in Calls, Answers(f)
  PROVE  TypedInv'
<1>1. WorkspaceInv' /\ Grows
  BY SameInv DEF Inv
<1>2. PICK r : r = flow[f]
  OBVIOUS
<1>3. Answered(r) /\ Holds(r)
  BY <1>2 DEF Inv, FlowInv, TypedInv, FlowsHold
<1>4. hydrated' = hydrated \/ hydrated' = NoFiles => ReadIsThere'
  <2>1. CASE hydrated' = hydrated
    BY <2>1 DEF TypedInv, ReadIsThere, Contains, hostedVars
  <2>2. CASE hydrated' = NoFiles
    BY <2>2 DEF ReadIsThere, NoFiles
  <2> QED BY <2>1, <2>2
<1>5. CASE ApplyAnswered(f)
  <2>1. PICK n : n = [r EXCEPT !.pc = "snapshot", !.reply = r.answer, !.answer = None]
    OBVIOUS
  <2>2. /\ flow' = [flow EXCEPT ![f] = n] /\ r.pc = "applied"
        /\ UNCHANGED <<hydrated, drafts, text>>
    BY <1>2, <1>5, <2>1 DEF ApplyAnswered, At, ideFiles, ideHistory, Inv, FlowInv
  <2>3. n.pc = "snapshot" /\ n.kind = r.kind /\ n.change = r.change
    BY <1>3, <2>1 DEF Answered, FlowFields
  <2> QED BY <1>2, <1>4, <2>2, <2>3, GoesOnTyped
<1>6. CASE ApplyFails(f)
  <2>1. PICK n : n = Idle
    OBVIOUS
  <2>2. flow' = [flow EXCEPT ![f] = n] /\ UNCHANGED <<hydrated, drafts, text>>
    BY <1>6, <2>1 DEF ApplyFails, ideFiles, ideHistory
  <2>3. Untyped /\ TypedIsKept' /\ ReadIsThere'
    BY <1>1, <2>2, SameTyped
  <2>4. Holds(n)'
    BY <1>1, <2>1, <2>3, OtherFlowsHold, HoldsKept DEF Inv
  <2>5. FlowsHold'
    BY <1>1, <2>2, <2>3, <2>4, OneFlowHolds
  <2> QED BY <2>3, <2>5 DEF TypedInv, Untyped
<1>7. CASE SnapshotAnswered(f)
  <2>1. PICK n : n = [r EXCEPT !.pc = "state", !.answer = None, !.readBack = (r.reply # None)]
    OBVIOUS
  <2>2. /\ flow' = [flow EXCEPT ![f] = n] /\ r.pc = "snapped"
        /\ UNCHANGED <<hydrated, drafts, text>>
    BY <1>2, <1>7, <2>1 DEF SnapshotAnswered, At, Inv, FlowInv
  <2>3. n.pc = "state" /\ n.kind = r.kind /\ n.change = r.change
    BY <1>3, <2>1 DEF Answered, FlowFields
  <2> QED BY <1>2, <1>4, <2>2, <2>3, GoesOnTyped
<1>8. CASE SnapshotFails(f) \/ ViewFails(f)
  <2>1. Ends(f) /\ hydrated' = hydrated /\ flow[f].pc \notin {"idle", "apply"}
    BY <1>8 DEF SnapshotFails, ViewFails
  <2> QED BY <1>4, <2>1, EndsTyped
<1>9. CASE StateAnswered(f) \/ StateFails(f)
  <2>1. GoesOn(f) /\ hydrated' \in {hydrated, NoFiles} /\ r.pc = "state"
    BY <1>2, <1>9 DEF StateAnswered, StateFails, At
  <2>2. CASE activeFile = None
    BY <1>2, <1>4, <2>1, <2>2, EndsTyped DEF GoesOn
  <2>3. CASE activeFile # None
    <3>1. PICK n : n = [r EXCEPT !.pc = "view", !.path = activeFile]
      OBVIOUS
    <3>2. flow' = [flow EXCEPT ![f] = n] /\ UNCHANGED <<drafts, text>>
      BY <1>2, <2>1, <2>3, <3>1 DEF GoesOn, ideHistory, Inv, FlowInv
    <3>3. n.pc = "view" /\ n.kind = r.kind /\ n.change = r.change
      BY <1>3, <3>1 DEF Answered, FlowFields
    <3> QED BY <1>2, <1>4, <2>1, <3>2, <3>3, GoesOnTyped
  <2> QED BY <2>2, <2>3
<1>10. CASE ViewAnswered(f)
  <2>1. /\ Ends(f) /\ r.pc = "viewed" /\ r.path \in Paths
        /\ hydrated' = [hydrated EXCEPT ![r.path] = r.answer]
    BY <1>2, <1>3, <1>10 DEF ViewAnswered, At, Answered
  <2>2. Contains(r.path, r.answer)
    BY <1>3, <2>1 DEF Holds
  <2>3. /\ hydrated'[r.path] = r.answer
        /\ \A p \in Paths \ {r.path} : hydrated'[p] = hydrated[p]
    BY <2>1 DEF Inv, HeldInv, Files
  <2>4. ReadIsThere'
    BY <2>2, <2>3 DEF TypedInv, ReadIsThere, Contains, hostedVars
  <2> QED BY <1>2, <2>1, <2>4, EndsTyped
<1> QED BY <1>5, <1>6, <1>7, <1>8, <1>9, <1>10 DEF Answers

LEMMA NextTyped == Inv /\ TypedInv /\ [Next]_vars => TypedInv'
<1> SUFFICES ASSUME Inv, TypedInv, [Next]_vars PROVE TypedInv'
  OBVIOUS
<1>1. CASE UNCHANGED vars
  <2>1. UNCHANGED hostedVars /\ UNCHANGED <<flow, hydrated, drafts, text>>
    BY <1>1 DEF vars, ideVars, ideFiles, ideHistory
  <2> QED BY <2>1, SameInv, StillTyped DEF Inv
<1>2. CASE Others
  <2>1. WorkspaceInv' /\ Grows
    BY <1>2, OthersInv DEF Inv
  <2>2. UNCHANGED <<flow, hydrated, drafts, text>>
    BY <1>2 DEF Others, ideVars, ideFiles, ideHistory
  <2> QED BY <2>1, <2>2, StillTyped
<1>3. ASSUME NEW f \in Calls, Handle(f) PROVE TypedInv'
  BY <1>3, HandleTyped
<1>4. CASE IdeNext /\ UNCHANGED hostedVars
  BY <1>4, StreamTyped, UserTyped, AnswersTyped DEF IdeNext
<1> QED BY <1>1, <1>2, <1>3, <1>4 DEF Next

(* Typed text that nobody discarded is the draft or in a revision of the   *)
(* workspace, for any number of calls lost, refused or answered late, and  *)
(* whatever others change (saveActiveFile).                                *)
THEOREM TypedTextIsKept == Spec => []TypedIsKept
<1>1. TypedInv => TypedIsKept
  BY DEF TypedInv
<1> QED BY <1>1, InitTyped, NextTyped, SpecInv, PTL DEF Spec
=============================================================================
