--------------------------- MODULE ArtifactProofs ---------------------------
(***************************************************************************)
(* Proofs about the changes of ArtifactChange and the two places where     *)
(* they meet files that stay, for every set of paths and contents.         *)
(*                                                                         *)
(* VersionedStore: every patch a change makes can be undone, undo and redo *)
(* cannot fail, and the store implements the history of whole contents.    *)
(*                                                                         *)
(* LocalWorkspace, for any number of requests under way, of the            *)
(* developer's edits and of failures: types, revisions that never go back, *)
(* secrets that stay, all staged files committed, and a cached snapshot    *)
(* that shows the disk at rest.                                            *)
(***************************************************************************)
EXTENDS LocalWorkspace, VersionedStore, SequenceTheorems, TLAPS


(* What a write, a deletion and a replacement do, and that their inverses  *)
(* lead back.                                                              *)
LEMMA WriteLeads ==
  ASSUME NEW f \in Files, NEW p \in Paths, NEW x \in Contents
  PROVE  /\ ApplyPatch(f, WritePatch(p, f[p], x)) = [f EXCEPT ![p] = x]
         /\ WritePatch(p, f[p], x) \in Patches
         /\ Leads(f, [f EXCEPT ![p] = x], WritePatch(p, f[p], x))
<1> DEFINE g == [f EXCEPT ![p] = x]
           patch == WritePatch(p, f[p], x)
<1>1. x # None /\ f[p] \in Entry /\ g[p] = x /\ [g EXCEPT ![p] = f[p]] = f
  BY NoneAssumption DEF Files
<1>2. patch \in Patches
  BY <1>1 DEF Patches, WritePatches
<1>3. ApplyPatch(f, patch) = g /\ Applies(f, patch)
  BY DEF ApplyPatch, Applies, WritePatch
<1>4. CASE f[p] = None
  <2>1. InvertPatch(patch) = DeletePatch(p, x)
    BY <1>4 DEF InvertPatch, WritePatch
  <2>2. Applies(g, DeletePatch(p, x)) /\ ApplyPatch(g, DeletePatch(p, x)) = [g EXCEPT ![p] = None]
    BY <1>1 DEF Applies, ApplyPatch, DeletePatch
  <2> QED BY <1>1, <1>2, <1>3, <1>4, <2>1, <2>2 DEF Leads
<1>5. CASE f[p] # None
  <2>1. InvertPatch(patch) = WritePatch(p, x, f[p])
    BY <1>5 DEF InvertPatch, WritePatch
  <2>2. Applies(g, WritePatch(p, x, f[p]))
        /\ ApplyPatch(g, WritePatch(p, x, f[p])) = [g EXCEPT ![p] = f[p]]
    BY <1>1 DEF Applies, ApplyPatch, WritePatch
  <2> QED BY <1>1, <1>2, <1>3, <2>1, <2>2 DEF Leads
<1> QED BY <1>4, <1>5

LEMMA DeleteLeads ==
  ASSUME NEW f \in Files, NEW p \in Paths, f[p] # None
  PROVE  /\ ApplyPatch(f, DeletePatch(p, f[p])) = [f EXCEPT ![p] = None]
         /\ DeletePatch(p, f[p]) \in Patches
         /\ Leads(f, [f EXCEPT ![p] = None], DeletePatch(p, f[p]))
<1> DEFINE g == [f EXCEPT ![p] = None]
           patch == DeletePatch(p, f[p])
<1>1. f[p] \in Contents /\ g[p] = None /\ [g EXCEPT ![p] = f[p]] = f
  BY DEF Files, Entry
<1>2. patch \in Patches
  BY <1>1 DEF Patches, DeletePatches
<1>3. ApplyPatch(f, patch) = g /\ Applies(f, patch)
  BY DEF ApplyPatch, Applies, DeletePatch
<1>4. InvertPatch(patch) = WritePatch(p, None, f[p])
  BY DEF InvertPatch, DeletePatch
<1>5. Applies(g, WritePatch(p, None, f[p]))
      /\ ApplyPatch(g, WritePatch(p, None, f[p])) = [g EXCEPT ![p] = f[p]]
  BY <1>1 DEF Applies, ApplyPatch, WritePatch
<1> QED BY <1>1, <1>2, <1>3, <1>4, <1>5 DEF Leads

LEMMA ReplaceLeads ==
  ASSUME NEW f \in Files, NEW g \in Files
  PROVE  /\ ApplyPatch(f, ReplacePatch(f, g)) = g
         /\ ReplacePatch(f, g) \in Patches
         /\ Leads(f, g, ReplacePatch(f, g))
<1>1. ReplacePatch(f, g) \in Patches
  BY DEF Patches, ReplacePatches
<1>2. InvertPatch(ReplacePatch(f, g)) = ReplacePatch(g, f)
  BY DEF InvertPatch, ReplacePatch
<1>3. \A u, v, w \in Files : Applies(u, ReplacePatch(v, w)) /\ ApplyPatch(u, ReplacePatch(v, w)) = w
  BY DEF Applies, ApplyPatch, ReplacePatch
<1> QED BY <1>1, <1>2, <1>3 DEF Leads

(* The patch of an accepted change is a patch, it applies, its inverse     *)
(* applies to what it made, and brings back exactly the files there were   *)
(* (createPatch, applyPatch, invertPatch).                                 *)
LEMMA PatchLeads ==
  ASSUME NEW f \in Files, NEW c \in Requests, Accepts(f, c), PatchOf(f, c) # None
  PROVE  /\ PatchOf(f, c) \in Patches
         /\ ApplyPatch(f, PatchOf(f, c)) \in Files
         /\ ApplyPatch(f, PatchOf(f, c)) # f
         /\ Leads(f, ApplyPatch(f, PatchOf(f, c)), PatchOf(f, c))
<1>1. CASE c \in WriteRequests
  <2>1. PICK p \in Paths, x \in Contents : c = WriteFile(p, x)
    BY <1>1 DEF WriteRequests
  <2>2. f[p] # x /\ PatchOf(f, c) = WritePatch(p, f[p], x)
    BY <2>1 DEF WriteFile, PatchOf
  <2>3. [f EXCEPT ![p] = x] \in Files /\ [f EXCEPT ![p] = x][p] = x
    BY DEF Files, Entry
  <2> QED BY <2>2, <2>3, WriteLeads
<1>2. CASE c \in CreateRequests
  <2>1. PICK p \in Paths, x \in Contents : c = CreateFile(p, x)
    BY <1>2 DEF CreateRequests
  <2>2. f[p] = None /\ PatchOf(f, c) = WritePatch(p, f[p], x)
    BY <2>1 DEF CreateFile, PatchOf, Accepts
  <2>3. [f EXCEPT ![p] = x] \in Files /\ [f EXCEPT ![p] = x][p] = x /\ x # None
    BY NoneAssumption DEF Files, Entry
  <2> QED BY <2>2, <2>3, WriteLeads
<1>3. CASE c \in DeleteRequests
  <2>1. PICK p \in Paths : c = DeleteFile(p)
    BY <1>3 DEF DeleteRequests
  <2>2. f[p] # None /\ PatchOf(f, c) = DeletePatch(p, f[p])
    BY <2>1 DEF DeleteFile, PatchOf, Accepts
  <2>3. [f EXCEPT ![p] = None] \in Files /\ [f EXCEPT ![p] = None][p] = None
    BY DEF Files, Entry
  <2> QED BY <2>2, <2>3, DeleteLeads
<1>4. CASE c \in RenameRequests
  <2>1. PICK p \in Paths, q \in Paths : c = RenameFile(p, q)
    BY <1>4 DEF RenameRequests
  <2>2. f[p] # None /\ p # q /\ PatchOf(f, c) = ReplacePatch(f, Renamed(f, p, q))
    BY <2>1 DEF RenameFile, PatchOf, Accepts
  <2>3. Renamed(f, p, q) \in Files /\ Renamed(f, p, q)[p] = None
    BY <2>2 DEF Renamed, Files, Entry
  <2> QED BY <2>2, <2>3, ReplaceLeads
<1>5. CASE c \in ReplaceRequests
  <2>1. PICK g \in Files : c = ReplaceFiles(g)
    BY <1>5 DEF ReplaceRequests
  <2>2. f # g /\ PatchOf(f, c) = ReplacePatch(f, g)
    BY <2>1 DEF ReplaceFiles, PatchOf
  <2> QED BY <2>2, ReplaceLeads
<1> QED BY <1>1, <1>2, <1>3, <1>4, <1>5 DEF Requests

-----------------------------------------------------------------------------
StoreInv == StoreTypeOK /\ Chain

LEMMA StoreInitInv == StoreInit => StoreInv
BY EmptySeq DEF StoreInit, StoreInv, StoreTypeOK, Chain

LEMMA PrefixSeq ==
  ASSUME NEW S, NEW s \in Seq(S), NEW n \in 0..Len(s)
  PROVE  /\ SubSeq(s, 1, n) \in Seq(S) /\ Len(SubSeq(s, 1, n)) = n
         /\ \A i \in 1..n : SubSeq(s, 1, n)[i] = s[i]
<1>1. \A i \in 1..n : s[i] \in S
  BY ElementOfSeq
<1>2. n \in Int /\ 1 \in Int /\ n - 1 + 1 = n /\ (IF 1 <= n THEN n - 1 + 1 ELSE 0) = n
  OBVIOUS
<1>3. /\ SubSeq(s, 1, n) \in Seq(S) /\ Len(SubSeq(s, 1, n)) = n
      /\ \A i \in 1..n : SubSeq(s, 1, n)[i] = s[1 + i - 1]
  BY <1>1, <1>2, SubSeqProperties
<1>4. \A i \in 1..n : 1 + i - 1 = i
  OBVIOUS
<1> QED BY ONLY <1>3, <1>4, Zenon

LEMMA StoreApplyInv ==
  ASSUME StoreInv, NEW c \in Requests, Apply(c)
  PROVE  /\ StoreInv'
         /\ files' \in Files /\ files' # files /\ OneChange(files, files')
<1> DEFINE patch == PatchOf(files, c)
           kept  == SubSeq(revisions, 1, cursor + 1)
           old   == SubSeq(versions, 1, cursor + 2)
           rev   == Revision(revisionSequence + 1, CurrentId, patch)
<1>1. /\ patch \in Patches /\ files' = ApplyPatch(files, patch)
      /\ files' \in Files /\ files' # files /\ Leads(files, files', patch)
  BY PatchLeads DEF StoreInv, StoreTypeOK, Apply
<1>2. OneChange(files, files')
  BY <1>1 DEF Apply, OneChange, Applied
<1>3. rev \in [id : Nat, parentId : Nat, patch : Patches]
  <2>1. CurrentId \in Nat
    <3>1. CASE cursor >= 0
      <4>1. cursor + 1 \in 1..Len(revisions)
        BY <3>1 DEF StoreInv, StoreTypeOK
      <4>2. revisions[cursor + 1] \in [id : Nat, parentId : Nat, patch : Patches]
        BY <4>1, ElementOfSeq DEF StoreInv, StoreTypeOK
      <4> QED BY <3>1, <4>2 DEF CurrentId
    <3> QED BY <3>1 DEF CurrentId
  <2>2. revisionSequence + 1 \in Nat /\ patch \in Patches
    BY <1>1 DEF StoreInv, StoreTypeOK
  <2> QED BY <2>1, <2>2 DEF Revision
<1>4. /\ kept \in Seq([id : Nat, parentId : Nat, patch : Patches]) /\ Len(kept) = cursor + 1
      /\ \A i \in 1..(cursor + 1) : kept[i] = revisions[i]
  <2>1. cursor + 1 \in 0..Len(revisions)
    BY DEF StoreInv, StoreTypeOK
  <2> QED BY <2>1, PrefixSeq DEF StoreInv, StoreTypeOK
<1>5. /\ old \in Seq(Files) /\ Len(old) = cursor + 2
      /\ \A i \in 1..(cursor + 2) : old[i] = versions[i]
  <2>1. cursor + 2 \in 0..Len(versions)
    BY DEF StoreInv, StoreTypeOK
  <2> QED BY <2>1, PrefixSeq DEF StoreInv, StoreTypeOK
<1>6. revisions' = Append(kept, rev) /\ cursor' = cursor + 1 /\ versions' = Append(old, files')
      /\ revisionSequence' = revisionSequence + 1
  BY <1>4 DEF Apply
<1>7. StoreTypeOK'
  BY <1>1, <1>3, <1>4, <1>5, <1>6, SMTT(30) DEF StoreInv, StoreTypeOK
<1>8. Chain'
  <2>1. files' = versions'[cursor' + 2]
    BY <1>5, <1>6 DEF StoreInv, StoreTypeOK
  <2>2. ASSUME NEW i \in 1..Len(revisions')
        PROVE  Leads(versions'[i], versions'[i + 1], revisions'[i].patch)
    <3>1. CASE i \in 1..(cursor + 1)
      <4>1. versions'[i] = versions[i] /\ versions'[i + 1] = versions[i + 1]
            /\ revisions'[i] = revisions[i]
        <5>1. cursor \in Int /\ i \in 1..(cursor + 1)
              /\ i \in 1..(cursor + 2) /\ i + 1 \in 1..(cursor + 2)
          BY <3>1 DEF StoreInv, StoreTypeOK
        <5>2. old[i] = versions[i] /\ old[i + 1] = versions[i + 1] /\ kept[i] = revisions[i]
          BY <5>1, <1>4, <1>5
        <5>3. versions'[i] = old[i] /\ versions'[i + 1] = old[i + 1]
          BY <5>1, <1>1, <1>5, <1>6
        <5>4. revisions'[i] = kept[i]
          BY <5>1, <1>3, <1>4, <1>6
        <5> QED BY <5>2, <5>3, <5>4
      <4>2. i \in 1..Len(revisions)
        BY <3>1 DEF StoreInv, StoreTypeOK
      <4> QED BY <4>1, <4>2 DEF StoreInv, Chain
    <3>2. CASE i = cursor + 2
      <4>1. versions'[i] = files /\ versions'[i + 1] = files' /\ revisions'[i] = rev
        <5>1. cursor \in Int /\ cursor + 2 \in 1..(cursor + 2) /\ files = versions[cursor + 2]
          BY DEF StoreInv, StoreTypeOK, Chain
        <5>2. versions'[cursor + 2] = old[cursor + 2] /\ versions'[cursor + 3] = files'
          BY <5>1, <1>1, <1>5, <1>6
        <5>3. revisions'[cursor + 2] = rev
          BY <5>1, <1>3, <1>4, <1>6
        <5> QED BY <3>2, <5>1, <5>2, <5>3, <1>5
      <4> QED BY <4>1, <1>1 DEF Revision
    <3>3. i \in 1..(cursor + 1) \/ i = cursor + 2
      <4>1. Len(revisions') = cursor + 2 /\ cursor \in Int
        BY <1>3, <1>4, <1>6 DEF StoreInv, StoreTypeOK
      <4> QED BY <4>1
    <3> QED BY <3>1, <3>2, <3>3
  <2> QED BY <2>1, <2>2 DEF Chain
<1> QED BY <1>1, <1>2, <1>7, <1>8 DEF StoreInv

LEMMA StoreUndoInv ==
  ASSUME StoreInv, Undo
  PROVE  StoreInv' /\ files' = versions[cursor + 1] /\ cursor' = cursor - 1
<1>1. cursor + 1 \in 1..Len(revisions) /\ files = versions[cursor + 1 + 1]
  BY DEF StoreInv, StoreTypeOK, Chain, Undo
<1>2. ApplyPatch(files, InvertPatch(revisions[cursor + 1].patch)) = versions[cursor + 1]
  BY <1>1 DEF StoreInv, Chain, Leads
<1>3. files' = versions[cursor + 1]
  BY <1>2 DEF Undo
<1>4. versions[cursor + 1] \in Files
  BY <1>1 DEF StoreInv, StoreTypeOK
<1> QED BY <1>1, <1>3, <1>4 DEF StoreInv, StoreTypeOK, Chain, Undo

LEMMA StoreRedoInv ==
  ASSUME StoreInv, Redo
  PROVE  StoreInv' /\ files' = versions[cursor + 3] /\ cursor' = cursor + 1
<1>1. cursor + 2 \in 1..Len(revisions) /\ files = versions[cursor + 2]
  BY DEF StoreInv, StoreTypeOK, Chain, Redo
<1>2. ApplyPatch(files, revisions[cursor + 2].patch) = versions[cursor + 2 + 1]
  BY <1>1 DEF StoreInv, Chain, Leads
<1>3. files' = versions[cursor + 3] /\ cursor' = cursor + 1
  BY <1>2 DEF Redo, StoreInv, StoreTypeOK
<1>4. versions[cursor + 3] \in Files
  BY <1>1 DEF StoreInv, StoreTypeOK
<1> QED BY <1>1, <1>3, <1>4 DEF StoreInv, StoreTypeOK, Chain, Redo

LEMMA StoreNextInv == StoreInv /\ [StoreNext]_storeVars => StoreInv'
<1> SUFFICES ASSUME StoreInv, [StoreNext]_storeVars PROVE StoreInv'
  OBVIOUS
<1>1. ASSUME NEW c \in Requests, Apply(c) PROVE StoreInv'
  BY <1>1, StoreApplyInv
<1>2. CASE Undo
  BY <1>2, StoreUndoInv
<1>3. CASE Redo
  BY <1>3, StoreRedoInv
<1>4. CASE UNCHANGED storeVars
  BY <1>4 DEF storeVars, StoreInv, StoreTypeOK, Chain
<1> QED BY <1>1, <1>2, <1>3, <1>4 DEF StoreNext

(* The store's variables keep their types (createVersionedArtifactStore). *)
THEOREM StoreTypes == StoreSpec => []StoreTypeOK
<1>1. StoreInv => StoreTypeOK
  BY DEF StoreInv
<1> QED BY <1>1, StoreInitInv, StoreNextInv, PTL DEF StoreSpec

(* No undo and no redo the revisions allow can fail in the memory store,   *)
(* whatever changes, undos and redos came before (applyPatch).             *)
THEOREM StepsAreOpen == StoreSpec => []CanStep
<1>1. ASSUME StoreInv PROVE CanStep
  <2>1. ASSUME cursor >= 0 PROVE Applies(files, InvertPatch(revisions[cursor + 1].patch))
    <3>1. cursor + 1 \in 1..Len(revisions) /\ files = versions[cursor + 1 + 1]
      BY <1>1, <2>1 DEF StoreInv, StoreTypeOK, Chain
    <3> QED BY <1>1, <3>1 DEF StoreInv, Chain, Leads
  <2>2. ASSUME cursor + 2 <= Len(revisions) PROVE Applies(files, revisions[cursor + 2].patch)
    <3>1. cursor + 2 \in 1..Len(revisions) /\ files = versions[cursor + 2]
      BY <1>1, <2>2 DEF StoreInv, StoreTypeOK, Chain
    <3> QED BY <1>1, <3>1 DEF StoreInv, Chain, Leads
  <2> QED BY <2>1, <2>2 DEF CanStep
<1>2. StoreInv => CanStep
  BY <1>1
<1> QED BY <1>2, StoreInitInv, StoreNextInv, PTL DEF StoreSpec

(* The versioned store implements the history of whole contents: patches,  *)
(* cursor and forgotten revisions are not visible (apply, undo, redo).     *)
THEOREM StoreKeepsHistory == StoreSpec => KeepsHistory
<1>1. StoreInit => History!Init
  BY DEF StoreInit, History!Init
<1>2. ASSUME StoreInv, [StoreNext]_storeVars PROVE [History!Next]_(History!vars)
  <2>1. ASSUME NEW c \in Requests, Apply(c) PROVE History!Change
    <3>1. files' \in Files /\ files' # files /\ OneChange(files, files')
      BY <1>2, <2>1, StoreApplyInv
    <3>2. cursor \in Int /\ cursor' = cursor + 1
      <4>1. Len(SubSeq(revisions, 1, cursor + 1)) = cursor + 1
        BY <1>2, SubSeqProperties DEF StoreInv, StoreTypeOK
      <4> QED BY <1>2, <2>1, <4>1 DEF Apply, StoreInv, StoreTypeOK
    <3>3. versions' = Append(SubSeq(versions, 1, cursor + 2), files')
      BY <2>1 DEF Apply
    <3> QED BY <3>1, <3>2, <3>3 DEF History!Change
  <2>2. CASE Undo
    BY <1>2, <2>2, StoreUndoInv DEF StoreInv, StoreTypeOK, Undo, History!Undo, History!Next
  <2>3. CASE Redo
    BY <1>2, <2>3, StoreRedoInv DEF StoreInv, StoreTypeOK, Redo, History!Redo, History!Next
  <2>4. CASE UNCHANGED storeVars
    BY <2>4 DEF storeVars, History!vars
  <2> QED BY <1>2, <2>1, <2>2, <2>3, <2>4 DEF StoreNext, History!Next
<1> QED BY <1>1, <1>2, StoreInitInv, StoreNextInv, PTL DEF StoreSpec, KeepsHistory, History!Spec


-----------------------------------------------------------------------------
(* What a change leads to *)

LEMMA AppliedType ==
  ASSUME NEW f \in Files, NEW c \in Requests
  PROVE  Applied(f, c) \in Files
<1>1. CASE c \in WriteRequests \cup CreateRequests
  <2>1. PICK p \in Paths, d \in Contents : c = WriteFile(p, d) \/ c = CreateFile(p, d)
    BY <1>1 DEF WriteRequests, CreateRequests
  <2>2. PatchOf(f, c) \in {None, WritePatch(p, f[p], d), WritePatch(p, None, d)}
    BY <2>1 DEF PatchOf, WriteFile, CreateFile
  <2>3. \A b : ApplyPatch(f, WritePatch(p, b, d)) \in Files
    BY DEF ApplyPatch, WritePatch, Files, Entry
  <2> QED BY <2>2, <2>3 DEF Applied
<1>2. CASE c \in DeleteRequests
  <2>1. PICK p \in Paths : c = DeleteFile(p)
    BY <1>2 DEF DeleteRequests
  <2>2. PatchOf(f, c) = DeletePatch(p, f[p])
    BY <2>1 DEF PatchOf, DeleteFile
  <2>3. ApplyPatch(f, DeletePatch(p, f[p])) \in Files
    BY DEF ApplyPatch, DeletePatch, Files, Entry
  <2> QED BY <2>2, <2>3 DEF Applied
<1>3. CASE c \in RenameRequests \cup ReplaceRequests
  <2>1. \A p, q \in Paths : Renamed(f, p, q) \in Files
    BY DEF Renamed, Files, Entry
  <2>2. PICK g \in Files : PatchOf(f, c) \in {None, ReplacePatch(f, g)}
    <3>1. CASE c \in RenameRequests
      <4>1. PICK p \in Paths, q \in Paths : c = RenameFile(p, q)
        BY <3>1 DEF RenameRequests
      <4> QED BY <4>1, <2>1 DEF PatchOf, RenameFile
    <3>2. CASE c \in ReplaceRequests
      BY <3>2 DEF ReplaceRequests, PatchOf, ReplaceFiles
    <3> QED BY <1>3, <3>1, <3>2
  <2>3. ApplyPatch(f, ReplacePatch(f, g)) = g
    BY DEF ApplyPatch, ReplacePatch
  <2> QED BY <2>2, <2>3 DEF Applied
<1> QED BY <1>1, <1>2, <1>3 DEF Requests

-----------------------------------------------------------------------------
(* The invariant *)

FiberFields == {"pc", "change", "before", "todo", "read", "started"}

\* a fiber: what it stages is its own, and what it read is still there
FiberInv(f, r) ==
  /\ DOMAIN r = FiberFields /\ FiberOK(r)
  /\ f \in Clients /\ r.pc # "idle" => r.change # None
  /\ r.pc \in {"add", "drop"} => r.todo \subseteq Touched(r)
  /\ r.pc = "read" =>
       /\ r.started >= 1 /\ (r.before # None => Accepts(r.before, r.change))
       /\ r.started = revision /\ ~event => \A p \in Paths \ r.todo : r.read[p] = disk[p]

FibersInv ==
  /\ DOMAIN fiber = Fibers
  /\ \A f \in Fibers : \A r \in {fiber[f]} : FiberInv(f, r)

\* the cached snapshot, unless there is an event or a newer refresh
CacheInv ==
  /\ revision \in Nat /\ event \in BOOLEAN /\ latestFrom \in 0..revision
  /\ latestSnapshot \in {None} \cup [revision : 1..revision, files : Files]
  /\ ~event /\ latestSnapshot # None /\ latestFrom = revision => latestSnapshot.files = disk

\* what is staged and not committed is somebody's who is about to
Owns(r, p) == r.pc \in {"add", "drop", "compare", "commit"} /\ p \in Touched(r)
GitInv ==
  /\ index \in Files /\ head \in Files /\ gitFailed \in BOOLEAN
  /\ SecretsStay
  /\ ~gitFailed => \A p \in Paths : index[p] # head[p] => \E c \in Clients : Owns(fiber[c], p)

Inv ==
  /\ disk \in Files /\ requests \in 0..MaxRequests /\ edits \in 0..MaxEdits
  /\ FibersInv /\ CacheInv /\ GitInv

LEMMA InitInv == Init => Inv
<1> SUFFICES ASSUME Init PROVE Inv
  OBVIOUS
<1>1. disk \in Files /\ index \in Files /\ head = index
  BY LocalAssumption DEF Init, Files, Entry
<1>2. \A f, r : r = Idle => FiberInv(f, r)
  BY DEF Init, Idle, FiberInv, FiberOK, FiberFields, NoFiles, Files, Entry
<1>3. FibersInv
  BY <1>2 DEF Init, FibersInv
<1>4. CacheInv
  <2>1. revision = 0 /\ event = FALSE /\ latestFrom = 0 /\ latestSnapshot = None
    BY DEF Init
  <2>2. event \in BOOLEAN
    BY <2>1, Zenon
  <2>3. latestFrom \in 0..revision /\ revision \in Nat
    BY <2>1
  <2> QED BY <2>1, <2>2, <2>3 DEF CacheInv
<1>5. GitInv
  BY <1>1, LocalAssumption DEF Init, GitInv, SecretsStay
<1> QED BY <1>1, <1>3, <1>4, <1>5, LocalAssumption DEF Init, Inv

\* the disk changes with an event only, and the counter goes up
Heard ==
  /\ revision' \in Nat /\ revision <= revision'
  /\ event' \in BOOLEAN
  /\ revision' = revision /\ ~event' => ~event /\ disk' = disk

LEMMA FiberKept ==
  ASSUME Inv, Heard
  PROVE  \A f, r : FiberInv(f, r) => FiberInv(f, r)'
<1> SUFFICES ASSUME NEW f, NEW r, FiberInv(f, r) PROVE FiberInv(f, r)'
  OBVIOUS
<1>1. FiberOK(r) /\ r.started \in 0..revision /\ revision \in Nat
  BY DEF FiberInv, FiberOK, Inv, CacheInv
<1>2. FiberOK(r)'
  BY <1>1 DEF FiberOK, Heard
<1>3. Touched(r)' = Touched(r)
  BY DEF Touched
<1>4. r.started = revision' /\ ~event' => r.started = revision /\ ~event /\ disk' = disk
  BY <1>1 DEF Heard
<1> QED BY <1>2, <1>3, <1>4 DEF FiberInv

LEMMA CacheKept ==
  ASSUME Inv, Heard, UNCHANGED <<latestSnapshot, latestFrom>>
  PROVE  CacheInv'
<1>1. latestFrom' = revision' => latestFrom = revision /\ revision' = revision
  BY DEF Inv, CacheInv, Heard
<1>2. latestSnapshot \in {None} \cup [revision : 1..revision', files : Files]
  <2>1. 1..revision \subseteq 1..revision'
    BY DEF Heard, Inv, CacheInv
  <2> QED BY <2>1 DEF Inv, CacheInv
<1> QED BY <1>1, <1>2 DEF Inv, CacheInv, Heard

LEMMA OneFiber ==
  ASSUME Inv, Heard, NEW me \in Fibers, NEW n, fiber' = [fiber EXCEPT ![me] = n],
         FiberInv(me, n)'
  PROVE  FibersInv'
<1>1. \A f \in Fibers : \A r \in {fiber[f]} : FiberInv(f, r)'
  BY FiberKept DEF Inv, FibersInv
<1>2. \A f \in Fibers : fiber'[f] = IF f = me THEN n ELSE fiber[f]
  BY DEF Inv, FibersInv
<1> QED BY <1>1, <1>2 DEF Inv, FibersInv

LEMMA SameFibers ==
  ASSUME Inv, Heard, fiber' = fiber
  PROVE  FibersInv'
BY FiberKept DEF Inv, FibersInv

\* git is left alone, and so is what this fiber owns
LEMMA GitKept ==
  ASSUME Inv, UNCHANGED gitVars, NEW me \in Fibers, NEW n, fiber' = [fiber EXCEPT ![me] = n],
         \A p : Owns(fiber[me], p) => Owns(n, p)
  PROVE  GitInv'
<1>1. UNCHANGED <<index, head, gitFailed>>
  BY DEF gitVars
<1>2. \A f \in Fibers : fiber'[f] = IF f = me THEN n ELSE fiber[f]
  BY DEF Inv, FibersInv
<1>3. \A c \in Clients : \A p : Owns(fiber[c], p) => Owns(fiber'[c], p)
  BY <1>2 DEF Fibers
<1>4. \A c \in Clients : \A p : Owns(fiber[c], p)' <=> Owns(fiber'[c], p)
  BY DEF Owns, Touched
<1> QED BY <1>1, <1>3, <1>4 DEF Inv, GitInv, SecretsStay

LEMMA FiberIs ==
  ASSUME Inv, NEW f \in Fibers, NEW r, r = fiber[f]
  PROVE  FiberInv(f, r)
BY DEF Inv, FibersInv

-----------------------------------------------------------------------------
(* The steps *)

LEMMA EditInv ==
  ASSUME Inv, Edit
  PROVE  Inv'
<1>1. /\ event' = TRUE /\ UNCHANGED <<gitVars, cacheVars, fiber, requests>>
      /\ edits < MaxEdits /\ edits' = edits + 1
  BY DEF Edit
<1>2. disk' \in Files
  <2>1. PICK e \in Edits : disk' = [disk EXCEPT ![e[1]] = e[2]]
    BY DEF Edit
  <2>2. e[1] \in Paths /\ e[2] \in Entry
    BY LocalAssumption
  <2>3. disk \in [Paths -> Entry]
    BY DEF Inv, Files
  <2> QED BY <2>1, <2>2, <2>3 DEF Files
<1>3. Heard
  BY <1>1 DEF Heard, Inv, CacheInv, cacheVars
<1>4. FibersInv'
  BY <1>1, <1>3, SameFibers
<1>5. CacheInv'
  BY <1>1, <1>3, CacheKept DEF cacheVars
<1>6. GitInv'
  BY <1>1 DEF gitVars, Inv, GitInv, SecretsStay, Owns, Touched
<1>7. edits' \in 0..MaxEdits /\ requests' \in 0..MaxRequests
  BY <1>1, LocalAssumption DEF Inv
<1> QED BY <1>2, <1>4, <1>5, <1>6, <1>7 DEF Inv

\* a fiber that is done with its request
LEMMA DoneInv ==
  ASSUME Inv, Heard, NEW me \in Fibers, fiber' = [fiber EXCEPT ![me] = Idle],
         disk' = disk, UNCHANGED bounds, CacheInv', GitInv'
  PROVE  Inv'
<1>1. PICK n : n = Idle
  OBVIOUS
<1>2. FiberInv(me, n)'
  BY <1>1 DEF Idle, FiberInv, FiberOK, FiberFields, NoFiles, Files, Entry, Heard
<1>3. FibersInv'
  BY <1>1, <1>2, OneFiber
<1> QED BY <1>3 DEF Inv, bounds

\* a refresh begins: what is listed is still to be read, and nothing is there else
LEMMA RefreshingInv ==
  ASSUME Inv, NEW me \in Fibers, NEW r, Refreshing(me, r), UNCHANGED <<disk, gitVars>>,
         event' \in BOOLEAN,
         DOMAIN r = FiberFields, r.change \in Changes \cup {None}, r.before \in Files \cup {None},
         me \in Clients => r.change # None,
         r.before # None => Accepts(r.before, r.change),
         \A p : ~Owns(fiber[me], p)
  PROVE  FibersInv' /\ CacheInv' /\ GitInv'
<1>1. PICK n : n = [r EXCEPT !.pc = "read", !.started = revision + 1,
                             !.todo = Present(disk), !.read = NoFiles]
  OBVIOUS
<1>2. /\ fiber' = [fiber EXCEPT ![me] = n] /\ revision' = revision + 1
      /\ UNCHANGED <<latestSnapshot, latestFrom>>
  BY <1>1 DEF Refreshing
<1>3. Heard
  BY <1>2 DEF Heard, Inv, CacheInv
<1>4. /\ DOMAIN n = FiberFields /\ n.pc = "read" /\ n.started = revision + 1
      /\ n.todo = Present(disk) /\ n.read = NoFiles /\ n.change = r.change
      /\ n.before = r.before
  BY <1>1 DEF FiberFields
<1>5. \A p \in Paths \ n.todo : n.read[p] = disk[p]
  BY <1>4 DEF Present, NoFiles
<1>6. n.todo \subseteq Paths /\ n.read \in Files
  BY <1>4 DEF Present, NoFiles, Files, Entry
<1>7. n.started \in 0..revision' /\ n.started >= 1
  BY <1>2, <1>4 DEF Inv, CacheInv
<1>8. FiberInv(me, n)'
  BY <1>4, <1>5, <1>6, <1>7 DEF FiberInv, FiberOK, Idle, FiberFields
<1>9. FibersInv'
  BY <1>2, <1>3, <1>8, OneFiber
<1>10. CacheInv'
  BY <1>2, <1>3, CacheKept
<1>11. GitInv'
  BY <1>2, GitKept
<1> QED BY <1>9, <1>10, <1>11

LEMMA WatchInv ==
  ASSUME Inv, Watch
  PROVE  Inv'
<1>1. /\ Refreshing(Watcher, Idle) /\ UNCHANGED <<disk, gitVars, bounds>> /\ event' = FALSE
      /\ fiber[Watcher].pc = "idle"
  BY DEF Watch, At
<1>2. PICK r : r = Idle
  OBVIOUS
<1>3. /\ DOMAIN r = FiberFields /\ r.change = None /\ r.before = None
  BY <1>2 DEF Idle, FiberFields
<1>4. event' \in BOOLEAN
  BY <1>1, Zenon
<1>5. \A p : ~Owns(fiber[Watcher], p)
  BY <1>1 DEF Owns
<1>6. FibersInv' /\ CacheInv' /\ GitInv'
  BY <1>1, <1>2, <1>3, <1>4, <1>5, RefreshingInv, LocalAssumption DEF Fibers
<1> QED BY <1>1, <1>6 DEF Inv, bounds

LEMMA ReadInv ==
  ASSUME Inv, NEW me \in Fibers, Read(me)
  PROVE  Inv'
<1>1. PICK r : r = fiber[me]
  OBVIOUS
<1>2. PICK p : p = Turn(r.todo)
  OBVIOUS
<1>3. PICK n : n = ReadNext(r)
  OBVIOUS
<1>4. /\ r.pc = "read" /\ r.todo # {} /\ fiber' = [fiber EXCEPT ![me] = n]
      /\ UNCHANGED <<disk, gitVars, cacheVars, event, bounds>>
  BY <1>1, <1>3 DEF Read, At
<1>5. Heard
  BY <1>4 DEF Heard, cacheVars, Inv, CacheInv
<1>6. FiberInv(me, r) /\ FiberInv(me, r)'
  BY <1>1, <1>5, FiberKept DEF Inv, FibersInv
<1>7. p \in r.todo /\ p \in Paths
  BY <1>2, <1>4, <1>6 DEF Turn, FiberInv, FiberOK
<1>8. /\ DOMAIN n = FiberFields /\ n.pc = "read" /\ n.started = r.started
      /\ n.todo = r.todo \ {p} /\ n.read = [r.read EXCEPT ![p] = disk[p]]
      /\ n.change = r.change /\ n.before = r.before
  BY <1>2, <1>3, <1>4, <1>6 DEF FiberInv, FiberFields, ReadNext, Without
<1>9. n.read \in Files
  BY <1>6, <1>7, <1>8 DEF FiberInv, FiberOK, Inv, Files
<1>10. r.started = revision' /\ ~event' => \A x \in Paths \ n.todo : n.read[x] = disk'[x]
  BY <1>4, <1>6, <1>7, <1>8 DEF FiberInv, FiberOK, Files, cacheVars
<1>11. FiberInv(me, n)'
  <2>1. FiberOK(n)'
    BY <1>6, <1>8, <1>9 DEF FiberInv, FiberOK, Idle, FiberFields
  <2> QED BY <2>1, <1>4, <1>6, <1>8, <1>10 DEF FiberInv
<1>12. FibersInv'
  BY <1>4, <1>5, <1>11, OneFiber
<1>13. CacheInv'
  BY <1>4, <1>5, CacheKept DEF cacheVars
<1>14. GitInv'
  BY <1>1, <1>4, GitKept DEF Owns
<1> QED BY <1>4, <1>12, <1>13, <1>14 DEF Inv, bounds

\* what fails or is given up before git is asked
LEMMA FailsInv ==
  ASSUME Inv, NEW me \in Fibers, ReadFails(me) \/ WriteFails(me)
  PROVE  Inv'
<1>1. /\ fiber' = [fiber EXCEPT ![me] = Idle] /\ fiber[me].pc \in {"read", "write", "remove"}
      /\ UNCHANGED <<disk, gitVars, cacheVars, event, bounds>>
  BY DEF ReadFails, WriteFails, At
<1>2. Heard
  BY <1>1 DEF Heard, cacheVars, Inv, CacheInv
<1>3. CacheInv'
  BY <1>1, <1>2, CacheKept DEF cacheVars
<1>4. GitInv'
  BY <1>1, GitKept DEF Owns
<1> QED BY <1>1, <1>2, <1>3, <1>4, DoneInv

\* the published snapshot shows the disk if its refresh is the last one
LEMMA PublishedInv ==
  ASSUME Inv, NEW me \in Fibers, Published(me)
  PROVE  CacheInv' /\ Heard /\ fiber[me].read \in Files
<1>1. PICK r : r = fiber[me]
  OBVIOUS
<1>2. /\ r.pc = "read" /\ r.todo = {} /\ UNCHANGED <<disk, revision, event>>
      /\ latestSnapshot' = Snapshot(revision, r.read) /\ latestFrom' = r.started
  BY <1>1 DEF Published, At
<1>3. FiberInv(me, r)
  BY <1>1, FiberIs
<1>4. /\ r.read \in Files /\ r.started \in 1..revision /\ revision \in Nat
      /\ r.started = revision /\ ~event => \A p \in Paths : r.read[p] = disk[p]
  BY <1>2, <1>3 DEF FiberInv, FiberOK, Inv, CacheInv
<1>5. r.started = revision /\ ~event => r.read = disk
  BY <1>4 DEF Inv, Files
<1>6. latestSnapshot' \in [revision : 1..revision, files : Files] /\ latestSnapshot'.files = r.read
  BY <1>2, <1>4 DEF Snapshot
<1>7. CacheInv'
  BY <1>2, <1>4, <1>5, <1>6 DEF CacheInv, Inv
<1>8. Heard
  BY <1>2 DEF Heard, Inv, CacheInv
<1> QED BY <1>1, <1>4, <1>7, <1>8

LEMMA RefreshEndsInv ==
  ASSUME Inv, RefreshEnds
  PROVE  Inv'
<1>1. /\ Published(Watcher) /\ fiber' = [fiber EXCEPT ![Watcher] = Idle]
      /\ UNCHANGED <<gitVars, bounds, disk>> /\ fiber[Watcher].pc = "read"
  BY DEF RefreshEnds, Published, At
<1>2. Watcher \in Fibers
  BY DEF Fibers
<1>3. CacheInv' /\ Heard
  BY <1>1, <1>2, PublishedInv
<1>4. GitInv'
  BY <1>1, <1>2, GitKept DEF Owns
<1> QED BY <1>1, <1>2, <1>3, <1>4, DoneInv

\* a fiber that writes
LEMMA WritingInv ==
  ASSUME NEW me, NEW r, DOMAIN r = FiberFields, r.change \in Changes, r.before \in Files,
         Accepts(r.before, r.change), r.change # None, r.before # None,
         r.todo \subseteq Paths, r.read \in Files, r.started \in 0..revision
  PROVE  /\ FiberInv(me, Writing(r)) /\ Writing(r).pc \in {"write", "remove"}
         /\ DOMAIN Writing(r) = FiberFields /\ Writing(r).change = r.change
         /\ Writing(r).before = r.before /\ Writing(r).todo \subseteq Paths
         /\ Writing(r).read = r.read /\ Writing(r).started = r.started
<1>1. PICK n : n = Writing(r)
  OBVIOUS
<1>2. /\ DOMAIN n = FiberFields /\ n.pc \in {"write", "remove"}
      /\ n.change = r.change /\ n.before = r.before /\ n.read = r.read
      /\ n.started = r.started /\ n.todo \subseteq Paths
  BY <1>1 DEF Writing, FiberFields, Gone, Present
<1>3. FiberInv(me, n)
  BY <1>2 DEF FiberInv, FiberOK, Idle, FiberFields
<1> QED BY <1>1, <1>2, <1>3

LEMMA DecidedInv ==
  ASSUME Inv, NEW me \in Clients, NEW r, DOMAIN r = FiberFields, r.change \in Changes,
         r.before \in Files, r.read \in Files, r.started \in 0..revision
  PROVE  \A n : n = Decided(r) => FiberInv(me, n) /\ n.pc \in {"idle", "write", "remove"}
<1>0. r.change # None /\ r.before # None
  BY LocalAssumption, NoneAssumption
<1>1. PICK w : w = [r EXCEPT !.todo = Present(After(r))]
  OBVIOUS
<1>2. /\ DOMAIN w = FiberFields /\ w.change = r.change /\ w.before = r.before
      /\ w.read = r.read /\ w.started = r.started /\ w.todo \subseteq Paths
  BY <1>1 DEF FiberFields, Present
<1>3. CASE Accepts(r.before, r.change)
  <2>1. FiberInv(me, Writing(w)) /\ Writing(w).pc \in {"write", "remove"}
    BY <1>0, <1>2, <1>3, WritingInv
  <2> QED BY <2>1, <1>1, <1>3 DEF Decided
<1>4. CASE ~Accepts(r.before, r.change)
  <2>1. \A n : n = Idle => FiberInv(me, n) /\ n.pc = "idle"
    BY DEF Idle, FiberInv, FiberOK, FiberFields, NoFiles, Files, Entry, Inv, CacheInv
  <2> QED BY <2>1, <1>4 DEF Decided
<1> QED BY <1>3, <1>4

LEMMA TakeInv ==
  ASSUME Inv, NEW me \in Clients, Take(me)
  PROVE  Inv'
<1>1. PICK c \in Changes :
        LET r == [Idle EXCEPT !.change = c]
        IN IF latestSnapshot = None
           THEN Refreshing(me, r)
           ELSE /\ fiber' = [fiber EXCEPT ![me] =
                              Decided([r EXCEPT !.before = latestSnapshot.files])]
                /\ UNCHANGED cacheVars
  BY DEF Take
<1>2. /\ UNCHANGED <<disk, gitVars, event, edits>> /\ requests < MaxRequests
      /\ requests' = requests + 1 /\ fiber[me].pc = "idle" /\ me \in Fibers
  BY DEF Take, At, Fibers
<1>3. PICK r : r = [Idle EXCEPT !.change = c]
  OBVIOUS
<1>4. /\ DOMAIN r = FiberFields /\ r.change = c /\ r.before = None /\ r.todo = {}
      /\ r.read = NoFiles /\ r.started = 0
  BY <1>3 DEF Idle, FiberFields
<1>5. c # None /\ \A p : ~Owns(fiber[me], p)
  BY <1>2, LocalAssumption, NoneAssumption DEF Owns
<1>6. FibersInv' /\ CacheInv' /\ GitInv'
  <2>1. CASE latestSnapshot = None
    <3>1. Refreshing(me, r) /\ event' \in BOOLEAN
      BY <1>1, <1>2, <1>3, <2>1 DEF Inv, CacheInv
    <3> QED BY <3>1, <1>2, <1>4, <1>5, RefreshingInv
  <2>2. CASE latestSnapshot # None
    <3>1. PICK b : b = [r EXCEPT !.before = latestSnapshot.files]
      OBVIOUS
    <3>2. /\ DOMAIN b = FiberFields /\ b.change \in Changes /\ b.before \in Files
          /\ b.read \in Files /\ b.started \in 0..revision
      BY <1>4, <2>2, <3>1 DEF FiberFields, NoFiles, Files, Entry, Inv, CacheInv
    <3>3. PICK n : n = Decided(b)
      OBVIOUS
    <3>4. FiberInv(me, n)
      BY <3>2, <3>3, DecidedInv
    <3>5. fiber' = [fiber EXCEPT ![me] = n] /\ UNCHANGED cacheVars
      BY <1>1, <1>3, <2>2, <3>1, <3>3
    <3>6. Heard
      BY <1>2, <3>5 DEF Heard, cacheVars, Inv, CacheInv
    <3>7. FibersInv'
      BY <1>2, <3>4, <3>5, <3>6, FiberKept, OneFiber
    <3>8. CacheInv'
      BY <3>5, <3>6, CacheKept DEF cacheVars
    <3>9. GitInv'
      BY <1>2, <1>5, <3>5, GitKept
    <3> QED BY <3>7, <3>8, <3>9
  <2> QED BY <2>1, <2>2
<1>7. requests' \in 0..MaxRequests
  BY <1>2, LocalAssumption DEF Inv
<1> QED BY <1>2, <1>6, <1>7 DEF Inv

LEMMA FirstRefreshEndsInv ==
  ASSUME Inv, NEW me \in Clients, FirstRefreshEnds(me)
  PROVE  Inv'
<1>1. PICK r : r = fiber[me]
  OBVIOUS
<1>2. PICK b : b = [Idle EXCEPT !.change = r.change, !.before = r.read]
  OBVIOUS
<1>3. PICK n : n = Decided(b)
  OBVIOUS
<1>4. /\ Published(me) /\ r.pc = "read" /\ fiber' = [fiber EXCEPT ![me] = n]
      /\ UNCHANGED <<gitVars, bounds, disk>> /\ me \in Fibers
  BY <1>1, <1>2, <1>3 DEF FirstRefreshEnds, Published, At, Fibers
<1>5. CacheInv' /\ Heard
  BY <1>4, PublishedInv
<1>6. FiberInv(me, r)
  BY <1>1, <1>4, FiberIs
<1>7. /\ DOMAIN b = FiberFields /\ b.change \in Changes /\ b.before \in Files
      /\ b.read \in Files /\ b.started \in 0..revision
  <2>1. /\ DOMAIN b = FiberFields /\ b.change = r.change /\ b.before = r.read
        /\ b.read = NoFiles /\ b.started = 0
    BY <1>2 DEF Idle, FiberFields
  <2>2. r.change \in Changes /\ r.read \in Files
    BY <1>4, <1>6 DEF FiberInv, FiberOK
  <2>3. NoFiles \in Files /\ 0 \in 0..revision
    BY DEF NoFiles, Files, Entry, Inv, CacheInv
  <2> QED BY <2>1, <2>2, <2>3
<1>8. FiberInv(me, n)
  BY <1>3, <1>7, DecidedInv
<1>9. FibersInv'
  BY <1>4, <1>5, <1>8, FiberKept, OneFiber
<1>10. GitInv'
  BY <1>1, <1>4, GitKept DEF Owns
<1> QED BY <1>4, <1>5, <1>9, <1>10 DEF Inv, bounds

LEMMA WriteInv ==
  ASSUME Inv, NEW me \in Clients, Write(me)
  PROVE  Inv'
<1>1. PICK r : r = fiber[me]
  OBVIOUS
<1>2. PICK p : p = Turn(r.todo)
  OBVIOUS
<1>3. PICK w : w = Without(r, p)
  OBVIOUS
<1>4. PICK n : n = Writing(w)
  OBVIOUS
<1>5. /\ r.pc = "write" /\ r.todo # {} /\ fiber' = [fiber EXCEPT ![me] = n]
      /\ disk' = [disk EXCEPT ![p] = After(r)[p]] /\ event' = TRUE
      /\ UNCHANGED <<gitVars, cacheVars, bounds>> /\ me \in Fibers
  BY <1>1, <1>2, <1>3, <1>4 DEF Write, At, Fibers
<1>6. Heard
  BY <1>5 DEF Heard, cacheVars, Inv, CacheInv
<1>7. FiberInv(me, r)
  BY <1>1, <1>5, FiberIs
<1>8. /\ r.change \in Changes /\ r.before \in Files /\ r.change # None /\ r.before # None
      /\ Accepts(r.before, r.change)
  BY <1>5, <1>7 DEF FiberInv, FiberOK
<1>9. After(r) \in Files
  BY <1>8, AppliedType, LocalAssumption DEF After
<1>10. disk' \in Files
  <2>1. p \in Paths
    BY <1>2, <1>5, <1>7 DEF Turn, FiberInv, FiberOK
  <2> QED BY <2>1, <1>5, <1>9 DEF Inv, Files
<1>11. /\ DOMAIN w = FiberFields /\ w.change = r.change /\ w.before = r.before
       /\ w.read = r.read /\ w.started = r.started /\ w.todo \subseteq Paths
  BY <1>3, <1>7 DEF FiberInv, FiberOK, FiberFields, Without
<1>12. FiberInv(me, n)
  BY <1>4, <1>7, <1>8, <1>11, WritingInv DEF FiberInv, FiberOK
<1>13. FibersInv'
  BY <1>5, <1>6, <1>12, FiberKept, OneFiber
<1>14. CacheInv'
  BY <1>5, <1>6, CacheKept DEF cacheVars
<1>15. GitInv'
  BY <1>1, <1>5, GitKept DEF Owns
<1> QED BY <1>5, <1>10, <1>13, <1>14, <1>15 DEF Inv, bounds

LEMMA RemoveInv ==
  ASSUME Inv, NEW me \in Clients, Remove(me)
  PROVE  Inv'
<1>1. PICK r : r = fiber[me]
  OBVIOUS
<1>2. PICK p : p = Turn(r.todo)
  OBVIOUS
<1>3. PICK n : n = Without(r, p)
  OBVIOUS
<1>4. /\ r.pc = "remove" /\ r.todo # {} /\ fiber' = [fiber EXCEPT ![me] = n]
      /\ disk' = [disk EXCEPT ![p] = None] /\ event' = (event \/ disk[p] # None)
      /\ UNCHANGED <<gitVars, cacheVars, bounds>> /\ me \in Fibers
  BY <1>1, <1>2, <1>3 DEF Remove, At, Fibers
<1>5. disk' \in Files /\ (~event' => ~event /\ disk' = disk)
  BY <1>4 DEF Inv, Files, Entry
<1>6. event' \in BOOLEAN
  BY <1>4, Zenon
<1>7. Heard
  BY <1>4, <1>5, <1>6 DEF Heard, cacheVars, Inv, CacheInv
<1>8. FiberInv(me, r)
  BY <1>1, <1>4, FiberIs
<1>9. /\ DOMAIN n = FiberFields /\ n.pc = "remove" /\ n.change = r.change
      /\ n.before = r.before /\ n.read = r.read /\ n.started = r.started
      /\ n.todo \subseteq Paths
  BY <1>3, <1>4, <1>8 DEF FiberInv, FiberOK, FiberFields, Without
<1>10. FiberInv(me, n)
  BY <1>4, <1>8, <1>9 DEF FiberInv, FiberOK, FiberFields, Idle
<1>11. FibersInv'
  BY <1>4, <1>7, <1>10, FiberKept, OneFiber
<1>12. CacheInv'
  BY <1>4, <1>7, CacheKept DEF cacheVars
<1>13. GitInv'
  BY <1>1, <1>4, GitKept DEF Owns
<1> QED BY <1>4, <1>5, <1>11, <1>12, <1>13 DEF Inv, bounds

LEMMA WrittenRefreshInv ==
  ASSUME Inv, NEW me \in Clients, WrittenRefresh(me)
  PROVE  Inv'
<1>1. PICK r : r = fiber[me]
  OBVIOUS
<1>2. /\ r.pc = "remove" /\ Refreshing(me, r) /\ UNCHANGED <<disk, gitVars, event, bounds>>
      /\ me \in Fibers
  BY <1>1 DEF WrittenRefresh, At, Fibers
<1>3. FiberInv(me, r)
  BY <1>1, <1>2, FiberIs
<1>4. FibersInv' /\ CacheInv' /\ GitInv'
  BY <1>1, <1>2, <1>3, RefreshingInv DEF FiberInv, FiberOK, Owns, Inv, CacheInv
<1> QED BY <1>2, <1>4 DEF Inv, bounds

-----------------------------------------------------------------------------
(* The commit *)

LEMMA NamedPaths ==
  ASSUME NEW f, NEW c \in Requests
  PROVE  ChangedPaths(f, c) \subseteq Paths
BY DEF Requests, WriteRequests, CreateRequests, DeleteRequests, RenameRequests, ReplaceRequests,
       WriteFile, CreateFile, DeleteFile, RenameFile, ReplaceFiles, ChangedPaths, Present

\* a fiber that stages
LEMMA StagingInv ==
  ASSUME NEW me, NEW r, DOMAIN r = FiberFields, r.change \in Changes, r.before \in Files,
         Accepts(r.before, r.change), r.change # None, r.before # None,
         r.todo \subseteq Paths, r.todo \subseteq Touched(r), r.pc \in {"add", "drop"},
         r.read \in Files, r.started \in 0..revision
  PROVE  \A n : n = Staging(r) =>
           /\ FiberInv(me, n) /\ n.pc \in {"add", "drop", "compare", "commit"}
           /\ Touched(n) = Touched(r)
<1> SUFFICES ASSUME NEW n, n = Staging(r)
             PROVE  /\ FiberInv(me, n) /\ n.pc \in {"add", "drop", "compare", "commit"}
                    /\ Touched(n) = Touched(r)
  OBVIOUS
<1>1. Dropped(r) \subseteq Touched(r) /\ Dropped(r) \subseteq Paths
  BY NamedPaths, LocalAssumption DEF Dropped, Touched
<1>2. /\ DOMAIN n = FiberFields /\ n.pc \in {"add", "drop", "compare", "commit"}
      /\ n.change = r.change /\ n.before = r.before /\ n.read = r.read
      /\ n.started = r.started /\ n.todo \in {r.todo, Dropped(r)}
  BY DEF Staging, FiberFields
<1>3. Touched(n) = Touched(r)
  BY <1>2 DEF Touched
<1>4. FiberInv(me, n)
  BY <1>1, <1>2, <1>3 DEF FiberInv, FiberOK, FiberFields, Idle
<1> QED BY <1>2, <1>3, <1>4

LEMMA LastRefreshEndsInv ==
  ASSUME Inv, NEW me \in Clients, LastRefreshEnds(me)
  PROVE  Inv'
<1>1. PICK r : r = fiber[me]
  OBVIOUS
<1>2. PICK w : w = [r EXCEPT !.pc = "add", !.todo = Added(r), !.started = 0]
  OBVIOUS
<1>3. PICK n : n = IF Touched(r) = {} THEN Idle ELSE Staging(w)
  OBVIOUS
<1>4. /\ Published(me) /\ r.pc = "read" /\ r.before # None
      /\ fiber' = [fiber EXCEPT ![me] = n]
      /\ UNCHANGED <<gitVars, bounds, disk>> /\ me \in Fibers
  BY <1>1, <1>2, <1>3 DEF LastRefreshEnds, Published, At, Fibers
<1>5. CacheInv' /\ Heard
  BY <1>4, PublishedInv
<1>6. GitInv'
  BY <1>1, <1>4, GitKept DEF Owns
<1>7. CASE Touched(r) = {}
  BY <1>3, <1>4, <1>5, <1>6, <1>7, DoneInv
<1>8. CASE Touched(r) # {}
  <2>1. FiberInv(me, r)
    BY <1>1, <1>4, FiberIs
  <2>2. /\ DOMAIN w = FiberFields /\ w.change = r.change /\ w.before = r.before /\ w.pc = "add"
        /\ w.todo = Added(r) /\ w.read = r.read /\ w.started = 0 /\ 0 \in 0..revision
    BY <1>2, <2>1 DEF FiberInv, FiberFields, Inv, CacheInv
  <2>3. w.todo \subseteq Touched(w) /\ w.todo \subseteq Paths
    BY <2>2 DEF Added, Touched, Present
  <2>4. Accepts(r.before, r.change)
    BY <1>4, <2>1 DEF FiberInv
  <2>5. FiberInv(me, n)
    BY <1>3, <1>4, <1>8, <2>1, <2>2, <2>3, <2>4, StagingInv DEF FiberInv, FiberOK
  <2>6. FibersInv'
    BY <1>4, <1>5, <2>5, FiberKept, OneFiber
  <2> QED BY <1>4, <1>5, <1>6, <2>6 DEF Inv, bounds
<1> QED BY <1>7, <1>8

\* the index changes at a path that is owned
LEMMA StagedGit ==
  ASSUME Inv, NEW me \in Clients, NEW p \in Touched(fiber[me]), NEW e \in Entry,
         index' = [index EXCEPT ![p] = e], UNCHANGED <<head, gitFailed>>,
         NEW n, fiber' = [fiber EXCEPT ![me] = n],
         n.pc \in {"add", "drop", "compare", "commit"}, Touched(n) = Touched(fiber[me])
  PROVE  GitInv'
<1>1. \A f \in Fibers : fiber'[f] = IF f = me THEN n ELSE fiber[f]
  BY DEF Inv, FibersInv
<1>2. \A c \in Clients : \A q : Owns(fiber[c], q) => Owns(fiber'[c], q)
  BY <1>1 DEF Fibers, Owns
<1>3. \A c \in Clients : \A q : Owns(fiber[c], q)' <=> Owns(fiber'[c], q)
  BY DEF Owns, Touched
<1>4. Owns(fiber'[me], p)
  BY <1>1 DEF Owns, Fibers
<1>5. p \notin Secret
  BY DEF Touched
<1>6. index' \in Files /\ \A q \in Paths \ {p} : index'[q] = index[q]
  BY DEF Inv, GitInv, Files
<1>7. SecretsStay'
  BY <1>5, <1>6, LocalAssumption DEF Inv, GitInv, SecretsStay
<1>8. ~gitFailed' => \A q \in Paths : index'[q] # head'[q] =>
                       \E c \in Clients : Owns(fiber[c], q)'
  BY <1>2, <1>3, <1>4, <1>6 DEF Inv, GitInv
<1> QED BY <1>6, <1>7, <1>8 DEF Inv, GitInv

\* adding and removing paths
LEMMA StagesInv ==
  ASSUME Inv, NEW me \in Clients, Stage(me) \/ Unstage(me)
  PROVE  Inv'
<1>1. PICK r : r = fiber[me]
  OBVIOUS
<1>2. PICK p : p = Turn(r.todo)
  OBVIOUS
<1>3. PICK w : w = Without(r, p)
  OBVIOUS
<1>4. PICK n : n = Staging(w)
  OBVIOUS
<1>5. PICK e : index' = [index EXCEPT ![p] = e] /\ (e = None \/ e = disk[p] \/ e = index[p])
  <2>1. index = [index EXCEPT ![p] = index[p]]
    BY DEF Inv, GitInv, Files
  <2> QED BY <1>1, <1>2, <2>1 DEF Stage, Unstage
<1>6. /\ r.pc \in {"add", "drop"} /\ r.todo # {} /\ fiber' = [fiber EXCEPT ![me] = n]
      /\ event' = (event \/ GitInside)
      /\ UNCHANGED <<disk, head, gitFailed, cacheVars, bounds>> /\ me \in Fibers
  BY <1>1, <1>2, <1>3, <1>4 DEF Stage, Unstage, At, Fibers
<1>7. event' \in BOOLEAN /\ (~event' => ~event)
  BY <1>6, Zenon
<1>8. Heard
  BY <1>6, <1>7 DEF Heard, cacheVars, Inv, CacheInv
<1>9. FiberInv(me, r)
  BY <1>1, <1>6, FiberIs
<1>10. p \in Touched(r) /\ p \in Paths
  BY <1>2, <1>6, <1>9 DEF Turn, FiberInv, FiberOK
<1>11. e \in Entry
  BY <1>5, <1>10 DEF Entry, Files, Inv, GitInv
<1>12. /\ DOMAIN w = FiberFields /\ w.change = r.change /\ w.before = r.before /\ w.pc = r.pc
       /\ w.read = r.read /\ w.started = r.started /\ w.todo = r.todo \ {p}
  BY <1>3, <1>9 DEF FiberInv, FiberFields, Without
<1>13. Touched(w) = Touched(r)
  BY <1>12 DEF Touched
<1>14. FiberInv(me, n) /\ n.pc \in {"add", "drop", "compare", "commit"} /\ Touched(n) = Touched(r)
  <2>1. /\ r.change \in Changes /\ r.before \in Files /\ r.change # None /\ r.before # None
        /\ Accepts(r.before, r.change) /\ r.read \in Files /\ r.started \in 0..revision
        /\ w.todo \subseteq Paths /\ w.todo \subseteq Touched(w)
    BY <1>6, <1>9, <1>12, <1>13 DEF FiberInv, FiberOK
  <2> QED BY <2>1, <1>4, <1>6, <1>12, <1>13, StagingInv
<1>15. FibersInv'
  BY <1>6, <1>8, <1>14, FiberKept, OneFiber
<1>16. CacheInv'
  BY <1>6, <1>8, CacheKept DEF cacheVars
<1>17. GitInv'
  BY <1>1, <1>5, <1>6, <1>10, <1>11, <1>14, StagedGit
<1> QED BY <1>6, <1>15, <1>16, <1>17 DEF Inv, bounds

\* a request that finds no difference gives up nothing that is not committed
LEMMA CompareInv ==
  ASSUME Inv, NEW me \in Clients, Compare(me)
  PROVE  Inv'
<1>1. PICK r : r = fiber[me]
  OBVIOUS
<1>2. PICK n : n = [r EXCEPT !.pc = "commit"]
  OBVIOUS
<1>3. /\ r.pc = "compare" /\ me \in Fibers
      /\ fiber' = [fiber EXCEPT ![me] =
           IF \E p \in Touched(r) : head[p] # index[p] THEN n ELSE Idle]
      /\ UNCHANGED <<disk, gitVars, cacheVars, event, bounds>>
  BY <1>1, <1>2 DEF Compare, Compared, At, Fibers
<1>4. Heard
  BY <1>3 DEF Heard, cacheVars, Inv, CacheInv
<1>5. CacheInv'
  BY <1>3, <1>4, CacheKept DEF cacheVars
<1>6. CASE \E p \in Touched(r) : head[p] # index[p]
  <2>1. FiberInv(me, r)
    BY <1>1, <1>3, FiberIs
  <2>2. /\ DOMAIN n = FiberFields /\ n.pc = "commit" /\ n.change = r.change
        /\ n.before = r.before /\ n.todo = r.todo /\ n.read = r.read /\ n.started = r.started
    BY <1>2, <2>1 DEF FiberInv, FiberFields
  <2>3. Touched(n) = Touched(r)
    BY <2>2 DEF Touched
  <2>4. FiberInv(me, n)
    BY <1>3, <2>1, <2>2, <2>3 DEF FiberInv, FiberOK, FiberFields, Idle
  <2>5. FibersInv'
    BY <1>3, <1>4, <1>6, <2>4, FiberKept, OneFiber
  <2>6. GitInv'
    <3>1. \A f \in Fibers : fiber'[f] = IF f = me THEN n ELSE fiber[f]
      BY <1>3, <1>6 DEF Inv, FibersInv
    <3>2. \A c \in Clients : \A q : Owns(fiber[c], q) => Owns(fiber'[c], q)
      BY <1>1, <2>2, <2>3, <3>1 DEF Fibers, Owns
    <3>3. \A c \in Clients : \A q : Owns(fiber[c], q)' <=> Owns(fiber'[c], q)
      BY DEF Owns, Touched
    <3> QED BY <1>3, <3>2, <3>3 DEF gitVars, Inv, GitInv, SecretsStay
  <2> QED BY <1>3, <1>5, <2>5, <2>6 DEF Inv, bounds
<1>7. CASE \A p \in Touched(r) : head[p] = index[p]
  <2>1. fiber' = [fiber EXCEPT ![me] = Idle]
    BY <1>3, <1>7
  <2>2. GitInv'
    <3> SUFFICES ASSUME NEW p \in Paths, ~gitFailed, index[p] # head[p]
                 PROVE  \E c \in Clients : Owns(fiber[c], p)'
      BY <1>3 DEF gitVars, Inv, GitInv, SecretsStay
    <3>1. PICK c \in Clients : Owns(fiber[c], p)
      BY DEF Inv, GitInv
    <3>2. c # me
      BY <1>1, <1>7, <3>1 DEF Owns
    <3>3. fiber'[c] = fiber[c]
      BY <2>1, <3>2 DEF Inv, FibersInv, Fibers
    <3> QED BY <3>1, <3>3 DEF Owns, Touched
  <2> QED BY <1>3, <1>4, <1>5, <2>1, <2>2, DoneInv
<1> QED BY <1>6, <1>7

LEMMA CommitInv ==
  ASSUME Inv, NEW me \in Clients, Commit(me)
  PROVE  Inv'
<1>1. /\ fiber' = [fiber EXCEPT ![me] = Idle] /\ event' = (event \/ GitInside)
      /\ head' = index
      /\ UNCHANGED <<disk, index, gitFailed, cacheVars, bounds>> /\ me \in Fibers
  BY DEF Commit, Fibers
<1>2. event' \in BOOLEAN /\ (~event' => ~event)
  BY <1>1, Zenon
<1>3. Heard
  BY <1>1, <1>2 DEF Heard, cacheVars, Inv, CacheInv
<1>4. CacheInv'
  BY <1>1, <1>3, CacheKept DEF cacheVars
<1>5. GitInv'
  BY <1>1 DEF Inv, GitInv, SecretsStay
<1> QED BY <1>1, <1>3, <1>4, <1>5, DoneInv

LEMMA CommitFailsInv ==
  ASSUME Inv, NEW me \in Clients, CommitFails(me)
  PROVE  Inv'
<1>1. /\ fiber' = [fiber EXCEPT ![me] = Idle] /\ gitFailed' = TRUE
      /\ UNCHANGED <<disk, index, head, event, cacheVars, bounds>> /\ me \in Fibers
  BY DEF CommitFails, Fibers
<1>2. Heard
  BY <1>1 DEF Heard, cacheVars, Inv, CacheInv
<1>3. CacheInv'
  BY <1>1, <1>2, CacheKept DEF cacheVars
<1>4. GitInv'
  BY <1>1 DEF Inv, GitInv, SecretsStay
<1> QED BY <1>1, <1>2, <1>3, <1>4, DoneInv

-----------------------------------------------------------------------------
LEMMA NextInv == Inv /\ [Next]_vars => Inv'
<1> SUFFICES ASSUME Inv, [Next]_vars PROVE Inv'
  OBVIOUS
<1>1. CASE UNCHANGED vars
  <2>1. UNCHANGED <<disk, index, head, revision, latestSnapshot, event, fiber,
                    requests, edits, latestFrom, gitFailed>>
    BY <1>1 DEF vars
  <2>2. Heard
    BY <2>1 DEF Heard, Inv, CacheInv
  <2>3. FibersInv' /\ CacheInv'
    BY <2>1, <2>2, SameFibers, CacheKept
  <2> QED BY <2>1, <2>3 DEF Inv, GitInv, SecretsStay, Owns, Touched
<1>2. CASE Edit
  BY <1>2, EditInv
<1>3. CASE Watch
  BY <1>3, WatchInv
<1>4. CASE RefreshEnds
  BY <1>4, RefreshEndsInv
<1>5. ASSUME NEW me \in Fibers, Refresh(me) PROVE Inv'
  BY <1>5, ReadInv, FailsInv DEF Refresh
<1>6. ASSUME NEW me \in Clients, Request(me) PROVE Inv'
  BY <1>6, TakeInv, FirstRefreshEndsInv, WriteInv, RemoveInv, FailsInv, WrittenRefreshInv,
     LastRefreshEndsInv, StagesInv, CompareInv, CommitInv, CommitFailsInv DEF Request, Fibers
<1> QED BY <1>1, <1>2, <1>3, <1>4, <1>5, <1>6 DEF Next

LEMMA SpecInv == Spec => []Inv
BY InitInv, NextInv, PTL DEF Spec

(* Types, and a request that writes is one its files admit. *)
THEOREM LocalTypes == Spec => []TypeOK
<1>1. Inv => TypeOK
  <2> SUFFICES ASSUME Inv PROVE TypeOK
    OBVIOUS
  <2>1. \A f \in Fibers : FiberOK(fiber[f])
    <3> SUFFICES ASSUME NEW f \in Fibers PROVE FiberOK(fiber[f])
      OBVIOUS
    <3>1. PICK r : r = fiber[f]
      OBVIOUS
    <3>2. FiberOK(r)
      BY <3>1, FiberIs DEF FiberInv
    <3> QED BY <3>1, <3>2
  <2> QED BY <2>1 DEF TypeOK, Inv, FibersInv, CacheInv, GitInv
<1> QED BY <1>1, SpecInv, PTL

(* The published revisions never go back, however many refreshes overlap   *)
(* (refresh takes the counter as it is when it ends).                      *)
THEOREM RevisionsGoForward == Spec => RevisionsNeverGoBack
<1>1. Inv /\ [Next]_vars => [latestSnapshot # None =>
                               latestSnapshot'.revision >= latestSnapshot.revision]_vars
  <2> SUFFICES ASSUME Inv, Next, latestSnapshot # None
               PROVE  latestSnapshot'.revision >= latestSnapshot.revision
    OBVIOUS
  <2>1. latestSnapshot.revision \in 1..revision /\ revision \in Nat
    BY DEF Inv, CacheInv
  <2>2. latestSnapshot' = latestSnapshot \/ latestSnapshot'.revision = revision
    <3>1. ASSUME NEW me \in Fibers, Published(me) PROVE latestSnapshot'.revision = revision
      BY <3>1 DEF Published, Snapshot
    <3>2. ASSUME NEW me, Refresh(me) PROVE latestSnapshot' = latestSnapshot
      BY <3>2 DEF Refresh, Read, ReadFails, cacheVars
    <3>3. ASSUME NEW me \in Clients, Request(me)
          PROVE  latestSnapshot' = latestSnapshot \/ Published(me)
      BY <3>3 DEF Request, Take, Refreshing, FirstRefreshEnds, Write, Remove, WriteFails,
                  WrittenRefresh, LastRefreshEnds, Stage, Unstage, Compare, Compared, Commit,
                  CommitFails, cacheVars
    <3>4. Edit \/ Watch => latestSnapshot' = latestSnapshot
      BY DEF Edit, Watch, Refreshing, cacheVars
    <3> QED BY <3>1, <3>2, <3>3, <3>4 DEF Next, RefreshEnds, Fibers
  <2> QED BY <2>1, <2>2
<1> QED BY <1>1, SpecInv, PTL DEF Spec, RevisionsNeverGoBack

(* Without an event to handle, the cached snapshot of the last refresh     *)
(* shows the disk (the watcher and every refresh that follows a write).    *)
THEOREM RestShowsDisk == Spec => []RestIsCurrent
<1>1. Inv => RestIsCurrent
  BY DEF Inv, CacheInv, RestIsCurrent, AtRest
<1> QED BY <1>1, SpecInv, PTL

(* With any number of commits that share one index, what was staged is     *)
(* committed once no request is under way (LocalGitCommitter).             *)
THEOREM StagedGetsCommitted == Spec => []StagedIsCommitted
<1>1. Inv => StagedIsCommitted
  <2> SUFFICES ASSUME Inv, \A f \in Clients : At(f, "idle"), ~gitFailed PROVE index = head
    BY DEF StagedIsCommitted
  <2>1. \A p \in Paths : index[p] = head[p]
    BY DEF Inv, GitInv, Owns, At
  <2> QED BY <2>1 DEF Inv, GitInv, Files
<1> QED BY <1>1, SpecInv, PTL

(* A secret file is never staged or committed (commitToGit).               *)
THEOREM SecretsAlwaysStay == Spec => []SecretsStay
<1>1. Inv => SecretsStay
  BY DEF Inv, GitInv
<1> QED BY <1>1, SpecInv, PTL
=============================================================================
