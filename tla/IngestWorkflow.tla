--------------------------- MODULE IngestWorkflow ---------------------------
(***************************************************************************)
(* A workflow is defined from its steps, then run: step by step in one     *)
(* order, with a manifest and the steps' outputs kept in the artifact      *)
(* store so that a run that failed or was killed can be taken up again,    *)
(* also with another input or from a chosen step.  The runner is           *)
(* sequential and nobody else writes the run's files; what is hard is      *)
(* being killed between two store writes.                                  *)
(***************************************************************************)
EXTENDS Integers, FiniteSets, SequencesExt

CONSTANTS
  Steps,       \* the step ids
  Inputs,      \* the inputs a run may be given
  Outputs,     \* what an action may return
  Edits,       \* the file edits an action may make: path and content
  None,
  Refused,     \* a definition whose steps wait for each other
  Hash(_),     \* hashJson: 32 bits, so different values may share a hash
  Runnable,    \* bound: the graphs of steps that are run, not only defined
  MaxRuns,     \* bound: runs started
  MaxWrites    \* bound: edits of one action

ASSUME IngestAssumption ==
  /\ IsFiniteSet(Steps)
  /\ Refused \notin Seq(Steps)
  /\ None \notin Outputs /\ \A e \in Edits : DOMAIN e = {"path", "content"}
  /\ Runnable \subseteq [Steps -> SUBSET Steps]
  /\ MaxRuns \in Nat /\ MaxWrites \in Nat

VARIABLES
  after,     \* the definition: the steps a step waits for
  visiting,  \* topoSort: the visits under way, each within the one before it
  visited,   \* topoSort: the steps visited, in the order they came to
  order,     \* None, or what defineArtifactWorkflow made of the definition
  \* in the artifact store
  manifest,  \* the run's manifest, with status "none" before the first run
  outputs,   \* output.json by step, None where there is none
  files,     \* what the run's edits made of the project's files, None for nothing
  \* in memory
  run,       \* the run under way
  \* bounds and history
  runs,      \* runs started
  finished   \* the run that completed last, until the next one starts

vars == <<after, visiting, visited, order, manifest, outputs, files, run, runs, finished>>
walk == <<visiting, visited>>
stored == <<manifest, outputs, files>>

Files == {e.path : e \in Edits}
NoOutputs == [s \in Steps |-> None]

StepRecord(status, hash, outputHash, writes) ==
  [status |-> status, inputHash |-> hash, outputHash |-> outputHash, writes |-> writes]
NoRecord == StepRecord("none", None, None, <<>>)
NoManifest == [status |-> "none", steps |-> [s \in Steps |-> NoRecord], patch |-> None]

(* pc      "step" at the head of the loop, "action" while one runs,        *)
(*         "record" when its output is stored                              *)
(* from    the position to run from, 0 without fromStep                    *)
(* at      the position in the order                                       *)
(* seen    the outputs this run has read or made                           *)
(* edits   proposedEdits; writes those of the action under way             *)
(* ran     the steps whose action this run has run                         *)
Idle == [pc |-> "idle", input |-> None, mode |-> "apply", from |-> 0, at |-> 1,
         seen |-> NoOutputs, edits |-> <<>>, writes |-> <<>>, ran |-> {}]

Init ==
  /\ after \in [Steps -> SUBSET Steps]
  /\ visiting = <<>> /\ visited = <<>> /\ order = None
  /\ manifest = NoManifest /\ outputs = NoOutputs /\ files = [p \in Files |-> None]
  /\ run = Idle /\ runs = 0 /\ finished = None

-----------------------------------------------------------------------------
(* defineArtifactWorkflow: topoSort's depth-first walk, a visit within the *)
(* visit of the step that waits for it.  A step that was visited is passed *)
(* over; one whose visit is under way is a cycle.                          *)

\* what the visit under way goes through; with none, all steps are visited
Waited == IF visiting = <<>> THEN Steps ELSE after[Last(visiting)]
Unvisited == Waited \ ToSet(visited)

Visit(id) ==
  /\ order = None /\ id \in Unvisited
  /\ IF id \in ToSet(visiting)
     THEN order' = Refused /\ UNCHANGED visiting
     ELSE visiting' = Append(visiting, id) /\ UNCHANGED order
  /\ UNCHANGED <<after, visited, stored, run, runs, finished>>

\* MUTANT of Leave: a step takes its place before what it waits for
LeaveEarly ==
  /\ order = None /\ visiting # <<>>
  /\ visiting' = Front(visiting) /\ visited' = Append(visited, Last(visiting))
  /\ UNCHANGED <<after, order, stored, run, runs, finished>>

Leave ==
  /\ order = None /\ visiting # <<>> /\ Unvisited = {}
  /\ visiting' = Front(visiting) /\ visited' = Append(visited, Last(visiting))
  /\ UNCHANGED <<after, order, stored, run, runs, finished>>

Define ==
  /\ order = None /\ visiting = <<>> /\ Unvisited = {}
  /\ order' = visited
  /\ UNCHANGED <<after, walk, stored, run, runs, finished>>

-----------------------------------------------------------------------------
(* The head of runArtifactWorkflow: an existing manifest is taken over as  *)
(* it is, input hash and write mode included.                              *)
Start(input, mode, from) ==
  /\ order \notin {None, Refused} /\ after \in Runnable
  /\ run.pc = "idle" /\ runs < MaxRuns
  /\ manifest' = [manifest EXCEPT !.status = "running"]
  /\ run' = [Idle EXCEPT !.pc = "step", !.input = input, !.mode = mode, !.from = from]
  /\ runs' = runs + 1
  /\ finished' = None
  /\ UNCHANGED <<after, order, walk, outputs, files>>

\* a step's input is made of the run's input and of outputs it waits for
InputOf(s, input, seen) == [input |-> input, from |-> [d \in after[s] |-> seen[d]]]
StepHash(s) == Hash(InputOf(s, run.input, run.seen))

Current == order[run.at]
AtStep == run.pc = "step" /\ run.at <= Len(order)

\* MUTANT of CanSkip: a completed step need not be run again
CanSkipCompleted ==
  /\ run.from = 0
  /\ manifest.steps[Current].status = "completed"

CanSkip ==
  /\ run.from = 0
  /\ manifest.steps[Current].status = "completed"
  /\ manifest.steps[Current].inputHash = StepHash(Current)

\* a step that was run before with the same input, in this run only skipped:
\* "skipped" is not "completed", so a later run does run it again.  Its output
\* is as the action returned it: outputs are values that JSON keeps
Skip ==
  /\ AtStep /\ CanSkip
  /\ outputs[Current] # None
  /\ manifest' = [manifest EXCEPT !.steps[Current].status = "skipped"]
  /\ run' = [run EXCEPT !.seen[Current] = outputs[Current], !.at = @ + 1]
  /\ UNCHANGED <<after, order, walk, outputs, files, runs, finished>>

\* before the chosen step the stored outputs are used, whatever they came from,
\* and again as JSON kept them
Reuse ==
  /\ AtStep /\ run.at < run.from
  /\ outputs[Current] # None
  /\ run' = [run EXCEPT !.seen[Current] = outputs[Current], !.at = @ + 1]
  /\ UNCHANGED <<after, order, walk, stored, runs, finished>>

\* MUTANT of BeginStep: that a step runs again is not recorded before it does
BeginStepUnrecorded ==
  /\ AtStep /\ ~CanSkip /\ run.at >= run.from
  /\ run' = [run EXCEPT !.pc = "action", !.writes = <<>>, !.ran = @ \cup {Current}]
  /\ UNCHANGED <<after, order, walk, stored, runs, finished>>

BeginStep ==
  /\ AtStep /\ ~CanSkip /\ run.at >= run.from
  /\ manifest' = [manifest EXCEPT
       !.steps[Current] = StepRecord("running", StepHash(Current), None, <<>>)]
  /\ run' = [run EXCEPT !.pc = "action", !.writes = <<>>, !.ran = @ \cup {Current}]
  /\ UNCHANGED <<after, order, walk, outputs, files, runs, finished>>

\* writeFile of the action's context
ActionWrites(e) ==
  /\ run.pc = "action" /\ Len(run.writes) < MaxWrites
  /\ run' = [run EXCEPT !.writes = Append(@, e),
                        !.edits = IF run.mode = "propose" THEN Append(@, e) ELSE @]
  /\ files' = IF run.mode = "propose" THEN files ELSE [files EXCEPT ![e.path] = e.content]
  /\ UNCHANGED <<after, order, walk, manifest, outputs, runs, finished>>

\* the output is stored first, then the manifest says so
ActionSucceeds(output) ==
  /\ run.pc = "action"
  /\ outputs' = [outputs EXCEPT ![Current] = output]
  /\ run' = [run EXCEPT !.pc = "record", !.seen[Current] = output]
  /\ UNCHANGED <<after, order, walk, manifest, files, runs, finished>>

Record ==
  /\ run.pc = "record"
  /\ manifest' = [manifest EXCEPT !.steps[Current] =
       StepRecord("completed", StepHash(Current), Hash(run.seen[Current]), run.writes)]
  /\ run' = [run EXCEPT !.pc = "step", !.at = @ + 1]
  /\ UNCHANGED <<after, order, walk, outputs, files, runs, finished>>

ActionFails ==
  /\ run.pc = "action"
  /\ manifest' = [manifest EXCEPT !.status = "failed", !.steps[Current] =
       StepRecord("failed", StepHash(Current), None, run.writes)]
  /\ run' = Idle
  /\ UNCHANGED <<after, order, walk, outputs, files, runs, finished>>

\* MUTANT of Patch: a patch that was proposed before is good enough
PatchKept ==
  IF run.mode = "propose" /\ run.edits # <<>> /\ manifest.patch = None
  THEN run.edits ELSE manifest.patch

\* without edits of this run the manifest keeps the patch it has
Patch == IF run.mode = "propose" /\ run.edits # <<>> THEN run.edits ELSE manifest.patch

Finish ==
  /\ run.pc = "step" /\ run.at > Len(order)
  /\ manifest' = [manifest EXCEPT !.status = "completed", !.patch = Patch]
  /\ finished' = run
  /\ run' = Idle
  /\ UNCHANGED <<after, order, walk, outputs, files, runs>>

(* The process is killed, a store operation fails, a stored output is not  *)
(* there or a schema refuses a value: the run is over and its manifest     *)
(* goes on saying that it is running.                                      *)
Stop ==
  /\ run.pc # "idle"
  /\ run' = Idle
  /\ UNCHANGED <<after, order, walk, stored, runs, finished>>

-----------------------------------------------------------------------------
Next ==
  \/ (\E id \in Steps : Visit(id)) \/ Leave \/ Define
  \/ \E i \in Inputs, m \in {"apply", "propose"}, from \in 0..Cardinality(Steps) : Start(i, m, from)
  \/ Skip \/ Reuse \/ BeginStep
  \/ \E e \in Edits : ActionWrites(e)
  \/ \E o \in Outputs : ActionSucceeds(o)
  \/ Record \/ ActionFails \/ Finish \/ Stop

Spec == Init /\ [][Next]_vars
-----------------------------------------------------------------------------
RecordOK(r) ==
  /\ r.status \in {"none", "running", "completed", "skipped", "failed"}
  /\ ToSet(r.writes) \subseteq Edits

(* Types; and a run is under way only in a manifest that says so. *)
TypeOK ==
  /\ after \in [Steps -> SUBSET Steps]
  /\ visiting \in Seq(Steps) /\ visited \in Seq(Steps)
  /\ order \in {None, Refused} \/ ToSet(order) = Steps
  /\ outputs \in [Steps -> Outputs \cup {None}]
  /\ manifest.status \in {"none", "running", "completed", "failed"}
  /\ \A s \in Steps : RecordOK(manifest.steps[s])
  /\ run.pc \in {"idle", "step", "action", "record"}
  /\ run.pc # "idle" => /\ manifest.status = "running"
                        /\ run.at \in 1..(Len(order) + 1) /\ run.ran \subseteq Steps
  /\ run.pc \in {"action", "record"} =>
       /\ run.at <= Len(order)
       /\ manifest.steps[Current].status = "running"
       /\ manifest.steps[Current].inputHash = StepHash(Current)

(* The definition is refused exactly if steps wait for each other in a     *)
(* circle; otherwise each step comes once, after all it waits for.         *)
Circular == \E S \in (SUBSET Steps) \ {{}} : \A s \in S : after[s] \cap S # {}
LegalOrder ==
  order # None =>
    IF Circular THEN order = Refused
    ELSE /\ order # Refused /\ order \in Seq(Steps) /\ ToSet(order) = Steps
         /\ \A i, j \in 1..Len(order) : order[i] = order[j] => i = j
         /\ \A i \in 1..Len(order) : \A d \in after[order[i]] : \E j \in 1..(i - 1) : order[j] = d

(* Whenever the manifest says that a step is done, its stored output is    *)
(* there and is the one the manifest names, wherever a run was killed: a   *)
(* later run takes that output without looking further.                    *)
Done(s) == manifest.steps[s].status \in {"completed", "skipped"}
OutputsMatch ==
  \A s \in Steps :
    Done(s) => outputs[s] # None /\ Hash(outputs[s]) = manifest.steps[s].outputHash

(* A completed run is of one piece: from the step it was told to run from  *)
(* on, every step is done and was done with the run's input and the        *)
(* outputs now stored for the steps it waits for, whether it was run or    *)
(* skipped and whatever runs with other inputs were broken off before.     *)
OfOnePiece ==
  finished # None =>
    /\ manifest.status = "completed"
    /\ \A i \in 1..Len(order) : i >= finished.from =>
         LET s == order[i] IN
           /\ Done(s)
           /\ manifest.steps[s].inputHash = Hash(InputOf(s, finished.input, outputs))

(* The edits of the actions a completed run has run are accounted for, in  *)
(* the order they were made: they are the proposed patch, or they are in   *)
(* the files.  Edits of steps it skipped are not.                          *)
EditsOf(r) == FlattenSeq([i \in 1..Len(order) |->
                IF order[i] \in r.ran THEN manifest.steps[order[i]].writes ELSE <<>>])
EditsAccounted ==
  finished # None =>
    LET edits == EditsOf(finished) IN
      IF finished.mode = "propose"
      THEN edits # <<>> => manifest.patch = edits
      ELSE \A i \in 1..Len(edits) :
             (\A j \in (i + 1)..Len(edits) : edits[j].path # edits[i].path)
               => files[edits[i].path] = edits[i].content
=============================================================================
