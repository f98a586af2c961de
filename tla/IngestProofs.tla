---------------------------- MODULE IngestProofs ----------------------------
(***************************************************************************)
(* Proofs about IngestWorkflow, for every set of steps, every graph, every *)
(* number of runs and every hash function: the order of the steps is       *)
(* legal, what the manifest calls done has its stored output wherever a    *)
(* run was killed, a completed run is of one piece, and no edit is lost.   *)
(***************************************************************************)
EXTENDS IngestWorkflow, FiniteSetTheorems, WellFoundedInduction, TLAPS

RunFields == {"pc", "input", "mode", "from", "at", "seen", "edits", "writes", "ran"}
RecordFields == {"status", "inputHash", "outputHash", "writes"}

\* which fields and steps there are; what they hold is of no matter here
Shape ==
  /\ DOMAIN run = RunFields /\ DOMAIN run.seen = Steps
  /\ DOMAIN outputs = Steps
  /\ DOMAIN manifest = {"status", "steps", "patch"} /\ DOMAIN manifest.steps = Steps
  /\ \A s \in Steps : DOMAIN manifest.steps[s] = RecordFields

\* while an action runs, and until its end is recorded, its step is not done
Underway ==
  /\ run.pc \in {"idle", "step", "action", "record"}
  /\ run.pc # "idle" => order # None
  /\ run.pc \in {"action", "record"} /\ Current \in Steps =>
       manifest.steps[Current].status = "running"
  /\ run.pc = "record" /\ Current \in Steps =>
       outputs[Current] \in Outputs /\ outputs[Current] = run.seen[Current]

Inv == Shape /\ Underway /\ OutputsMatch

LEMMA InitInv == Init => Inv
BY DEF Init, Inv, Shape, Underway, OutputsMatch, Done, Idle, NoManifest, NoRecord, StepRecord,
       NoOutputs, RunFields, RecordFields

\* what the manifest's record of the current step becomes
LEMMA RecordSet ==
  ASSUME Shape, NEW r, DOMAIN r = RecordFields,
         manifest' = [manifest EXCEPT !.steps[Current] = r]
  PROVE  /\ DOMAIN manifest' = {"status", "steps", "patch"} /\ DOMAIN manifest'.steps = Steps
         /\ manifest'.status = manifest.status
         /\ \A s \in Steps : manifest'.steps[s] = IF s = Current THEN r ELSE manifest.steps[s]
         /\ \A s \in Steps : DOMAIN manifest'.steps[s] = RecordFields
BY DEF Shape

LEMMA StartInv ==
  ASSUME Inv, NEW i, NEW m, NEW f, Start(i, m, f)
  PROVE  Inv'
<1>1. /\ manifest' = [manifest EXCEPT !.status = "running"] /\ outputs' = outputs
      /\ run' = [Idle EXCEPT !.pc = "step", !.input = i, !.mode = m, !.from = f]
      /\ order' = order /\ order # None
  BY DEF Start
<1>2. manifest'.steps = manifest.steps /\ DOMAIN manifest' = DOMAIN manifest
  BY <1>1 DEF Inv, Shape
<1>3. run'.pc = "step" /\ DOMAIN run' = RunFields /\ DOMAIN run'.seen = Steps
  BY <1>1 DEF Idle, RunFields, NoOutputs
<1> QED BY <1>1, <1>2, <1>3 DEF Inv, Shape, Underway, OutputsMatch, Done

LEMMA SkipInv ==
  ASSUME Inv, Skip
  PROVE  Inv'
<1>1. /\ manifest' = [manifest EXCEPT !.steps[Current].status = "skipped"] /\ outputs' = outputs
      /\ run' = [run EXCEPT !.seen[Current] = outputs[Current], !.at = @ + 1]
      /\ run.pc = "step" /\ manifest.steps[Current].status = "completed" /\ order' = order
  BY DEF Skip, AtStep, CanSkip
<1>2. run'.pc = "step" /\ DOMAIN run' = RunFields /\ DOMAIN run'.seen = Steps
  BY <1>1 DEF Inv, Shape, RunFields
<1>3. /\ DOMAIN manifest' = {"status", "steps", "patch"} /\ DOMAIN manifest'.steps = Steps
      /\ \A s \in Steps : DOMAIN manifest'.steps[s] = RecordFields
      /\ \A s \in Steps : manifest'.steps[s].outputHash = manifest.steps[s].outputHash
      /\ \A s \in Steps : s # Current => manifest'.steps[s] = manifest.steps[s]
  BY <1>1 DEF Inv, Shape, RecordFields
<1>4. OutputsMatch'
  BY <1>1, <1>3 DEF Inv, OutputsMatch, Done
<1> QED BY <1>1, <1>2, <1>3, <1>4 DEF Inv, Shape, Underway

LEMMA ReuseInv ==
  ASSUME Inv, Reuse
  PROVE  Inv'
<1>1. /\ UNCHANGED <<manifest, outputs, order>>
      /\ run' = [run EXCEPT !.seen[Current] = outputs[Current], !.at = @ + 1]
      /\ run.pc = "step"
  BY DEF Reuse, AtStep, stored
<1>2. run'.pc = "step" /\ DOMAIN run' = RunFields /\ DOMAIN run'.seen = Steps
  BY <1>1 DEF Inv, Shape, RunFields
<1> QED BY <1>1, <1>2 DEF Inv, Shape, Underway, OutputsMatch, Done

LEMMA BeginStepInv ==
  ASSUME Inv, BeginStep
  PROVE  Inv'
<1> DEFINE r == StepRecord("running", StepHash(Current), None, <<>>)
<1>1. /\ manifest' = [manifest EXCEPT !.steps[Current] = r] /\ outputs' = outputs
      /\ run' = [run EXCEPT !.pc = "action", !.writes = <<>>, !.ran = @ \cup {Current}]
      /\ order' = order /\ run.pc = "step"
  BY DEF BeginStep, AtStep
<1>2. run'.pc = "action" /\ DOMAIN run' = RunFields /\ run'.seen = run.seen /\ run'.at = run.at
  BY <1>1 DEF Inv, Shape, RunFields
<1>3. DOMAIN r = RecordFields /\ r.status = "running"
  BY DEF StepRecord, RecordFields
<1>4. /\ DOMAIN manifest' = {"status", "steps", "patch"} /\ DOMAIN manifest'.steps = Steps
      /\ \A s \in Steps : manifest'.steps[s] = IF s = Current THEN r ELSE manifest.steps[s]
      /\ \A s \in Steps : DOMAIN manifest'.steps[s] = RecordFields
  BY <1>1, <1>3, RecordSet DEF Inv
<1>5. Current' = Current
  BY <1>1, <1>2 DEF Current
<1> HIDE DEF r
<1>6. OutputsMatch'
  BY <1>1, <1>3, <1>4 DEF Inv, OutputsMatch, Done
<1>7. Shape'
  BY <1>1, <1>2, <1>4 DEF Inv, Shape
<1>8. Underway'
  BY <1>1, <1>2, <1>3, <1>4, <1>5 DEF Inv, Underway
<1> QED BY <1>6, <1>7, <1>8 DEF Inv

LEMMA ActionWritesInv ==
  ASSUME Inv, NEW e, ActionWrites(e)
  PROVE  Inv'
<1>1. /\ UNCHANGED <<manifest, outputs, order>> /\ run.pc = "action"
      /\ DOMAIN run' = RunFields /\ run'.seen = run.seen /\ run'.at = run.at /\ run'.pc = run.pc
  BY DEF ActionWrites, Inv, Shape, RunFields
<1>2. Current' = Current
  BY <1>1 DEF Current
<1> QED BY <1>1, <1>2 DEF Inv, Shape, Underway, OutputsMatch, Done

LEMMA ActionSucceedsInv ==
  ASSUME Inv, NEW o \in Outputs, ActionSucceeds(o)
  PROVE  Inv'
<1>1. /\ UNCHANGED <<manifest, order>> /\ outputs' = [outputs EXCEPT ![Current] = o]
      /\ run' = [run EXCEPT !.pc = "record", !.seen[Current] = o] /\ run.pc = "action"
  BY DEF ActionSucceeds
<1>2. /\ run'.pc = "record" /\ DOMAIN run' = RunFields /\ DOMAIN run'.seen = Steps
      /\ run'.at = run.at /\ (Current \in Steps => run'.seen[Current] = o)
  BY <1>1 DEF Inv, Shape, RunFields
<1>3. Current' = Current
  BY <1>1, <1>2 DEF Current
<1>4. OutputsMatch'
  BY <1>1 DEF Inv, Shape, Underway, OutputsMatch, Done
<1> QED BY <1>1, <1>2, <1>3, <1>4 DEF Inv, Shape, Underway

LEMMA RecordInv ==
  ASSUME Inv, Record
  PROVE  Inv'
<1> DEFINE r == StepRecord("completed", StepHash(Current), Hash(run.seen[Current]), run.writes)
<1>1. /\ manifest' = [manifest EXCEPT !.steps[Current] = r] /\ outputs' = outputs
      /\ run' = [run EXCEPT !.pc = "step", !.at = @ + 1] /\ run.pc = "record" /\ order' = order
  BY DEF Record
<1>2. run'.pc = "step" /\ DOMAIN run' = RunFields /\ run'.seen = run.seen
  BY <1>1 DEF Inv, Shape, RunFields
<1>3. DOMAIN r = RecordFields /\ r.outputHash = Hash(run.seen[Current])
  BY DEF StepRecord, RecordFields
<1>4. /\ DOMAIN manifest' = {"status", "steps", "patch"} /\ DOMAIN manifest'.steps = Steps
      /\ \A s \in Steps : manifest'.steps[s] = IF s = Current THEN r ELSE manifest.steps[s]
      /\ \A s \in Steps : DOMAIN manifest'.steps[s] = RecordFields
  BY <1>1, <1>3, RecordSet DEF Inv
<1> HIDE DEF r
<1>5. OutputsMatch'
  <2> SUFFICES ASSUME NEW s \in Steps, manifest'.steps[s].status \in {"completed", "skipped"}
               PROVE  outputs'[s] # None /\ Hash(outputs'[s]) = manifest'.steps[s].outputHash
    BY DEF OutputsMatch, Done
  <2>1. CASE s = Current
    <3>1. outputs[s] \in Outputs /\ outputs[s] = run.seen[s]
      BY <2>1, <1>1 DEF Inv, Underway
    <3> QED BY <3>1, <2>1, <1>1, <1>3, <1>4, IngestAssumption
  <2>2. CASE s # Current
    BY <2>2, <1>1, <1>4 DEF Inv, OutputsMatch, Done
  <2> QED BY <2>1, <2>2
<1> QED BY <1>1, <1>2, <1>3, <1>4, <1>5 DEF Inv, Shape, Underway

\* the runs that end: nothing is under way any more
LEMMA EndsInv ==
  ASSUME Inv, ActionFails \/ Finish \/ Stop
  PROVE  Inv'
<1>1. outputs' = outputs /\ run' = Idle
  BY DEF ActionFails, Finish, Stop, stored
<1>2. run'.pc = "idle" /\ DOMAIN run' = RunFields /\ DOMAIN run'.seen = Steps
  BY <1>1 DEF Idle, RunFields, NoOutputs
<1>3. /\ DOMAIN manifest' = {"status", "steps", "patch"} /\ DOMAIN manifest'.steps = Steps
      /\ \A s \in Steps : DOMAIN manifest'.steps[s] = RecordFields
      /\ \A s \in Steps : \/ manifest'.steps[s] = manifest.steps[s]
                          \/ manifest'.steps[s].status = "failed"
  <2>1. CASE ActionFails
    <3> DEFINE r == StepRecord("failed", StepHash(Current), None, run.writes)
    <3>1. DOMAIN r = RecordFields /\ r.status = "failed"
      BY DEF StepRecord, RecordFields
    <3>2. manifest' = [manifest EXCEPT !.status = "failed", !.steps[Current] = r]
      BY <2>1 DEF ActionFails
    <3> HIDE DEF r
    <3> QED BY <3>1, <3>2 DEF Inv, Shape
  <2>2. CASE Finish
    BY <2>2 DEF Finish, Inv, Shape
  <2>3. CASE Stop
    BY <2>3 DEF Stop, stored, Inv, Shape
  <2> QED BY <2>1, <2>2, <2>3
<1> QED BY <1>1, <1>2, <1>3 DEF Inv, Shape, Underway, OutputsMatch, Done

\* the definition is made before there is a run
Defining == (\E id \in Steps : Visit(id)) \/ Leave \/ Define

LEMMA OnlyDefines ==
  ASSUME Defining
  PROVE  order = None /\ UNCHANGED <<after, manifest, outputs, files, run, runs, finished>>
BY DEF Defining, Visit, Leave, Define, stored

LEMMA NextInv == Inv /\ [Next]_vars => Inv'
<1> SUFFICES ASSUME Inv, [Next]_vars PROVE Inv'
  OBVIOUS
<1>1. CASE Defining \/ UNCHANGED vars
  <2>1. UNCHANGED <<manifest, outputs, run>>
    BY <1>1, OnlyDefines DEF vars
  <2>2. run.pc # "idle" => order' = order
    BY <1>1, OnlyDefines DEF vars, Inv, Underway
  <2> QED BY <2>1, <2>2 DEF Inv, Shape, Underway, OutputsMatch, Done, Current
<1>2. ASSUME NEW i \in Inputs, NEW m \in {"apply", "propose"}, NEW f \in 0..Cardinality(Steps),
             Start(i, m, f)
      PROVE  Inv'
  BY <1>2, StartInv
<1>3. CASE Skip
  BY <1>3, SkipInv
<1>4. CASE Reuse
  BY <1>4, ReuseInv
<1>5. CASE BeginStep
  BY <1>5, BeginStepInv
<1>6. ASSUME NEW e \in Edits, ActionWrites(e) PROVE Inv'
  BY <1>6, ActionWritesInv
<1>7. ASSUME NEW o \in Outputs, ActionSucceeds(o) PROVE Inv'
  BY <1>7, ActionSucceedsInv
<1>8. CASE Record
  BY <1>8, RecordInv
<1>9. CASE ActionFails \/ Finish \/ Stop
  BY <1>9, EndsInv
<1> QED BY <1>1, <1>2, <1>3, <1>4, <1>5, <1>6, <1>7, <1>8, <1>9 DEF Next, Defining

(* What the manifest calls done has its stored output, wherever a run was  *)
(* killed (the order of the writes in runArtifactWorkflow).                *)
THEOREM OutputsAlwaysMatch == Spec => []OutputsMatch
<1>1. Inv => OutputsMatch
  BY DEF Inv
<1> QED BY <1>1, InitInv, NextInv, PTL DEF Spec

-----------------------------------------------------------------------------
(* The order.  A set of numbers has a least element: the induction         *)
(* principle the provers can use.                                          *)
LEMMA LeastNat == \A T : T \subseteq Nat /\ T # {} => \E x \in T : \A y \in T : x <= y
<1> SUFFICES ASSUME NEW T, T \subseteq Nat, T # {} PROVE \E x \in T : \A y \in T : x <= y
  OBVIOUS
<1> DEFINE R == OpToRel(<, Nat)
<1>1. IsWellFoundedOn(R, Nat)
  BY NatLessThanWellFounded
<1>2. \A x, y \in Nat : x < y => <<x, y>> \in R
  BY DEF OpToRel
<1> HIDE DEF R
<1>3. PICK x \in T : \A y \in T : ~ (<<y, x>> \in R)
  BY <1>1, WFMin
<1>4. ASSUME NEW y \in T PROVE x <= y
  <2>1. x \in Nat /\ y \in Nat
    OBVIOUS
  <2>2. ~ (y < x)
    BY <2>1, <1>2, <1>3
  <2> QED BY <2>1, <2>2
<1> QED BY <1>4

\* each step once, after all it waits for
Ordered(q) ==
  /\ q \in Seq(Steps)
  /\ \A i, j \in 1..Len(q) : q[i] = q[j] => i = j
  /\ \A i \in 1..Len(q) : \A d \in after[q[i]] : \E j \in 1..(i - 1) : q[j] = d

\* the visits under way: a path along which each step waits for the next
Path(q) ==
  /\ q \in Seq(Steps)
  /\ \A i, j \in 1..Len(q) : q[i] = q[j] => i = j
  /\ \A i \in 1..Len(q) : i + 1 \in 1..Len(q) => q[i + 1] \in after[q[i]]

Walked ==
  /\ after \in [Steps -> SUBSET Steps]
  /\ Ordered(visited) /\ Path(visiting)
  /\ \A i \in 1..Len(visiting) : \A j \in 1..Len(visited) : visiting[i] # visited[j]
  /\ LegalOrder

LEMMA InitWalked == Init => Walked
BY DEF Init, Walked, Ordered, Path, LegalOrder

\* a step that waits for one on the path to it is on a circle
LEMMA PathCloses ==
  ASSUME Walked, NEW j \in 1..Len(visiting), visiting[j] \in after[Last(visiting)]
  PROVE  Circular
<1>1. PICK n \in Nat : n = Len(visiting) /\ j \in 1..n /\ Last(visiting) = visiting[n]
  BY DEF Walked, Path, Last
<1>2. PICK S : S = {visiting[i] : i \in j..n}
  OBVIOUS
<1>3. \A i \in j..n : i \in 1..n
  BY <1>1
<1>4. \A i \in 1..n : visiting[i] \in Steps
  BY <1>1 DEF Walked, Path
<1>5. S \in SUBSET Steps
  BY <1>2, <1>3, <1>4
<1>6. visiting[j] \in S
  <2>1. j \in j..n
    BY <1>1
  <2> QED BY <1>2, <2>1
<1>7. ASSUME NEW s \in S PROVE after[s] \cap S # {}
  <2>1. PICK i \in j..n : s = visiting[i]
    BY <1>2
  <2>2. CASE i = n
    BY <1>1, <1>6, <2>1, <2>2
  <2>3. CASE i # n
    <3>1. i + 1 \in j..n /\ i + 1 \in 1..n /\ i \in 1..n
      BY <1>1, <2>3
    <3>2. visiting[i + 1] \in after[s]
      BY <1>1, <2>1, <3>1 DEF Walked, Path
    <3>3. visiting[i + 1] \in S
      BY <1>2, <3>1
    <3> QED BY <3>2, <3>3
  <2> QED BY <2>2, <2>3
<1> QED BY <1>5, <1>6, <1>7 DEF Circular

\* what comes before a place has a place of its own
LEMMA EarlierPlace == \A n \in Nat : \A i \in 1..n : \A j \in 1..(i - 1) : j \in 1..n /\ ~ (i <= j)
OBVIOUS

\* steps that can be put in order have no circle among them
LEMMA OrderedHasNoCircle ==
  ASSUME NEW q, Ordered(q), \A s \in Steps : \E i \in 1..Len(q) : q[i] = s
  PROVE  ~ Circular
<1> SUFFICES ASSUME NEW S \in (SUBSET Steps) \ {{}}, \A s \in S : after[s] \cap S # {} PROVE FALSE
  BY DEF Circular
<1>0. S \in SUBSET Steps /\ S # {}
  OBVIOUS
<1>1. PICK n \in Nat : n = Len(q)
  BY DEF Ordered
<1>2. PICK T : T = {i \in 1..n : q[i] \in S}
  OBVIOUS
<1>3. T \subseteq Nat /\ T # {}
  <2>1. PICK s \in S : s \in Steps
    BY <1>0
  <2>2. PICK i \in 1..n : q[i] = s
    BY <1>1, <2>1
  <2>3. i \in T
    BY <1>2, <2>1, <2>2
  <2>4. T \subseteq Nat
    BY <1>2
  <2> QED BY <2>3, <2>4
<1>4. PICK i \in T : \A j \in T : i <= j
  BY <1>3, LeastNat
<1>5. i \in 1..n /\ q[i] \in S
  BY <1>2
<1>6. PICK d \in S : d \in after[q[i]]
  BY <1>5
<1>7. PICK j \in 1..(i - 1) : q[j] = d
  <2>1. \A h \in 1..n : \A e \in after[q[h]] : \E g \in 1..(h - 1) : q[g] = e
    BY <1>1 DEF Ordered
  <2> QED BY <1>5, <1>6, <2>1
<1>8. j \in T /\ ~ (i <= j)
  <2>1. j \in 1..n /\ ~ (i <= j)
    BY <1>1, <1>5, <1>7, EarlierPlace
  <2>2. q[j] \in S
    BY <1>6, <1>7
  <2> QED BY <1>2, <2>1, <2>2
<1> QED BY <1>4, <1>8

LEMMA VisitWalked ==
  ASSUME Walked, NEW id \in Steps, Visit(id)
  PROVE  Walked'
<1>1. UNCHANGED <<after, visited>> /\ order = None
  BY DEF Visit
<1>2. PICK n \in Nat : n = Len(visiting)
  BY DEF Walked, Path
<1>3. Ordered(visited)'
  BY <1>1 DEF Walked, Ordered
<1>4. n > 0 => Last(visiting) = visiting[n] /\ id \in after[visiting[n]]
  BY <1>2 DEF Visit, Unvisited, Waited, Last
<1>5. CASE id \in ToSet(visiting)
  <2>1. order' = Refused /\ UNCHANGED visiting
    BY <1>5 DEF Visit
  <2>2. PICK j \in 1..n : visiting[j] = id
    BY <1>2, <1>5 DEF Walked, Path, ToSet
  <2>3. Circular
    BY <1>2, <1>4, <2>2, PathCloses
  <2>4. Circular'
    BY <1>1, <2>3 DEF Circular
  <2>5. LegalOrder'
    BY <2>1, <2>4 DEF LegalOrder
  <2>6. Path(visiting)'
    BY <1>1, <2>1 DEF Walked, Path
  <2> QED BY <1>1, <1>3, <2>1, <2>5, <2>6 DEF Walked
<1>6. CASE id \notin ToSet(visiting)
  <2>1. visiting' = Append(visiting, id) /\ order' = order
    BY <1>6 DEF Visit
  <2>2. LegalOrder'
    BY <1>1, <2>1 DEF LegalOrder
  <2>3. /\ visiting' \in Seq(Steps) /\ Len(visiting') = n + 1 /\ visiting'[n + 1] = id
        /\ \A i \in 1..n : visiting'[i] = visiting[i]
    BY <1>2, <2>1 DEF Walked, Path
  <2>4. \A i \in 1..(n + 1) : i \in 1..n \/ i = n + 1
    OBVIOUS
  <2>5. \A i \in 1..n : visiting[i] # id
    BY <1>2, <1>6 DEF Walked, Path, ToSet
  <2>6. \A j \in 1..Len(visited) : visited[j] # id
    <3>1. id \notin ToSet(visited) /\ visited \in Seq(Steps)
      BY DEF Visit, Unvisited, Walked, Ordered
    <3> QED BY <3>1 DEF ToSet
  <2>7. \A i, j \in 1..(n + 1) : visiting'[i] = visiting'[j] => i = j
    BY <1>2, <2>3, <2>4, <2>5 DEF Walked, Path
  <2>8. ASSUME NEW i \in 1..(n + 1), i + 1 \in 1..(n + 1)
        PROVE  visiting'[i + 1] \in after[visiting'[i]]
    <3>1. CASE i + 1 \in 1..n
      <4>1. i \in 1..n
        BY <3>1
      <4> QED BY <1>2, <2>3, <3>1, <4>1 DEF Walked, Path
    <3>2. CASE i = n
      BY <1>4, <2>3, <2>8, <3>2
    <3>3. i + 1 \in 1..n \/ i = n
      BY <2>8
    <3> QED BY <3>1, <3>2, <3>3
  <2>9. Path(visiting)'
    BY <1>1, <2>3, <2>7, <2>8 DEF Path
  <2>10. \A i \in 1..(n + 1) : \A j \in 1..Len(visited) : visiting'[i] # visited[j]
    BY <1>2, <2>3, <2>4, <2>6 DEF Walked
  <2> QED BY <1>1, <1>3, <2>2, <2>3, <2>9, <2>10 DEF Walked
<1> QED BY <1>5, <1>6

LEMMA LeaveWalked ==
  ASSUME Walked, Leave
  PROVE  Walked'
<1>1. UNCHANGED <<after, order>> /\ visiting # <<>>
  BY DEF Leave
<1>2. LegalOrder'
  BY <1>1 DEF Walked, LegalOrder, Circular
<1>3. PICK n \in Nat : Len(visiting) = n + 1
  <2>1. Len(visiting) \in Nat /\ Len(visiting) # 0
    BY <1>1 DEF Walked, Path
  <2> QED BY <2>1
<1>4. /\ visiting' \in Seq(Steps) /\ Len(visiting') = n
      /\ \A i \in 1..n : visiting'[i] = visiting[i]
  <2>1. visiting' = SubSeq(visiting, 1, n) /\ visiting \in Seq(Steps)
    BY <1>3 DEF Leave, Front, Walked, Path
  <2> QED BY <1>3, <2>1
<1>5. PICK top \in Steps : top = visiting[n + 1] /\ top = Last(visiting)
  BY <1>3 DEF Last, Walked, Path
<1>6. PICK k \in Nat : k = Len(visited)
  BY DEF Walked, Ordered
<1>7. /\ visited' \in Seq(Steps) /\ Len(visited') = k + 1 /\ visited'[k + 1] = top
      /\ \A i \in 1..k : visited'[i] = visited[i]
  BY <1>5, <1>6 DEF Leave, Walked, Ordered
<1>8. \A d \in after[top] : \E j \in 1..k : visited[j] = d
  <2>1. after[top] \subseteq ToSet(visited)
    BY <1>1, <1>5 DEF Leave, Unvisited, Waited
  <2> QED BY <1>6, <2>1 DEF ToSet, Walked, Ordered
<1>9. (\A i \in 1..n : i \in 1..(n + 1)) /\ n + 1 \in 1..(n + 1)
  OBVIOUS
<1>10. \A i \in 1..(k + 1) : i \in 1..k \/ i = k + 1
  OBVIOUS
<1>11. \A j \in 1..k : visited[j] # top
  BY <1>3, <1>5, <1>6, <1>9 DEF Walked
<1>12. Path(visiting)'
  <2>1. \A i, j \in 1..n : visiting[i] = visiting[j] => i = j
    BY <1>3, <1>9 DEF Walked, Path
  <2>2. \A i \in 1..n : i + 1 \in 1..n => visiting[i + 1] \in after[visiting[i]]
    BY <1>3, <1>9 DEF Walked, Path
  <2> QED BY <1>1, <1>4, <2>1, <2>2 DEF Path
<1>13. Ordered(visited)'
  <2>1. \A i, j \in 1..(k + 1) : visited'[i] = visited'[j] => i = j
    BY <1>6, <1>7, <1>10, <1>11 DEF Walked, Ordered
  <2>2. ASSUME NEW i \in 1..(k + 1), NEW d \in after[visited'[i]]
        PROVE  \E j \in 1..(i - 1) : visited'[j] = d
    <3>1. CASE i \in 1..k
      <4>1. PICK j \in 1..(i - 1) : visited[j] = d
        BY <1>6, <1>7, <2>2, <3>1 DEF Walked, Ordered
      <4>2. j \in 1..k
        BY <3>1
      <4> QED BY <1>7, <4>1, <4>2
    <3>2. CASE i = k + 1
      <4>1. PICK j \in 1..k : visited[j] = d
        BY <1>7, <1>8, <3>2
      <4>2. j \in 1..(i - 1)
        BY <3>2
      <4> QED BY <1>7, <4>1, <4>2
    <3> QED BY <1>10, <3>1, <3>2
  <2> QED BY <1>1, <1>7, <2>1, <2>2 DEF Ordered
<1>14. \A i \in 1..n : \A j \in 1..(k + 1) : visiting'[i] # visited'[j]
  <2>1. \A i \in 1..n : visiting[i] # top
    <3>1. \A i, j \in 1..(n + 1) : visiting[i] = visiting[j] => i = j
      BY <1>3 DEF Walked, Path
    <3>2. \A i \in 1..n : i # n + 1
      OBVIOUS
    <3> QED BY <1>5, <1>9, <3>1, <3>2
  <2>2. \A i \in 1..n : \A j \in 1..k : visiting[i] # visited[j]
    BY <1>3, <1>6, <1>9 DEF Walked
  <2> QED BY <1>4, <1>7, <1>10, <2>1, <2>2
<1> QED BY <1>1, <1>2, <1>4, <1>7, <1>12, <1>13, <1>14 DEF Walked

LEMMA DefineWalked ==
  ASSUME Walked, Define
  PROVE  Walked'
<1>1. UNCHANGED <<after, visiting, visited>> /\ order' = visited /\ Ordered(visited)
  BY DEF Define, walk, Walked
<1>2. PICK q : q = visited
  OBVIOUS
<1>3. Steps \subseteq ToSet(q)
  BY <1>2 DEF Define, Unvisited, Waited
<1>4. q \in Seq(Steps) /\ \A i \in 1..Len(q) : q[i] \in Steps
  BY <1>1, <1>2 DEF Ordered
<1>5. DOMAIN q = 1..Len(q)
  BY <1>4
<1>6. \A s \in Steps : \E i \in 1..Len(q) : q[i] = s
  BY <1>3, <1>5 DEF ToSet
<1>7. ToSet(q) = Steps
  BY <1>4, <1>5, <1>6 DEF ToSet
<1>8. ~ Circular
  BY <1>1, <1>2, <1>6, OrderedHasNoCircle
<1>9. ~ Circular'
  BY <1>1, <1>8 DEF Circular
<1>10. q # Refused
  BY <1>4, IngestAssumption
<1>11. LegalOrder'
  BY <1>1, <1>2, <1>7, <1>9, <1>10 DEF LegalOrder, Ordered
<1>12. Ordered(visited)' /\ Path(visiting)'
  BY <1>1 DEF Walked, Ordered, Path
<1> QED BY <1>1, <1>11, <1>12 DEF Walked

LEMMA NextWalked == Walked /\ [Next]_vars => Walked'
<1> SUFFICES ASSUME Walked, [Next]_vars PROVE Walked'
  OBVIOUS
<1>1. ASSUME NEW id \in Steps, Visit(id) PROVE Walked'
  BY <1>1, VisitWalked
<1>2. CASE Leave
  BY <1>2, LeaveWalked
<1>3. CASE Define
  BY <1>3, DefineWalked
<1>4. ASSUME UNCHANGED <<after, walk, order>> PROVE Walked'
  <2>1. UNCHANGED <<after, visiting, visited, order>>
    BY <1>4 DEF walk
  <2>2. Ordered(visited)' /\ Path(visiting)'
    BY <2>1 DEF Walked, Ordered, Path
  <2>3. Circular' <=> Circular
    BY <2>1 DEF Circular
  <2>4. LegalOrder'
    BY <2>1, <2>3 DEF Walked, LegalOrder
  <2> QED BY <2>1, <2>2, <2>4 DEF Walked
<1>5. CASE ~ Defining
  <2>1. UNCHANGED <<after, walk, order>>
    BY <1>5 DEF Next, Defining, vars, walk, Start, Skip, Reuse, BeginStep, ActionWrites,
                ActionSucceeds, Record, ActionFails, Finish, Stop
  <2> QED BY <1>4, <2>1
<1> QED BY <1>1, <1>2, <1>3, <1>5 DEF Defining

LEMMA SpecWalked == Spec => []Walked
BY InitWalked, NextWalked, PTL DEF Spec

(* The order is legal, for every graph of steps: it is refused exactly if  *)
(* steps wait for each other in a circle, otherwise every step comes once, *)
(* after all it waits for (topoSort).                                      *)
THEOREM OrderAlwaysLegal == Spec => []LegalOrder
<1>1. Walked => LegalOrder
  BY DEF Walked
<1> QED BY <1>1, SpecWalked, PTL

-----------------------------------------------------------------------------
(* A completed run is of one piece. *)

\* what stands in the manifest for the steps the run has passed
Passed(i) ==
  /\ run.seen[order[i]] = outputs[order[i]]
  /\ i >= run.from =>
       /\ Done(order[i])
       /\ manifest.steps[order[i]].inputHash = Hash(InputOf(order[i], run.input, outputs))

Piece ==
  /\ run.pc # "idle" =>
       /\ order # Refused /\ finished = None
       /\ run.at \in 1..(Len(order) + 1) /\ run.from \in Nat
       /\ \A i \in 1..(run.at - 1) : Passed(i)
  /\ run.pc \in {"action", "record"} =>
       run.at <= Len(order) /\ manifest.steps[Current].inputHash = StepHash(Current)
  /\ finished # None => order # None
  /\ OfOnePiece

LEMMA InitPiece == Init => Piece
BY DEF Init, Piece, OfOnePiece, Idle

LEMMA Legal ==
  ASSUME LegalOrder, order # None, order # Refused
  PROVE  /\ Len(order) \in Nat
         /\ \A i \in 1..Len(order) : order[i] \in Steps
         /\ \A i, j \in 1..Len(order) : order[i] = order[j] => i = j
         /\ \A i \in 1..Len(order) : \A d \in after[order[i]] : \E j \in 1..(i - 1) : order[j] = d
<1>1. /\ order \in Seq(Steps)
      /\ \A i, j \in 1..Len(order) : order[i] = order[j] => i = j
      /\ \A i \in 1..Len(order) : \A d \in after[order[i]] : \E j \in 1..(i - 1) : order[j] = d
  BY DEF LegalOrder
<1>2. Len(order) \in Nat /\ \A i \in 1..Len(order) : order[i] \in Steps
  BY <1>1
<1> QED BY <1>1, <1>2

\* where the outputs seen and the outputs stored agree, a step's input does
LEMMA SameInput ==
  ASSUME NEW s, NEW i, NEW u, NEW v, \A d \in after[s] : u[d] = v[d]
  PROVE  InputOf(s, i, u) = InputOf(s, i, v)
BY DEF InputOf

\* the steps passed lie before the current one, and so does what it waits for
LEMMA Before ==
  ASSUME Inv, Piece, LegalOrder, run.pc # "idle", run.at <= Len(order)
  PROVE  /\ Current \in Steps /\ run.at \in Nat /\ run.at - 1 < Len(order)
         /\ \A i \in 1..(run.at - 1) : order[i] \in Steps /\ order[i] # Current
         /\ \A i \in 1..run.at : \A d \in after[order[i]] : d # Current /\ d \in Steps
         /\ StepHash(Current) = Hash(InputOf(Current, run.input, outputs))
<1>1. run.at \in 1..Len(order) /\ order # None /\ order # Refused /\ Len(order) \in Nat
  BY Legal DEF Piece, Inv, Underway
<1>2. Current \in Steps /\ \A i \in 1..(run.at - 1) : order[i] \in Steps /\ order[i] # Current
  BY <1>1, Legal DEF Current
<1>3. ASSUME NEW i \in 1..run.at, NEW d \in after[order[i]]
      PROVE  d # Current /\ d \in Steps /\ run.seen[d] = outputs[d]
  <2>0. i \in 1..Len(order)
    BY <1>1
  <2>1. PICK j \in 1..(i - 1) : order[j] = d
    BY <2>0, <1>1, Legal
  <2>2. j \in 1..(run.at - 1)
    BY <1>1
  <2>3. Passed(j)
    BY <2>2 DEF Piece
  <2> QED BY <2>1, <2>2, <2>3, <1>2 DEF Passed
<1>4. \A d \in after[Current] : run.seen[d] = outputs[d]
  BY <1>1, <1>3 DEF Current
<1>5. StepHash(Current) = Hash(InputOf(Current, run.input, outputs))
  BY <1>4, SameInput DEF StepHash
<1> QED BY <1>1, <1>2, <1>3, <1>5

\* a step of the run that leaves what it passed alone
LEMMA PassedKept ==
  ASSUME Inv, Piece, LegalOrder, run.pc # "idle", run.at <= Len(order),
         UNCHANGED <<after, order>>, run'.input = run.input, run'.from = run.from,
         \A s \in Steps : s # Current =>
           /\ run'.seen[s] = run.seen[s] /\ outputs'[s] = outputs[s]
           /\ manifest'.steps[s] = manifest.steps[s],
         NEW i \in 1..(run.at - 1)
  PROVE  Passed(i)'
<1>1. order[i] \in Steps /\ order[i] # Current /\ i \in 1..run.at
  BY Before
<1>2. \A d \in after[order[i]] : outputs'[d] = outputs[d]
  BY <1>1, Before
<1>3. InputOf(order[i], run.input, outputs') = InputOf(order[i], run.input, outputs)
  BY <1>2, SameInput
<1>4. InputOf(order[i], run.input, outputs)' = InputOf(order[i], run.input, outputs')
  BY DEF InputOf
<1>5. Passed(i)
  BY DEF Piece
<1> QED BY <1>1, <1>3, <1>4, <1>5 DEF Passed, Done

LEMMA StartPiece ==
  ASSUME Inv, Piece, NEW i, NEW m, NEW f \in Nat, LegalOrder, Start(i, m, f)
  PROVE  Piece'
<1>1. /\ run' = [Idle EXCEPT !.pc = "step", !.input = i, !.mode = m, !.from = f]
      /\ UNCHANGED <<after, order, outputs>> /\ finished' = None
      /\ order # None /\ order # Refused
  BY DEF Start
<1>2. run'.pc = "step" /\ run'.at = 1 /\ run'.from = f
  BY <1>1 DEF Idle
<1>3. 1 \in 1..(Len(order) + 1)
  BY <1>1, Legal
<1> QED BY <1>1, <1>2, <1>3 DEF Piece, OfOnePiece

LEMMA SkipPiece ==
  ASSUME Inv, Piece, LegalOrder, Skip
  PROVE  Piece'
<1>1. /\ manifest' = [manifest EXCEPT !.steps[Current].status = "skipped"]
      /\ run' = [run EXCEPT !.seen[Current] = outputs[Current], !.at = @ + 1]
      /\ UNCHANGED <<after, order, outputs, finished>>
      /\ run.pc = "step" /\ run.at <= Len(order) /\ run.from = 0
      /\ manifest.steps[Current].inputHash = StepHash(Current)
  BY DEF Skip, AtStep, CanSkip
<1>2. /\ run'.pc = "step" /\ run'.at = run.at + 1
      /\ run'.input = run.input /\ run'.from = run.from
      /\ run'.seen[Current] = outputs[Current]
      /\ \A s \in Steps : s # Current => run'.seen[s] = run.seen[s]
  BY <1>1, Before DEF Inv, Shape, RunFields
<1>3. /\ manifest'.steps[Current].status = "skipped"
      /\ manifest'.steps[Current].inputHash = manifest.steps[Current].inputHash
      /\ \A s \in Steps : s # Current => manifest'.steps[s] = manifest.steps[s]
  BY <1>1, Before DEF Inv, Shape, RecordFields
<1>4. \A i \in 1..(run.at - 1) : Passed(i)'
  BY <1>1, <1>2, <1>3, PassedKept
<1>5. \A i \in {run.at} : Passed(i)'
  <2>1. PICK n, s : n = run.at /\ s = Current /\ s \in Steps /\ order[n] = s
    BY <1>1, Before DEF Current
  <2>2. InputOf(order[n], run.input, outputs)' = InputOf(s, run.input, outputs)
    BY <1>1, <1>2, <2>1 DEF InputOf
  <2>3. manifest.steps[s].inputHash = Hash(InputOf(s, run.input, outputs))
    BY <1>1, <2>1, Before
  <2>4. Done(order[n])' /\ manifest'.steps[order'[n]].inputHash = manifest.steps[s].inputHash
    BY <1>1, <1>3, <2>1 DEF Done
  <2>5. run'.seen[order'[n]] = outputs'[order'[n]]
    BY <1>1, <1>2, <2>1
  <2>6. Passed(n)'
    BY <2>2, <2>3, <2>4, <2>5 DEF Passed
  <2> QED BY <2>1, <2>6
<1>6. run.at \in 1..Len(order) /\ Len(order) \in Nat /\ order # Refused /\ run.from \in Nat
  BY <1>1, Legal DEF Piece, Inv, Underway
<1>7. \A i \in 1..(run'.at - 1) : Passed(i)'
  <2>1. ASSUME NEW i \in 1..(run'.at - 1) PROVE i \in 1..(run.at - 1) \/ i = run.at
    BY <1>2, <1>6
  <2> QED BY <2>1, <1>4, <1>5, <1>2
<1>8. finished' = None
  BY <1>1 DEF Piece
<1> QED BY <1>1, <1>2, <1>6, <1>7, <1>8 DEF Piece, OfOnePiece

LEMMA ReusePiece ==
  ASSUME Inv, Piece, LegalOrder, Reuse
  PROVE  Piece'
<1>1. /\ run' = [run EXCEPT !.seen[Current] = outputs[Current], !.at = @ + 1]
      /\ UNCHANGED <<after, order, manifest, outputs, finished>>
      /\ run.pc = "step" /\ run.at <= Len(order) /\ run.at < run.from
  BY DEF Reuse, AtStep, stored
<1>2. /\ run'.pc = "step" /\ run'.at = run.at + 1
      /\ run'.input = run.input /\ run'.from = run.from
      /\ run'.seen[Current] = outputs[Current]
      /\ \A s \in Steps : s # Current => run'.seen[s] = run.seen[s]
  BY <1>1, Before DEF Inv, Shape, RunFields
<1>3. \A i \in 1..(run.at - 1) : Passed(i)'
  BY <1>1, <1>2, PassedKept
<1>4. run.at \in 1..Len(order) /\ Len(order) \in Nat /\ order # Refused /\ run.from \in Nat
  BY <1>1, Legal DEF Piece, Inv, Underway
<1>5. \A i \in {run.at} : Passed(i)'
  BY <1>1, <1>2, <1>4 DEF Passed, Current
<1>6. \A i \in 1..(run'.at - 1) : Passed(i)'
  <2>1. ASSUME NEW i \in 1..(run'.at - 1) PROVE i \in 1..(run.at - 1) \/ i = run.at
    BY <1>2, <1>4
  <2> QED BY <2>1, <1>3, <1>5, <1>2
<1>7. finished' = None
  BY <1>1 DEF Piece
<1> QED BY <1>1, <1>2, <1>4, <1>6, <1>7 DEF Piece, OfOnePiece

LEMMA BeginStepPiece ==
  ASSUME Inv, Piece, LegalOrder, BeginStep
  PROVE  Piece'
<1> DEFINE r == StepRecord("running", StepHash(Current), None, <<>>)
<1>1. /\ manifest' = [manifest EXCEPT !.steps[Current] = r]
      /\ run' = [run EXCEPT !.pc = "action", !.writes = <<>>, !.ran = @ \cup {Current}]
      /\ UNCHANGED <<after, order, outputs, finished>>
      /\ run.pc = "step" /\ run.at <= Len(order)
  BY DEF BeginStep, AtStep
<1>2. /\ run'.pc = "action" /\ run'.at = run.at /\ run'.seen = run.seen
      /\ run'.input = run.input /\ run'.from = run.from
  BY <1>1 DEF Inv, Shape, RunFields
<1>3. DOMAIN r = RecordFields /\ r.inputHash = StepHash(Current)
  BY DEF StepRecord, RecordFields
<1>4. \A s \in Steps : manifest'.steps[s] = IF s = Current THEN r ELSE manifest.steps[s]
  BY <1>1, <1>3, RecordSet DEF Inv
<1> HIDE DEF r
<1>5. \A i \in 1..(run.at - 1) : Passed(i)'
  BY <1>1, <1>2, <1>4, PassedKept
<1>6. manifest'.steps[Current'].inputHash = StepHash(Current)'
  BY <1>1, <1>2, <1>3, <1>4, Before DEF Current, StepHash, InputOf
<1>7. finished' = None
  BY <1>1 DEF Piece
<1> QED BY <1>1, <1>2, <1>5, <1>6, <1>7 DEF Piece, OfOnePiece

LEMMA ActionWritesPiece ==
  ASSUME Inv, Piece, LegalOrder, NEW e, ActionWrites(e)
  PROVE  Piece'
<1>1. /\ UNCHANGED <<after, order, manifest, outputs, finished>> /\ run.pc = "action"
      /\ run'.pc = run.pc /\ run'.at = run.at /\ run'.seen = run.seen
      /\ run'.input = run.input /\ run'.from = run.from
  BY DEF ActionWrites, Inv, Shape, RunFields
<1>2. run.at <= Len(order)
  BY <1>1 DEF Piece
<1>3. \A i \in 1..(run.at - 1) : Passed(i)'
  BY <1>1, <1>2, PassedKept
<1>4. Current' = Current /\ StepHash(Current)' = StepHash(Current)
  BY <1>1 DEF Current, StepHash, InputOf
<1>5. finished' = None
  BY <1>1 DEF Piece
<1> QED BY <1>1, <1>3, <1>4, <1>5 DEF Piece, OfOnePiece

LEMMA ActionSucceedsPiece ==
  ASSUME Inv, Piece, LegalOrder, NEW o, ActionSucceeds(o)
  PROVE  Piece'
<1>1. /\ UNCHANGED <<after, order, manifest, finished>> /\ run.pc = "action"
      /\ outputs' = [outputs EXCEPT ![Current] = o]
      /\ run' = [run EXCEPT !.pc = "record", !.seen[Current] = o]
  BY DEF ActionSucceeds
<1>2. run.at <= Len(order)
  BY <1>1 DEF Piece
<1>3. /\ run'.pc = "record" /\ run'.at = run.at
      /\ run'.input = run.input /\ run'.from = run.from
      /\ \A s \in Steps : s # Current => run'.seen[s] = run.seen[s] /\ outputs'[s] = outputs[s]
  BY <1>1 DEF Inv, Shape, RunFields
<1>4. \A i \in 1..(run.at - 1) : Passed(i)'
  BY <1>1, <1>2, <1>3, PassedKept
<1>5. Current' = Current
  BY <1>1, <1>3 DEF Current
<1>6. \A d \in after[Current] : run'.seen[d] = run.seen[d]
  <2>1. run.at \in 1..run.at
    BY <1>1 DEF Piece
  <2> QED BY <2>1, <1>1, <1>2, <1>3, Before DEF Current
<1>7. StepHash(Current)' = Hash(InputOf(Current, run.input, run'.seen))
  BY <1>1, <1>3, <1>5 DEF StepHash, InputOf
<1>8. StepHash(Current)' = StepHash(Current)
  BY <1>6, <1>7, SameInput DEF StepHash
<1>9. finished' = None
  BY <1>1 DEF Piece
<1> QED BY <1>1, <1>2, <1>3, <1>4, <1>5, <1>8, <1>9 DEF Piece, OfOnePiece

LEMMA RecordPiece ==
  ASSUME Inv, Piece, LegalOrder, Record
  PROVE  Piece'
<1> DEFINE r == StepRecord("completed", StepHash(Current), Hash(run.seen[Current]), run.writes)
<1>1. /\ manifest' = [manifest EXCEPT !.steps[Current] = r]
      /\ run' = [run EXCEPT !.pc = "step", !.at = @ + 1]
      /\ UNCHANGED <<after, order, outputs, finished>> /\ run.pc = "record"
  BY DEF Record
<1>2. /\ run'.pc = "step" /\ run'.at = run.at + 1 /\ run'.seen = run.seen
      /\ run'.input = run.input /\ run'.from = run.from
  BY <1>1 DEF Inv, Shape, RunFields
<1>3. DOMAIN r = RecordFields /\ r.inputHash = StepHash(Current) /\ r.status = "completed"
  BY DEF StepRecord, RecordFields
<1>4. \A s \in Steps : manifest'.steps[s] = IF s = Current THEN r ELSE manifest.steps[s]
  BY <1>1, <1>3, RecordSet DEF Inv
<1> HIDE DEF r
<1>5. run.at \in 1..Len(order) /\ Len(order) \in Nat /\ order # Refused /\ run.from \in Nat
  BY <1>1, Legal DEF Piece, Inv, Underway
<1>6. \A i \in 1..(run.at - 1) : Passed(i)'
  BY <1>1, <1>2, <1>4, <1>5, PassedKept
<1>7. Current \in Steps /\ outputs[Current] = run.seen[Current]
  BY <1>1, <1>5, Before DEF Inv, Underway
<1>8. \A i \in {run.at} : Passed(i)'
  BY <1>1, <1>2, <1>3, <1>4, <1>5, <1>7, Before DEF Passed, Done, Current, InputOf
<1>9. \A i \in 1..(run'.at - 1) : Passed(i)'
  <2>1. ASSUME NEW i \in 1..(run'.at - 1) PROVE i \in 1..(run.at - 1) \/ i = run.at
    BY <1>2, <1>5
  <2> QED BY <2>1, <1>6, <1>8, <1>2
<1>10. finished' = None
  BY <1>1 DEF Piece
<1> QED BY <1>1, <1>2, <1>5, <1>9, <1>10 DEF Piece, OfOnePiece

LEMMA FinishPiece ==
  ASSUME Inv, Piece, LegalOrder, Finish
  PROVE  Piece'
<1>1. /\ manifest' = [manifest EXCEPT !.status = "completed", !.patch = Patch]
      /\ finished' = run /\ run' = Idle /\ UNCHANGED <<after, order, outputs>>
      /\ run.pc = "step" /\ run.at > Len(order)
  BY DEF Finish
<1>2. manifest'.status = "completed" /\ manifest'.steps = manifest.steps
  BY <1>1 DEF Inv, Shape
<1>3. /\ run'.pc = "idle" /\ order # None /\ Len(order) \in Nat
      /\ run.at = Len(order) + 1 /\ \A i \in 1..(run.at - 1) : Passed(i)
  BY <1>1, Legal DEF Piece, Inv, Underway, Idle
<1>4. \A i \in 1..Len(order) : i >= run.from =>
        /\ Done(order[i])'
        /\ manifest'.steps[order[i]].inputHash = Hash(InputOf(order[i], run.input, outputs))
  <2>1. ASSUME NEW i \in 1..Len(order) PROVE Passed(i)
    BY <1>3
  <2> QED BY <2>1, <1>1, <1>2 DEF Passed, Done
<1>5. OfOnePiece'
  BY <1>1, <1>2, <1>4 DEF OfOnePiece, InputOf, Done
<1> QED BY <1>1, <1>3, <1>5 DEF Piece

LEMMA NextPiece == Inv /\ Piece /\ LegalOrder /\ [Next]_vars => Piece'
<1> SUFFICES ASSUME Inv, Piece, LegalOrder, [Next]_vars PROVE Piece'
  OBVIOUS
<1>1. CASE UNCHANGED vars
  BY <1>1 DEF vars, Piece, Passed, Done, OfOnePiece, Current, StepHash, InputOf
<1>2. CASE Defining
  <2>1. run.pc = "idle" /\ run' = run /\ finished = None /\ finished' = None
    BY <1>2, OnlyDefines DEF Piece, Inv, Underway
  <2> QED BY <2>1 DEF Piece, OfOnePiece
<1>3. ASSUME NEW i \in Inputs, NEW m \in {"apply", "propose"}, NEW f \in 0..Cardinality(Steps),
             Start(i, m, f)
      PROVE  Piece'
  <2>1. f \in Nat
    BY IngestAssumption, FS_CardinalityType
  <2> QED BY <2>1, <1>3, StartPiece
<1>4. CASE Skip
  BY <1>4, SkipPiece
<1>5. CASE Reuse
  BY <1>5, ReusePiece
<1>6. CASE BeginStep
  BY <1>6, BeginStepPiece
<1>7. ASSUME NEW e \in Edits, ActionWrites(e) PROVE Piece'
  BY <1>7, ActionWritesPiece
<1>8. ASSUME NEW o \in Outputs, ActionSucceeds(o) PROVE Piece'
  BY <1>8, ActionSucceedsPiece
<1>9. CASE Record
  BY <1>9, RecordPiece
<1>10. CASE Finish
  BY <1>10, FinishPiece
<1>11. CASE ActionFails \/ Stop
  <2>1. run'.pc = "idle" /\ finished = None /\ finished' = None
    BY <1>11 DEF ActionFails, Stop, Idle, Piece
  <2> QED BY <2>1 DEF Piece, OfOnePiece
<1> QED BY <1>1, <1>2, <1>3, <1>4, <1>5, <1>6, <1>7, <1>8, <1>9, <1>10, <1>11 DEF Next, Defining

(* A completed run is of one piece, whatever runs with other inputs were   *)
(* broken off before it and at whatever write (what canSkip compares in    *)
(* runArtifactWorkflow).                                                   *)
THEOREM RunsAreOfOnePiece == Spec => []OfOnePiece
<1>1. Piece => OfOnePiece
  BY DEF Piece
<1>2. Init => Inv /\ Piece
  BY InitInv, InitPiece
<1>3. (Inv /\ Piece) /\ LegalOrder /\ [Next]_vars => (Inv /\ Piece)'
  BY NextInv, NextPiece
<1> QED BY <1>1, <1>2, <1>3, OrderAlwaysLegal, PTL DEF Spec

-----------------------------------------------------------------------------
(* Types, and where the edits go. *)

\* what FlattenSeq joins, told step by step: t[i] is the first i joined
LEMMA Flattened ==
  ASSUME NEW n \in Nat, NEW s, s \in [1..n -> Seq(Edits)], NEW t, t \in [Nat -> Seq(Edits)],
         t[0] = <<>>, \A i \in 1..n : t[i] = t[i - 1] \o s[i]
  PROVE  FlattenSeq(s) = t[n]
<1>1. Len(s) = n /\ DOMAIN s = 1..n
  OBVIOUS
<1>0. \A u \in Seq(Edits) : <<>> \o u = u
  OBVIOUS
<1>2. CASE n = 0
  <2>1. s = <<>>
    BY <1>2
  <2> QED BY <2>1, <1>1, <1>2 DEF FlattenSeq
<1>3. CASE n # 0
  <2>0. 1 \in 1..n /\ n \in 1..n /\ t[1] = <<>> \o s[1] /\ s[1] \in Seq(Edits)
    <3>1. 1 \in 1..n /\ n \in 1..n
      BY <1>3
    <3>2. t[1] = t[1 - 1] \o s[1]
      BY <3>1
    <3>3. 1 - 1 = 0
      OBVIOUS
    <3> QED BY <3>1, <3>2, <3>3
  <2> DEFINE Flat(f) == f = [i \in 1..n |-> IF i = 1 THEN s[i] ELSE f[i - 1] \o s[i]]
  <2>1. FlattenSeq(s) = (CHOOSE f : Flat(f))[n]
    BY <1>1, <1>3 DEF FlattenSeq
  <2>2. Flat([i \in 1..n |-> t[i]])
    <3> DEFINE g == [i \in 1..n |-> t[i]]
    <3>1. \A i \in 1..n : g[i] = IF i = 1 THEN s[i] ELSE g[i - 1] \o s[i]
      <4> TAKE i \in 1..n
      <4>1. CASE i = 1
        <5>1. t[1] = s[1]
          BY <1>0, <2>0
        <5> QED BY <4>1, <5>1
      <4>2. CASE i # 1
        <5>1. i - 1 \in 1..n
          BY <4>2
        <5> QED BY <4>2, <5>1
      <4> QED BY <4>1, <4>2
    <3> HIDE DEF g
    <3>2. g = [i \in 1..n |-> g[i]]
      BY DEF g
    <3> QED BY <3>1, <3>2 DEF g
  <2>3. ASSUME NEW f, Flat(f) PROVE f[n] = t[n]
    <3>1. \A i \in 1..n : f[i] = IF i = 1 THEN s[i] ELSE f[i - 1] \o s[i]
      BY <2>3
    <3> HIDE DEF Flat
    <3>2. f[1] = t[1]
      <4>1. f[1] = s[1]
        BY <2>0, <3>1
      <4> QED BY <1>0, <2>0, <4>1
    <3>3. \A i \in 1..n : i # 1 /\ f[i - 1] = t[i - 1] => f[i] = t[i]
      BY <3>1
    <3> DEFINE Bad == {i \in 1..n : f[i] # t[i]}
    <3>4. Bad \subseteq Nat /\ \A i \in Bad : i \in 1..n /\ f[i] # t[i]
      OBVIOUS
    <3>5. \A i \in 1..n : i \notin Bad => f[i] = t[i]
      OBVIOUS
    <3> HIDE DEF Bad
    <3>6. ASSUME Bad # {} PROVE FALSE
      <4>1. PICK i \in Bad : \A j \in Bad : i <= j
        BY <3>4, <3>6, LeastNat
      <4>2. i \in 1..n /\ f[i] # t[i] /\ i # 1
        BY <3>2, <3>4
      <4>3. i - 1 \in 1..n /\ i - 1 \notin Bad
        BY <4>1, <4>2
      <4> QED BY <3>3, <3>5, <4>2, <4>3
    <3> QED BY <2>0, <3>5, <3>6
  <2> HIDE DEF Flat
  <2>4. Flat(CHOOSE f : Flat(f))
    BY <2>2
  <2> QED BY <2>1, <2>3, <2>4
<1> QED BY <1>2, <1>3

RecordStatus == {"none", "running", "completed", "skipped", "failed"}
ManifestStatus == {"none", "running", "completed", "failed"}

Held ==
  /\ after \in [Steps -> SUBSET Steps]
  /\ outputs \in [Steps -> Outputs \cup {None}]
  /\ manifest.status \in ManifestStatus
  /\ \A s \in Steps : /\ manifest.steps[s].status \in RecordStatus
                      /\ manifest.steps[s].writes \in Seq(Edits)
  /\ run.writes \in Seq(Edits) /\ run.edits \in Seq(Edits)
  /\ DOMAIN files = Files
  /\ run.pc # "idle" => manifest.status = "running"

LEMMA InitHeld == Init => Held
<1> SUFFICES ASSUME Init PROVE Held
  OBVIOUS
<1>1. /\ run.pc = "idle" /\ run.writes = <<>> /\ run.edits = <<>> /\ outputs = NoOutputs
      /\ after \in [Steps -> SUBSET Steps] /\ DOMAIN files = Files
  BY DEF Init, Idle
<1>2. /\ manifest.status = "none"
      /\ \A s \in Steps : manifest.steps[s].status = "none" /\ manifest.steps[s].writes = <<>>
  BY DEF Init, NoManifest, NoRecord, StepRecord
<1>3. <<>> \in Seq(Edits)
  OBVIOUS
<1> QED BY <1>1, <1>2, <1>3 DEF Held, NoOutputs, RecordStatus, ManifestStatus

\* a record that is well formed takes the place of the current step's
LEMMA HeldRecord ==
  ASSUME Inv, Held, NEW r, DOMAIN r = RecordFields, r.status \in RecordStatus,
         r.writes \in Seq(Edits), manifest' = [manifest EXCEPT !.steps[Current] = r]
  PROVE  /\ manifest'.status = manifest.status
         /\ \A s \in Steps : /\ manifest'.steps[s].status \in RecordStatus
                             /\ manifest'.steps[s].writes \in Seq(Edits)
BY RecordSet DEF Inv, Held

LEMMA StepHeld ==
  ASSUME Inv, Held, Skip \/ Reuse \/ BeginStep \/ Record \/ \E o \in Outputs : ActionSucceeds(o)
  PROVE  Held'
<1>1. UNCHANGED <<after, files>> /\ run.pc # "idle"
  <2>1. CASE Skip \/ Reuse \/ BeginStep
    BY <2>1 DEF Skip, Reuse, BeginStep, AtStep, stored
  <2>2. CASE Record \/ \E o \in Outputs : ActionSucceeds(o)
    BY <2>2 DEF Record, ActionSucceeds
  <2> QED BY <2>1, <2>2
<1>2. run'.writes \in Seq(Edits) /\ run'.edits \in Seq(Edits)
  <2>1. run.writes \in Seq(Edits) /\ run.edits \in Seq(Edits) /\ <<>> \in Seq(Edits)
    BY DEF Held
  <2>2. run'.writes \in {run.writes, <<>>} /\ run'.edits = run.edits
    BY DEF Skip, Reuse, BeginStep, Record, ActionSucceeds, Inv, Shape, RunFields
  <2> QED BY <2>1, <2>2
<1>3. outputs' \in [Steps -> Outputs \cup {None}]
  BY DEF Skip, Reuse, BeginStep, Record, ActionSucceeds, stored, Held
<1>4. /\ manifest'.status = manifest.status
      /\ \A s \in Steps : /\ manifest'.steps[s].status \in RecordStatus
                          /\ manifest'.steps[s].writes \in Seq(Edits)
  <2>1. CASE manifest' = manifest
    BY <2>1 DEF Held
  <2>2. CASE Skip
    <3>1. /\ manifest'.status = manifest.status
          /\ \A s \in Steps : /\ manifest'.steps[s].writes = manifest.steps[s].writes
                              /\ manifest'.steps[s].status \in {manifest.steps[s].status, "skipped"}
      BY <2>2 DEF Skip, Inv, Shape, RecordFields
    <3> QED BY <3>1 DEF Held, RecordStatus
  <2>3. CASE BeginStep
    <3> DEFINE r == StepRecord("running", StepHash(Current), None, <<>>)
    <3>1. manifest' = [manifest EXCEPT !.steps[Current] = r]
      BY <2>3 DEF BeginStep
    <3>2. DOMAIN r = RecordFields /\ r.status \in RecordStatus /\ r.writes \in Seq(Edits)
      BY DEF StepRecord, RecordFields, RecordStatus
    <3> HIDE DEF r
    <3> QED BY <3>1, <3>2, HeldRecord
  <2>4. CASE Record
    <3> DEFINE r == StepRecord("completed", StepHash(Current), Hash(run.seen[Current]), run.writes)
    <3>1. manifest' = [manifest EXCEPT !.steps[Current] = r]
      BY <2>4 DEF Record
    <3>2. DOMAIN r = RecordFields /\ r.status \in RecordStatus /\ r.writes \in Seq(Edits)
      BY DEF StepRecord, RecordFields, RecordStatus, Held
    <3> HIDE DEF r
    <3> QED BY <3>1, <3>2, HeldRecord
  <2> QED BY <2>1, <2>2, <2>3, <2>4 DEF Reuse, ActionSucceeds, stored
<1> QED BY <1>1, <1>2, <1>3, <1>4 DEF Held

LEMMA EndHeld ==
  ASSUME Inv, Held, ActionFails \/ Finish \/ Stop
  PROVE  Held'
<1>1. UNCHANGED <<after, files, outputs>> /\ run' = Idle
  BY DEF ActionFails, Finish, Stop, stored
<1>2. run'.writes \in Seq(Edits) /\ run'.edits \in Seq(Edits) /\ run'.pc = "idle"
  BY <1>1 DEF Idle
<1>3. /\ manifest'.status \in ManifestStatus
      /\ \A s \in Steps : /\ manifest'.steps[s].status \in RecordStatus
                          /\ manifest'.steps[s].writes \in Seq(Edits)
  <2>1. CASE ActionFails
    <3> DEFINE r == StepRecord("failed", StepHash(Current), None, run.writes)
    <3>1. manifest' = [manifest EXCEPT !.status = "failed", !.steps[Current] = r]
      BY <2>1 DEF ActionFails
    <3>2. r.status \in RecordStatus /\ r.writes \in Seq(Edits)
      BY DEF StepRecord, RecordStatus, Held
    <3> HIDE DEF r
    <3>3. manifest'.status = "failed"
          /\ \A s \in Steps : manifest'.steps[s] \in {manifest.steps[s], r}
      BY <3>1 DEF Inv, Shape
    <3> QED BY <3>2, <3>3 DEF Held, ManifestStatus
  <2>2. CASE Finish
    <3>1. manifest'.status = "completed" /\ manifest'.steps = manifest.steps
      BY <2>2 DEF Finish, Inv, Shape
    <3> QED BY <3>1 DEF Held, ManifestStatus
  <2>3. CASE Stop
    BY <2>3 DEF Stop, stored, Held
  <2> QED BY <2>1, <2>2, <2>3
<1> QED BY <1>1, <1>2, <1>3 DEF Held

LEMMA NextHeld == Inv /\ Held /\ [Next]_vars => Held'
<1> SUFFICES ASSUME Inv, Held, [Next]_vars PROVE Held'
  OBVIOUS
<1>1. CASE Defining \/ UNCHANGED vars
  BY <1>1, OnlyDefines DEF vars, Held
<1>2. ASSUME NEW i \in Inputs, NEW m \in {"apply", "propose"}, NEW f \in 0..Cardinality(Steps),
             Start(i, m, f)
      PROVE  Held'
  <2>1. /\ UNCHANGED <<after, outputs, files>>
        /\ manifest' = [manifest EXCEPT !.status = "running"]
        /\ run' = [Idle EXCEPT !.pc = "step", !.input = i, !.mode = m, !.from = f]
    BY <1>2 DEF Start
  <2>2. manifest'.status = "running" /\ manifest'.steps = manifest.steps
    BY <2>1 DEF Inv, Shape
  <2>3. run'.writes \in Seq(Edits) /\ run'.edits \in Seq(Edits)
    BY <2>1 DEF Idle
  <2> QED BY <2>1, <2>2, <2>3 DEF Held, ManifestStatus
<1>3. CASE Skip \/ Reuse \/ BeginStep \/ Record \/ \E o \in Outputs : ActionSucceeds(o)
  BY <1>3, StepHeld
<1>4. ASSUME NEW e \in Edits, ActionWrites(e) PROVE Held'
  <2>1. /\ UNCHANGED <<after, manifest, outputs>> /\ run.pc # "idle"
        /\ run'.writes = Append(run.writes, e)
        /\ run'.edits \in {run.edits, Append(run.edits, e)}
        /\ DOMAIN files' = DOMAIN files
    BY <1>4 DEF ActionWrites, Inv, Shape, RunFields
  <2>2. \A u \in Seq(Edits) : Append(u, e) \in Seq(Edits)
    OBVIOUS
  <2>3. run'.writes \in Seq(Edits) /\ run'.edits \in Seq(Edits)
    BY <2>1, <2>2 DEF Held
  <2> QED BY <2>1, <2>3 DEF Held
<1>5. CASE ActionFails \/ Finish \/ Stop
  BY <1>5, EndHeld
<1> QED BY <1>1, <1>2, <1>3, <1>4, <1>5 DEF Next, Defining

\* the edits of the step at i, if this run has run it
Wrote(i) == IF order[i] \in run.ran THEN manifest.steps[order[i]].writes ELSE <<>>

\* t[i] is what the steps up to position i have written, for those passed
Tells(t) ==
  /\ t \in [Nat -> Seq(Edits)] /\ t[0] = <<>>
  /\ \A i \in 1..(run.at - 1) : t[i] = t[i - 1] \o Wrote(i)

SoFar(t) == IF run.pc = "step" THEN t[run.at - 1] ELSE t[run.at - 1] \o run.writes

\* of the edits of a path the last one is in the files
LastWritten(e) ==
  \A i \in 1..Len(e) :
    (\A j \in (i + 1)..Len(e) : e[j].path # e[i].path) => files[e[i].path] = e[i].content

Accounted(e) == IF run.mode = "propose" THEN run.edits = e ELSE LastWritten(e)

\* a run has run only steps it has reached, and accounts for their edits
Telling ==
  run.pc # "idle" =>
    /\ \A s \in run.ran : \E i \in 1..(IF run.pc = "step" THEN run.at - 1 ELSE run.at) :
         order[i] = s
    /\ run.pc # "step" => Current \in run.ran
    /\ \E t : Tells(t) /\ Accounted(SoFar(t))

Told == Telling /\ EditsAccounted

LEMMA InitTold == Init => Told
BY DEF Init, Told, Telling, EditsAccounted, Idle

\* appending to the second of two joined sequences appends to both
LEMMA AppendJoins ==
  ASSUME NEW a \in Seq(Edits), NEW b \in Seq(Edits), NEW e \in Edits
  PROVE  /\ a \o Append(b, e) = Append(a \o b, e)
         /\ Len(Append(b, e)) = Len(b) + 1 /\ Append(b, e)[Len(b) + 1] = e
         /\ \A i \in 1..Len(b) : Append(b, e)[i] = b[i] /\ b[i] \in Edits
OBVIOUS

\* while a step is not passed, what it writes is not told yet
LEMMA TellsOn ==
  ASSUME Inv, Piece, LegalOrder, run.pc # "idle", run.at <= Len(order),
         order' = order, run'.at = run.at, run'.ran \in {run.ran, run.ran \cup {Current}},
         \A s \in Steps : s # Current => manifest'.steps[s] = manifest.steps[s],
         NEW t, Tells(t)
  PROVE  Tells(t)'
<1>1. ASSUME NEW i \in 1..(run.at - 1) PROVE Wrote(i)' = Wrote(i)
  <2>1. order[i] \in Steps /\ order[i] # Current
    BY Before
  <2> QED BY <2>1 DEF Wrote
<1> QED BY <1>1 DEF Tells

\* a step is passed: what it wrote, if it ran, is told with the others
LEMMA TellsNext ==
  ASSUME Inv, Piece, LegalOrder, Held, run.pc # "idle", run.at <= Len(order),
         order' = order, run'.at = run.at + 1, run'.ran = run.ran,
         \A s \in Steps : s # Current => manifest'.steps[s] = manifest.steps[s],
         NEW t, Tells(t),
         NEW w \in Seq(Edits), Current \in run.ran => w = manifest'.steps[Current].writes,
         Current \notin run.ran => w = <<>>
  PROVE  \E u : Tells(u)' /\ u[run.at] = t[run.at - 1] \o w
<1>0. PICK u : u = [t EXCEPT ![run.at] = t[run.at - 1] \o w]
  OBVIOUS
<1>1. run.at \in Nat /\ run.at - 1 \in Nat /\ run.at # 0
  BY DEF Piece
<1>2. t \in [Nat -> Seq(Edits)] /\ t[0] = <<>>
  BY DEF Tells
<1>3. t[run.at - 1] \o w \in Seq(Edits)
  BY <1>1, <1>2
<1>4. /\ u \in [Nat -> Seq(Edits)] /\ u[run.at] = t[run.at - 1] \o w
      /\ \A i \in Nat : i # run.at => u[i] = t[i]
  BY <1>0, <1>1, <1>2, <1>3
<1>5. ASSUME NEW i \in 1..(run.at - 1) PROVE u[i] = u[i - 1] \o Wrote(i)'
  <2>1. order[i] \in Steps /\ order[i] # Current
    BY Before
  <2>2. Wrote(i)' = Wrote(i)
    BY <2>1 DEF Wrote
  <2>3. i \in Nat /\ i - 1 \in Nat /\ i # run.at /\ i - 1 # run.at
    BY <1>1
  <2>4. u[i] = t[i] /\ u[i - 1] = t[i - 1]
    BY <1>4, <2>3
  <2> QED BY <2>2, <2>4 DEF Tells
<1>6. u[run.at] = u[run.at - 1] \o w
  <2>1. run.at - 1 # run.at
    BY <1>1
  <2> QED BY <1>1, <1>4, <2>1
<1>7. \A i \in {run.at} : Wrote(i)' = w
  BY DEF Wrote, Current
<1>8. \A i \in 1..run.at : u[i] = u[i - 1] \o Wrote(i)'
  <2>1. \A i \in 1..run.at : i \in 1..(run.at - 1) \/ i \in {run.at}
    BY <1>1
  <2> QED BY <1>5, <1>6, <1>7, <2>1
<1>9. u[0] = <<>>
  <2>1. 0 \in Nat /\ 0 # run.at
    BY <1>1
  <2> QED BY <1>2, <1>4, <2>1
<1>10. run'.at - 1 = run.at
  BY <1>1
<1>11. Tells(u)'
  BY <1>4, <1>8, <1>9, <1>10 DEF Tells
<1> QED BY <1>4, <1>11

\* no run ends in a step of one that goes on
LEMMA StillUntold ==
  ASSUME Piece, run.pc # "idle", finished' = finished
  PROVE  EditsAccounted'
BY DEF Piece, EditsAccounted

LEMMA StartTold ==
  ASSUME Inv, Piece, NEW i, NEW m, NEW f, Start(i, m, f)
  PROVE  Told'
<1>1. run' = [Idle EXCEPT !.pc = "step", !.input = i, !.mode = m, !.from = f] /\ finished' = None
  BY DEF Start
<1>2. run'.pc = "step" /\ run'.at = 1 /\ run'.edits = <<>> /\ run'.ran = {}
  BY <1>1 DEF Idle
<1>3. PICK t : t = [n \in Nat |-> <<>>]
  OBVIOUS
<1>4. t \in [Nat -> Seq(Edits)] /\ t[0] = <<>>
  BY <1>3
<1>5. 1..(run'.at - 1) = {} /\ run'.at - 1 = 0
  BY <1>2
<1>6. Tells(t)'
  BY <1>4, <1>5 DEF Tells
<1>7. SoFar(t)' = <<>>
  BY <1>2, <1>4, <1>5 DEF SoFar
<1>8. Accounted(SoFar(t))'
  BY <1>2, <1>7 DEF Accounted, LastWritten
<1> QED BY <1>1, <1>2, <1>6, <1>8 DEF Told, Telling, EditsAccounted

\* a step that is not run is passed
LEMMA PassTold ==
  ASSUME Inv, Piece, LegalOrder, Held, Told, Skip \/ Reuse
  PROVE  Told'
<1>1. /\ UNCHANGED <<order, files, finished>> /\ run.pc = "step" /\ run.at <= Len(order)
      /\ run' = [run EXCEPT !.seen[Current] = outputs[Current], !.at = @ + 1]
  <2>1. CASE Skip
    BY <2>1 DEF Skip, AtStep
  <2>2. CASE Reuse
    BY <2>2 DEF Reuse, AtStep, stored
  <2> QED BY <2>1, <2>2
<1>2. /\ run'.pc = "step" /\ run'.at = run.at + 1 /\ run'.ran = run.ran
      /\ run'.edits = run.edits /\ run'.mode = run.mode
  BY <1>1 DEF Inv, Shape, RunFields
<1>3. \A s \in Steps : s # Current => manifest'.steps[s] = manifest.steps[s]
  BY DEF Skip, Reuse, stored, Inv, Shape
<1>4. /\ Current \notin run.ran
      /\ \A s \in run.ran : \E i \in 1..(run.at - 1) : order[i] = s
  BY <1>1, Before DEF Told, Telling
<1>5. PICK t : Tells(t) /\ Accounted(SoFar(t))
  BY <1>1 DEF Told, Telling
<1>6. <<>> \in Seq(Edits)
  OBVIOUS
<1>7. PICK u : Tells(u)' /\ u[run.at] = t[run.at - 1] \o <<>>
  BY <1>1, <1>2, <1>3, <1>4, <1>5, <1>6, TellsNext
<1>8. run.at \in Nat /\ run.at - 1 \in Nat /\ run.at + 1 - 1 = run.at
  BY <1>1 DEF Piece
<1>9. t[run.at - 1] \o <<>> = t[run.at - 1]
  <2>1. t[run.at - 1] \in Seq(Edits)
    BY <1>5, <1>8 DEF Tells
  <2> QED BY <2>1
<1>10. SoFar(u)' = SoFar(t)
  <2>1. run'.at - 1 = run.at
    BY <1>2, <1>8
  <2>2. SoFar(u)' = u[run.at]
    BY <1>2, <2>1 DEF SoFar
  <2>3. SoFar(t) = t[run.at - 1]
    BY <1>1 DEF SoFar
  <2> QED BY <1>7, <1>9, <2>2, <2>3
<1>11. Accounted(SoFar(u))'
  BY <1>1, <1>2, <1>5, <1>10 DEF Accounted, LastWritten
<1>12. \A s \in run.ran : \E i \in 1..run.at : order[i] = s
  BY <1>4, <1>8
<1> QED BY <1>1, <1>2, <1>7, <1>8, <1>11, <1>12, StillUntold DEF Told, Telling

LEMMA BeginStepTold ==
  ASSUME Inv, Piece, LegalOrder, Told, BeginStep
  PROVE  Told'
<1> DEFINE r == StepRecord("running", StepHash(Current), None, <<>>)
<1>1. /\ manifest' = [manifest EXCEPT !.steps[Current] = r]
      /\ run' = [run EXCEPT !.pc = "action", !.writes = <<>>, !.ran = @ \cup {Current}]
      /\ UNCHANGED <<order, files, finished>> /\ run.pc = "step" /\ run.at <= Len(order)
  BY DEF BeginStep, AtStep
<1>2. /\ run'.pc = "action" /\ run'.at = run.at /\ run'.ran = run.ran \cup {Current}
      /\ run'.writes = <<>> /\ run'.edits = run.edits /\ run'.mode = run.mode
  BY <1>1 DEF Inv, Shape, RunFields
<1> HIDE DEF r
<1>3. \A s \in Steps : s # Current => manifest'.steps[s] = manifest.steps[s]
  BY <1>1 DEF Inv, Shape
<1>4. PICK t : Tells(t) /\ Accounted(SoFar(t))
  BY <1>1 DEF Told, Telling
<1>5. Tells(t)'
  BY <1>1, <1>2, <1>3, <1>4, TellsOn
<1>6. run.at \in Nat /\ run.at - 1 \in Nat /\ run.at \in 1..run.at
  BY <1>1 DEF Piece
<1>7. t[run.at - 1] \o <<>> = t[run.at - 1]
  <2>1. t[run.at - 1] \in Seq(Edits)
    BY <1>4, <1>6 DEF Tells
  <2> QED BY <2>1
<1>8. SoFar(t)' = SoFar(t)
  BY <1>1, <1>2, <1>7 DEF SoFar
<1>9. Accounted(SoFar(t))'
  BY <1>1, <1>2, <1>4, <1>8 DEF Accounted, LastWritten
<1>10. Current' = Current /\ Current = order[run.at]
  BY <1>1, <1>2 DEF Current
<1>11. \A s \in run'.ran : \E i \in 1..run.at : order[i] = s
  BY <1>1, <1>2, <1>6, <1>10 DEF Told, Telling
<1> QED BY <1>1, <1>2, <1>5, <1>9, <1>10, <1>11, StillUntold DEF Told, Telling

LEMMA ActionWritesTold ==
  ASSUME Inv, Piece, LegalOrder, Held, Told, NEW e \in Edits, ActionWrites(e)
  PROVE  Told'
<1>1. /\ UNCHANGED <<order, manifest, finished>> /\ run.pc = "action"
      /\ run'.pc = run.pc /\ run'.at = run.at /\ run'.ran = run.ran /\ run'.mode = run.mode
      /\ run'.writes = Append(run.writes, e)
      /\ IF run.mode = "propose" THEN run'.edits = Append(run.edits, e) /\ files' = files
         ELSE files' = [files EXCEPT ![e.path] = e.content]
  BY DEF ActionWrites, Inv, Shape, RunFields
<1>2. run.at <= Len(order) /\ run.at \in Nat /\ run.at - 1 \in Nat
  BY <1>1 DEF Piece
<1>3. PICK t : Tells(t) /\ Accounted(SoFar(t))
  BY <1>1 DEF Told, Telling
<1>4. Tells(t)'
  BY <1>1, <1>2, <1>3, TellsOn
<1>5. t[run.at - 1] \in Seq(Edits) /\ run.writes \in Seq(Edits)
  BY <1>2, <1>3 DEF Tells, Held
<1>6. PICK s : s = SoFar(t)
  OBVIOUS
<1>7. s = t[run.at - 1] \o run.writes /\ s \in Seq(Edits)
  BY <1>1, <1>5, <1>6 DEF SoFar
<1>8. SoFar(t)' = Append(s, e)
  <2>1. SoFar(t)' = t[run.at - 1] \o Append(run.writes, e)
    BY <1>1 DEF SoFar
  <2>2. PICK a \in Seq(Edits), b \in Seq(Edits) : a = t[run.at - 1] /\ b = run.writes
    BY <1>5
  <2>3. a \o Append(b, e) = Append(a \o b, e)
    BY AppendJoins
  <2> QED BY <1>7, <2>1, <2>2, <2>3
<1>9. Accounted(Append(s, e))'
  <2>1. CASE run.mode = "propose"
    BY <1>1, <1>3, <1>6, <2>1 DEF Accounted
  <2>2. CASE run.mode # "propose"
    <3>1. LastWritten(s) /\ files' = [files EXCEPT ![e.path] = e.content]
      BY <1>1, <1>3, <1>6, <2>2 DEF Accounted
    <3>2. /\ Len(s) \in Nat /\ Len(Append(s, e)) = Len(s) + 1 /\ Append(s, e)[Len(s) + 1] = e
          /\ \A i \in 1..Len(s) : Append(s, e)[i] = s[i] /\ s[i] \in Edits
      <4>1. s \in Seq(Edits)
        BY <1>7
      <4>2. Len(s) \in Nat
        BY <4>1
      <4> QED BY <4>1, <4>2, AppendJoins
    <3>3. e.path \in Files /\ DOMAIN files = Files
      BY DEF Files, Held
    <3>4. ASSUME NEW i \in 1..(Len(s) + 1),
                 \A j \in (i + 1)..(Len(s) + 1) : Append(s, e)[j].path # Append(s, e)[i].path
          PROVE  files'[Append(s, e)[i].path] = Append(s, e)[i].content
      <4>1. CASE i = Len(s) + 1
        BY <3>1, <3>2, <3>3, <4>1
      <4>2. CASE i \in 1..Len(s)
        <5>1. Append(s, e)[i] = s[i] /\ s[i].path # e.path
          <6>1. Len(s) + 1 \in (i + 1)..(Len(s) + 1)
            BY <3>2, <4>2
          <6> QED BY <3>2, <3>4, <4>2, <6>1
        <5>2. \A j \in (i + 1)..Len(s) : s[j].path # s[i].path
          <6>1. \A j \in (i + 1)..Len(s) : j \in (i + 1)..(Len(s) + 1) /\ j \in 1..Len(s)
            BY <3>2, <4>2
          <6> QED BY <3>2, <3>4, <5>1, <6>1
        <5>3. files[s[i].path] = s[i].content
          BY <3>1, <4>2, <5>2 DEF LastWritten
        <5> QED BY <3>1, <5>1, <5>3
      <4> QED BY <3>2, <4>1, <4>2
    <3>5. LastWritten(Append(s, e))'
      BY <3>2, <3>4 DEF LastWritten
    <3> QED BY <1>1, <2>2, <3>5 DEF Accounted
  <2> QED BY <2>1, <2>2
<1>10. Accounted(SoFar(t))'
  BY <1>8, <1>9 DEF Accounted, LastWritten
<1>11. Current' = Current
  BY <1>1 DEF Current
<1> QED BY <1>1, <1>4, <1>10, <1>11, StillUntold DEF Told, Telling

LEMMA ActionSucceedsTold ==
  ASSUME Inv, Piece, LegalOrder, Told, NEW o, ActionSucceeds(o)
  PROVE  Told'
<1>1. /\ UNCHANGED <<order, manifest, files, finished>> /\ run.pc = "action"
      /\ run'.pc = "record" /\ run'.at = run.at /\ run'.ran = run.ran
      /\ run'.writes = run.writes /\ run'.edits = run.edits /\ run'.mode = run.mode
  BY DEF ActionSucceeds, Inv, Shape, RunFields
<1>2. run.at <= Len(order)
  BY <1>1 DEF Piece
<1>3. PICK t : Tells(t) /\ Accounted(SoFar(t))
  BY <1>1 DEF Told, Telling
<1>4. Tells(t)'
  BY <1>1, <1>2, <1>3, TellsOn
<1>5. SoFar(t)' = SoFar(t) /\ Current' = Current
  BY <1>1 DEF SoFar, Current
<1>6. Accounted(SoFar(t))'
  BY <1>1, <1>3, <1>5 DEF Accounted, LastWritten
<1> QED BY <1>1, <1>4, <1>5, <1>6, StillUntold DEF Told, Telling

LEMMA RecordTold ==
  ASSUME Inv, Piece, LegalOrder, Held, Told, Record
  PROVE  Told'
<1> DEFINE r == StepRecord("completed", StepHash(Current), Hash(run.seen[Current]), run.writes)
<1>1. /\ manifest' = [manifest EXCEPT !.steps[Current] = r]
      /\ UNCHANGED <<order, files, finished>> /\ run.pc = "record"
      /\ run'.pc = "step" /\ run'.at = run.at + 1 /\ run'.ran = run.ran
      /\ run'.edits = run.edits /\ run'.mode = run.mode
  BY DEF Record, Inv, Shape, RunFields
<1>2. /\ run.at <= Len(order) /\ run.at \in Nat /\ run.at - 1 \in Nat
      /\ run.at + 1 - 1 = run.at
  BY <1>1 DEF Piece
<1>3. Current \in run.ran /\ Current \in Steps
  BY <1>1, <1>2, Before DEF Told, Telling
<1>4. r.writes = run.writes /\ run.writes \in Seq(Edits)
  BY DEF StepRecord, Held
<1> HIDE DEF r
<1>5. /\ manifest'.steps[Current].writes = run.writes
      /\ \A s \in Steps : s # Current => manifest'.steps[s] = manifest.steps[s]
  BY <1>1, <1>3, <1>4 DEF Inv, Shape
<1>6. PICK t : Tells(t) /\ Accounted(SoFar(t))
  BY <1>1 DEF Told, Telling
<1>7. PICK w : w = run.writes
  OBVIOUS
<1>8. w \in Seq(Edits) /\ Current \in run.ran /\ w = manifest'.steps[Current].writes
  BY <1>3, <1>4, <1>5, <1>7
<1>9. PICK u : Tells(u)' /\ u[run.at] = t[run.at - 1] \o w
  <2>1. order' = order /\ run'.at = run.at + 1 /\ run'.ran = run.ran /\ run.pc # "idle"
    BY <1>1
  <2> QED BY <1>2, <1>5, <1>6, <1>8, <2>1, TellsNext
<1>10. SoFar(u)' = SoFar(t)
  <2>1. run'.at - 1 = run.at
    BY <1>1, <1>2
  <2>2. SoFar(u)' = u[run.at]
    BY <1>1, <2>1 DEF SoFar
  <2>3. SoFar(t) = t[run.at - 1] \o run.writes
    BY <1>1 DEF SoFar
  <2> QED BY <1>7, <1>9, <2>2, <2>3
<1>11. Accounted(SoFar(u))'
  BY <1>1, <1>6, <1>10 DEF Accounted, LastWritten
<1> QED BY <1>1, <1>2, <1>9, <1>11, StillUntold DEF Told, Telling

\* at the end all steps are told, and so are their edits
LEMMA FinishTold ==
  ASSUME Inv, Piece, LegalOrder, Held, Told, Finish
  PROVE  Told'
<1>1. /\ manifest' = [manifest EXCEPT !.status = "completed", !.patch = Patch]
      /\ finished' = run /\ run' = Idle /\ UNCHANGED <<order, files>>
      /\ run.pc = "step" /\ run.at > Len(order)
  BY DEF Finish
<1>2. manifest'.patch = Patch /\ manifest'.steps = manifest.steps /\ run'.pc = "idle"
  BY <1>1 DEF Inv, Shape, Idle
<1>3. order # None /\ order # Refused /\ Len(order) \in Nat /\ run.at - 1 = Len(order)
  BY <1>1, Legal DEF Piece, Inv, Underway
<1>4. PICK n : n = Len(order)
  OBVIOUS
<1>5. PICK t : Tells(t) /\ Accounted(SoFar(t))
  BY <1>1 DEF Told, Telling
<1> DEFINE s == [i \in 1..n |-> Wrote(i)]
<1>6. s \in [1..n -> Seq(Edits)]
  <2>1. ASSUME NEW i \in 1..n PROVE Wrote(i) \in Seq(Edits)
    <3>1. order[i] \in Steps
      BY <1>3, <1>4, Legal
    <3>2. manifest.steps[order[i]].writes \in Seq(Edits) /\ <<>> \in Seq(Edits)
      BY <3>1 DEF Held
    <3> QED BY <3>2 DEF Wrote
  <2> QED BY <2>1
<1>7. \A i \in 1..n : t[i] = t[i - 1] \o s[i]
  BY <1>3, <1>4, <1>5 DEF Tells
<1>8. t \in [Nat -> Seq(Edits)] /\ t[0] = <<>> /\ n \in Nat
  BY <1>3, <1>4, <1>5 DEF Tells
<1>9. EditsOf(finished)' = FlattenSeq(s)
  <2>1. finished'.ran = run.ran /\ order' = order /\ manifest'.steps = manifest.steps
    BY <1>1, <1>2
  <2>2. EditsOf(finished)' =
          FlattenSeq([i \in 1..Len(order) |->
            IF order[i] \in run.ran THEN manifest.steps[order[i]].writes ELSE <<>>])
    BY <2>1 DEF EditsOf
  <2> QED BY <1>4, <2>2 DEF Wrote
<1> HIDE DEF s
<1>10. FlattenSeq(s) = t[n]
  <2>1. PICK q : q = s
    OBVIOUS
  <2>2. q \in [1..n -> Seq(Edits)] /\ \A i \in 1..n : t[i] = t[i - 1] \o q[i]
    BY <1>6, <1>7, <2>1
  <2>3. FlattenSeq(q) = t[n]
    BY <1>8, <2>2, Flattened
  <2> QED BY <2>1, <2>3
<1>11. EditsOf(finished)' = t[n]
  BY <1>9, <1>10
<1>12. Accounted(t[n])
  BY <1>1, <1>3, <1>4, <1>5 DEF SoFar
<1>13. EditsAccounted'
  BY <1>1, <1>2, <1>11, <1>12 DEF EditsAccounted, Accounted, LastWritten, Patch
<1> QED BY <1>2, <1>13 DEF Told, Telling

LEMMA NextTold == Inv /\ Piece /\ LegalOrder /\ Held /\ Told /\ [Next]_vars => Told'
<1> SUFFICES ASSUME Inv, Piece, LegalOrder, Held, Told, [Next]_vars PROVE Told'
  OBVIOUS
<1>1. CASE UNCHANGED vars
  <2>1. UNCHANGED <<order, manifest, files, run, finished>>
    BY <1>1 DEF vars, stored
  <2>2. EditsAccounted'
    BY <2>1 DEF Told, EditsAccounted, EditsOf
  <2>3. ASSUME run.pc # "idle", NEW t, Tells(t), Accounted(SoFar(t))
        PROVE  Tells(t)' /\ Accounted(SoFar(t))'
    BY <2>1, <2>3 DEF Tells, Wrote, SoFar, Accounted, LastWritten
  <2>4. Current' = Current
    BY <2>1 DEF Current
  <2> QED BY <2>1, <2>2, <2>3, <2>4 DEF Told, Telling
<1>2. CASE Defining
  <2>1. run.pc = "idle" /\ run' = run /\ finished = None /\ finished' = None
    BY <1>2, OnlyDefines DEF Piece, Inv, Underway
  <2> QED BY <2>1 DEF Told, Telling, EditsAccounted
<1>3. ASSUME NEW i \in Inputs, NEW m \in {"apply", "propose"}, NEW f \in 0..Cardinality(Steps),
             Start(i, m, f)
      PROVE  Told'
  BY <1>3, StartTold
<1>4. CASE Skip \/ Reuse
  BY <1>4, PassTold
<1>5. CASE BeginStep
  BY <1>5, BeginStepTold
<1>6. ASSUME NEW e \in Edits, ActionWrites(e) PROVE Told'
  BY <1>6, ActionWritesTold
<1>7. ASSUME NEW o \in Outputs, ActionSucceeds(o) PROVE Told'
  BY <1>7, ActionSucceedsTold
<1>8. CASE Record
  BY <1>8, RecordTold
<1>9. CASE Finish
  BY <1>9, FinishTold
<1>10. CASE ActionFails \/ Stop
  <2>1. run'.pc = "idle" /\ run.pc # "idle" /\ finished' = finished
    BY <1>10 DEF ActionFails, Stop, Idle
  <2> QED BY <2>1, StillUntold DEF Told, Telling
<1> QED BY <1>1, <1>2, <1>3, <1>4, <1>5, <1>6, <1>7, <1>8, <1>9, <1>10 DEF Next, Defining

All == Inv /\ Held /\ Piece /\ Told

LEMMA SpecAll == Spec => []All
<1>1. Init => All
  BY InitInv, InitHeld, InitPiece, InitTold DEF All
<1>2. All /\ LegalOrder /\ [Next]_vars => All'
  BY NextInv, NextHeld, NextPiece, NextTold DEF All
<1> QED BY <1>1, <1>2, OrderAlwaysLegal, PTL DEF Spec

(* No edit that a completed run has made is lost: in order they are its    *)
(* proposed patch, or the last one of every path is in the files, whatever *)
(* it skipped, reused or ran (writeFile and the end of                     *)
(* runArtifactWorkflow).                                                   *)
THEOREM NoEditIsLost == Spec => []EditsAccounted
<1>1. All => EditsAccounted
  BY DEF All, Told
<1> QED BY <1>1, SpecAll, PTL

LEMMA AllTyped == All /\ Walked => TypeOK
<1> SUFFICES ASSUME All, Walked PROVE TypeOK
  OBVIOUS
<1>0. LegalOrder
  BY DEF Walked
<1>1. /\ order \in {None, Refused} \/ ToSet(order) = Steps
      /\ visiting \in Seq(Steps) /\ visited \in Seq(Steps)
  BY DEF Walked, LegalOrder, Ordered, Path
<1>2. \A s \in Steps : RecordOK(manifest.steps[s])
  <2>1. \A u \in Seq(Edits) : ToSet(u) \subseteq Edits
    <3> TAKE u \in Seq(Edits)
    <3>1. \A i \in DOMAIN u : u[i] \in Edits
      OBVIOUS
    <3> QED BY <3>1 DEF ToSet
  <2> QED BY <2>1 DEF All, Held, RecordOK, RecordStatus
<1>3. CASE run.pc # "idle"
  <2>1. /\ run.at \in 1..(Len(order) + 1) /\ order # None /\ order # Refused
        /\ Len(order) \in Nat /\ \A i \in 1..Len(order) : order[i] \in Steps
    BY <1>0, <1>3, Legal DEF All, Piece, Inv, Underway
  <2>2. run.ran \subseteq Steps
    <3> SUFFICES ASSUME NEW s \in run.ran PROVE s \in Steps
      OBVIOUS
    <3>1. PICK i \in 1..(IF run.pc = "step" THEN run.at - 1 ELSE run.at) : order[i] = s
      BY <1>3 DEF All, Told, Telling
    <3>2. i \in 1..Len(order)
      <4>1. run.pc # "step" => run.at <= Len(order)
        BY <1>3 DEF All, Inv, Underway, Piece
      <4> QED BY <2>1, <3>1, <4>1
    <3> QED BY <2>1, <3>1, <3>2
  <2>3. run.pc \in {"action", "record"} =>
          /\ run.at <= Len(order)
          /\ manifest.steps[Current].status = "running"
          /\ manifest.steps[Current].inputHash = StepHash(Current)
    <3>1. run.at <= Len(order) => Current \in Steps
      BY <2>1 DEF Current
    <3> QED BY <3>1 DEF All, Piece, Inv, Underway
  <2> QED BY <1>1, <1>2, <1>3, <2>1, <2>2, <2>3
          DEF TypeOK, All, Inv, Underway, Held, ManifestStatus
<1>4. CASE run.pc = "idle"
  BY <1>1, <1>2, <1>4 DEF TypeOK, All, Held, ManifestStatus
<1> QED BY <1>3, <1>4

(* What runs keep is of its type, and a step runs only in a manifest that  *)
(* says so and of which input (runArtifactWorkflow).                       *)
THEOREM TypeCorrect == Spec => []TypeOK
BY SpecAll, SpecWalked, AllTyped, PTL
=============================================================================
