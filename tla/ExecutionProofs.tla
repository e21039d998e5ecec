-------------------------- MODULE ExecutionProofs --------------------------
(***************************************************************************)
(* What is proved of Execution for any number of executions, any formats   *)
(* and any limit of retries: readers find the complete outputs of one      *)
(* execution (ReadersFindEverything), the outputs they are shown keep the  *)
(* promise of PublishedOutputs, a worker that lost the job stores one      *)
(* object at most (OneObjectAfterLoss), and the job is claimed, left and   *)
(* recovered as JobOwnership promises (KeepsOwnership).                    *)
(*                                                                         *)
(* The inductive invariant says that an execution writes under its own     *)
(* prefix alone (OwnPrefix), that it has stored every upload of its plan   *)
(* before the step it is at (StoredSoFar), and that what is published lies *)
(* complete under one prefix (PublishedComplete).                          *)
(***************************************************************************)
EXTENDS Execution, SequenceTheorems, TLAPS

JobRow == [status : JobStatus, progress : Nat, retries : Nat]

Shape ==
  /\ format \in AllFormats
  /\ job \in JobRow
  /\ objects \in [Prefix -> [Name -> Prefix \cup {NoExecution}]]
  /\ pc \in [Execution -> Phase]
  /\ at \in [Execution -> Nat \ {0}]

OwnPrefix == \A e \in Execution, n \in Name : objects[e][n] \in {e, NoExecution}

StoredSoFar ==
  \A e \in Execution : \A i \in 1 .. Len(Plan[format]) :
    /\ Plan[format][i].do = "put"
    /\ i < at[e] \/ (i = at[e] /\ pc[e] = "moved")
    => objects[e][Plan[format][i].name] = e

PhaseMatchesPlan ==
  \A e \in Execution :
    /\ pc[e] = "completing" => at[e] > Len(Plan[format])
    /\ pc[e] \in {"moving", "moved"} => at[e] <= Len(Plan[format])

PublishedComplete ==
  Ready => \A k \in ReaderNames(format) :
             objects[ReaderRoot(published)][k] = ReaderRoot(published)

IInv == Shape /\ OwnPrefix /\ StoredSoFar /\ PhaseMatchesPlan /\ PublishedComplete

---------------------------------------------------------------------------
(* The plans *)

\* Every step of a plan is a download, a report of progress or the upload of
\* one of the names.
LEMMA PlanSteps ==
  ASSUME NEW f \in AllFormats, NEW i \in 1 .. Len(Plan[f])
  PROVE  /\ Plan[f][i].do = "put" => Plan[f][i].name \in Name
         /\ Plan[f][i].do = "progress" => Plan[f][i].percent \in 0 .. 100
  <1>1. CASE f = "GEOTIFF" BY <1>1 DEF Plan, AllFormats, Get, Put, Progress, Name
  <1>2. CASE f = "OBJ" BY <1>2 DEF Plan, AllFormats, Get, Put, Progress, Name
  <1>3. CASE f = "GLTF_BUNDLE" BY <1>3 DEF Plan, AllFormats, Get, Put, Progress, Name
  <1>4. CASE f = "GLB" BY <1>4 DEF Plan, AllFormats, Get, Put, Progress, Name
  <1>5. CASE f = "LAS" BY <1>5 DEF Plan, AllFormats, Get, Put, Progress, Name
  <1>6. CASE f = "PNG" BY <1>6 DEF Plan, AllFormats, Get, Put, Progress, Name
  <1> QED BY <1>1, <1>2, <1>3, <1>4, <1>5, <1>6 DEF AllFormats

\* Every object a reader derives from a format is uploaded by its plan.
LEMMA PlanServesReaders ==
  ASSUME NEW f \in AllFormats, NEW k \in ReaderNames(f)
  PROVE  \E i \in 1 .. Len(Plan[f]) : Plan[f][i].do = "put" /\ Plan[f][i].name = k
  <1>1. CASE f = "GEOTIFF"
    <2>1. Len(Plan[f]) = 8 BY <1>1 DEF Plan, AllFormats
    <2>2. Plan[f][4] = Put("tiles/0/0/0.png") /\ Plan[f][8] = Put("tiles/metadata.json")
      BY <1>1 DEF Plan, AllFormats
    <2> QED BY <1>1, <2>1, <2>2 DEF ReaderNames, Put
  <1>2. CASE f \in {"OBJ", "GLTF_BUNDLE"}
    <2>1. Len(Plan[f]) = 7 BY <1>2 DEF Plan, AllFormats
    <2>2. Plan[f][5] = Put("model-metadata.json") /\ Plan[f][7] = Put("model.glb")
      BY <1>2 DEF Plan, AllFormats
    <2> QED BY <1>2, <2>1, <2>2 DEF ReaderNames, Put
  <1>3. CASE f = "GLB"
    <2>1. Len(Plan[f]) = 5 BY <1>3 DEF Plan, AllFormats
    <2>2. Plan[f][4] = Put("model-metadata.json") BY <1>3 DEF Plan, AllFormats
    <2> QED BY <1>3, <2>1, <2>2 DEF ReaderNames, Put
  <1>4. CASE f = "LAS"
    <2>1. Len(Plan[f]) = 6 BY <1>4 DEF Plan, AllFormats
    <2>2. Plan[f][5] = Put("potree/metadata.json") /\ Plan[f][6] = Put("model-metadata.json")
      BY <1>4 DEF Plan, AllFormats
    <2> QED BY <1>4, <2>1, <2>2 DEF ReaderNames, Put
  <1>5. CASE f = "PNG" BY <1>5 DEF ReaderNames
  <1> QED BY <1>1, <1>2, <1>3, <1>4, <1>5 DEF AllFormats

LEMMA ReaderNamesAreNames ==
  ASSUME NEW f \in AllFormats
  PROVE  ReaderNames(f) \subseteq Name
  BY DEF AllFormats, ReaderNames, Name

\* A reader of what an execution publishes looks under its prefix, when it
\* looks for anything.
LEMMA ReadersFollowTheExecution ==
  ASSUME NEW f \in AllFormats, NEW e \in Execution, NEW k \in ReaderNames(f)
  PROVE  ReaderRoot(Artefacts(f, e)) = e
  <1>1. NoPath.prefix # e
    BY ExecutionAssumption DEF NoPath
  <1>2. PathOf(e, "preview.png") # NoPath /\ PathOf(e, "preview.glb") # NoPath
        /\ PathOf(e, "potree/metadata.json") # NoPath
    BY ExecutionAssumption DEF PathOf, NoPath
  <1>3. f # "PNG" BY DEF ReaderNames
  <1> QED BY <1>1, <1>2, <1>3 DEF AllFormats, Artefacts, ReaderRoot, PathOf

\* A job that is retried is a queued job, one that is given up a failed job.
LEMMA RequeuedIsQueued ==
  ASSUME job \in JobRow,
         NEW row, row = [job EXCEPT !.status = "queued", !.retries = @ + 1]
  PROVE  row \in JobRow /\ row.status = "queued"
  <1>1. job.retries + 1 \in Nat BY DEF JobRow
  <1>2. "queued" \in JobStatus BY DEF JobStatus
  <1> QED BY <1>1, <1>2 DEF JobRow

LEMMA GivenUpIsFailed ==
  ASSUME job \in JobRow
  PROVE  GivenUp \in JobRow /\ GivenUp.status = "failed"
  BY DEF GivenUp, JobRow, JobStatus

---------------------------------------------------------------------------
(* The invariant *)

LEMMA InitEstablishes == Init => IInv
  <1> SUFFICES ASSUME Init PROVE IInv OBVIOUS
  <1> USE ExecutionAssumption, FormatAssumption
  <1>1. format \in AllFormats BY DEF Init
  <1>2. Shape
    <2>1. job \in JobRow BY DEF Init, JobRow, JobStatus
    <2>2. objects \in [Prefix -> [Name -> Prefix \cup {NoExecution}]]
      BY DEF Init, Prefix, Nothing
    <2>3. pc \in [Execution -> Phase] /\ at \in [Execution -> Nat \ {0}]
      BY DEF Init, Phase
    <2> QED BY <1>1, <2>1, <2>2, <2>3 DEF Shape
  <1>3. OwnPrefix BY DEF Init, OwnPrefix, Prefix, Nothing
  <1>4. StoredSoFar
    <2> SUFFICES ASSUME NEW e \in Execution, NEW i \in 1 .. Len(Plan[format]),
                        i < at[e] \/ (i = at[e] /\ pc[e] = "moved")
                 PROVE  FALSE
      BY DEF StoredSoFar
    <2>1. at[e] = 1 /\ pc[e] = "new" BY DEF Init
    <2> QED BY <2>1
  <1>5. PhaseMatchesPlan BY DEF Init, PhaseMatchesPlan
  <1>6. PublishedComplete
    <2> SUFFICES ASSUME Ready, NEW k \in ReaderNames(format)
                 PROVE  objects[ReaderRoot(published)][k] = ReaderRoot(published)
      BY DEF PublishedComplete
    <2>1. k \in Name BY <1>1, ReaderNamesAreNames
    <2>2. objects = [p \in Prefix |-> [n \in Name |-> IF p = Root THEN Root ELSE NoExecution]]
      BY DEF Init, Ready
    <2>3. published.preview.prefix \notin Execution /\ published.converted.prefix \notin Execution
      BY <1>1 DEF Init, Ready, Artefacts, AllFormats, NoPath, PathOf
    <2>4. ReaderRoot(published) = Root BY <2>3 DEF ReaderRoot
    <2> QED BY <2>1, <2>2, <2>4 DEF Prefix
  <1> QED BY <1>2, <1>3, <1>4, <1>5, <1>6 DEF IInv

\* A step that stores nothing, publishes nothing and completes nothing.
LEMMA QuietStep ==
  ASSUME IInv,
         UNCHANGED <<format, objects>>,
         Shape',
         \A e \in Execution : at'[e] = at[e] \/ (pc[e] = "moved" /\ at'[e] = at[e] + 1)
                              \/ (Plan[format][at[e]].do # "put" /\ at'[e] = at[e] + 1),
         \A e \in Execution : pc'[e] = "moved" => pc[e] = "moved" /\ at'[e] = at[e],
         PhaseMatchesPlan',
         Ready' => Ready /\ published' = published
  PROVE  IInv'
  <1>1. OwnPrefix' BY DEF IInv, OwnPrefix
  <1>2. StoredSoFar'
    <2> SUFFICES ASSUME NEW e \in Execution, NEW i \in 1 .. Len(Plan[format]),
                        Plan[format][i].do = "put",
                        i < at'[e] \/ (i = at'[e] /\ pc'[e] = "moved")
                 PROVE  objects[e][Plan[format][i].name] = e
      BY DEF StoredSoFar
    <2>1. at[e] \in Nat /\ at'[e] \in Nat /\ i \in Nat BY DEF IInv, Shape
    <2>2. i < at[e] \/ (i = at[e] /\ pc[e] = "moved") BY <2>1
    <2> QED BY <2>2 DEF IInv, StoredSoFar
  <1>3. PublishedComplete' BY DEF IInv, PublishedComplete
  <1> QED BY <1>1, <1>2, <1>3 DEF IInv

\* An upload writes an object of its own execution, and no reader that
\* looks elsewhere sees it.
LEMMA TransferPreserves ==
  ASSUME IInv, NEW e \in Execution, Transfer(e)
  PROVE  IInv'
  <1> USE ExecutionAssumption
  <1>1. /\ pc[e] = "moving" /\ pc' = [pc EXCEPT ![e] = "moved"]
        /\ UNCHANGED <<format, job, lease, published, at>>
    BY DEF Transfer
  <1>2. format \in AllFormats /\ at[e] \in Nat \ {0} /\ pc \in [Execution -> Phase]
        /\ objects \in [Prefix -> [Name -> Prefix \cup {NoExecution}]]
        /\ e \in Prefix
    BY DEF IInv, Shape, Prefix
  <1>3. CASE Step(e).do = "put" /\ Step(e).name \in Name
    <2>1. objects' = [objects EXCEPT ![e][Step(e).name] = e]
      BY <1>3 DEF Transfer, PrefixOf
    <2>2. objects' \in [Prefix -> [Name -> Prefix \cup {NoExecution}]]
      BY <1>2, <1>3, <2>1
    <2>3. Shape' BY <1>1, <1>2, <2>2 DEF IInv, Shape, Phase
    <2>4. \A p \in Prefix, n \in Name :
            objects'[p][n] = IF p = e /\ n = Step(e).name THEN e ELSE objects[p][n]
      BY <1>2, <1>3, <2>1
    <2>5. OwnPrefix' BY <2>4 DEF IInv, OwnPrefix, Prefix
    <2>6. StoredSoFar'
      <3> SUFFICES ASSUME NEW x \in Execution, NEW i \in 1 .. Len(Plan[format]),
                          Plan[format][i].do = "put",
                          i < at[x] \/ (i = at[x] /\ pc'[x] = "moved")
                   PROVE  objects'[x][Plan[format][i].name] = x
        BY <1>1 DEF StoredSoFar
      <3>1. Plan[format][i].name \in Name BY <1>2, PlanSteps
      <3>2. CASE x = e /\ i = at[e] BY <3>1, <3>2, <2>4, <1>2 DEF Step
      <3>3. CASE ~ (x = e /\ i = at[e])
        <4>1. i < at[x] \/ (i = at[x] /\ pc[x] = "moved") BY <3>3, <1>1, <1>2
        <4>2. objects[x][Plan[format][i].name] = x BY <4>1 DEF IInv, StoredSoFar
        <4> QED BY <4>2, <3>1, <2>4, <1>2 DEF Prefix
      <3> QED BY <3>2, <3>3
    <2>7. PhaseMatchesPlan' BY <1>1, <1>2 DEF IInv, PhaseMatchesPlan
    <2>8. PublishedComplete'
      <3> SUFFICES ASSUME Ready, NEW k \in ReaderNames(format)
                   PROVE  objects'[ReaderRoot(published)][k] = ReaderRoot(published)
        BY <1>1 DEF PublishedComplete, Ready, ReaderRoot
      <3>1. objects[ReaderRoot(published)][k] = ReaderRoot(published)
        BY DEF IInv, PublishedComplete
      <3>2. k \in Name BY <1>2, ReaderNamesAreNames
      <3>3. ReaderRoot(published) \in Prefix BY DEF ReaderRoot, Prefix
      <3> QED BY <3>1, <3>2, <3>3, <2>4
    <2> QED BY <2>3, <2>5, <2>6, <2>7, <2>8 DEF IInv
  <1>4. CASE Step(e).do # "put"
    <2>1. objects' = objects BY <1>4 DEF Transfer
    <2>2. Shape' BY <1>1, <1>2, <2>1 DEF IInv, Shape, Phase
    <2>3. OwnPrefix' BY <2>1 DEF IInv, OwnPrefix
    <2>4. StoredSoFar'
      <3> SUFFICES ASSUME NEW x \in Execution, NEW i \in 1 .. Len(Plan[format]),
                          Plan[format][i].do = "put",
                          i < at[x] \/ (i = at[x] /\ pc'[x] = "moved")
                   PROVE  objects[x][Plan[format][i].name] = x
        BY <1>1, <2>1 DEF StoredSoFar
      <3>1. ~ (x = e /\ i = at[e]) BY <1>4 DEF Step
      <3>2. i < at[x] \/ (i = at[x] /\ pc[x] = "moved") BY <3>1, <1>1, <1>2
      <3> QED BY <3>2 DEF IInv, StoredSoFar
    <2>5. PhaseMatchesPlan' BY <1>1, <1>2 DEF IInv, PhaseMatchesPlan
    <2>6. PublishedComplete'
      BY <1>1, <2>1 DEF IInv, PublishedComplete, Ready, ReaderRoot
    <2> QED BY <2>2, <2>3, <2>4, <2>5, <2>6 DEF IInv
  <1>5. Step(e).do = "put" => Step(e).name \in Name
    <2>1. at[e] \in 1 .. Len(Plan[format]) => (Step(e).do = "put" => Step(e).name \in Name)
      BY <1>2, PlanSteps DEF Step
    <2>2. at[e] <= Len(Plan[format]) BY <1>1 DEF IInv, PhaseMatchesPlan
    <2>3. Len(Plan[format]) \in Nat BY <1>2 DEF AllFormats, Plan
    <2> QED BY <2>1, <2>2, <2>3, <1>2
  <1> QED BY <1>3, <1>4, <1>5

\* An execution that ends with the last upload of its plan behind it has
\* stored everything that the readers of what it publishes will ask for.
LEMMA CompletePreserves ==
  ASSUME IInv, NEW e \in Execution, Complete(e)
  PROVE  IInv'
  <1> USE ExecutionAssumption
  <1>1. /\ pc[e] = "completing" /\ pc' = [pc EXCEPT ![e] = "done"]
        /\ job' = [job EXCEPT !.status = "completed", !.progress = 100]
        /\ published' = Artefacts(format, e)
        /\ UNCHANGED <<format, objects, at>>
    BY DEF Complete, PrefixOf
  <1>2. format \in AllFormats /\ pc \in [Execution -> Phase] /\ at[e] \in Nat
    BY DEF IInv, Shape
  <1>3. Shape'
    <2>1. job' \in JobRow
      BY <1>1 DEF JobRow, JobStatus, IInv, Shape
    <2> QED BY <1>1, <1>2, <2>1 DEF IInv, Shape, Phase
  <1>4. OwnPrefix' BY <1>1 DEF IInv, OwnPrefix
  <1>5. StoredSoFar' BY <1>1, <1>2 DEF IInv, StoredSoFar
  <1>6. PhaseMatchesPlan' BY <1>1, <1>2 DEF IInv, PhaseMatchesPlan
  <1>7. PublishedComplete'
    <2> SUFFICES ASSUME NEW k \in ReaderNames(format)
                 PROVE  objects[ReaderRoot(Artefacts(format, e))][k]
                          = ReaderRoot(Artefacts(format, e))
      BY <1>1 DEF PublishedComplete, ReaderRoot
    <2>1. ReaderRoot(Artefacts(format, e)) = e
      BY <1>2, ReadersFollowTheExecution
    <2>2. PICK i \in 1 .. Len(Plan[format]) :
            Plan[format][i].do = "put" /\ Plan[format][i].name = k
      BY <1>2, PlanServesReaders
    <2>3. i < at[e]
      <3>1. at[e] > Len(Plan[format]) BY <1>1 DEF IInv, PhaseMatchesPlan
      <3>2. Len(Plan[format]) \in Nat BY <1>2 DEF AllFormats, Plan
      <3> QED BY <3>1, <3>2, <1>2
    <2>4. objects[e][k] = e BY <2>2, <2>3 DEF IInv, StoredSoFar
    <2> QED BY <2>1, <2>4
  <1> QED BY <1>3, <1>4, <1>5, <1>6, <1>7 DEF IInv

LEMMA NextPreserves == IInv /\ [Next]_vars => IInv'
  <1> SUFFICES ASSUME IInv, [Next]_vars PROVE IInv' OBVIOUS
  <1> USE ExecutionAssumption
  <1>0. /\ format \in AllFormats /\ job \in JobRow
        /\ pc \in [Execution -> Phase] /\ at \in [Execution -> Nat \ {0}]
        /\ Len(Plan[format]) \in Nat
    BY DEF IInv, Shape, AllFormats, Plan
  <1>1. CASE UNCHANGED vars
    BY <1>1 DEF vars, IInv, Shape, OwnPrefix, StoredSoFar, PhaseMatchesPlan,
                PublishedComplete, Ready, ReaderRoot
  <1>2. ASSUME NEW e \in Execution, Claim(e) PROVE IInv'
    <2>1. Shape' BY <1>2 DEF Claim, IInv, Shape, JobRow, JobStatus, Phase
    <2>2. PhaseMatchesPlan' BY <1>2, <1>0 DEF Claim, IInv, PhaseMatchesPlan
    <2> QED BY <1>2, <1>0, <2>1, <2>2, QuietStep DEF Claim, Ready
  <1>3. ASSUME NEW e \in Execution, StartTransfer(e) PROVE IInv'
    <2>1. Shape' BY <1>3 DEF StartTransfer, IInv, Shape, Phase
    <2>2. PhaseMatchesPlan'
      BY <1>3, <1>0 DEF StartTransfer, IsTransfer, HasStep, IInv, PhaseMatchesPlan
    <2> QED BY <1>3, <1>0, <2>1, <2>2, QuietStep DEF StartTransfer, Ready
  <1>4. ASSUME NEW e \in Execution, Transfer(e) PROVE IInv'
    BY <1>4, TransferPreserves
  <1>5. ASSUME NEW e \in Execution, EndTransfer(e) PROVE IInv'
    <2>1. Shape' BY <1>5, <1>0 DEF EndTransfer, IInv, Shape, Phase
    <2>2. PhaseMatchesPlan' BY <1>5, <1>0 DEF EndTransfer, IInv, PhaseMatchesPlan
    <2> QED BY <1>5, <1>0, <2>1, <2>2, QuietStep DEF EndTransfer, Ready
  <1>6. ASSUME NEW e \in Execution, SetJobProgress(e) PROVE IInv'
    <2>0. Step(e).percent \in Nat
      <3>1. Len(Plan[format]) >= at[e] /\ at[e] \in 1 .. Len(Plan[format])
        BY <1>6, <1>0 DEF SetJobProgress, HasStep
      <3>2. Step(e).percent \in 0 .. 100
        BY <1>0, <1>6, <3>1, PlanSteps DEF SetJobProgress, Step
      <3> QED BY <3>2
    <2>1. job'.status = job.status /\ job' \in JobRow
          /\ UNCHANGED <<format, objects, pc, published>>
          /\ at' = [at EXCEPT ![e] = @ + 1] /\ pc[e] = "ready"
      BY <1>6, <1>0, <2>0 DEF SetJobProgress, JobRow
    <2>2. Shape' BY <1>0, <2>1 DEF IInv, Shape
    <2>3. PhaseMatchesPlan' BY <2>1, <1>0 DEF IInv, PhaseMatchesPlan
    <2>4. Plan[format][at[e]].do # "put" BY <1>6 DEF SetJobProgress, Step
    <2> QED BY <1>0, <2>1, <2>2, <2>3, <2>4, QuietStep DEF Ready
  <1>7. ASSUME NEW e \in Execution, StartCompletion(e) PROVE IInv'
    <2>1. Shape' BY <1>7 DEF StartCompletion, IInv, Shape, Phase
    <2>2. PhaseMatchesPlan'
      BY <1>7, <1>0 DEF StartCompletion, HasStep, IInv, PhaseMatchesPlan
    <2> QED BY <1>7, <1>0, <2>1, <2>2, QuietStep DEF StartCompletion, Ready
  <1>8. ASSUME NEW e \in Execution, Complete(e) PROVE IInv'
    BY <1>8, CompletePreserves
  <1>9. ASSUME NEW e \in Execution,
               Stop(e) \/ Raise(e) \/ RefuseRetry(e) \/ Die(e)
        PROVE IInv'
    <2>1. UNCHANGED <<format, job, published, objects, at>>
          /\ \E p \in {"done", "raised", "refused"} : pc' = [pc EXCEPT ![e] = p]
      BY <1>9 DEF Stop, Raise, RefuseRetry, Die
    <2>2. Shape' BY <2>1 DEF IInv, Shape, Phase
    <2>3. PhaseMatchesPlan' BY <2>1, <1>0 DEF IInv, PhaseMatchesPlan
    <2> QED BY <1>0, <2>1, <2>2, <2>3, QuietStep DEF Ready
  <1>10. ASSUME NEW e \in Execution, ScheduleRetry(e) \/ MarkFailed(e) PROVE IInv'
    <2>1. UNCHANGED <<format, published, objects, at>> /\ pc' = [pc EXCEPT ![e] = "done"]
      BY <1>10 DEF ScheduleRetry, MarkFailed
    <2>2. job' \in JobRow /\ job'.status \in {"queued", "failed"}
      <3>1. CASE ScheduleRetry(e) BY <1>0, <3>1, RequeuedIsQueued DEF ScheduleRetry
      <3>2. CASE MarkFailed(e) BY <1>0, <3>2, GivenUpIsFailed DEF MarkFailed
      <3> QED BY <1>10, <3>1, <3>2
    <2>3. Shape' BY <2>1, <2>2 DEF IInv, Shape, Phase
    <2>4. PhaseMatchesPlan' BY <2>1, <1>0 DEF IInv, PhaseMatchesPlan
    <2> QED BY <1>0, <2>1, <2>2, <2>3, <2>4, QuietStep DEF Ready
  <1>11. CASE RecoverExpired \/ ManualRetry
    <2>1. UNCHANGED <<format, objects, at, pc>> BY <1>11 DEF RecoverExpired, ManualRetry
    <2>2. job' \in JobRow /\ job'.status \in {"queued", "failed"}
      <3>1. CASE RecoverExpired /\ RetriesLeft
        BY <1>0, <3>1, RequeuedIsQueued DEF RecoverExpired
      <3>2. CASE RecoverExpired /\ ~ RetriesLeft
        BY <1>0, <3>2, GivenUpIsFailed DEF RecoverExpired
      <3>3. CASE ManualRetry BY <3>3 DEF ManualRetry, JobRow, JobStatus
      <3> QED BY <1>11, <3>1, <3>2, <3>3
    <2>3. Shape' BY <2>1, <2>2 DEF IInv, Shape
    <2>4. PhaseMatchesPlan' BY <2>1 DEF IInv, PhaseMatchesPlan
    <2> QED BY <1>0, <2>1, <2>2, <2>3, <2>4, QuietStep DEF Ready
  <1>12. ASSUME NEW e \in Execution, LoseHeartbeat(e) PROVE IInv'
    BY <1>12 DEF LoseHeartbeat, IInv, Shape, OwnPrefix, StoredSoFar, PhaseMatchesPlan,
                 PublishedComplete, Ready, ReaderRoot
  <1>13. CASE LeaseExpires
    BY <1>13 DEF LeaseExpires, IInv, Shape, OwnPrefix, StoredSoFar, PhaseMatchesPlan,
                 PublishedComplete, Ready, ReaderRoot
  <1> QED
    BY <1>1, <1>2, <1>3, <1>4, <1>5, <1>6, <1>7, <1>8, <1>9, <1>10, <1>11, <1>12, <1>13
       DEF Next, Work

---------------------------------------------------------------------------
(* The theorems *)

\* What is published stays complete while workers of the same job go on
\* writing: the strengthening that makes ReadersFindEverything inductive.
THEOREM ExecutionInvariant == Spec => []IInv
  <1>1. Init => IInv BY InitEstablishes
  <1>2. IInv /\ [Next]_vars => IInv' BY NextPreserves
  <1> QED BY <1>1, <1>2, PTL DEF Spec

\* A file shown as processed has every object its readers derive, from one
\* execution (execution.py, maps/services.py, models3d/services.py).
THEOREM ReadersAlwaysFindEverything == Spec => []ReadersFindEverything
  <1>1. IInv => ReadersFindEverything
    BY DEF IInv, PublishedComplete, ReadersFindEverything, ReaderRoot, Prefix
  <1> QED BY <1>1, ExecutionInvariant, PTL

LEMMA FormatIsFixed ==
  ASSUME [Next]_vars PROVE format' = format
  BY DEF vars, Next, Claim, Work, StartTransfer, Transfer, EndTransfer, SetJobProgress,
         StartCompletion, Complete, Stop, ScheduleRetry, RefuseRetry, MarkFailed,
         LoseHeartbeat, Raise, Die, LeaseExpires, RecoverExpired, ManualRetry

\* While a file is shown, no step changes what its readers find.
LEMMA ReadyStays ==
  ASSUME IInv, [Next]_vars, Ready
  PROVE  Ready' /\ published' = published /\ format' = format
  <1>1. CASE UNCHANGED vars BY <1>1 DEF vars, Ready
  <1>2. ASSUME NEW e \in Execution, Claim(e) PROVE FALSE
    BY <1>2 DEF Claim, Ready
  <1>3. ASSUME NEW e \in Execution, Work(e)
        PROVE  UNCHANGED <<job, published, format>>
    BY <1>3 DEF Ready, Work, StartTransfer, Transfer, EndTransfer, SetJobProgress,
                ProgressRows, StartCompletion, Complete, Stop, ScheduleRetry,
                RefuseRetry, MarkFailed, Owns
  <1>4. ASSUME NEW e \in Execution, LoseHeartbeat(e) \/ Raise(e) \/ Die(e)
        PROVE  UNCHANGED <<job, published, format>>
    BY <1>4 DEF LoseHeartbeat, Raise, Die
  <1>5. CASE LeaseExpires BY <1>5 DEF LeaseExpires, Ready
  <1>6. CASE RecoverExpired \/ ManualRetry
    BY <1>6 DEF RecoverExpired, ManualRetry, Ready
  <1> QED BY <1>1, <1>2, <1>3, <1>4, <1>5, <1>6 DEF Next, Ready

\* Under the invariant the readers of a file that is shown see one source.
LEMMA ViewIsComplete ==
  ASSUME IInv, Ready
  PROVE  ReaderView = [k \in ReaderNames(format) |-> ReaderRoot(published)]
         /\ ReaderRoot(published) \in Prefix
  BY DEF IInv, PublishedComplete, ReaderView, ReaderRoot, Prefix

\* The executions implement PublishedOutputs: outputs appear at once, are
\* complete, and never change, whatever stale workers write.
THEOREM ExecutionKeepsPromise == Spec => KeepsPromise
  <1>1. Init => Promise!PromiseInit
    <2> SUFFICES ASSUME Init PROVE Promise!PromiseInit OBVIOUS
    <2>1. IInv BY InitEstablishes
    <2>2. CASE Ready BY <2>1, <2>2, ViewIsComplete DEF Promise!PromiseInit, Promise!Complete
    <2>3. CASE ~ Ready BY <2>3 DEF Promise!PromiseInit, ReaderView, Ready
    <2> QED BY <2>2, <2>3
  <1>2. IInv /\ IInv' /\ [Next]_vars => [Promise!Publish]_(Promise!promise)
    <2> SUFFICES ASSUME IInv, IInv', [Next]_vars
                 PROVE  [Promise!Publish]_(Promise!promise)
      OBVIOUS
    <2>1. CASE Ready
      <3>1. Ready' /\ published' = published /\ format' = format BY <2>1, ReadyStays
      <3>2. ReaderView' = [k \in ReaderNames(format) |-> ReaderRoot(published)]
        BY <3>1 DEF IInv, PublishedComplete, ReaderView, ReaderRoot
      <3> QED BY <2>1, <3>1, <3>2, ViewIsComplete DEF Promise!promise
    <2>2. CASE ~ Ready /\ ~ Ready'
      BY <2>2, FormatIsFixed DEF Promise!promise, ReaderView, Ready
    <2>3. CASE ~ Ready /\ Ready'
      <3>1. ReaderView' = [k \in ReaderNames(format) |-> ReaderRoot(published)']
            /\ ReaderRoot(published)' \in Prefix
        BY <2>3, FormatIsFixed DEF IInv, PublishedComplete, ReaderView, ReaderRoot, Prefix
      <3> QED
        BY <2>3, <3>1, FormatIsFixed DEF Promise!Publish, Promise!Complete, Promise!promise
    <2> QED BY <2>1, <2>2, <2>3
  <1>3. Promise!PromiseInit /\ [][Promise!Publish]_(Promise!promise) => KeepsPromise
    BY DEF KeepsPromise, Promise!PromiseSpec
  <1> QED BY <1>1, <1>2, <1>3, ExecutionInvariant, PTL DEF Spec

---------------------------------------------------------------------------
(* Types, and what a worker stores after it lost the job *)

\* What TypeOK says beyond Shape.
RowTypes ==
  /\ format \in Format
  /\ job.progress \in 0 .. 100 /\ job.retries \in 0 .. MaxRetries
  /\ lease \in [token : Execution \cup {NoExecution}, live : BOOLEAN]
  /\ published \in [preview : Path, converted : Path]
  /\ lost \in [Execution -> BOOLEAN]
  /\ late \in [Execution -> Nat]

\* An execution that stored an object too late owns nothing, and has nothing
\* left to do with storage.
LateIsOver ==
  \A e \in Execution :
    /\ late[e] <= 1
    /\ late[e] # 0 => ~ Owns(e) /\ pc[e] \notin {"new", "ready", "moving", "completing"}

LEMMA ArtefactsAreTyped ==
  ASSUME NEW f \in AllFormats, NEW p \in Prefix
  PROVE  Artefacts(f, p) \in [preview : Path, converted : Path]
  <1>1. NoPath \in Path BY DEF NoPath, Path
  <1>2. \A n \in Name : PathOf(p, n) \in Path BY DEF PathOf, Path
  <1> QED BY <1>1, <1>2 DEF Artefacts, AllFormats, Name

LEMMA InitTypes == Init => RowTypes /\ LateIsOver
  <1> SUFFICES ASSUME Init PROVE RowTypes /\ LateIsOver OBVIOUS
  <1> USE ExecutionAssumption, FormatAssumption, RetryAssumption
  <1>1. published \in [preview : Path, converted : Path]
    <2>1. Artefacts(format, Root) \in [preview : Path, converted : Path]
      BY ArtefactsAreTyped DEF Init, Prefix
    <2>2. NotPublished \in [preview : Path, converted : Path]
      BY DEF NotPublished, NoPath, Path
    <2> QED BY <2>1, <2>2 DEF Init
  <1>2. job.progress \in 0 .. 100 /\ job.retries \in 0 .. MaxRetries BY DEF Init
  <1>3. lease \in [token : Execution \cup {NoExecution}, live : BOOLEAN]
    BY DEF Init, NoLease
  <1> QED BY <1>1, <1>2, <1>3 DEF Init, RowTypes, LateIsOver

\* A row that is retried or given up keeps its bounds.
LEMMA RetryTypes ==
  ASSUME job \in JobRow, job.progress \in 0 .. 100, job.retries \in 0 .. MaxRetries
  PROVE  /\ GivenUp.progress \in 0 .. 100 /\ GivenUp.retries \in 0 .. MaxRetries
         /\ RetriesLeft => [job EXCEPT !.status = "queued", !.retries = @ + 1].progress \in 0 .. 100
         /\ RetriesLeft => [job EXCEPT !.status = "queued", !.retries = @ + 1].retries \in 0 .. MaxRetries
  BY RetryAssumption DEF JobRow, GivenUp, RetriesLeft

LEMMA StepTypes == IInv /\ RowTypes /\ [Next]_vars => RowTypes'
  <1> SUFFICES ASSUME IInv, RowTypes, [Next]_vars PROVE RowTypes' OBVIOUS
  <1> USE ExecutionAssumption, FormatAssumption, RetryAssumption
  <1>0. /\ job \in JobRow /\ format \in AllFormats
        /\ at \in [Execution -> Nat \ {0}] /\ Len(Plan[format]) \in Nat
    BY DEF IInv, Shape, AllFormats, Plan
  <1>1. CASE UNCHANGED vars BY <1>1 DEF vars, RowTypes
  <1>2. ASSUME NEW e \in Execution, Claim(e) PROVE RowTypes'
    BY <1>2, <1>0 DEF Claim, RowTypes, JobRow
  <1>3. ASSUME NEW e \in Execution, Transfer(e) PROVE RowTypes'
    BY <1>3 DEF Transfer, RowTypes
  <1>4. ASSUME NEW e \in Execution, SetJobProgress(e) PROVE RowTypes'
    <2>1. Step(e).percent \in 0 .. 100
      <3>1. at[e] \in 1 .. Len(Plan[format]) BY <1>4, <1>0 DEF SetJobProgress, HasStep
      <3> QED BY <1>4, <1>0, <3>1, PlanSteps DEF SetJobProgress, Step
    <2> QED BY <1>4, <1>0, <2>1 DEF SetJobProgress, RowTypes, JobRow
  <1>5. ASSUME NEW e \in Execution, Complete(e) PROVE RowTypes'
    <2>1. published' \in [preview : Path, converted : Path]
      BY <1>5, <1>0, ArtefactsAreTyped DEF Complete, PrefixOf, Prefix
    <2> QED BY <1>5, <1>0, <2>1 DEF Complete, RowTypes, JobRow, NoLease
  <1>6. ASSUME NEW e \in Execution, ScheduleRetry(e) PROVE RowTypes'
    BY <1>6, <1>0, RetryTypes DEF ScheduleRetry, RowTypes, NoLease
  <1>7. ASSUME NEW e \in Execution, MarkFailed(e) PROVE RowTypes'
    BY <1>7, <1>0, RetryTypes DEF MarkFailed, RowTypes, NoLease
  <1>8. ASSUME NEW e \in Execution,
               StartTransfer(e) \/ EndTransfer(e) \/ StartCompletion(e) \/ Stop(e)
               \/ RefuseRetry(e) \/ Raise(e) \/ Die(e) \/ LoseHeartbeat(e)
        PROVE  RowTypes'
    BY <1>8 DEF StartTransfer, EndTransfer, StartCompletion, Stop, RefuseRetry, Raise,
                Die, LoseHeartbeat, RowTypes
  <1>9. CASE LeaseExpires BY <1>9 DEF LeaseExpires, RowTypes
  <1>10. CASE RecoverExpired BY <1>10, <1>0, RetryTypes DEF RecoverExpired, RowTypes, NoLease
  <1>11. CASE ManualRetry
    BY <1>11 DEF ManualRetry, RowTypes, NoLease, NotPublished, NoPath, Path
  <1> QED BY <1>1, <1>2, <1>3, <1>4, <1>5, <1>6, <1>7, <1>8, <1>9, <1>10, <1>11
          DEF Next, Work

\* Whoever has begun does not come to own the job again: only a claim gives
\* the lease, and it belongs to the execution that claims.
LEMMA OwnershipDoesNotReturn ==
  ASSUME IInv, [Next]_vars, NEW e \in Execution, pc[e] # "new", ~ Owns(e)
  PROVE  ~ Owns(e)'
  <1> USE ExecutionAssumption
  <1>0. job \in JobRow BY DEF IInv, Shape
  <1>1. CASE UNCHANGED vars BY <1>1 DEF vars, Owns
  <1>2. ASSUME NEW x \in Execution, Claim(x) PROVE ~ Owns(e)'
    BY <1>2 DEF Claim, Owns
  <1>3. ASSUME NEW x \in Execution, Work(x) \/ LoseHeartbeat(x) \/ Raise(x) \/ Die(x)
        PROVE  \/ UNCHANGED <<job, lease>>
               \/ lease' = NoLease
               \/ lease' = lease /\ job'.status = job.status
    BY <1>0, <1>3 DEF JobRow, Work, StartTransfer, Transfer, EndTransfer,
       SetJobProgress, StartCompletion, Complete, Stop, ScheduleRetry, RefuseRetry,
       MarkFailed, LoseHeartbeat, Raise, Die
  <1>4. CASE LeaseExpires BY <1>4 DEF LeaseExpires, Owns
  <1>5. CASE RecoverExpired \/ ManualRetry
    BY <1>5 DEF RecoverExpired, ManualRetry, Owns, NoLease
  <1> QED BY <1>1, <1>2, <1>3, <1>4, <1>5 DEF Next, Owns, NoLease

LEMMA StepLate == IInv /\ RowTypes /\ LateIsOver /\ [Next]_vars => LateIsOver'
  <1> SUFFICES ASSUME IInv, RowTypes, LateIsOver, [Next]_vars, NEW e \in Execution
               PROVE  /\ late'[e] <= 1
                      /\ late'[e] # 0 =>
                           ~ Owns(e)' /\ pc'[e] \notin {"new", "ready", "moving", "completing"}
    BY DEF LateIsOver
  <1>0. pc \in [Execution -> Phase] /\ late \in [Execution -> Nat] /\ late[e] <= 1
        /\ (late[e] # 0 => ~ Owns(e) /\ pc[e] \notin {"new", "ready", "moving", "completing"})
    BY DEF IInv, Shape, RowTypes, LateIsOver
  <1>1. CASE UNCHANGED vars BY <1>0, <1>1 DEF vars, Owns
  <1>2. CASE Transfer(e)
    BY <1>0, <1>2 DEF Transfer, Owns
  <1>3. CASE ~ Transfer(e)
    <2>1. UNCHANGED vars \/ late'[e] = late[e]
      BY <1>0, <1>3 DEF vars, Next, Claim, Work, StartTransfer, Transfer, EndTransfer,
         SetJobProgress, StartCompletion, Complete, Stop, ScheduleRetry, RefuseRetry,
         MarkFailed, LoseHeartbeat, Raise, Die, LeaseExpires, RecoverExpired, ManualRetry
    <2>2. ASSUME late[e] # 0
          PROVE  pc'[e] \notin {"new", "ready", "moving", "completing"}
      BY <1>0, <2>2 DEF vars, Next, Claim, Work, StartTransfer, Transfer, EndTransfer,
         CheckPasses, SetJobProgress, StartCompletion, Complete, Stop, ScheduleRetry,
         RefuseRetry, MarkFailed, LoseHeartbeat, Raise, Die, LeaseExpires,
         RecoverExpired, ManualRetry, Phase
    <2>3. late[e] # 0 => ~ Owns(e)' BY <1>0, OwnershipDoesNotReturn
    <2> QED BY <1>0, <1>1, <2>1, <2>2, <2>3
  <1> QED BY <1>2, <1>3

THEOREM LateInvariant == Spec => [](RowTypes /\ LateIsOver)
  <1>1. Init => RowTypes /\ LateIsOver BY InitTypes
  <1>2. IInv /\ RowTypes /\ LateIsOver /\ [Next]_vars => RowTypes' /\ LateIsOver'
    BY StepTypes, StepLate
  <1> QED BY <1>1, <1>2, ExecutionInvariant, PTL DEF Spec

\* The rows, the lease and object storage keep their types, and retries and
\* progress their limits.
THEOREM ExecutionTypeCorrect == Spec => []TypeOK
  <1>1. IInv /\ RowTypes => TypeOK
    <2> SUFFICES ASSUME IInv, RowTypes PROVE TypeOK OBVIOUS
    <2>1. job \in [status : JobStatus, progress : 0 .. 100, retries : 0 .. MaxRetries]
      BY DEF IInv, Shape, JobRow, RowTypes
    <2> QED BY <2>1 DEF IInv, Shape, RowTypes, TypeOK
  <1> QED BY <1>1, ExecutionInvariant, LateInvariant, PTL

\* A worker that lost the job stores at most the one object whose upload was
\* in flight (lease.py, ProcessingHeartbeat.check around every transfer).
THEOREM AtMostOneLateObject == Spec => []OneObjectAfterLoss
  <1>1. LateIsOver => OneObjectAfterLoss BY DEF LateIsOver, OneObjectAfterLoss
  <1> QED BY <1>1, LateInvariant, PTL

---------------------------------------------------------------------------
(* Progress *)

\* The lease that is live is that of the execution of a running job, and
\* nothing this execution has still to report is less than the row shows.
ReportsAhead ==
  /\ lease.live => lease.token # NoExecution /\ job.status = "running"
  /\ \A e \in Execution : Owns(e) =>
       \A i \in 1 .. Len(Plan[format]) :
         i >= at[e] /\ Plan[format][i].do = "progress"
           => Plan[format][i].percent >= job.progress

\* A plan reports growing percentages, all beyond that of the claim.
LEMMA PlanGrows ==
  ASSUME NEW f \in AllFormats, NEW i \in 1 .. Len(Plan[f]), Plan[f][i].do = "progress",
         NEW j \in 1 .. Len(Plan[f]), j >= i, Plan[f][j].do = "progress"
  PROVE  Plan[f][j].percent >= Plan[f][i].percent /\ Plan[f][i].percent >= 10
  <1>1. CASE f = "GEOTIFF" BY <1>1 DEF Plan, AllFormats, Get, Put, Progress
  <1>2. CASE f = "OBJ" BY <1>2 DEF Plan, AllFormats, Get, Put, Progress
  <1>3. CASE f = "GLTF_BUNDLE" BY <1>3 DEF Plan, AllFormats, Get, Put, Progress
  <1>4. CASE f = "GLB" BY <1>4 DEF Plan, AllFormats, Get, Put, Progress
  <1>5. CASE f = "LAS" BY <1>5 DEF Plan, AllFormats, Get, Put, Progress
  <1>6. CASE f = "PNG" BY <1>6 DEF Plan, AllFormats, Get, Put, Progress
  <1> QED BY <1>1, <1>2, <1>3, <1>4, <1>5, <1>6 DEF AllFormats

\* A report of progress is not less than what the row shows, and what is
\* left to report is not less than it.
LEMMA ReportGrows ==
  ASSUME IInv, RowTypes, ReportsAhead, NEW e \in Execution, SetJobProgress(e)
  PROVE  job'.progress >= job.progress /\ ReportsAhead'
  <1>1. /\ job \in JobRow /\ format \in AllFormats /\ Len(Plan[format]) \in Nat
        /\ at \in [Execution -> Nat \ {0}]
    BY DEF IInv, Shape, AllFormats, Plan
  <1>2. /\ at[e] \in 1 .. Len(Plan[format]) /\ Plan[format][at[e]].do = "progress"
        /\ Owns(e)
        /\ job' = [job EXCEPT !.progress = Plan[format][at[e]].percent]
        /\ at' = [at EXCEPT ![e] = @ + 1]
        /\ UNCHANGED <<format, lease>>
    BY <1>1 DEF SetJobProgress, HasStep, Step, ProgressRows
  <1>3. job'.progress = Plan[format][at[e]].percent /\ job'.status = job.status
    BY <1>1, <1>2 DEF JobRow
  <1>4. job'.progress >= job.progress BY <1>1, <1>2, <1>3 DEF ReportsAhead
  <1>5. ASSUME NEW x \in Execution, Owns(x)', NEW i \in 1 .. Len(Plan[format]),
               i >= at'[x], Plan[format][i].do = "progress"
        PROVE  Plan[format][i].percent >= job'.progress
    <2>1. x = e BY <1>2, <1>5 DEF Owns
    <2>2. i >= at[e] BY <1>1, <1>2, <1>5, <2>1
    <2> QED BY <1>1, <1>2, <1>3, <1>5, <2>2, PlanGrows
  <1> QED BY <1>2, <1>3, <1>4, <1>5 DEF ReportsAhead

\* The steps that leave the progress alone, or give the lease up.
LEMMA OtherSteps ==
  ASSUME IInv, RowTypes, ReportsAhead, [Next]_vars,
         ~ \E e \in Execution : SetJobProgress(e)
  PROVE  /\ lease.live /\ lease'.token = lease.token => job'.progress >= job.progress
         /\ ReportsAhead'
  <1> USE ExecutionAssumption
  <1>1. /\ job \in JobRow /\ format \in AllFormats /\ Len(Plan[format]) \in Nat
        /\ at \in [Execution -> Nat \ {0}] /\ job.progress \in Nat
        /\ lease \in [token : Execution \cup {NoExecution}, live : BOOLEAN]
    BY DEF IInv, Shape, JobRow, AllFormats, Plan, RowTypes
  <1>2. CASE \E e \in Execution : Claim(e)
    <2>1. PICK e \in Execution : Claim(e) BY <1>2
    <2>2. /\ ~ lease.live /\ job'.progress = 10 /\ job'.status = "running"
          /\ lease' = [token |-> e, live |-> TRUE] /\ UNCHANGED format
      BY <1>1, <2>1 DEF Claim, ReportsAhead, JobRow
    <2>3. \A i \in 1 .. Len(Plan[format]) :
            Plan[format][i].do = "progress" => Plan[format][i].percent >= 10
      BY <1>1, PlanGrows
    <2> QED BY <2>2, <2>3 DEF ReportsAhead, Owns
  <1>3. CASE lease' = NoLease
    BY <1>1, <1>3 DEF ReportsAhead, NoLease, Owns
  <1>4. CASE /\ UNCHANGED <<job, format>>
             /\ lease' = lease \/ lease' = [lease EXCEPT !.live = FALSE]
             /\ \A e \in Execution : at'[e] = at[e] \/ at'[e] = at[e] + 1
    <2>1. \A e \in Execution : Owns(e)' => Owns(e) BY <1>1, <1>4 DEF Owns
    <2>2. lease'.live => lease.live /\ lease'.token = lease.token BY <1>1, <1>4
    <2>3. ASSUME NEW e \in Execution, NEW i \in 1 .. Len(Plan[format]), i >= at'[e]
          PROVE  i >= at[e]
      BY <1>1, <1>4, <2>3
    <2> QED BY <1>1, <1>4, <2>1, <2>2, <2>3 DEF ReportsAhead
  <1>5. \/ \E e \in Execution : Claim(e)
        \/ lease' = NoLease
        \/ /\ UNCHANGED <<job, format>>
           /\ lease' = lease \/ lease' = [lease EXCEPT !.live = FALSE]
           /\ \A e \in Execution : at'[e] = at[e] \/ at'[e] = at[e] + 1
    BY <1>1 DEF vars, Next, Work, StartTransfer, Transfer, EndTransfer, StartCompletion,
       Complete, Stop, ScheduleRetry, RefuseRetry, MarkFailed, LoseHeartbeat, Raise, Die,
       LeaseExpires, RecoverExpired, ManualRetry
  <1> QED BY <1>2, <1>3, <1>4, <1>5

\* While one worker holds the job, the progress of its row does not go back
\* (_set_job_progress writes under the filter of the lease).
THEOREM ProgressCorrect == Spec => ProgressGrows
  <1>1. Init => ReportsAhead BY ExecutionAssumption DEF Init, ReportsAhead, NoLease, Owns
  <1>2. IInv /\ RowTypes /\ ReportsAhead /\ [Next]_vars => ReportsAhead'
    BY ReportGrows, OtherSteps
  <1>3. IInv /\ RowTypes /\ ReportsAhead /\ [Next]_vars =>
          [lease.live /\ lease'.token = lease.token => job'.progress >= job.progress]_vars
    BY ReportGrows, OtherSteps
  <1> QED BY <1>1, <1>2, <1>3, ExecutionInvariant, LateInvariant, PTL DEF Spec, ProgressGrows
---------------------------------------------------------------------------
(* The job.  What Processing has as one step each is here spread over the  *)
(* transfers, the checks and the two transactions of a failure; of the job *)
(* it is still the one step, which JobOwnership allows, or none.           *)

\* A worker that owns the job and was refused a retry still finds none left
\* in the transaction that gives the job up, and only a running job has a
\* lease.
OwnershipInv ==
  /\ \A e \in Execution : pc[e] = "refused" /\ Owns(e) => job.retries = MaxRetries
  /\ job.status # "running" => lease = NoLease

\* Before the first claim nobody owns the job.
LEMMA InitEstablishesOwnership == Init => OwnershipInv /\ Ownership!Init
  <1> SUFFICES ASSUME Init PROVE OwnershipInv /\ Ownership!Init OBVIOUS
  <1>1. /\ job.status \in {"queued", "completed"} /\ job.retries = 0 /\ lease = NoLease
        /\ \A e \in Execution : pc[e] = "new"
    BY DEF Init
  <1>2. Running = {} BY <1>1 DEF Running, Active
  <1> QED BY <1>1, <1>2 DEF OwnershipInv, Ownership!Init, Ownership!Free, NoLease

\* Whoever still owns the job after a refusal was refused for want of
\* retries, and nobody else has touched the row since.
LEMMA RefusalStands ==
  ASSUME IInv, RowTypes, OwnershipInv, [Next]_vars, NEW e \in Execution,
         pc'[e] = "refused", Owns(e)'
  PROVE  job'.retries = MaxRetries
  <1> USE ExecutionAssumption, RetryAssumption
  <1>1. /\ job \in JobRow /\ pc \in [Execution -> Phase] /\ job.retries \in 0 .. MaxRetries
    BY DEF IInv, Shape, RowTypes
  <1>2. CASE RefuseRetry(e)
    BY <1>1, <1>2 DEF RefuseRetry, RetriesLeft, Owns
  <1>3. CASE ~ RefuseRetry(e)
    <2>1. pc[e] = "refused"
      BY <1>1, <1>3 DEF vars, Next, Claim, Work, StartTransfer, Transfer, EndTransfer,
         SetJobProgress, StartCompletion, Complete, Stop, ScheduleRetry, RefuseRetry,
         MarkFailed, LoseHeartbeat, Raise, Die, LeaseExpires, RecoverExpired, ManualRetry
    <2>2. Owns(e) BY <2>1, OwnershipDoesNotReturn
    <2>3. lease' # NoLease BY DEF Owns, NoLease
    <2>4. job'.retries = job.retries
      BY <1>1, <2>3 DEF JobRow, vars, Next, Claim, Work, StartTransfer, Transfer, EndTransfer,
         SetJobProgress, StartCompletion, Complete, Stop, ScheduleRetry, RefuseRetry,
         MarkFailed, LoseHeartbeat, Raise, Die, LeaseExpires, RecoverExpired, ManualRetry
    <2> QED BY <2>1, <2>2, <2>4 DEF OwnershipInv
  <1> QED BY <1>2, <1>3

\* A step that leaves the job at rest takes its lease away.
LEMMA LeaseAtRest ==
  ASSUME IInv, RowTypes, OwnershipInv, [Next]_vars, job'.status # "running"
  PROVE  lease' = NoLease
  <1>1. job \in JobRow BY DEF IInv, Shape
  <1>2. CASE lease' = NoLease BY <1>2
  <1>3. CASE lease' = lease /\ job'.status = job.status
    BY <1>3 DEF OwnershipInv
  <1>4. CASE LeaseExpires
    BY <1>4 DEF LeaseExpires, OwnershipInv, NoLease
  <1>5. \/ lease' = NoLease
        \/ lease' = lease /\ job'.status = job.status
        \/ LeaseExpires
    BY <1>1 DEF JobRow, vars, Next, Claim, Work, StartTransfer, Transfer, EndTransfer,
       SetJobProgress, StartCompletion, Complete, Stop, ScheduleRetry, RefuseRetry,
       MarkFailed, LoseHeartbeat, Raise, Die, RecoverExpired, ManualRetry
  <1> QED BY <1>2, <1>3, <1>4, <1>5

\* The executions of the job after one of them moved on.
LEMMA RunningNext ==
  ASSUME IInv, NEW e \in Execution, NEW phase \in Phase, pc' = [pc EXCEPT ![e] = phase]
  PROVE  Running' = IF phase \in {"new", "done"} THEN Running \ {e} ELSE Running \cup {e}
  <1>1. \A x \in Execution : pc'[x] = IF x = e THEN phase ELSE pc[x]
    BY DEF IInv, Shape
  <1> QED BY <1>1 DEF Running, Active

\* A worker that goes on leaves the job as it is, except for its progress.
LEMMA GoingOnStutters ==
  ASSUME IInv, NEW e \in Execution,
         \/ StartTransfer(e) \/ Transfer(e) \/ EndTransfer(e) \/ SetJobProgress(e)
         \/ StartCompletion(e) \/ RefuseRetry(e) \/ LoseHeartbeat(e) \/ Raise(e)
  PROVE  UNCHANGED Ownership!ownership
  <1>1. job \in JobRow /\ pc \in [Execution -> Phase] BY DEF IInv, Shape
  <1>2. job'.status = job.status /\ job'.retries = job.retries /\ lease' = lease
    BY <1>1 DEF JobRow, StartTransfer, Transfer, EndTransfer, SetJobProgress,
       StartCompletion, RefuseRetry, LoseHeartbeat, Raise
  <1>3. Running' = Running
    <2>1. CASE SetJobProgress(e) \/ LoseHeartbeat(e)
      BY <2>1 DEF SetJobProgress, LoseHeartbeat, Running, Active
    <2>2. CASE ~ (SetJobProgress(e) \/ LoseHeartbeat(e))
      <3>1. \/ pc' = [pc EXCEPT ![e] = "moving"] \/ pc' = [pc EXCEPT ![e] = "moved"]
            \/ pc' = [pc EXCEPT ![e] = "ready"] \/ pc' = [pc EXCEPT ![e] = "completing"]
            \/ pc' = [pc EXCEPT ![e] = "refused"] \/ pc' = [pc EXCEPT ![e] = "raised"]
        BY <2>2 DEF StartTransfer, Transfer, EndTransfer, StartCompletion, RefuseRetry, Raise
      <3>2. e \in Running
        BY <2>2 DEF StartTransfer, Transfer, EndTransfer, StartCompletion, RefuseRetry,
           Raise, Running, Active
      <3> QED BY <3>1, <3>2, RunningNext DEF Phase
    <2> QED BY <2>1, <2>2
  <1> QED BY <1>2, <1>3 DEF Ownership!ownership

\* An owner that ends takes the job with it, or lets it go; whoever else
\* ends only leaves.
LEMMA EndingIsPromised ==
  ASSUME IInv, RowTypes, OwnershipInv, NEW e \in Execution,
         Complete(e) \/ Stop(e) \/ ScheduleRetry(e) \/ MarkFailed(e) \/ Die(e)
  PROVE  Ownership!Next
  <1>1. job \in JobRow /\ pc \in [Execution -> Phase] BY DEF IInv, Shape
  <1>2. e \in Running /\ Running' = Running \ {e}
    <2>1. pc' = [pc EXCEPT ![e] = "done"] /\ Active(e)
      BY DEF Complete, Stop, ScheduleRetry, MarkFailed, Die, Active
    <2> QED BY <2>1, RunningNext DEF Running, Phase
  <1>3. Owns(e) <=> Ownership!Owns(e)
    BY <1>2 DEF Owns, Ownership!Owns
  <1>4. CASE Complete(e)
    <2>1. job'.status = "completed" /\ job'.retries = job.retries /\ lease' = NoLease
      BY <1>1, <1>4 DEF Complete, JobRow
    <2>2. Ownership!Complete(e)
      BY <1>2, <1>3, <1>4, <2>1 DEF Complete, Ownership!Complete, Ownership!Free, NoLease
    <2> QED BY <2>2 DEF Ownership!Next
  <1>5. CASE Stop(e) \/ Die(e)
    <2>1. Ownership!Leave(e) BY <1>2, <1>5 DEF Stop, Die, Ownership!Leave
    <2> QED BY <2>1 DEF Ownership!Next
  <1>6. CASE ScheduleRetry(e)
    <2>1. /\ job'.status = "queued" /\ job'.retries = job.retries + 1 /\ lease' = NoLease
          /\ job.retries < MaxRetries
      BY <1>1, <1>6 DEF ScheduleRetry, RetriesLeft, JobRow
    <2>2. Ownership!PutBack
      BY <1>2, <1>3, <1>6, <2>1
         DEF ScheduleRetry, Ownership!PutBack, Ownership!LetGo, Ownership!Free, NoLease
    <2> QED BY <2>2 DEF Ownership!Next
  <1>7. CASE MarkFailed(e)
    <2>1. job'.status = "failed" /\ job'.retries = job.retries /\ lease' = NoLease
      BY <1>1, <1>7 DEF MarkFailed, GivenUp, JobRow
    <2>2. job.retries = MaxRetries BY <1>7 DEF MarkFailed, OwnershipInv
    <2>3. Ownership!GiveUp
      BY <1>2, <1>3, <1>7, <2>1, <2>2
         DEF MarkFailed, Ownership!GiveUp, Ownership!LetGo, Ownership!Free, NoLease
    <2> QED BY <2>3 DEF Ownership!Next
  <1> QED BY <1>4, <1>5, <1>6, <1>7

\* The sweep and a retry by hand find a job nobody owns.
LEMMA RecoveryIsPromised ==
  ASSUME IInv, RowTypes, OwnershipInv, LeaseExpires \/ RecoverExpired \/ ManualRetry
  PROVE  Ownership!Next
  <1>1. job \in JobRow /\ job.retries \in 0 .. MaxRetries BY DEF IInv, Shape, RowTypes
  <1>2. Running' = Running
    BY DEF LeaseExpires, RecoverExpired, ManualRetry, Running, Active
  <1>3. CASE LeaseExpires
    <2>1. Ownership!Expire BY <1>2, <1>3 DEF LeaseExpires, Ownership!Expire
    <2> QED BY <2>1 DEF Ownership!Next
  <1>4. CASE RecoverExpired /\ RetriesLeft
    <2>1. /\ job'.status = "queued" /\ job'.retries = job.retries + 1 /\ lease' = NoLease
          /\ job.retries < MaxRetries
      BY <1>1, <1>4 DEF RecoverExpired, RetriesLeft, JobRow
    <2>2. Ownership!PutBack
      BY <1>2, <1>4, <2>1
         DEF RecoverExpired, Ownership!PutBack, Ownership!LetGo, Ownership!IsLeft,
             Ownership!Free, NoLease
    <2> QED BY <2>2 DEF Ownership!Next
  <1>5. CASE RecoverExpired /\ ~ RetriesLeft
    <2>1. job'.status = "failed" /\ job'.retries = job.retries /\ lease' = NoLease
      BY <1>1, <1>5 DEF RecoverExpired, GivenUp, JobRow
    <2>2. job.retries = MaxRetries BY <1>1, <1>5, RetryAssumption DEF RetriesLeft
    <2>3. Ownership!GiveUp
      BY <1>2, <1>5, <2>1, <2>2
         DEF RecoverExpired, Ownership!GiveUp, Ownership!LetGo, Ownership!IsLeft,
             Ownership!Free, NoLease
    <2> QED BY <2>3 DEF Ownership!Next
  <1>6. CASE ManualRetry
    <2>1. Ownership!Enqueue
      BY <1>2, <1>6 DEF ManualRetry, Ownership!Enqueue, Ownership!Free, NoLease
    <2> QED BY <2>1 DEF Ownership!Next
  <1> QED BY <1>3, <1>4, <1>5, <1>6

\* The execution in detail implements the ownership of the job that
\* Processing implements too, for every number of executions and retries: to
\* Processing all the transfers, checks and reports of a worker are no step,
\* and its end is one.
THEOREM OwnershipCorrect == Spec => KeepsOwnership
  <1>1. Init => OwnershipInv /\ Ownership!Init BY InitEstablishesOwnership
  <1>2. IInv /\ RowTypes /\ OwnershipInv /\ [Next]_vars => OwnershipInv'
    BY RefusalStands, LeaseAtRest DEF OwnershipInv
  <1>3. IInv /\ RowTypes /\ OwnershipInv /\ [Next]_vars
          => [Ownership!Next]_(Ownership!ownership)
    <2> SUFFICES ASSUME IInv, RowTypes, OwnershipInv, [Next]_vars
                 PROVE  [Ownership!Next]_(Ownership!ownership)
      OBVIOUS
    <2>1. ASSUME NEW e \in Execution, Claim(e) PROVE Ownership!Next
      <3>1. e \notin Running /\ Running' = Running \cup {e}
        BY <2>1, RunningNext DEF Claim, Running, Active, Phase
      <3>2. Ownership!Claim(e)
        BY <2>1, <3>1 DEF Claim, Ownership!Claim, IInv, Shape, JobRow
      <3> QED BY <3>2 DEF Ownership!Next
    <2>2. CASE UNCHANGED vars
      BY <2>2 DEF vars, Ownership!ownership, Running, Active
    <2> QED BY <2>1, <2>2, GoingOnStutters, EndingIsPromised, RecoveryIsPromised DEF Next, Work
  <1>4. Ownership!Init /\ [][Ownership!Next]_(Ownership!ownership) => KeepsOwnership
    BY DEF KeepsOwnership, Ownership!Spec
  <1> QED
    BY <1>1, <1>2, <1>3, <1>4, ExecutionInvariant, LateInvariant, PTL DEF Spec
============================================================================
