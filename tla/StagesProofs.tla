---------------------------- MODULE StagesProofs ----------------------------
(***************************************************************************)
(* Theorems about the orchestrated stages, for any landing files, retries  *)
(* and bounds: the state's types, the derivation of every artifact from    *)
(* the one before it, with it that the stages implement the abstract       *)
(* lineage, and what a run may fail for. Liveness is left to the model     *)
(* checker.                                                                *)
(*                                                                         *)
(* The induction for the lineage goes through what every recorded artifact *)
(* was derived from and, for the run under way, what its task has read and *)
(* not yet written. The one for the causes adds what a run that generates  *)
(* its data, and a run without faults, finds where the tasks look.         *)
(***************************************************************************)
EXTENDS Stages, FiniteSetTheorems, TLAPS

-----------------------------------------------------------------------------
(***************************************************************************)
(* Types.                                                                  *)
(***************************************************************************)

Validations == [batch : Batches, hour : Hours, content : Contents, status : Statuses]
Preparations == [batch : Batches, hour : Hours, content : Contents, torn : BOOLEAN]
Rows ==
    [id : Nat, identity : Batches \X Contents \X Splits \X (1..MaxRelease),
     batch : Batches, content : Contents, split : Splits, release : 1..MaxRelease]
Models == [run : Nat, feature : Nat, batch : Batches, strict : BOOLEAN, split : Splits]

\* The types of the clock, the landing zone, the raw store and the outputs.
StoreTypes ==
    /\ hour \in Hours /\ release \in 1..MaxRelease /\ landing \in Contents
    /\ lastBatch \in 0..MaxBatches /\ faults \in 0..MaxFaults
    /\ objects \in [Partitions -> Contents]
    /\ rawManifests \in [Partitions -> {"none", "SUCCESS", "PARTIAL_SUCCESS"}]
    /\ reports \subseteq Partitions /\ drafts \subseteq Partitions
    /\ validations \subseteq Validations
    /\ preparations \subseteq Preparations
    /\ store \subseteq Rows /\ IsFiniteSet(store)
    /\ manifests \in Seq([id : Nat, torn : BOOLEAN])
    /\ models \subseteq Models

\* A batch has been made for the run.
Ingested(r) ==
    r.task \in TaskNames \ {"generate", "ingest"}
        \/ (r.task = "ingest" /\ r.step = "manifest")

\* The run is of its type, within its retries and its files, and works on a batch.
Placed ==
    /\ dag \in Runs /\ dag.tries <= Retries[dag.task] /\ dag.given <= lastBatch
    /\ dag.state = "running" /\ dag.task = "generate" => dag.written < Len(Files)
    /\ dag.state = "running" /\ Ingested(dag) => dag.batch \in Batches
    /\ At("ingest", "manifest") => dag.verdict \in {"SUCCESS", "PARTIAL_SUCCESS"}
    /\ dag.state = "running" /\ dag.task = "quality" => dag.verdict \in Statuses

TypeInv == StoreTypes /\ Placed

\* The fields an attempt does not change.
Same(r, q) ==
    /\ q.n = r.n /\ q.given = r.given /\ q.generate = r.generate /\ q.strict = r.strict
    /\ q.batch = r.batch /\ q.feature = r.feature /\ q.verdict = r.verdict
    /\ q.split = r.split

\* An attempt more.
LEMMA TriesRun ==
    ASSUME NEW r \in Runs, NEW k \in Nat
    PROVE  [r EXCEPT !.tries = k] \in Runs
BY DEF Runs

\* The initial run.
LEMMA NoRunType == NoRun \in Runs
<1>1. Missing \in Contents /\ 0 \in Hours /\ 0 \in 0..MaxBatches /\ "train" \in Splits
  BY StagesBounds DEF Missing, Contents, Hours, Splits
<1> HIDE DEF Missing
<1> QED
  BY <1>1, SMTT(60) DEF NoRun, Runs, Ends, TaskNames, StepNames

\* The first step of an attempt keeps what the attempt before it does not own.
LEMMA FreshRun ==
    ASSUME NEW r \in Runs
    PROVE  /\ Fresh(r) \in Runs /\ Same(r, Fresh(r))
           /\ Fresh(r).state = r.state /\ Fresh(r).task = r.task
           /\ Fresh(r).step = "start" /\ Fresh(r).written = 0
<1>1. Missing \in Contents /\ 0 \in Hours
  BY StagesBounds DEF Missing, Contents, Hours
<1>2. Fresh(r) \in Runs
  BY <1>1 DEF Fresh, Runs, StepNames
<1> QED
  BY <1>2 DEF Fresh, Runs, Same

\* An attempt that raised leads to a first step of the same task or to the end.
LEMMA RaisedRun ==
    ASSUME NEW r \in Runs, NEW why \in Errors, r.tries <= Retries[r.task]
    PROVE  /\ Raised(r, why) \in Runs /\ Same(r, Raised(r, why))
           /\ Raised(r, why).task = r.task
           /\ Raised(r, why).tries <= Retries[r.task]
           /\ \/ Raised(r, why).state = "failed"
              \/ /\ Raised(r, why).state = r.state
                 /\ Raised(r, why).step = "start" /\ Raised(r, why).written = 0
<1> DEFINE f == Fresh(r)
<1>1. /\ f \in Runs /\ Same(r, f) /\ f.state = r.state /\ f.task = r.task
      /\ f.step = "start" /\ f.written = 0
  BY FreshRun
<1>2. r.tries \in Nat /\ Retries[r.task] \in Nat
  BY StagesConfiguration DEF Runs
<1>3. CASE r.tries < Retries[r.task]
  <2>1. Raised(r, why) = [f EXCEPT !.tries = r.tries + 1]
    BY <1>3 DEF Raised
  <2> HIDE DEF f
  <2>2. Raised(r, why) \in Runs
    BY <1>1, <1>2, <2>1, TriesRun
  <2>3. Raised(r, why).tries = r.tries + 1
    BY <1>1, <2>1 DEF Runs
  <2>4. \A field \in DOMAIN f : field # "tries" => Raised(r, why)[field] = f[field]
    BY <2>1
  <2>5. Raised(r, why).tries <= Retries[r.task]
    BY <1>2, <1>3, <2>3
  <2>6. Same(f, Raised(r, why))
    BY <1>1, <2>1 DEF Runs, Same
  <2> QED
    BY ZenonT(60), <1>1, <2>1, <2>2, <2>5, <2>6 DEF Runs, Same
<1>4. CASE ~(r.tries < Retries[r.task])
  <2>1. Raised(r, why) = [r EXCEPT !.state = "failed", !.error = why]
    BY <1>4 DEF Raised
  <2> QED
    BY <2>1 DEF Runs, Same, Ends
<1> QED
  BY <1>3, <1>4

\* The line of tasks.
LEMMA NextTaskValues ==
    /\ NextTask["generate"] = "ingest" /\ NextTask["ingest"] = "validate"
    /\ NextTask["validate"] = "quality" /\ NextTask["quality"] = "prepare"
    /\ NextTask["prepare"] = "features" /\ NextTask["features"] = "gate"
    /\ NextTask["gate"] = "register" /\ NextTask["register"] = "train"
    /\ NextTask["train"] = "finalize" /\ NextTask["finalize"] = "finalize"
BY DEF NextTask

\* An attempt that returned leads to the first step of the next task or to the
\* end.
LEMMA CompletedRun ==
    ASSUME NEW r \in Runs
    PROVE  /\ Completed(r) \in Runs
           /\ Completed(r).tries <= Retries[Completed(r).task]
           /\ Completed(r).given \in {0, r.given}
           /\ \/ Completed(r).state = "success"
              \/ /\ Completed(r).state = r.state /\ Same(r, Completed(r))
                 /\ r.task # "finalize" /\ Completed(r).task = NextTask[r.task]
                 /\ Completed(r).step = "start" /\ Completed(r).written = 0
<1> DEFINE f == Fresh(r)
<1>1. /\ f \in Runs /\ Same(r, f) /\ f.state = r.state /\ f.task = r.task
      /\ f.step = "start" /\ f.written = 0
  BY FreshRun
<1>2. Missing \in Contents /\ 0 \in Hours /\ 0 \in 0..MaxBatches
  BY StagesBounds DEF Missing, Contents, Hours
<1>3. NextTask[r.task] \in TaskNames
  BY ZenonT(60), NextTaskValues DEF Runs, TaskNames
<1>4. \A t \in TaskNames : 0 <= Retries[t]
  BY StagesConfiguration
<1>5. CASE r.task = "finalize"
  <2>1. Completed(r) = [NoRun EXCEPT !.state = "success", !.n = r.n]
    BY <1>5 DEF Completed
  <2>2. Completed(r) \in Runs
    BY <2>1, NoRunType DEF Runs, Ends
  <2> QED
    BY ZenonT(60), <1>4, <2>1, <2>2 DEF NoRun, Runs, TaskNames
<1>6. CASE r.task # "finalize"
  <2>1. Completed(r) = [f EXCEPT !.task = NextTask[r.task], !.tries = 0]
    BY <1>6 DEF Completed
  <2> HIDE DEF f
  <2>2. Completed(r) \in Runs
    BY <1>1, <1>3, <2>1 DEF Runs
  <2>3. Completed(r).task = NextTask[r.task] /\ Completed(r).tries = 0
    BY <1>1, <2>1 DEF Runs
  <2>4. Same(f, Completed(r))
    BY <1>1, <2>1 DEF Runs, Same
  <2>5. /\ Completed(r).state = f.state /\ Completed(r).step = f.step
        /\ Completed(r).written = f.written
    BY <1>1, <2>1 DEF Runs
  <2>6. Same(r, Completed(r))
    BY <1>1, <2>4 DEF Same
  <2>7. 0 <= Retries[NextTask[r.task]]
    BY <1>3, <1>4
  <2>8. Completed(r).given = r.given
    BY <2>6 DEF Same
  <2> QED
    BY <1>1, <1>6, <2>2, <2>3, <2>5, <2>6, <2>7, <2>8
<1> QED
  BY <1>5, <1>6

LEMMA FilesFacts ==
    /\ Len(Files) \in Nat \ {0}
    /\ \A n \in 1..Len(Files) : Files[n] \in Names
<1>1. Files \in Seq(STRING) /\ Files # <<>>
  BY StagesConfiguration
<1> QED
  BY <1>1 DEF Names

LEMMA BoundsFacts ==
    /\ MaxRuns \in Nat /\ MaxHour \in Nat /\ MaxRelease \in Nat /\ MaxRelease > 0
    /\ MaxFaults \in Nat /\ MaxBatches \in Nat
    /\ Missing \in Contents /\ 0 \in Hours
BY StagesBounds DEF Missing, Contents, Hours

\* What the steps read of the types.
LEMMA TypeFacts ==
    ASSUME TypeInv
    PROVE  /\ lastBatch \in Nat /\ lastBatch <= MaxBatches /\ hour \in Hours
           /\ dag \in Runs /\ dag.tries <= Retries[dag.task]
           /\ dag.given \in Nat /\ dag.given <= lastBatch /\ dag.feature \in Nat
           /\ dag.at \in Hours /\ dag.content \in Contents /\ dag.batch \in 0..MaxBatches
<1>1. lastBatch \in 0..MaxBatches /\ dag.given <= lastBatch /\ hour \in Hours
  BY DEF TypeInv, StoreTypes, Placed
<1>2. dag \in Runs /\ dag.tries <= Retries[dag.task]
  BY DEF TypeInv, Placed
<1>3. /\ dag.given \in Nat /\ dag.at \in Hours /\ dag.content \in Contents
      /\ dag.feature \in Nat /\ dag.batch \in 0..MaxBatches
  BY <1>2 DEF Runs
<1> QED
  BY <1>1, <1>2, <1>3, BoundsFacts

\* An attempt that raised leaves the run placed.
LEMMA RaisedPlaced ==
    ASSUME TypeInv, NEW why \in Errors, dag.state = "running",
           dag' = Raised(dag, why), lastBatch' = lastBatch
    PROVE  Placed'
<1>1. dag \in Runs /\ dag.tries <= Retries[dag.task]
  BY DEF TypeInv, Placed
<1>2. /\ dag' \in Runs /\ Same(dag, dag') /\ dag'.task = dag.task
      /\ dag'.tries <= Retries[dag.task]
      /\ \/ dag'.state = "failed"
         \/ dag'.state = "running" /\ dag'.step = "start" /\ dag'.written = 0
  BY <1>1, RaisedRun
<1>3. CASE dag'.state = "failed"
  BY <1>1, <1>2, <1>3 DEF TypeInv, Placed, Same, At
<1>4. CASE dag'.state = "running"
  <2>1. dag'.step = "start" /\ dag'.written = 0
    BY <1>2, <1>4
  <2>2. dag'.task = "generate" => dag'.written < Len(Files)
    BY <2>1, FilesFacts
  <2>3. Ingested(dag)' => dag'.batch \in Batches
    BY <1>2, <2>1 DEF TypeInv, Placed, Same, Ingested
  <2>4. dag'.given <= lastBatch'
    BY <1>1, <1>2 DEF TypeInv, Placed, Same
  <2>5. dag'.task = "quality" => dag'.verdict \in Statuses
    BY <1>2 DEF TypeInv, Placed, Same, At
  <2> QED
    BY <1>2, <1>4, <2>1, <2>2, <2>3, <2>4, <2>5 DEF Placed, At
<1> QED
  BY <1>2, <1>3, <1>4

\* An attempt that returned leaves the run placed.
LEMMA CompletedPlaced ==
    ASSUME TypeInv, NEW r \in Runs, r.state = "running", r.task = dag.task,
           Ingested(r) => r.batch \in Batches, r.given = dag.given,
           r.task = "validate" => r.verdict \in Statuses,
           r.task = "generate" \/ Ingested(r),
           dag' = Completed(r), lastBatch' = lastBatch
    PROVE  Placed'
<1>1. dag.given <= lastBatch /\ 0 <= lastBatch
  BY DEF TypeInv, Placed, StoreTypes
<1>2. /\ dag' \in Runs /\ dag'.tries <= Retries[dag'.task] /\ dag'.given \in {0, dag.given}
      /\ \/ dag'.state = "success"
         \/ /\ dag'.state = "running" /\ Same(r, dag') /\ dag'.step = "start"
            /\ r.task # "finalize" /\ dag'.task = NextTask[r.task]
  BY CompletedRun
<1>3. CASE dag'.state = "success"
  BY <1>1, <1>2, <1>3 DEF Placed, At
<1>4. CASE dag'.state = "running"
  <2>1. dag'.task # "generate" /\ (dag'.task = "ingest" => dag'.step = "start")
    BY ZenonT(60), <1>2, <1>4, NextTaskValues DEF Runs, TaskNames
  <2>2. Ingested(dag)' => Ingested(r)
    BY <1>2, <1>4, NextTaskValues DEF Ingested, Runs, TaskNames
  <2>3. dag'.task = "quality" => r.task = "validate"
    BY ZenonT(60), <1>2, <1>4, NextTaskValues DEF Runs, TaskNames
  <2> QED
    BY <1>1, <1>2, <1>4, <2>1, <2>2, <2>3 DEF Placed, Same, At
<1> QED
  BY <1>2, <1>3, <1>4

\* An attempt that goes on with its task leaves the run placed.
LEMMA GoesOnPlaced ==
    ASSUME TypeInv, dag.state = "running", dag' \in Runs, dag'.state = dag.state,
           dag'.task = dag.task, dag'.tries = dag.tries, dag'.given = dag.given,
           dag'.batch = dag.batch, dag'.written = dag.written, dag'.verdict = dag.verdict,
           Ingested(dag), dag.task # "ingest", lastBatch' = lastBatch
    PROVE  Placed'
BY DEF TypeInv, Placed, Ingested, At

\* Types hold initially.
LEMMA TypeInit == Init => TypeInv
<1> SUFFICES ASSUME Init PROVE TypeInv
  OBVIOUS
<1> USE BoundsFacts
<1>1. Missing \in Contents /\ 1 \in 1..MaxRelease /\ 0 \in 0..MaxBatches /\ 0 \in 0..MaxFaults
  OBVIOUS
<1>2. StoreTypes
  BY <1>1, FS_EmptySet DEF Init, StoreTypes
<1>3. dag \in Runs
  BY NoRunType DEF Init
<1>4. NoRun.task = "generate" /\ NoRun.tries = 0 /\ NoRun.given = 0 /\ NoRun.state = "idle"
  BY DEF NoRun
<1>5. 0 <= Retries["generate"]
  BY StagesConfiguration DEF TaskNames
<1>6. Placed
  BY <1>3, <1>4, <1>5 DEF Init, Placed, At
<1> QED
  BY <1>2, <1>6 DEF TypeInv

\* Types are preserved by the clock, the operator and the faults.
LEMMA TypeWorld ==
    TypeInv /\ (Tick \/ ChangeConfiguration \/ RegenerateByHand) => TypeInv'
<1> USE BoundsFacts DEF raw, outputs, learned, world
<1>1. ASSUME TypeInv, Tick PROVE TypeInv'
  BY <1>1 DEF Tick, TypeInv, StoreTypes, Placed, Ingested, At, Hours
<1>2. ASSUME TypeInv, ChangeConfiguration PROVE TypeInv'
  BY <1>2 DEF ChangeConfiguration, TypeInv, StoreTypes, Placed, Ingested, At
<1>3. ASSUME TypeInv, RegenerateByHand PROVE TypeInv'
  <2>1. landing' \in Contents
    BY <1>3 DEF RegenerateByHand, TypeInv, StoreTypes, Contents
  <2> QED
    BY <1>3, <2>1 DEF RegenerateByHand, TypeInv, StoreTypes, Placed, Ingested, At
<1> QED
  BY <1>1, <1>2, <1>3

LEMMA TypeStartRun ==
    ASSUME TypeInv, NEW given \in 0..MaxBatches, NEW generate \in BOOLEAN,
           NEW strict \in BOOLEAN, NEW split \in Splits,
           StartRun(given, generate, strict, split)
    PROVE  TypeInv'
<1> USE BoundsFacts DEF raw, outputs, learned, world
<1>1. dag' = [NoRun EXCEPT !.state = "running", !.n = dag.n + 1, !.given = given,
                           !.generate = generate, !.strict = strict, !.split = split]
  BY DEF StartRun
<1>2. dag.n + 1 \in Nat /\ given \in Nat /\ given <= lastBatch' /\ lastBatch' \in 0..MaxBatches
  <2>1. dag.n \in Nat
    BY DEF TypeInv, Placed, Runs
  <2>2. lastBatch \in 0..MaxBatches
    BY DEF TypeInv, StoreTypes
  <2>3. lastBatch' = IF given > lastBatch THEN given ELSE lastBatch
    BY DEF StartRun
  <2> QED
    BY <2>1, <2>2, <2>3
<1>3. dag' \in Runs
  BY <1>1, <1>2, NoRunType DEF Runs
<1>4. /\ dag'.state = "running" /\ dag'.given = given /\ dag'.task = "generate"
      /\ dag'.tries = 0 /\ dag'.written = 0 /\ dag'.step = "start"
  BY <1>1, NoRunType DEF Runs, NoRun
<1>5. 0 <= Retries["generate"]
  BY StagesConfiguration DEF TaskNames
<1>6. Placed'
  BY <1>2, <1>3, <1>4, <1>5, FilesFacts DEF StartRun, Placed, Ingested, At
<1> QED
  BY <1>2, <1>6 DEF StartRun, TypeInv, StoreTypes

LEMMA TypeCrash == TypeInv /\ (Crash \/ CrashWhileWriting \/ StageRaises) => TypeInv'
<1> SUFFICES ASSUME TypeInv, Crash \/ CrashWhileWriting \/ StageRaises PROVE TypeInv'
  OBVIOUS
<1> USE BoundsFacts DEF raw, outputs, learned, world
<1>1. Placed'
  <2>1. CASE Crash \/ CrashWhileWriting
    BY <2>1, RaisedPlaced DEF Crash, CrashWhileWriting, At, Errors
  <2>2. CASE StageRaises
    <3>1. dag \in Runs /\ dag.tries <= Retries[dag.task] /\ lastBatch' = lastBatch
      BY <2>2 DEF StageRaises, TypeInv, Placed
    <3>2. /\ dag' \in Runs /\ dag'.state = "failed" /\ Same(dag, dag')
          /\ dag'.task = dag.task /\ dag'.tries = dag.tries
      BY <2>2, <3>1 DEF StageRaises, Runs, Same, Ends, Errors
    <3> QED
      BY <3>1, <3>2 DEF TypeInv, Placed, Same, At
  <2> QED
    BY <2>1, <2>2
<1>2. faults' \in 0..MaxFaults
  BY DEF Crash, CrashWhileWriting, StageRaises, TypeInv, StoreTypes
<1>3. CASE Crash \/ StageRaises
  BY <1>1, <1>2, <1>3 DEF Crash, StageRaises, TypeInv, StoreTypes
<1>4. CASE CrashWhileWriting
  <2>1. /\ dag.batch \in 0..MaxBatches /\ dag.at \in Hours /\ dag.content \in Contents
        /\ dag.feature \in Nat
    BY DEF TypeInv, Placed, Runs
  <2>2. CASE At("prepare", "manifest") /\ manifests' = manifests
    <3>1. dag.batch \in Batches
      BY <2>2 DEF TypeInv, Placed, Ingested, At, TaskNames
    <3>2. preparations' = preparations \cup
              {[batch |-> dag.batch, hour |-> dag.at, content |-> dag.content, torn |-> TRUE]}
      BY <1>4, <2>2 DEF CrashWhileWriting, At
    <3>3. [batch |-> dag.batch, hour |-> dag.at, content |-> dag.content, torn |-> TRUE]
              \in Preparations
      BY <2>1, <3>1 DEF Preparations
    <3>4. preparations' \subseteq Preparations
      BY <3>2, <3>3 DEF TypeInv, StoreTypes
    <3> QED
      BY <1>1, <1>2, <1>4, <2>2, <3>4 DEF CrashWhileWriting, TypeInv, StoreTypes
  <2>3. CASE At("features", "manifest") /\ preparations' = preparations
    <3>1. manifests' = Append(manifests, [id |-> dag.feature, torn |-> TRUE])
      BY <1>4, <2>3 DEF CrashWhileWriting, At
    <3>2. [id |-> dag.feature, torn |-> TRUE] \in [id : Nat, torn : BOOLEAN]
      BY <2>1
    <3>3. manifests' \in Seq([id : Nat, torn : BOOLEAN])
      BY <3>1, <3>2 DEF TypeInv, StoreTypes
    <3> QED
      BY <1>1, <1>2, <1>4, <2>3, <3>3 DEF CrashWhileWriting, TypeInv, StoreTypes
  <2> QED
    BY <1>4, <2>2, <2>3 DEF CrashWhileWriting
<1> QED
  BY <1>3, <1>4

LEMMA TypeGenerate == TypeInv /\ (GenerateFile \/ SkipGeneration) => TypeInv'
<1> USE BoundsFacts DEF raw, outputs, learned, world
<1>1. ASSUME TypeInv, GenerateFile PROVE TypeInv'
  <2> DEFINE done == dag.written + 1
  <2>1. dag \in Runs /\ dag.task = "generate" /\ dag.state = "running"
    BY <1>1 DEF GenerateFile, At, TypeInv, Placed
  <2>2. done \in 1..Len(Files)
    <3>1. dag.written \in Nat /\ dag.written < Len(Files)
      BY <1>1, <2>1 DEF TypeInv, Placed, Runs
    <3> QED
      BY <3>1, FilesFacts
  <2>3. landing' \in Contents
    <3>1. Files[done] \in Names /\ release \in 0..MaxRelease
      BY <1>1, <2>2, FilesFacts DEF TypeInv, StoreTypes
    <3>2. landing' = [landing EXCEPT ![Files[done]] = release]
      BY <1>1 DEF GenerateFile, Landed
    <3> QED
      BY <1>1, <3>1, <3>2 DEF TypeInv, StoreTypes, Contents
  <2>4. CASE done = Len(Files)
    <3>1. dag' = Completed(dag) /\ lastBatch' = lastBatch
      BY <1>1, <2>4 DEF GenerateFile
    <3>2. Placed'
      BY <1>1, <2>1, <3>1, CompletedPlaced DEF Ingested
    <3> QED
      BY <1>1, <2>3, <3>2 DEF GenerateFile, TypeInv, StoreTypes
  <2>5. CASE done # Len(Files)
    <3>1. dag' = [dag EXCEPT !.written = done] /\ lastBatch' = lastBatch
      BY <1>1, <2>5 DEF GenerateFile
    <3>2. done \in Nat /\ done < Len(Files)
      BY <2>2, <2>5, FilesFacts
    <3>3. Placed'
      BY <1>1, <2>1, <3>1, <3>2 DEF TypeInv, Placed, Runs, Ingested, At
    <3> QED
      BY <1>1, <2>3, <3>3 DEF GenerateFile, TypeInv, StoreTypes
  <2> QED
    BY <2>4, <2>5
<1>2. ASSUME TypeInv, SkipGeneration PROVE TypeInv'
  <2>1. dag \in Runs /\ dag.task = "generate" /\ dag.state = "running"
    BY <1>2 DEF SkipGeneration, At, TypeInv, Placed
  <2>2. Placed'
    BY <1>2, <2>1, CompletedPlaced DEF SkipGeneration, Ingested
  <2> QED
    BY <1>2, <2>2 DEF SkipGeneration, TypeInv, StoreTypes
<1> QED
  BY <1>1, <1>2

\* The batch an ingestion works on, and what it stores.
LEMMA IngestedObjects ==
    ASSUME TypeInv, NEW answered \in BOOLEAN, IngestObjects(answered)
    PROVE  /\ dag'.batch = (IF dag.given = 0 THEN lastBatch + 1 ELSE dag.given)
           /\ dag'.batch \in Batches /\ dag'.batch <= lastBatch'
           /\ dag' = [dag EXCEPT !.step = "manifest", !.batch = dag'.batch, !.at = hour,
                                 !.verdict = dag'.verdict]
           /\ dag'.at = hour /\ dag'.step = "manifest"
           /\ dag'.verdict \in {"SUCCESS", "PARTIAL_SUCCESS"}
           /\ dag'.verdict = "SUCCESS" =>
                 \A f \in Names : /\ landing[f] # 0
                                  /\ objects[<<dag'.batch, hour>>][f] \in {0, landing[f]}
           /\ objects' = [objects EXCEPT ![<<dag'.batch, hour>>] =
                 [f \in Names |-> IF objects[<<dag'.batch, hour>>][f] = 0 THEN landing[f]
                                  ELSE objects[<<dag'.batch, hour>>][f]]]
<1> DEFINE batch == IF dag.given = 0 THEN lastBatch + 1 ELSE dag.given
           k == <<batch, hour>>
           complete == answered /\ \A f \in Names :
                          landing[f] # 0 /\ objects[k][f] \in {0, landing[f]}
           verdict == IF complete THEN "SUCCESS" ELSE "PARTIAL_SUCCESS"
<1>1. dag' = [dag EXCEPT !.step = "manifest", !.batch = batch, !.at = hour,
                         !.verdict = verdict]
  BY DEF IngestObjects
<1>2. dag \in Runs
  BY DEF TypeInv, Placed
<1>3. dag'.batch = batch /\ dag'.at = hour /\ dag'.step = "manifest" /\ dag'.verdict = verdict
  BY <1>1, <1>2 DEF Runs
<1>4. batch \in Batches /\ batch <= lastBatch'
  <2>1. /\ lastBatch \in Nat /\ lastBatch <= MaxBatches /\ dag.given \in Nat
        /\ dag.given <= lastBatch
    BY TypeFacts
  <2>2. dag.given = 0 => lastBatch < MaxBatches /\ lastBatch' = batch
    BY DEF IngestObjects
  <2>3. dag.given # 0 => lastBatch' = lastBatch
    BY DEF IngestObjects
  <2> QED
    BY <2>1, <2>2, <2>3, BoundsFacts DEF Batches
<1>5. objects' = [objects EXCEPT ![k] =
          [f \in Names |-> IF objects[k][f] = 0 THEN landing[f] ELSE objects[k][f]]]
  BY DEF IngestObjects
<1>6. verdict = "SUCCESS" => complete
  OBVIOUS
<1> HIDE DEF verdict
<1>7. verdict \in {"SUCCESS", "PARTIAL_SUCCESS"}
  BY DEF verdict
<1> QED
  BY <1>1, <1>3, <1>4, <1>5, <1>6, <1>7

LEMMA TypeIngestObjects ==
    ASSUME TypeInv, NEW answered \in BOOLEAN, IngestObjects(answered)
    PROVE  TypeInv'
<1> USE BoundsFacts DEF raw, outputs, learned, world
<1> DEFINE k == <<dag'.batch, hour>>
<1>1. /\ dag'.batch \in Batches
      /\ dag' = [dag EXCEPT !.step = "manifest", !.batch = dag'.batch, !.at = hour,
                            !.verdict = dag'.verdict]
      /\ dag'.verdict \in {"SUCCESS", "PARTIAL_SUCCESS"}
      /\ objects' = [objects EXCEPT ![k] =
              [f \in Names |-> IF objects[k][f] = 0 THEN landing[f] ELSE objects[k][f]]]
  BY IngestedObjects
<1>2. dag \in Runs /\ hour \in Hours /\ dag.tries <= Retries[dag.task] /\ dag.given <= lastBatch
  BY DEF TypeInv, StoreTypes, Placed
<1>3. dag'.batch \in 0..MaxBatches /\ "manifest" \in StepNames
  BY <1>1 DEF Batches, StepNames
<1>4. dag' \in Runs
  <2>1. PICK b \in 0..MaxBatches, v \in {"SUCCESS", "PARTIAL_SUCCESS"} :
          dag' = [dag EXCEPT !.step = "manifest", !.batch = b, !.at = hour, !.verdict = v]
    BY <1>1, <1>3
  <2>2. v \in Statuses \cup {"", "PARTIAL_SUCCESS"}
    BY DEF Statuses
  <2> QED
    BY <1>2, <1>3, <2>1, <2>2 DEF Runs
<1>5. /\ dag.task = "ingest" /\ dag'.task = dag.task /\ dag'.tries = dag.tries
      /\ dag'.given = dag.given /\ dag'.state = dag.state
  BY <1>1, <1>2 DEF IngestObjects, At, Runs
<1>6. lastBatch' \in 0..MaxBatches /\ dag.given <= lastBatch'
  <2>1. lastBatch \in Nat /\ dag.given \in Nat
    BY TypeFacts
  <2>2. dag'.batch = (IF dag.given = 0 THEN lastBatch + 1 ELSE dag.given)
    BY IngestedObjects
  <2>3. lastBatch' = IF dag.given = 0 THEN dag'.batch ELSE lastBatch
    BY <2>2 DEF IngestObjects
  <2> QED
    BY <1>1, <1>2, <2>1, <2>2, <2>3 DEF TypeInv, StoreTypes, Batches
<1>7. Placed'
  BY <1>1, <1>2, <1>4, <1>5, <1>6 DEF Placed, At
<1>8. objects' \in [Partitions -> Contents]
  <2>1. k \in Partitions
    BY <1>1, <1>2 DEF Partitions
  <2>2. objects[k] \in Contents /\ landing \in Contents
    BY <2>1 DEF TypeInv, StoreTypes
  <2>3. [f \in Names |-> IF objects[k][f] = 0 THEN landing[f] ELSE objects[k][f]] \in Contents
    BY <2>2 DEF Contents
  <2> QED
    BY <1>1, <2>1, <2>3 DEF TypeInv, StoreTypes
<1>9. faults' \in 0..MaxFaults
  BY DEF IngestObjects, TypeInv, StoreTypes
<1> QED
  BY <1>6, <1>7, <1>8, <1>9 DEF IngestObjects, TypeInv, StoreTypes

LEMMA TypeIngestManifest == TypeInv /\ IngestManifest => TypeInv'
<1> SUFFICES ASSUME TypeInv, IngestManifest PROVE TypeInv'
  OBVIOUS
<1> USE BoundsFacts DEF raw, outputs, learned, world
<1>1. /\ dag \in Runs /\ dag.state = "running" /\ dag.task = "ingest" /\ Ingested(dag)
      /\ dag.batch \in Batches /\ dag.verdict \in {"SUCCESS", "PARTIAL_SUCCESS"}
  BY DEF IngestManifest, TypeInv, Placed, At, Ingested
<1>2. Placed'
  BY <1>1, CompletedPlaced, RaisedPlaced DEF IngestManifest, Errors
<1>3. rawManifests' \in [Partitions -> {"none", "SUCCESS", "PARTIAL_SUCCESS"}]
  BY <1>1 DEF IngestManifest, TypeInv, StoreTypes
<1> QED
  BY <1>2, <1>3 DEF IngestManifest, TypeInv, StoreTypes

\* The run of a task after ingestion has a batch.
LEMMA TaskFacts ==
    ASSUME TypeInv, NEW task \in TaskNames \ {"generate", "ingest"}, NEW step, At(task, step)
    PROVE  /\ dag.state = "running" /\ dag.task = task /\ dag.task # "ingest"
           /\ dag.task # "generate" /\ Ingested(dag) /\ dag.batch \in Batches
           /\ dag.step = step
BY DEF TypeInv, Placed, At, Ingested

LEMMA TypeValidate ==
    ASSUME TypeInv,
           \/ ValidateStart \/ ValidateOutputs
           \/ \E status \in Statuses : ValidateManifest(status)
    PROVE  TypeInv'
<1> USE BoundsFacts DEF raw, outputs, learned, world
<1>1. "validate" \in TaskNames \ {"generate", "ingest"}
  BY DEF TaskNames
<1>2. CASE ValidateStart
  <2>1. /\ dag.state = "running" /\ dag.task = "validate" /\ Ingested(dag)
        /\ dag.batch \in Batches
    BY <1>1, <1>2, TaskFacts DEF ValidateStart
  <2>2. CASE \E why \in Errors : dag' = Raised(dag, why)
    <3>1. Placed'
      BY <1>2, <2>1, <2>2, RaisedPlaced DEF ValidateStart
    <3> QED
      BY <1>2, <3>1 DEF ValidateStart, TypeInv, StoreTypes
  <2>3. CASE \E v \in ExistingValidations(dag.batch) :
                dag' = Completed([dag EXCEPT !.verdict = v.status])
    <3>1. PICK v \in ExistingValidations(dag.batch) :
              dag' = Completed([dag EXCEPT !.verdict = v.status])
      BY <2>3
    <3>2. v.status \in Statuses
      BY DEF ExistingValidations, TypeInv, StoreTypes, Validations
    <3> DEFINE r == [dag EXCEPT !.verdict = v.status]
    <3>3. /\ r \in Runs /\ r.state = "running" /\ r.task = dag.task /\ r.given = dag.given
          /\ r.batch = dag.batch /\ r.verdict \in Statuses /\ Ingested(r)
      BY <2>1, <3>2, TypeFacts DEF Runs, Ingested
    <3>4. dag' = Completed(r) /\ lastBatch' = lastBatch
      BY <1>2, <3>1 DEF ValidateStart
    <3> HIDE DEF r
    <3>5. Placed'
      BY <2>1, <3>3, <3>4, CompletedPlaced
    <3> QED
      BY <1>2, <3>5 DEF ValidateStart, TypeInv, StoreTypes
  <2>4. CASE \E h \in RawHours(dag.batch) :
                dag' = [dag EXCEPT !.step = "outputs", !.content = objects[<<dag.batch, h>>],
                                   !.at = hour]
    <3>1. PICK h \in RawHours(dag.batch) :
              dag' = [dag EXCEPT !.step = "outputs", !.content = objects[<<dag.batch, h>>],
                                 !.at = hour]
      BY <2>4
    <3>2. objects[<<dag.batch, h>>] \in Contents
      BY <2>1 DEF RawHours, Partitions, TypeInv, StoreTypes
    <3>3. "outputs" \in StepNames
      BY DEF StepNames
    <3>4. dag' \in Runs
      BY <3>1, <3>2, <3>3, TypeFacts DEF Runs
    <3>5. Placed'
      BY <1>2, <2>1, <3>1, <3>4, TypeFacts, GoesOnPlaced DEF ValidateStart, Runs
    <3> QED
      BY <1>2, <3>5 DEF ValidateStart, TypeInv, StoreTypes
  <2> QED
    BY <1>2, <2>2, <2>3, <2>4 DEF ValidateStart, Errors
<1>3. CASE ValidateOutputs
  <2>1. /\ dag.state = "running" /\ dag.task = "validate" /\ Ingested(dag)
        /\ dag.batch \in Batches
    BY <1>1, <1>3, TaskFacts DEF ValidateOutputs
  <2>2. reports' \subseteq Partitions
    <3>1. reports \subseteq Partitions
      BY DEF TypeInv, StoreTypes
    <3>2. <<dag.batch, dag.at>> \in Partitions
      BY <2>1, TypeFacts DEF Partitions
    <3>3. reports' = reports \/ reports' = reports \cup {<<dag.batch, dag.at>>}
      BY <1>3 DEF ValidateOutputs
    <3> QED
      BY <3>1, <3>2, <3>3
  <2>3. Placed'
    <3>1. CASE dag' = Raised(dag, "output conflict")
      BY <1>3, <2>1, <3>1, RaisedPlaced DEF ValidateOutputs, Errors
    <3>2. CASE dag' = Goto(dag, "manifest")
      <4>1. "manifest" \in StepNames
        BY DEF StepNames
      <4>2. dag' \in Runs
        BY <3>2, <4>1, TypeFacts DEF Goto, Runs
      <4> QED
        BY <1>3, <2>1, <3>2, <4>2, TypeFacts, GoesOnPlaced DEF ValidateOutputs, Runs, Goto
    <3> QED
      BY <1>3, <3>1, <3>2 DEF ValidateOutputs
  <2> QED
    BY <1>3, <2>2, <2>3 DEF ValidateOutputs, TypeInv, StoreTypes
<1>4. CASE \E status \in Statuses : ValidateManifest(status)
  <2>1. PICK status \in Statuses : ValidateManifest(status)
    BY <1>4
  <2>2. /\ dag.state = "running" /\ dag.task = "validate" /\ Ingested(dag)
        /\ dag.batch \in Batches
    BY <1>1, <2>1, TaskFacts DEF ValidateManifest
  <2> DEFINE r == [dag EXCEPT !.verdict = status]
  <2>3. /\ r \in Runs /\ r.state = "running" /\ r.task = dag.task /\ r.given = dag.given
        /\ r.batch = dag.batch /\ r.verdict \in Statuses /\ Ingested(r)
    BY <2>2, TypeFacts DEF Runs, Ingested
  <2>4. dag' = Completed(r) /\ lastBatch' = lastBatch
    BY <2>1 DEF ValidateManifest
  <2> HIDE DEF r
  <2>5. Placed'
    BY <2>2, <2>3, <2>4, CompletedPlaced
  <2>6. [batch |-> dag.batch, hour |-> dag.at, content |-> dag.content, status |-> status]
            \in Validations
    BY <2>2, TypeFacts DEF Validations
  <2>7. validations' \subseteq Validations
    BY <2>1, <2>6 DEF ValidateManifest, TypeInv, StoreTypes
  <2> QED
    BY <2>1, <2>5, <2>7 DEF ValidateManifest, TypeInv, StoreTypes
<1> QED
  BY <1>2, <1>3, <1>4

\* A gate either raises or lets the run pass.
LEMMA TypeGates ==
    ASSUME TypeInv, enforce_quality_gate \/ verify_feature_store
    PROVE  TypeInv'
<1> USE BoundsFacts DEF raw, outputs, learned, world
<1>1. CASE enforce_quality_gate
  <2>1. "quality" \in TaskNames \ {"generate", "ingest"}
    BY DEF TaskNames
  <2>2. /\ dag.state = "running" /\ dag.task = "quality" /\ Ingested(dag)
        /\ dag.batch \in Batches
    BY <1>1, <2>1, TaskFacts DEF enforce_quality_gate
  <2> DEFINE r == [dag EXCEPT !.verdict = ""]
  <2>3. /\ r \in Runs /\ r.state = "running" /\ r.task = dag.task /\ r.given = dag.given
        /\ r.batch = dag.batch /\ Ingested(r)
    BY <2>2, TypeFacts DEF Runs, Ingested
  <2>4. dag' \in {Completed(r), Raised(dag, "quality gate")} /\ lastBatch' = lastBatch
    BY <1>1 DEF enforce_quality_gate
  <2> HIDE DEF r
  <2>5. Placed'
    BY <2>2, <2>3, <2>4, CompletedPlaced, RaisedPlaced DEF Errors
  <2> QED
    BY <1>1, <2>5 DEF enforce_quality_gate, TypeInv, StoreTypes
<1>2. CASE verify_feature_store
  <2>1. /\ dag.state = "running" /\ dag.task \in {"gate", "register", "finalize"}
        /\ Ingested(dag) /\ dag.batch \in Batches
    BY <1>2, TaskFacts DEF verify_feature_store, TaskNames
  <2>2. Placed'
    BY <1>2, <2>1, TypeFacts, CompletedPlaced DEF verify_feature_store
  <2> QED
    BY <1>2, <2>2 DEF verify_feature_store, TypeInv, StoreTypes
<1> QED
  BY <1>1, <1>2

LEMMA TypePrepare ==
    ASSUME TypeInv, PrepareStart \/ PrepareOutputs \/ PrepareManifest
    PROVE  TypeInv'
<1> USE BoundsFacts DEF raw, outputs, learned, world
<1>1. "prepare" \in TaskNames \ {"generate", "ingest"}
  BY DEF TaskNames
<1>2. /\ dag.state = "running" /\ dag.task = "prepare" /\ Ingested(dag)
      /\ dag.batch \in Batches
  BY <1>1, TaskFacts DEF PrepareStart, PrepareOutputs, PrepareManifest
<1>3. "outputs" \in StepNames /\ "manifest" \in StepNames
  BY DEF StepNames
<1>4. lastBatch' = lastBatch
  BY DEF PrepareStart, PrepareOutputs, PrepareManifest
<1>5. CASE dag' = Completed(dag) \/ \E why \in Errors : dag' = Raised(dag, why)
  <2>1. Placed'
    BY <1>2, <1>4, <1>5, TypeFacts, CompletedPlaced, RaisedPlaced
  <2>2. [batch |-> dag.batch, hour |-> dag.at, content |-> dag.content, torn |-> FALSE]
            \in Preparations
    BY <1>2, TypeFacts DEF Preparations
  <2>3. preparations' \subseteq Preparations
    BY <2>2 DEF PrepareStart, PrepareOutputs, PrepareManifest, TypeInv, StoreTypes
  <2>4. drafts' \subseteq Partitions
    <3>1. <<dag.batch, dag.at>> \in Partitions
      BY <1>2, TypeFacts DEF Partitions
    <3>2. drafts' \subseteq drafts \cup {<<dag.batch, dag.at>>}
      BY DEF PrepareStart, PrepareOutputs, PrepareManifest
    <3> QED
      BY <3>1, <3>2 DEF TypeInv, StoreTypes
  <2> QED
    BY <2>1, <2>3, <2>4
       DEF PrepareStart, PrepareOutputs, PrepareManifest, TypeInv, StoreTypes
<1>6. CASE PrepareStart /\ \E v \in Eligible(dag.batch) :
              dag' = [dag EXCEPT !.step = "outputs", !.content = v.content, !.at = hour]
  <2>1. PICK v \in Eligible(dag.batch) :
            dag' = [dag EXCEPT !.step = "outputs", !.content = v.content, !.at = hour]
    BY <1>6
  <2>2. v.content \in Contents
    BY DEF Eligible, TypeInv, StoreTypes, Validations
  <2>3. dag' \in Runs
    BY <1>3, <2>1, <2>2, TypeFacts DEF Runs
  <2>4. Placed'
    BY <1>2, <1>4, <2>1, <2>3, TypeFacts, GoesOnPlaced DEF Runs
  <2> QED
    BY <1>6, <2>4 DEF PrepareStart, TypeInv, StoreTypes
<1>7. CASE PrepareOutputs /\ dag' = Goto(dag, "manifest")
  <2>1. dag' \in Runs
    BY <1>3, <1>7, TypeFacts DEF Goto, Runs
  <2>2. Placed'
    BY <1>2, <1>4, <1>7, <2>1, TypeFacts, GoesOnPlaced DEF Runs, Goto
  <2>3. drafts' \subseteq Partitions
    BY ZenonT(60), <1>2, <1>7, TypeFacts DEF PrepareOutputs, TypeInv, StoreTypes, Partitions
  <2> QED
    BY <1>7, <2>2, <2>3 DEF PrepareOutputs, TypeInv, StoreTypes
<1>8. CASE PrepareStart
  BY <1>5, <1>6, <1>8 DEF PrepareStart, Errors
<1>9. CASE PrepareOutputs
  BY <1>5, <1>7, <1>9 DEF PrepareOutputs, Errors
<1>10. CASE PrepareManifest
  BY <1>5, <1>10 DEF PrepareManifest
<1> QED
  BY <1>8, <1>9, <1>10

LEMMA TypeFeatures ==
    ASSUME TypeInv, FeaturesStart \/ FeaturesPersist \/ FeaturesManifest
    PROVE  TypeInv'
<1> USE BoundsFacts DEF raw, outputs, learned, world
<1>1. "features" \in TaskNames \ {"generate", "ingest"}
  BY DEF TaskNames
<1>2. /\ dag.state = "running" /\ dag.task = "features" /\ Ingested(dag)
      /\ dag.batch \in Batches
  BY <1>1, TaskFacts DEF FeaturesStart, FeaturesPersist, FeaturesManifest
<1>3. "persist" \in StepNames /\ "manifest" \in StepNames
  BY DEF StepNames
<1>4. lastBatch' = lastBatch
  BY DEF FeaturesStart, FeaturesPersist, FeaturesManifest
<1>5. CASE \E why \in Errors : dag' = Raised(dag, why)
  <2>1. Placed'
    BY <1>2, <1>4, <1>5, RaisedPlaced
  <2>2. CASE FeaturesStart
    BY <2>1, <2>2 DEF FeaturesStart, TypeInv, StoreTypes
  <2>3. CASE FeaturesPersist /\ store' = store
    BY <2>1, <2>3 DEF FeaturesPersist, TypeInv, StoreTypes
  <2>4. CASE FeaturesPersist /\ dag' = [dag EXCEPT !.step = "manifest",
                                                  !.feature = Cardinality(store) + 1]
    <3>1. dag'.step = "manifest" /\ dag'.state = "running"
      BY <1>2, <2>4, TypeFacts DEF Runs
    <3> QED
      BY <1>5, <3>1, TypeFacts, RaisedRun
  <2>5. CASE FeaturesManifest
    <3>1. dag' = Completed(dag) /\ dag.task # "finalize"
      BY <1>2, <2>5 DEF FeaturesManifest
    <3>2. [id |-> dag.feature, torn |-> FALSE] \in [id : Nat, torn : BOOLEAN]
      BY TypeFacts
    <3>3. manifests' \in Seq([id : Nat, torn : BOOLEAN])
      BY <2>5, <3>2 DEF FeaturesManifest, TypeInv, StoreTypes
    <3> QED
      BY <2>1, <2>5, <3>3 DEF FeaturesManifest, TypeInv, StoreTypes
  <2> QED
    BY <2>2, <2>3, <2>4, <2>5 DEF FeaturesStart, FeaturesPersist, FeaturesManifest
<1>6. CASE FeaturesManifest
  <2>1. Placed'
    BY <1>2, <1>4, <1>6, TypeFacts, CompletedPlaced DEF FeaturesManifest
  <2>2. [id |-> dag.feature, torn |-> FALSE] \in [id : Nat, torn : BOOLEAN]
    BY TypeFacts
  <2>3. manifests' \in Seq([id : Nat, torn : BOOLEAN])
    BY <1>6, <2>2 DEF FeaturesManifest, TypeInv, StoreTypes
  <2> QED
    BY <1>6, <2>1, <2>3 DEF FeaturesManifest, TypeInv, StoreTypes
<1>7. CASE FeaturesStart /\ \E r \in store : dag' = Completed([dag EXCEPT !.feature = r.id])
  <2>1. PICK row \in store : dag' = Completed([dag EXCEPT !.feature = row.id])
    BY <1>7
  <2>2. row.id \in Nat
    BY DEF TypeInv, StoreTypes, Rows
  <2> DEFINE r == [dag EXCEPT !.feature = row.id]
  <2>3. /\ r \in Runs /\ r.state = "running" /\ r.task = dag.task /\ r.given = dag.given
        /\ r.batch = dag.batch /\ Ingested(r) /\ dag' = Completed(r)
    BY <1>2, <2>1, <2>2, TypeFacts DEF Runs, Ingested
  <2> HIDE DEF r
  <2>4. Placed'
    BY <1>2, <1>4, <2>3, CompletedPlaced
  <2> QED
    BY <1>7, <2>4 DEF FeaturesStart, TypeInv, StoreTypes
<1>8. CASE FeaturesStart /\ \E p \in preparations :
              dag' = [dag EXCEPT !.step = "persist", !.content = p.content]
  <2>1. PICK p \in preparations : dag' = [dag EXCEPT !.step = "persist", !.content = p.content]
    BY <1>8
  <2>2. p.content \in Contents
    BY DEF TypeInv, StoreTypes, Preparations
  <2>3. dag' \in Runs
    BY <1>3, <2>1, <2>2, TypeFacts DEF Runs
  <2>4. Placed'
    BY <1>2, <1>4, <2>1, <2>3, TypeFacts, GoesOnPlaced DEF Runs
  <2> QED
    BY <1>8, <2>4 DEF FeaturesStart, TypeInv, StoreTypes
<1>9. CASE FeaturesPersist /\ dag' = [dag EXCEPT !.step = "manifest",
                                                !.feature = Cardinality(store) + 1]
  <2> DEFINE id == Cardinality(store) + 1
             row == [id |-> id, identity |-> Identity(dag.batch, dag.content, dag.split),
                     batch |-> dag.batch, content |-> dag.content, split |-> dag.split,
                     release |-> release]
  <2>1. id \in Nat
    BY FS_CardinalityType DEF TypeInv, StoreTypes
  <2>2. dag' \in Runs
    BY <1>3, <1>9, <2>1, TypeFacts DEF Runs
  <2>3. Placed'
    BY <1>2, <1>4, <1>9, <2>2, TypeFacts, GoesOnPlaced DEF Runs
  <2>4. row \in Rows
    <3>1. dag.split \in Splits /\ release \in 1..MaxRelease
      BY TypeFacts DEF Runs, TypeInv, StoreTypes
    <3> QED
      BY <1>2, <2>1, <3>1, TypeFacts DEF Rows, Identity
  <2>5. store' \subseteq Rows /\ IsFiniteSet(store')
    <3>1. store' \in {store, store \cup {row}}
      BY <1>9 DEF FeaturesPersist, Identity
    <3>2. store \subseteq Rows /\ IsFiniteSet(store)
      BY DEF TypeInv, StoreTypes
    <3>3. IsFiniteSet(store \cup {row})
      BY <3>2, FS_AddElement
    <3> HIDE DEF row
    <3> QED
      BY <2>4, <3>1, <3>2, <3>3
  <2> QED
    BY <1>9, <2>3, <2>5 DEF FeaturesPersist, TypeInv, StoreTypes
<1>10. CASE FeaturesStart
  BY <1>5, <1>7, <1>8, <1>10 DEF FeaturesStart, Errors, find_identity
<1>11. CASE FeaturesPersist
  BY <1>5, <1>9, <1>11 DEF FeaturesPersist, Errors
<1> QED
  BY <1>6, <1>10, <1>11

LEMMA TypeTrain == TypeInv /\ (TrainStart \/ TrainSave) => TypeInv'
<1> SUFFICES ASSUME TypeInv, TrainStart \/ TrainSave PROVE TypeInv'
  OBVIOUS
<1> USE BoundsFacts DEF raw, outputs, learned, world
<1>1. "train" \in TaskNames \ {"generate", "ingest"}
  BY DEF TaskNames
<1>2. /\ dag.state = "running" /\ dag.task = "train" /\ Ingested(dag)
      /\ dag.batch \in Batches
  BY <1>1, TaskFacts DEF TrainStart, TrainSave
<1>3. CASE TrainStart
  <2>1. CASE dag' = Goto(dag, "save")
    <3>1. dag' \in Runs
      BY <2>1, TypeFacts DEF Goto, Runs, StepNames
    <3>2. Placed'
      BY <1>2, <1>3, <2>1, <3>1, TypeFacts, GoesOnPlaced DEF TrainStart, Runs, Goto
    <3> QED
      BY <1>3, <3>2 DEF TrainStart, TypeInv, StoreTypes
  <2>2. CASE dag' = Raised(dag, "no unique manifest")
    <3>1. Placed'
      BY <1>2, <1>3, <2>2, RaisedPlaced DEF TrainStart, Errors
    <3> QED
      BY <1>3, <3>1 DEF TrainStart, TypeInv, StoreTypes
  <2> QED
    BY <1>3, <2>1, <2>2 DEF TrainStart
<1>4. CASE TrainSave
  <2>1. Placed'
    BY <1>2, <1>4, TypeFacts, CompletedPlaced DEF TrainSave
  <2>2. dag.n \in Nat /\ dag.strict \in BOOLEAN /\ dag.split \in Splits /\ dag.feature \in Nat
    BY TypeFacts DEF Runs
  <2>3. [run |-> dag.n, feature |-> dag.feature, batch |-> dag.batch, strict |-> dag.strict,
         split |-> dag.split] \in Models
    BY <1>2, <2>2 DEF Models
  <2>4. models' \subseteq Models
    BY <1>4, <2>3 DEF TrainSave, TypeInv, StoreTypes
  <2> QED
    BY <1>4, <2>1, <2>4 DEF TrainSave, TypeInv, StoreTypes
<1> QED
  BY <1>3, <1>4

\* Types are preserved by every step.
LEMMA TypeStep == TypeInv /\ [Next]_vars => TypeInv'
<1> SUFFICES ASSUME TypeInv, [Next]_vars PROVE TypeInv'
  OBVIOUS
<1>1. CASE UNCHANGED vars
  BY <1>1 DEF vars, world, raw, outputs, learned, TypeInv, StoreTypes, Placed, Ingested, At
<1>2. CASE Tick \/ ChangeConfiguration \/ RegenerateByHand
  BY <1>2, TypeWorld
<1>3. CASE \E given \in 0..MaxBatches, generate, strict \in BOOLEAN, split \in Splits :
              StartRun(given, generate, strict, split)
  BY <1>3, TypeStartRun
<1>4. CASE Crash \/ CrashWhileWriting \/ StageRaises
  BY <1>4, TypeCrash
<1>5. CASE GenerateFile \/ SkipGeneration
  BY <1>5, TypeGenerate
<1>6. CASE IngestObjects(TRUE) \/ IngestObjects(FALSE)
  BY <1>6, TypeIngestObjects
<1>7. CASE IngestManifest
  BY <1>7, TypeIngestManifest
<1>8. CASE ValidateStart \/ ValidateOutputs \/ \E s \in Statuses : ValidateManifest(s)
  BY <1>8, TypeValidate
<1>9. CASE enforce_quality_gate \/ verify_feature_store
  BY <1>9, TypeGates
<1>10. CASE PrepareStart \/ PrepareOutputs \/ PrepareManifest
  BY <1>10, TypePrepare
<1>11. CASE FeaturesStart \/ FeaturesPersist \/ FeaturesManifest
  BY <1>11, TypeFeatures
<1>12. CASE TrainStart \/ TrainSave
  BY <1>12, TypeTrain
<1> QED
  BY <1>1, <1>2, <1>3, <1>4, <1>5, <1>6, <1>7, <1>8, <1>9, <1>10, <1>11, <1>12 DEF Next, Step

\* The state of the pipeline keeps its types, and a task is never attempted more
\* often than Airflow grants it.
THEOREM StagesTypeCorrect == Spec => []TypeOK
<1>1. Init => TypeInv
  BY TypeInit
<1>2. TypeInv /\ [Next]_vars => TypeInv'
  BY TypeStep
<1>3. TypeInv => TypeOK
  <2> SUFFICES ASSUME TypeInv PROVE TypeOK
    OBVIOUS
  <2>1. dag \in Runs /\ dag.tries <= Retries[dag.task]
    BY TypeFacts
  <2> QED
    BY <2>1 DEF TypeInv, StoreTypes, TypeOK, Validations, Preparations
<1> QED
  BY <1>1, <1>2, <1>3, PTL DEF Spec

-----------------------------------------------------------------------------
(***************************************************************************)
(* The invariant.                                                          *)
(***************************************************************************)

RawWith(b, c) == \E h \in RawHours(b) : objects[<<b, h>>] = c
ValidWith(b, status) == \E v \in validations : v.batch = b /\ v.status = status
EligibleWith(b, c) == \E v \in Eligible(b) : v.content = c
PreparedWith(b, c) == \E p \in preparations : p.batch = b /\ p.content = c /\ ~p.torn
RowWith(id, b, s) == \E r \in store : r.id = id /\ r.batch = b /\ r.split = s

IdentityOf(r) == <<r.batch, r.content, r.split, r.release>>

\* What the recorded artifacts were derived from.
RawComplete ==
    \A k \in Partitions : rawManifests[k] = "SUCCESS" => \A f \in Names : objects[k][f] # 0
ValidatedFromRaw == \A v \in validations : RawWith(v.batch, v.content)
OneValidation == \A v, w \in validations : v.batch = w.batch => v = w
PreparedFromValidated == \A p \in preparations : EligibleWith(p.batch, p.content)
StoredFromPrepared ==
    \A r \in store : r.identity = IdentityOf(r) /\ PreparedWith(r.batch, r.content)
RowsDiffer ==
    /\ \A r \in store : r.id <= Cardinality(store)
    /\ \A r, s \in store : r.id = s.id \/ r.identity = s.identity => r = s
TrainedFromStored ==
    \A m \in models :
        RowWith(m.feature, m.batch, m.split) /\ (m.strict => ValidWith(m.batch, "SUCCESS"))

Derived ==
    /\ RawComplete /\ ValidatedFromRaw /\ OneValidation /\ PreparedFromValidated
    /\ StoredFromPrepared /\ RowsDiffer /\ TrainedFromStored

Late == {"gate", "register", "train", "finalize"}

\* What the run relies on between a step that reads and one that writes.
IngestRun ==
    At("ingest", "manifest") /\ dag.verdict = "SUCCESS" =>
        \A f \in Names : objects[<<dag.batch, dag.at>>][f] # 0
ValidateRun ==
    At("validate", "outputs") \/ At("validate", "manifest") =>
        ExistingValidations(dag.batch) = {} /\ RawWith(dag.batch, dag.content)
QualityRun ==
    dag.state = "running" /\ dag.task = "quality" => ValidWith(dag.batch, dag.verdict)
StrictRun ==
    dag.state = "running" /\ dag.task \in {"prepare", "features"} \cup Late /\ dag.strict =>
        ValidWith(dag.batch, "SUCCESS")
PrepareRun ==
    At("prepare", "outputs") \/ At("prepare", "manifest") => EligibleWith(dag.batch, dag.content)
PersistRun == At("features", "persist") => PreparedWith(dag.batch, dag.content)
FeatureRun ==
    (dag.state = "running" /\ dag.task \in Late) \/ At("features", "manifest") =>
        RowWith(dag.feature, dag.batch, dag.split)

Relies ==
    IngestRun /\ ValidateRun /\ QualityRun /\ StrictRun /\ PrepareRun /\ PersistRun /\ FeatureRun

LineageInv == TypeInv /\ Derived /\ Relies

-----------------------------------------------------------------------------
(***************************************************************************)
(* Records are only added.                                                 *)
(***************************************************************************)

Grows ==
    /\ \A k \in Partitions : rawManifests[k] = "SUCCESS" =>
          rawManifests'[k] = "SUCCESS" /\ objects'[k] = objects[k]
    /\ validations \subseteq validations' /\ preparations \subseteq preparations'
    /\ store \subseteq store' /\ models \subseteq models'

\* What was derived stays derived.
LEMMA GrowsFacts ==
    ASSUME Grows, NEW b \in Batches
    PROVE  /\ \A c : RawWith(b, c) => RawWith(b, c)'
           /\ \A s : ValidWith(b, s) => ValidWith(b, s)'
           /\ \A c : EligibleWith(b, c) => EligibleWith(b, c)'
           /\ \A c : PreparedWith(b, c) => PreparedWith(b, c)'
           /\ \A id, s : RowWith(id, b, s) => RowWith(id, b, s)'
<1>1. ASSUME NEW c, RawWith(b, c) PROVE RawWith(b, c)'
  <2>1. PICK h \in RawHours(b) : objects[<<b, h>>] = c
    BY <1>1 DEF RawWith
  <2>2. <<b, h>> \in Partitions /\ rawManifests[<<b, h>>] = "SUCCESS" /\ h \in Hours
    BY DEF RawHours, Partitions
  <2> QED
    BY <2>1, <2>2 DEF Grows, RawWith, RawHours
<1>2. \A s : ValidWith(b, s) => ValidWith(b, s)'
  BY DEF Grows, ValidWith
<1>3. \A c : EligibleWith(b, c) => EligibleWith(b, c)'
  BY DEF Grows, EligibleWith, Eligible
<1>4. \A c : PreparedWith(b, c) => PreparedWith(b, c)'
  BY DEF Grows, PreparedWith
<1>5. \A id, s : RowWith(id, b, s) => RowWith(id, b, s)'
  BY DEF Grows, RowWith
<1> QED
  BY <1>1, <1>2, <1>3, <1>4, <1>5

\* A step that leaves the records alone.
LEMMA GrowsUnchanged ==
    ASSUME UNCHANGED <<objects, rawManifests, validations, preparations, store, models>>
    PROVE  Grows
BY DEF Grows

\* Ingestion stores into a partition that has no manifest of success, or one
\* that holds every file already.
LEMMA GrowsIngest ==
    ASSUME LineageInv, NEW answered \in BOOLEAN, IngestObjects(answered)
    PROVE  Grows
<1> DEFINE k == <<dag'.batch, hour>>
<1>1. /\ objects' = [objects EXCEPT ![k] =
              [f \in Names |-> IF objects[k][f] = 0 THEN landing[f] ELSE objects[k][f]]]
      /\ k \in Partitions
  BY IngestedObjects, TypeFacts DEF LineageInv, Partitions
<1>2. ASSUME rawManifests[k] = "SUCCESS" PROVE objects'[k] = objects[k]
  <2>1. objects[k] \in Contents /\ objects \in [Partitions -> Contents]
    BY <1>1 DEF LineageInv, TypeInv, StoreTypes
  <2>2. \A f \in Names : objects[k][f] # 0
    BY <1>1, <1>2 DEF LineageInv, Derived, RawComplete
  <2>3. objects'[k] =
          [f \in Names |-> IF objects[k][f] = 0 THEN landing[f] ELSE objects[k][f]]
    BY <1>1, <2>1
  <2> QED
    BY <2>1, <2>2, <2>3 DEF Contents
<1>3. \A q \in Partitions : q # k => objects'[q] = objects[q]
  BY <1>1 DEF LineageInv, TypeInv, StoreTypes
<1> QED
  BY <1>2, <1>3 DEF IngestObjects, outputs, learned, Grows

LEMMA GrowsStep == LineageInv /\ [Next]_vars => Grows
<1> SUFFICES ASSUME LineageInv, [Next]_vars PROVE Grows
  OBVIOUS
<1> USE DEF raw, outputs, learned, world
<1>1. CASE \/ UNCHANGED vars \/ Tick \/ ChangeConfiguration \/ RegenerateByHand
           \/ \E given \in 0..MaxBatches, generate, strict \in BOOLEAN, split \in Splits :
                  StartRun(given, generate, strict, split)
           \/ Crash \/ StageRaises \/ GenerateFile \/ SkipGeneration
  BY <1>1, GrowsUnchanged DEF vars, Tick, ChangeConfiguration, RegenerateByHand, StartRun,
                              Crash, StageRaises, GenerateFile, SkipGeneration
<1>2. CASE \/ ValidateStart \/ ValidateOutputs \/ enforce_quality_gate \/ PrepareStart
           \/ PrepareOutputs \/ FeaturesStart \/ FeaturesManifest \/ verify_feature_store
           \/ TrainStart
  BY <1>2, GrowsUnchanged
     DEF ValidateStart, ValidateOutputs, enforce_quality_gate, PrepareStart, PrepareOutputs,
         FeaturesStart, FeaturesManifest, verify_feature_store, TrainStart
<1>3. CASE IngestObjects(TRUE) \/ IngestObjects(FALSE)
  BY <1>3, GrowsIngest
<1>4. CASE IngestManifest
  <2>1. \A k \in Partitions : rawManifests[k] = "SUCCESS" => rawManifests'[k] = "SUCCESS"
    BY <1>4 DEF IngestManifest, LineageInv, TypeInv, StoreTypes
  <2> QED
    BY <1>4, <2>1 DEF IngestManifest, Grows
<1>5. CASE CrashWhileWriting \/ PrepareManifest
  BY <1>5 DEF CrashWhileWriting, PrepareManifest, Grows
<1>6. CASE \E s \in Statuses : ValidateManifest(s)
  BY <1>6 DEF ValidateManifest, Grows
<1>7. CASE FeaturesPersist
  BY <1>7 DEF FeaturesPersist, Grows
<1>8. CASE TrainSave
  BY <1>8 DEF TrainSave, Grows
<1> QED
  BY <1>1, <1>2, <1>3, <1>4, <1>5, <1>6, <1>7, <1>8 DEF Next, Step

-----------------------------------------------------------------------------
(***************************************************************************)
(* What the run relies on, after each kind of attempt.                     *)
(***************************************************************************)

\* After an attempt that raised the run relies on no more than before.
LEMMA RaisedRelies ==
    ASSUME LineageInv, Grows, NEW why \in Errors, dag.state = "running",
           dag' = Raised(dag, why)
    PROVE  Relies'
<1>1. /\ Same(dag, dag') /\ dag'.task = dag.task
      /\ \/ dag'.state = "failed"
         \/ dag'.state = "running" /\ dag'.step = "start"
  BY TypeFacts, RaisedRun DEF LineageInv
<1>2. CASE dag'.state = "failed"
  BY <1>2 DEF Relies, IngestRun, ValidateRun, QualityRun, StrictRun, PrepareRun, PersistRun,
              FeatureRun, At
<1>3. CASE dag'.state = "running" /\ dag'.step = "start"
  <2>1. /\ dag'.batch = dag.batch /\ dag'.verdict = dag.verdict /\ dag'.strict = dag.strict
        /\ dag'.feature = dag.feature /\ dag'.split = dag.split
    BY <1>1 DEF Same
  <2>2. IngestRun' /\ ValidateRun' /\ PrepareRun' /\ PersistRun'
    BY <1>3 DEF IngestRun, ValidateRun, PrepareRun, PersistRun, At
  <2>3. ASSUME dag.task \in TaskNames \ {"generate", "ingest"} PROVE dag.batch \in Batches
    BY <2>3 DEF LineageInv, TypeInv, Placed, Ingested
  <2>4. QualityRun'
    <3>1. SUFFICES ASSUME dag.task = "quality" PROVE ValidWith(dag.batch, dag.verdict)'
      BY <1>1, <2>1 DEF QualityRun
    <3>2. ValidWith(dag.batch, dag.verdict) /\ dag.batch \in Batches
      BY <2>3, <3>1 DEF LineageInv, Relies, QualityRun, TaskNames
    <3> QED
      BY <2>1, <3>2, GrowsFacts DEF ValidWith
  <2>5. StrictRun'
    <3>1. SUFFICES ASSUME dag.task \in {"prepare", "features"} \cup Late, dag.strict
                   PROVE  ValidWith(dag.batch, "SUCCESS")'
      BY <1>1, <2>1 DEF StrictRun
    <3>2. ValidWith(dag.batch, "SUCCESS") /\ dag.batch \in Batches
      BY <2>3, <3>1 DEF LineageInv, Relies, StrictRun, TaskNames, Late
    <3> QED
      BY <2>1, <3>2, GrowsFacts DEF ValidWith
  <2>6. FeatureRun'
    <3>1. SUFFICES ASSUME dag.task \in Late PROVE RowWith(dag.feature, dag.batch, dag.split)'
      BY <1>1, <1>3, <2>1 DEF FeatureRun, At
    <3>2. RowWith(dag.feature, dag.batch, dag.split) /\ dag.batch \in Batches
      BY <2>3, <3>1 DEF LineageInv, Relies, FeatureRun, TaskNames, Late
    <3> QED
      BY <2>1, <3>2, GrowsFacts DEF RowWith
  <2> QED
    BY <2>2, <2>4, <2>5, <2>6 DEF Relies
<1> QED
  BY <1>1, <1>2, <1>3

\* After an attempt that returned the run relies on what the attempt recorded.
LEMMA CompletedRelies ==
    ASSUME NEW r \in Runs, dag' = Completed(r), r.batch \in Batches,
           r.task = "validate" => ValidWith(r.batch, r.verdict)',
           r.task \in {"quality", "prepare", "features"} \cup Late /\ r.strict =>
               ValidWith(r.batch, "SUCCESS")',
           r.task \in {"features"} \cup Late => RowWith(r.feature, r.batch, r.split)'
    PROVE  Relies'
<1>1. \/ dag'.state = "success"
      \/ /\ dag'.state = r.state /\ Same(r, dag') /\ dag'.step = "start"
         /\ r.task # "finalize" /\ dag'.task = NextTask[r.task]
  BY CompletedRun
<1>2. CASE dag'.state = "success"
  BY <1>2 DEF Relies, IngestRun, ValidateRun, QualityRun, StrictRun, PrepareRun, PersistRun,
              FeatureRun, At
<1>3. CASE dag'.state # "success"
  <2>1. /\ dag'.batch = r.batch /\ dag'.verdict = r.verdict /\ dag'.strict = r.strict
        /\ dag'.split = r.split
        /\ dag'.feature = r.feature /\ dag'.step = "start" /\ dag'.task = NextTask[r.task]
        /\ r.task # "finalize"
    BY <1>1, <1>3 DEF Same
  <2>2. r.task \in TaskNames
    BY DEF Runs
  <2>3. IngestRun' /\ ValidateRun' /\ PrepareRun' /\ PersistRun'
    BY <2>1 DEF IngestRun, ValidateRun, PrepareRun, PersistRun, At
  <2>4. dag'.task = "quality" => r.task = "validate"
    BY <2>1, <2>2, NextTaskValues DEF TaskNames
  <2>5. dag'.task \in {"prepare", "features"} \cup Late =>
            r.task \in {"quality", "prepare", "features"} \cup Late
    BY <2>1, <2>2, NextTaskValues DEF TaskNames, Late
  <2>6. dag'.task \in Late => r.task \in {"features"} \cup Late
    BY <2>1, <2>2, NextTaskValues DEF TaskNames, Late
  <2>7. QualityRun'
    BY <2>1, <2>4 DEF QualityRun, ValidWith
  <2>8. StrictRun'
    BY <2>1, <2>5 DEF StrictRun, ValidWith
  <2>9. FeatureRun'
    BY <2>1, <2>6 DEF FeatureRun, RowWith, At
  <2> QED
    BY <2>3, <2>7, <2>8, <2>9 DEF Relies
<1> QED
  BY <1>1, <1>2, <1>3

\* The clock, the operator and a new run: nothing is relied on that was not.
LEMMA WorldRelies ==
    ASSUME LineageInv,
           \/ UNCHANGED vars \/ Tick \/ ChangeConfiguration \/ RegenerateByHand
           \/ \E given \in 0..MaxBatches, generate, strict \in BOOLEAN, split \in Splits :
                  StartRun(given, generate, strict, split)
           \/ GenerateFile \/ SkipGeneration
    PROVE  Relies'
<1> USE DEF raw, outputs, learned, world
<1>1. CASE UNCHANGED vars \/ Tick \/ ChangeConfiguration \/ RegenerateByHand
  <2>1. UNCHANGED <<dag, objects, rawManifests, validations, preparations, store>>
    BY <1>1 DEF vars, Tick, ChangeConfiguration, RegenerateByHand
  <2> QED
    BY <2>1 DEF LineageInv, Relies, IngestRun, ValidateRun, QualityRun, StrictRun, PrepareRun,
                PersistRun, FeatureRun, At, ExistingValidations, RawWith, RawHours, ValidWith,
                EligibleWith, Eligible, PreparedWith, RowWith
<1>2. ASSUME dag'.state = "running", dag'.task \in {"generate", "ingest"}, dag'.step = "start"
      PROVE  Relies'
  BY <1>2 DEF Relies, IngestRun, ValidateRun, QualityRun, StrictRun, PrepareRun, PersistRun,
              FeatureRun, At, Late
<1>3. CASE \E given \in 0..MaxBatches, generate, strict \in BOOLEAN, split \in Splits :
               StartRun(given, generate, strict, split)
  <2>1. PICK given \in 0..MaxBatches, generate \in BOOLEAN, strict \in BOOLEAN, split \in Splits :
            StartRun(given, generate, strict, split)
    BY <1>3
  <2>2. dag' = [NoRun EXCEPT !.state = "running", !.n = dag.n + 1, !.given = given,
                             !.generate = generate, !.strict = strict, !.split = split]
    BY <2>1 DEF StartRun
  <2>3. dag'.state = "running" /\ dag'.task = "generate" /\ dag'.step = "start"
    BY <2>2 DEF NoRun
  <2> QED
    BY <1>2, <2>3
<1>4. CASE GenerateFile \/ SkipGeneration
  <2>1. /\ dag \in Runs /\ dag.state = "running" /\ dag.task = "generate"
        /\ dag.step = "start"
    BY <1>4, TypeFacts DEF GenerateFile, SkipGeneration, At, LineageInv
  <2>2. CASE dag' = Completed(dag)
    <3>1. \/ dag'.state = "success"
          \/ dag'.state = "running" /\ dag'.task = "ingest" /\ dag'.step = "start"
      BY <2>1, <2>2, CompletedRun, NextTaskValues
    <3>2. CASE dag'.state = "success"
      BY <3>2 DEF Relies, IngestRun, ValidateRun, QualityRun, StrictRun, PrepareRun, PersistRun,
                  FeatureRun, At
    <3> QED
      BY <1>2, <3>1, <3>2
  <2>3. CASE \E done \in Nat : dag' = [dag EXCEPT !.written = done]
    <3>1. /\ dag'.state = "running" /\ dag'.task = "generate" /\ dag'.step = "start"
      BY <2>1, <2>3 DEF Runs
    <3> QED
      BY <1>2, <3>1
  <2>4. dag.written + 1 \in Nat
    <3>1. dag.written \in Nat
      BY <2>1 DEF Runs
    <3> QED
      BY <3>1
  <2> QED
    BY <1>4, <2>2, <2>3, <2>4 DEF GenerateFile, SkipGeneration
<1> QED
  BY <1>1, <1>3, <1>4

LEMMA IngestRelies ==
    ASSUME LineageInv, Grows,
           IngestManifest \/ \E answered \in BOOLEAN : IngestObjects(answered)
    PROVE  Relies'
<1>1. CASE \E answered \in BOOLEAN : IngestObjects(answered)
  <2>1. PICK answered \in BOOLEAN : IngestObjects(answered)
    BY <1>1
  <2> DEFINE k == <<dag'.batch, hour>>
  <2>2. /\ dag'.at = hour /\ dag'.step = "manifest" /\ k \in Partitions
        /\ dag'.verdict = "SUCCESS" =>
              \A f \in Names : landing[f] # 0 /\ objects[k][f] \in {0, landing[f]}
        /\ objects' = [objects EXCEPT ![k] =
              [f \in Names |-> IF objects[k][f] = 0 THEN landing[f] ELSE objects[k][f]]]
        /\ dag' = [dag EXCEPT !.step = "manifest", !.batch = dag'.batch, !.at = hour,
                              !.verdict = dag'.verdict]
    BY <2>1, IngestedObjects, TypeFacts DEF LineageInv, Partitions
  <2>3. dag'.task = "ingest"
    BY <2>1, <2>2, TypeFacts DEF IngestObjects, At, Runs, LineageInv
  <2>4. ASSUME dag'.verdict = "SUCCESS", NEW f \in Names
        PROVE  objects'[k][f] # 0
    <3>1. objects'[k][f] = IF objects[k][f] = 0 THEN landing[f] ELSE objects[k][f]
      BY <2>2 DEF LineageInv, TypeInv, StoreTypes
    <3> QED
      BY <2>2, <2>4, <3>1
  <2>5. IngestRun'
    BY <2>2, <2>4 DEF IngestRun
  <2> QED
    BY <2>3, <2>5 DEF Relies, IngestRun, ValidateRun, QualityRun, StrictRun, PrepareRun,
                      PersistRun, FeatureRun, At, Late
<1>2. CASE IngestManifest
  <2>1. /\ dag.state = "running" /\ dag.task = "ingest" /\ dag \in Runs
        /\ dag.batch \in Batches
    BY <1>2, TypeFacts DEF IngestManifest, At, LineageInv, TypeInv, Placed, Ingested
  <2>2. CASE dag' = Completed(dag)
    BY <2>1, <2>2, CompletedRelies DEF Late
  <2>3. CASE dag' = Raised(dag, "ingestion")
    BY <2>1, <2>3, RaisedRelies DEF Errors
  <2> QED
    BY <1>2, <2>2, <2>3 DEF IngestManifest
<1> QED
  BY <1>1, <1>2

LEMMA ValidateRelies ==
    ASSUME LineageInv, Grows,
           \/ ValidateStart \/ ValidateOutputs
           \/ \E status \in Statuses : ValidateManifest(status)
    PROVE  Relies'
<1>1. "validate" \in TaskNames \ {"generate", "ingest"}
  BY DEF TaskNames
<1>2. /\ dag.state = "running" /\ dag.task = "validate" /\ dag.batch \in Batches
      /\ dag \in Runs
  BY <1>1, TaskFacts, TypeFacts DEF ValidateStart, ValidateOutputs, ValidateManifest, LineageInv
<1>b. PICK b \in Batches : b = dag.batch
  BY <1>2
<1> USE DEF raw, outputs, learned, world
<1>3. CASE \E why \in Errors : dag' = Raised(dag, why)
  BY <1>2, <1>3, RaisedRelies
<1>4. ASSUME NEW status \in Statuses, dag' = Completed([dag EXCEPT !.verdict = status]),
             ValidWith(b, status)'
      PROVE  Relies'
  <2> DEFINE r == [dag EXCEPT !.verdict = status]
  <2>1. /\ r \in Runs /\ r.batch = dag.batch /\ r.verdict = status /\ r.task = "validate"
    BY <1>2 DEF Runs
  <2>2. dag' = Completed(r)
    BY <1>4
  <2> HIDE DEF r
  <2>3. PICK q \in Runs : q = r
    BY <2>1
  <2>4. ValidWith(q.batch, q.verdict)'
    BY <1>4, <1>b, <2>1, <2>3
  <2> QED
    BY <1>2, <2>1, <2>2, <2>3, <2>4, CompletedRelies DEF Late
<1>5. ASSUME dag'.state = "running", dag'.task = "validate", dag'.step \in {"outputs", "manifest"},
             ExistingValidations(dag.batch)' = {}, RawWith(dag.batch, dag.content)'
      PROVE  Relies'
  BY <1>5 DEF Relies, IngestRun, ValidateRun, QualityRun, StrictRun, PrepareRun, PersistRun,
              FeatureRun, At, Late, ExistingValidations, RawWith, RawHours
<1>6. CASE ValidateStart
  <2>1. CASE \E v \in ExistingValidations(dag.batch) :
                 dag' = Completed([dag EXCEPT !.verdict = v.status])
    <3>1. PICK v \in ExistingValidations(dag.batch) :
              dag' = Completed([dag EXCEPT !.verdict = v.status])
      BY <2>1
    <3>2. v \in validations /\ v.batch = dag.batch
      BY DEF ExistingValidations
    <3>3. v.status \in Statuses
      BY <3>2 DEF LineageInv, TypeInv, StoreTypes, Validations
    <3>4. ValidWith(b, v.status)'
      BY <1>6, <1>b, <3>2 DEF ValidateStart, ValidWith
    <3> QED
      BY <1>4, <3>1, <3>3, <3>4
  <2>2. CASE /\ ExistingValidations(dag.batch) = {}
             /\ \E h \in RawHours(dag.batch) :
                  dag' = [dag EXCEPT !.step = "outputs", !.content = objects[<<dag.batch, h>>],
                                     !.at = hour]
    <3>1. PICK h \in RawHours(dag.batch) :
              dag' = [dag EXCEPT !.step = "outputs", !.content = objects[<<dag.batch, h>>],
                                 !.at = hour]
      BY <2>2
    <3>2. /\ dag'.state = "running" /\ dag'.task = "validate" /\ dag'.step = "outputs"
          /\ dag'.batch = dag.batch /\ dag'.content = objects[<<dag.batch, h>>]
      BY <1>2, <3>1 DEF Runs
    <3>3. UNCHANGED <<objects, rawManifests, validations>>
      BY <1>6 DEF ValidateStart
    <3>4. RawWith(dag.batch, dag.content)'
      BY <3>2, <3>3 DEF RawWith, RawHours
    <3>5. ExistingValidations(dag.batch)' = {}
      BY <2>2, <3>2, <3>3 DEF ExistingValidations
    <3> QED
      BY <1>5, <3>2, <3>4, <3>5
  <2> QED
    BY <1>3, <1>6, <2>1, <2>2 DEF ValidateStart, Errors
<1>7. CASE ValidateOutputs
  <2>1. CASE dag' = Goto(dag, "manifest")
    <3>1. /\ dag'.state = "running" /\ dag'.task = "validate" /\ dag'.step = "manifest"
          /\ dag'.batch = dag.batch /\ dag'.content = dag.content
      BY <1>2, <2>1 DEF Runs, Goto
    <3>2. UNCHANGED <<objects, rawManifests, validations>>
      BY <1>7 DEF ValidateOutputs
    <3>3. ExistingValidations(dag.batch) = {} /\ RawWith(dag.batch, dag.content)
      BY <1>7 DEF ValidateOutputs, LineageInv, Relies, ValidateRun
    <3>4. RawWith(dag.batch, dag.content)'
      BY <3>1, <3>2, <3>3 DEF RawWith, RawHours
    <3>5. ExistingValidations(dag.batch)' = {}
      BY <3>1, <3>2, <3>3 DEF ExistingValidations
    <3> QED
      BY <1>5, <3>1, <3>4, <3>5
  <2> QED
    BY <1>3, <1>7, <2>1 DEF ValidateOutputs, Errors
<1>8. CASE \E status \in Statuses : ValidateManifest(status)
  <2>1. PICK status \in Statuses : ValidateManifest(status)
    BY <1>8
  <2>2. [batch |-> dag.batch, hour |-> dag.at, content |-> dag.content, status |-> status]
            \in validations'
    BY <2>1 DEF ValidateManifest
  <2>3. ValidWith(b, status)'
    BY <1>b, <2>2 DEF ValidWith
  <2> QED
    BY <1>4, <2>1, <2>3 DEF ValidateManifest
<1> QED
  BY <1>6, <1>7, <1>8

\* What a run after the quality gate relies on is kept by growth.
LEMMA KeptRelies ==
    ASSUME LineageInv, Grows, dag.state = "running", dag.batch \in Batches,
           NEW b \in Batches, b = dag.batch
    PROVE  /\ dag.task \in {"prepare", "features"} \cup Late /\ dag.strict =>
                 ValidWith(b, "SUCCESS")'
           /\ dag.task \in Late \/ At("features", "manifest") =>
                 \E id \in Nat, s \in Splits :
                     id = dag.feature /\ s = dag.split /\ RowWith(id, b, s)'
<1>1. dag.task \in {"prepare", "features"} \cup Late /\ dag.strict => ValidWith(b, "SUCCESS")
  BY DEF LineageInv, Relies, StrictRun
<1>2. dag.task \in Late \/ At("features", "manifest") => RowWith(dag.feature, b, dag.split)
  BY DEF LineageInv, Relies, FeatureRun
<1>3. PICK id \in Nat, s \in Splits : id = dag.feature /\ s = dag.split
  BY TypeFacts DEF LineageInv, Runs
<1>4. RowWith(id, b, s) => RowWith(id, b, s)'
  BY GrowsFacts
<1>5. ValidWith(b, "SUCCESS") => ValidWith(b, "SUCCESS")'
  BY GrowsFacts
<1> QED
  BY <1>1, <1>2, <1>3, <1>4, <1>5

LEMMA GatesRelies ==
    ASSUME LineageInv, Grows, enforce_quality_gate \/ verify_feature_store
    PROVE  Relies'
<1>1. "quality" \in TaskNames \ {"generate", "ingest"} /\ "finalize" \in TaskNames
  BY DEF TaskNames
<1>2. /\ dag.state = "running" /\ dag.batch \in Batches /\ dag \in Runs
      /\ dag.task \in {"quality", "gate", "register", "finalize"}
  BY TaskFacts, TypeFacts DEF enforce_quality_gate, verify_feature_store, LineageInv, TaskNames
<1>b. PICK b \in Batches : b = dag.batch
  BY <1>2
<1>3. CASE enforce_quality_gate
  <2>1. dag.task = "quality"
    BY <1>3 DEF enforce_quality_gate, At
  <2>2. CASE dag' = Raised(dag, "quality gate")
    BY <1>2, <2>2, RaisedRelies DEF Errors
  <2>3. CASE /\ ~Rejected(dag.verdict, dag.strict)
             /\ dag' = Completed([dag EXCEPT !.verdict = ""])
    <3>1. PICK q \in Runs : q = [dag EXCEPT !.verdict = ""]
      BY <1>2 DEF Runs
    <3>2. q.task = "quality" /\ q.batch = b /\ q.strict = dag.strict
      BY <1>2, <1>b, <2>1, <3>1 DEF Runs
    <3>3. dag.strict => ValidWith(b, "SUCCESS")
      BY <1>2, <1>b, <2>1, <2>3 DEF Rejected, LineageInv, Relies, QualityRun
    <3>4. ValidWith(b, "SUCCESS") => ValidWith(b, "SUCCESS")'
      BY GrowsFacts
    <3>5. q.strict => ValidWith(q.batch, "SUCCESS")'
      BY <3>2, <3>3, <3>4
    <3> QED
      BY <1>b, <2>3, <3>1, <3>2, <3>5, CompletedRelies DEF Late
  <2> QED
    BY <1>3, <2>2, <2>3 DEF enforce_quality_gate
<1>4. CASE verify_feature_store
  <2>1. dag.task \in Late /\ dag' = Completed(dag)
    BY <1>4 DEF verify_feature_store, Late
  <2>2. PICK q \in Runs : q = dag
    BY <1>2
  <2>3. /\ q.strict => ValidWith(q.batch, "SUCCESS")'
        /\ RowWith(q.feature, q.batch, q.split)'
    BY <1>2, <1>b, <2>1, <2>2, KeptRelies DEF Late
  <2> QED
    BY <1>2, <2>1, <2>2, <2>3, CompletedRelies DEF Late
<1> QED
  BY <1>3, <1>4

LEMMA PrepareRelies ==
    ASSUME LineageInv, Grows, PrepareStart \/ PrepareOutputs \/ PrepareManifest
    PROVE  Relies'
<1>1. "prepare" \in TaskNames \ {"generate", "ingest"}
  BY DEF TaskNames
<1>2. /\ dag.state = "running" /\ dag.task = "prepare" /\ dag.batch \in Batches
      /\ dag \in Runs
  BY <1>1, TaskFacts, TypeFacts DEF PrepareStart, PrepareOutputs, PrepareManifest, LineageInv
<1>b. PICK b \in Batches : b = dag.batch
  BY <1>2
<1> USE DEF raw, outputs, learned, world
<1>3. CASE \E why \in Errors : dag' = Raised(dag, why)
  BY <1>2, <1>3, RaisedRelies
<1>4. CASE dag' = Completed(dag)
  <2>1. PICK q \in Runs : q = dag
    BY <1>2
  <2>2. q.strict => ValidWith(q.batch, "SUCCESS")'
    BY <1>2, <1>b, <2>1, KeptRelies
  <2> QED
    BY <1>2, <1>4, <2>1, <2>2, CompletedRelies DEF Late
<1>5. ASSUME dag'.state = "running", dag'.task = "prepare", dag'.step \in {"outputs", "manifest"},
             Same(dag, dag'), EligibleWith(dag.batch, dag.content)'
      PROVE  Relies'
  <2>1. dag'.batch = b /\ dag'.strict = dag.strict
    BY <1>b, <1>5 DEF Same
  <2>2. dag.strict => ValidWith(b, "SUCCESS")'
    BY <1>2, <1>b, KeptRelies
  <2>3. StrictRun'
    BY <2>1, <2>2 DEF StrictRun
  <2>4. PrepareRun'
    BY <1>5 DEF PrepareRun
  <2> QED
    BY <1>5, <2>3, <2>4 DEF Relies, IngestRun, ValidateRun, QualityRun, PersistRun, FeatureRun,
                            At, Late
<1>6. CASE PrepareStart /\ \E v \in Eligible(dag.batch) :
              dag' = [dag EXCEPT !.step = "outputs", !.content = v.content, !.at = hour]
  <2>1. PICK v \in Eligible(dag.batch) :
            dag' = [dag EXCEPT !.step = "outputs", !.content = v.content, !.at = hour]
    BY <1>6
  <2>2. /\ dag'.state = "running" /\ dag'.task = "prepare" /\ dag'.step = "outputs"
        /\ dag'.content = v.content /\ Same(dag, dag')
    BY <1>2, <2>1 DEF Runs, Same
  <2>3. EligibleWith(dag.batch, dag.content)'
    BY <1>6, <2>2 DEF PrepareStart, EligibleWith, Eligible, Same
  <2> QED
    BY <1>5, <2>2, <2>3
<1>7. CASE PrepareOutputs /\ dag' = Goto(dag, "manifest")
  <2>1. /\ dag'.state = "running" /\ dag'.task = "prepare" /\ dag'.step = "manifest"
        /\ dag'.content = dag.content /\ Same(dag, dag')
    BY <1>2, <1>7 DEF Goto, Runs, Same
  <2>2. EligibleWith(dag.batch, dag.content)
    BY <1>7 DEF PrepareOutputs, LineageInv, Relies, PrepareRun
  <2>3. EligibleWith(dag.batch, dag.content)'
    BY <1>7, <2>1, <2>2 DEF PrepareOutputs, EligibleWith, Eligible, Same
  <2> QED
    BY <1>5, <2>1, <2>3
<1>8. CASE PrepareStart
  BY <1>3, <1>4, <1>6, <1>8 DEF PrepareStart, Errors
<1>9. CASE PrepareOutputs
  BY <1>3, <1>7, <1>9 DEF PrepareOutputs, Errors
<1>10. CASE PrepareManifest
  BY <1>4, <1>10 DEF PrepareManifest
<1> QED
  BY <1>8, <1>9, <1>10

LEMMA FeaturesRelies ==
    ASSUME LineageInv, Grows, FeaturesStart \/ FeaturesPersist \/ FeaturesManifest
    PROVE  Relies'
<1>1. "features" \in TaskNames \ {"generate", "ingest"}
  BY DEF TaskNames
<1>2. /\ dag.state = "running" /\ dag.task = "features" /\ dag.batch \in Batches
      /\ dag \in Runs
  BY <1>1, TaskFacts, TypeFacts DEF FeaturesStart, FeaturesPersist, FeaturesManifest, LineageInv
<1>b. PICK b \in Batches : b = dag.batch
  BY <1>2
<1> USE DEF raw, outputs, learned, world
<1>3. CASE \E why \in Errors : dag' = Raised(dag, why)
  BY <1>2, <1>3, RaisedRelies
<1>4. dag.strict => ValidWith(b, "SUCCESS")'
  BY <1>2, <1>b, KeptRelies
<1>5. CASE FeaturesStart
  <2>1. CASE \E p \in preparations :
               /\ p.batch = dag.batch /\ ~p.torn
               /\ dag' = [dag EXCEPT !.step = "persist", !.content = p.content]
    <3>1. PICK p \in preparations :
               /\ p.batch = dag.batch /\ ~p.torn
               /\ dag' = [dag EXCEPT !.step = "persist", !.content = p.content]
      BY <2>1
    <3>2. /\ dag'.state = "running" /\ dag'.task = "features" /\ dag'.step = "persist"
          /\ dag'.content = p.content /\ Same(dag, dag')
      BY <1>2, <3>1 DEF Runs, Same
    <3>3. PersistRun'
      BY <1>5, <3>1, <3>2 DEF FeaturesStart, PersistRun, PreparedWith, Same
    <3>4. StrictRun'
      BY <1>b, <1>4, <3>2 DEF StrictRun, Same
    <3> QED
      BY <3>2, <3>3, <3>4 DEF Relies, IngestRun, ValidateRun, QualityRun, PrepareRun, FeatureRun,
                              At, Late
  <2>2. CASE \E p \in preparations :
             \E r \in find_identity(Identity(p.batch, p.content, dag.split)) :
               p.batch = dag.batch /\ dag' = Completed([dag EXCEPT !.feature = r.id])
    <3>0. PICK p \in preparations :
             \E r \in find_identity(Identity(p.batch, p.content, dag.split)) :
               p.batch = dag.batch /\ dag' = Completed([dag EXCEPT !.feature = r.id])
      BY <2>2
    <3>1. PICK r \in find_identity(Identity(p.batch, p.content, dag.split)) :
               p.batch = dag.batch /\ dag' = Completed([dag EXCEPT !.feature = r.id])
      BY <3>0
    <3>2. r \in store /\ r.identity = <<p.batch, p.content, dag.split, release>>
      BY DEF find_identity, Identity
    <3>3. r.identity = IdentityOf(r) /\ r.id \in Nat
      BY <3>2 DEF LineageInv, Derived, StoredFromPrepared, TypeInv, StoreTypes, Rows
    <3>4. r.batch = b /\ r.split = dag.split
      BY <1>b, <3>1, <3>2, <3>3 DEF IdentityOf
    <3>5. PICK q \in Runs : q = [dag EXCEPT !.feature = r.id]
      BY <1>2, <3>3 DEF Runs
    <3>6. /\ q.feature = r.id /\ q.batch = b /\ q.task = "features" /\ q.strict = dag.strict
          /\ q.split = dag.split
      BY <1>2, <1>b, <3>5 DEF Runs
    <3>7. RowWith(q.feature, q.batch, q.split)'
      BY <1>5, <3>2, <3>4, <3>6 DEF FeaturesStart, RowWith
    <3>8. q.strict => ValidWith(q.batch, "SUCCESS")'
      BY <1>4, <3>6
    <3> QED
      BY <3>1, <3>5, <3>6, <3>7, <3>8, CompletedRelies DEF Late
  <2> QED
    BY <1>3, <1>5, <2>1, <2>2 DEF FeaturesStart, Errors
<1>6. CASE FeaturesPersist
  <2> DEFINE id == Cardinality(store) + 1
             row == [id |-> id, identity |-> Identity(dag.batch, dag.content, dag.split),
                     batch |-> dag.batch, content |-> dag.content, split |-> dag.split,
                     release |-> release]
  <2>1. CASE dag' = [dag EXCEPT !.step = "manifest", !.feature = id] /\ store' = store \cup {row}
    <3>1. id \in Nat
      BY FS_CardinalityType DEF LineageInv, TypeInv, StoreTypes
    <3>2. /\ dag'.state = "running" /\ dag'.task = "features" /\ dag'.step = "manifest"
          /\ dag'.feature = id /\ dag'.batch = dag.batch /\ dag'.strict = dag.strict
          /\ dag'.split = dag.split
      BY <1>2, <2>1, <3>1 DEF Runs
    <3>3. row.id = id /\ row.batch = dag.batch /\ row.split = dag.split /\ row \in store'
      BY <2>1
    <3> HIDE DEF id, row
    <3>4. FeatureRun'
      BY <3>2, <3>3 DEF FeatureRun, RowWith
    <3>5. StrictRun'
      BY <1>b, <1>4, <3>2 DEF StrictRun
    <3> QED
      BY <3>2, <3>4, <3>5 DEF Relies, IngestRun, ValidateRun, QualityRun, PrepareRun, PersistRun,
                              At, Late
  <2> QED
    BY <1>3, <1>6, <2>1 DEF FeaturesPersist, Identity, Errors
<1>7. CASE FeaturesManifest
  <2>1. PICK q \in Runs : q = dag
    BY <1>2
  <2>2. q.strict => ValidWith(q.batch, "SUCCESS")'
    BY <1>b, <1>4, <2>1
  <2>3. RowWith(q.feature, q.batch, q.split)'
    BY <1>2, <1>7, <1>b, <2>1, KeptRelies DEF FeaturesManifest
  <2> QED
    BY <1>2, <1>7, <2>1, <2>2, <2>3, CompletedRelies DEF FeaturesManifest, Late
<1> QED
  BY <1>5, <1>6, <1>7

LEMMA TrainRelies ==
    ASSUME LineageInv, Grows, TrainStart \/ TrainSave
    PROVE  Relies'
<1>1. "train" \in TaskNames \ {"generate", "ingest"}
  BY DEF TaskNames
<1>2. /\ dag.state = "running" /\ dag.task = "train" /\ dag.batch \in Batches
      /\ dag \in Runs
  BY <1>1, TaskFacts, TypeFacts DEF TrainStart, TrainSave, LineageInv
<1>b. PICK b \in Batches : b = dag.batch
  BY <1>2
<1>3. PICK q \in Runs : q = dag
  BY <1>2
<1>4. (q.strict => ValidWith(q.batch, "SUCCESS")') /\ RowWith(q.feature, q.batch, q.split)'
  BY <1>2, <1>b, <1>3, KeptRelies DEF Late
<1>5. CASE dag' = Raised(dag, "no unique manifest")
  BY <1>2, <1>5, RaisedRelies DEF Errors
<1>6. CASE dag' = Completed(dag)
  BY <1>2, <1>3, <1>4, <1>6, CompletedRelies DEF Late
<1>7. CASE dag' = Goto(dag, "save")
  <2>1. /\ dag'.task = "train" /\ dag'.step = "save" /\ dag'.feature = q.feature
        /\ dag'.batch = q.batch /\ dag'.strict = q.strict /\ dag'.split = q.split
    BY <1>2, <1>3, <1>7 DEF Goto, Runs
  <2>2. StrictRun' /\ FeatureRun'
    BY <1>4, <2>1 DEF StrictRun, FeatureRun
  <2> QED
    BY <2>1, <2>2 DEF Relies, IngestRun, ValidateRun, QualityRun, PrepareRun, PersistRun, At
<1> QED
  BY <1>5, <1>6, <1>7 DEF TrainStart, TrainSave

LEMMA ReliesStep == LineageInv /\ [Next]_vars => Relies'
<1> SUFFICES ASSUME LineageInv, [Next]_vars PROVE Relies'
  OBVIOUS
<1>1. Grows
  BY GrowsStep
<1>2. CASE \/ UNCHANGED vars \/ Tick \/ ChangeConfiguration \/ RegenerateByHand
           \/ \E given \in 0..MaxBatches, generate, strict \in BOOLEAN, split \in Splits :
                  StartRun(given, generate, strict, split)
           \/ GenerateFile \/ SkipGeneration
  BY <1>2, WorldRelies
<1>3. CASE Crash \/ CrashWhileWriting
  <2>1. dag.state = "running" /\ dag' = Raised(dag, "crash") /\ "crash" \in Errors
    BY <1>3 DEF Crash, CrashWhileWriting, At, Errors
  <2> QED
    BY <1>1, <2>1, RaisedRelies
<1>10. CASE StageRaises
  <2>1. dag \in Runs
    BY TypeFacts DEF LineageInv
  <2>2. dag'.state = "failed"
    BY <1>10, <2>1 DEF StageRaises, Runs
  <2> QED
    BY <2>2 DEF Relies, IngestRun, ValidateRun, QualityRun, StrictRun, PrepareRun, PersistRun,
                FeatureRun, At
<1>4. CASE IngestManifest \/ IngestObjects(TRUE) \/ IngestObjects(FALSE)
  BY <1>1, <1>4, IngestRelies
<1>5. CASE ValidateStart \/ ValidateOutputs \/ \E s \in Statuses : ValidateManifest(s)
  BY <1>1, <1>5, ValidateRelies
<1>6. CASE enforce_quality_gate \/ verify_feature_store
  BY <1>1, <1>6, GatesRelies
<1>7. CASE PrepareStart \/ PrepareOutputs \/ PrepareManifest
  BY <1>1, <1>7, PrepareRelies
<1>8. CASE FeaturesStart \/ FeaturesPersist \/ FeaturesManifest
  BY <1>1, <1>8, FeaturesRelies
<1>9. CASE TrainStart \/ TrainSave
  BY <1>1, <1>9, TrainRelies
<1> QED
  BY <1>2, <1>3, <1>4, <1>5, <1>6, <1>7, <1>8, <1>9, <1>10 DEF Next, Step

-----------------------------------------------------------------------------
(***************************************************************************)
(* What the recorded artifacts were derived from.                          *)
(***************************************************************************)

\* Where a step records.
LEMMA Recorded ==
    ASSUME [Next]_vars
    PROVE  /\ \/ UNCHANGED objects \/ \E answered \in BOOLEAN : IngestObjects(answered)
           /\ UNCHANGED rawManifests \/ IngestManifest
           /\ UNCHANGED validations \/ \E s \in Statuses : ValidateManifest(s)
           /\ UNCHANGED preparations \/ PrepareManifest \/ CrashWhileWriting
           /\ UNCHANGED store \/ FeaturesPersist
           /\ UNCHANGED models \/ TrainSave
<1> USE DEF raw, outputs, learned, world
<1>1. CASE \/ UNCHANGED vars \/ Tick \/ ChangeConfiguration \/ RegenerateByHand
           \/ \E given \in 0..MaxBatches, generate, strict \in BOOLEAN, split \in Splits :
                  StartRun(given, generate, strict, split)
           \/ Crash \/ StageRaises \/ GenerateFile \/ SkipGeneration
  BY <1>1 DEF vars, Tick, ChangeConfiguration, RegenerateByHand, StartRun, Crash,
              StageRaises, GenerateFile, SkipGeneration
<1>2. CASE \/ ValidateStart \/ ValidateOutputs \/ enforce_quality_gate \/ PrepareStart
           \/ PrepareOutputs \/ FeaturesStart \/ FeaturesManifest \/ verify_feature_store
           \/ TrainStart
  BY <1>2 DEF ValidateStart, ValidateOutputs, enforce_quality_gate, PrepareStart,
              PrepareOutputs, FeaturesStart, FeaturesManifest, verify_feature_store, TrainStart
<1>3. CASE \/ CrashWhileWriting \/ IngestObjects(TRUE) \/ IngestObjects(FALSE)
           \/ IngestManifest \/ \E s \in Statuses : ValidateManifest(s)
  BY <1>3 DEF CrashWhileWriting, IngestObjects, IngestManifest, ValidateManifest
<1>4. CASE PrepareManifest \/ FeaturesPersist \/ TrainSave
  BY <1>4 DEF PrepareManifest, FeaturesPersist, TrainSave
<1> QED
  BY <1>1, <1>2, <1>3, <1>4 DEF Next, Step

LEMMA RawCompleteStep == LineageInv /\ [Next]_vars => RawComplete'
<1> SUFFICES ASSUME LineageInv, [Next]_vars, NEW k \in Partitions, rawManifests'[k] = "SUCCESS",
                    NEW f \in Names
             PROVE  objects'[k][f] # 0
  BY DEF RawComplete
<1>1. Grows
  BY GrowsStep
<1>2. CASE rawManifests[k] = "SUCCESS"
  BY <1>1, <1>2 DEF Grows, LineageInv, Derived, RawComplete
<1>3. CASE rawManifests[k] # "SUCCESS"
  <2>1. IngestManifest
    BY <1>3, Recorded
  <2>2. objects' = objects /\ At("ingest", "manifest")
    BY <2>1 DEF IngestManifest
  <2>3. k = <<dag.batch, dag.at>> /\ dag.verdict = "SUCCESS"
    BY <1>3, <2>1 DEF IngestManifest, LineageInv, TypeInv, StoreTypes
  <2> QED
    BY <2>2, <2>3 DEF LineageInv, Relies, IngestRun
<1> QED
  BY <1>2, <1>3

LEMMA ValidationsStep ==
    LineageInv /\ [Next]_vars => ValidatedFromRaw' /\ OneValidation'
<1> SUFFICES ASSUME LineageInv, [Next]_vars PROVE ValidatedFromRaw' /\ OneValidation'
  OBVIOUS
<1>1. Grows
  BY GrowsStep
<1>2. \A v \in validations : v.batch \in Batches /\ RawWith(v.batch, v.content)'
  <2> TAKE v \in validations
  <2>1. v.batch \in Batches /\ RawWith(v.batch, v.content)
    BY DEF LineageInv, TypeInv, StoreTypes, Validations, Derived, ValidatedFromRaw
  <2> QED
    BY <1>1, <2>1, GrowsFacts
<1>3. CASE UNCHANGED validations
  BY <1>2, <1>3 DEF ValidatedFromRaw, LineageInv, Derived, OneValidation
<1>4. CASE \E s \in Statuses : ValidateManifest(s)
  <2>1. PICK s \in Statuses : ValidateManifest(s)
    BY <1>4
  <2>2. PICK new : /\ new = [batch |-> dag.batch, hour |-> dag.at, content |-> dag.content,
                            status |-> s]
                   /\ validations' = validations \cup {new}
    BY <2>1 DEF ValidateManifest
  <2>3. /\ new.batch = dag.batch /\ new.content = dag.content
    BY <2>2
  <2>4. ExistingValidations(dag.batch) = {} /\ RawWith(dag.batch, dag.content)
    BY <2>1 DEF ValidateManifest, LineageInv, Relies, ValidateRun
  <2>5. \A v \in validations : v.batch # new.batch
    BY <2>3, <2>4 DEF ExistingValidations
  <2>6. dag.batch \in Batches
    BY <2>1, TaskFacts DEF ValidateManifest, LineageInv, TaskNames
  <2>7. RawWith(new.batch, new.content)'
    BY <1>1, <2>3, <2>4, <2>6, GrowsFacts
  <2>8. ValidatedFromRaw'
    BY <1>2, <2>2, <2>7 DEF ValidatedFromRaw
  <2>9. OneValidation'
    BY <2>2, <2>5 DEF LineageInv, Derived, OneValidation
  <2> QED
    BY <2>8, <2>9
<1> QED
  BY <1>3, <1>4, Recorded

LEMMA PreparationsStep == LineageInv /\ [Next]_vars => PreparedFromValidated'
<1> SUFFICES ASSUME LineageInv, [Next]_vars PROVE PreparedFromValidated'
  OBVIOUS
<1>1. Grows
  BY GrowsStep
<1>2. \A p \in preparations : EligibleWith(p.batch, p.content)'
  <2> TAKE p \in preparations
  <2>1. p.batch \in Batches /\ EligibleWith(p.batch, p.content)
    BY DEF LineageInv, TypeInv, StoreTypes, Preparations, Derived, PreparedFromValidated
  <2> QED
    BY <1>1, <2>1, GrowsFacts
<1>3. CASE UNCHANGED preparations
  BY <1>2, <1>3 DEF PreparedFromValidated
<1>4. ASSUME At("prepare", "manifest"), NEW new, new.batch = dag.batch,
             new.content = dag.content, preparations' = preparations \cup {new}
      PROVE  PreparedFromValidated'
  <2>1. dag.batch \in Batches
    BY <1>4, TaskFacts DEF LineageInv, TaskNames
  <2>2. EligibleWith(dag.batch, dag.content)
    BY <1>4 DEF LineageInv, Relies, PrepareRun
  <2>3. EligibleWith(new.batch, new.content)'
    BY <1>1, <1>4, <2>1, <2>2, GrowsFacts
  <2> QED
    BY <1>2, <1>4, <2>3 DEF PreparedFromValidated
<1>5. CASE PrepareManifest \/ (CrashWhileWriting /\ ~UNCHANGED preparations)
  <2>1. PICK torn \in BOOLEAN :
          /\ At("prepare", "manifest")
          /\ preparations' = preparations \cup
                {[batch |-> dag.batch, hour |-> dag.at, content |-> dag.content, torn |-> torn]}
    BY <1>5 DEF PrepareManifest, CrashWhileWriting
  <2> QED
    BY <1>4, <2>1
<1> QED
  BY <1>3, <1>5, Recorded

LEMMA StoreStep == LineageInv /\ [Next]_vars => StoredFromPrepared' /\ RowsDiffer'
<1> SUFFICES ASSUME LineageInv, [Next]_vars PROVE StoredFromPrepared' /\ RowsDiffer'
  OBVIOUS
<1>1. Grows
  BY GrowsStep
<1>2. \A r \in store : r.identity = IdentityOf(r) /\ PreparedWith(r.batch, r.content)'
  <2> TAKE r \in store
  <2>1. /\ r.batch \in Batches /\ r.identity = IdentityOf(r)
        /\ PreparedWith(r.batch, r.content)
    BY DEF LineageInv, TypeInv, StoreTypes, Rows, Derived, StoredFromPrepared
  <2> QED
    BY <1>1, <2>1, GrowsFacts
<1>3. CASE UNCHANGED store
  BY <1>2, <1>3 DEF StoredFromPrepared, LineageInv, Derived, RowsDiffer
<1>4. CASE FeaturesPersist /\ store' # store
  <2> DEFINE id == Cardinality(store) + 1
  <2>1. PICK row : /\ row = [id |-> id, identity |-> Identity(dag.batch, dag.content, dag.split),
                            batch |-> dag.batch, content |-> dag.content, split |-> dag.split,
                            release |-> release]
                   /\ store' = store \cup {row}
                   /\ find_identity(Identity(dag.batch, dag.content, dag.split)) = {}
    BY <1>4 DEF FeaturesPersist, Identity
  <2>2. /\ row.id = id /\ row.identity = Identity(dag.batch, dag.content, dag.split)
        /\ row.batch = dag.batch /\ row.content = dag.content
        /\ row.split = dag.split /\ row.release = release
    BY <2>1
  <2>3. PreparedWith(dag.batch, dag.content) /\ dag.batch \in Batches
    BY <1>4, TaskFacts DEF FeaturesPersist, LineageInv, Relies, PersistRun, TaskNames
  <2>4. PreparedWith(row.batch, row.content)'
    BY <1>1, <2>2, <2>3, GrowsFacts
  <2>5. StoredFromPrepared'
    BY <1>2, <2>1, <2>2, <2>4 DEF StoredFromPrepared, Identity, IdentityOf
  <2>6. Cardinality(store) \in Nat /\ IsFiniteSet(store)
    BY FS_CardinalityType DEF LineageInv, TypeInv, StoreTypes
  <2>7. \A r \in store : r.id \in Nat /\ r.id <= Cardinality(store)
    BY DEF LineageInv, TypeInv, StoreTypes, Rows, Derived, RowsDiffer
  <2>8. row \notin store
    BY <2>2, <2>6, <2>7
  <2>9. Cardinality(store') = id
    BY <2>1, <2>6, <2>8, FS_AddElement
  <2>10. \A r \in store : r.identity # row.identity /\ r.id # row.id
    BY <2>1, <2>2, <2>6, <2>7 DEF find_identity
  <2>11. \A r \in store' : r.id <= Cardinality(store')
    BY <2>1, <2>2, <2>6, <2>7, <2>9
  <2>12. \A r, s \in store' : r.id = s.id \/ r.identity = s.identity => r = s
    BY <2>1, <2>10 DEF LineageInv, Derived, RowsDiffer
  <2> QED
    BY <2>5, <2>11, <2>12 DEF RowsDiffer
<1> QED
  BY <1>3, <1>4, Recorded

LEMMA ModelsStep == LineageInv /\ [Next]_vars => TrainedFromStored'
<1> SUFFICES ASSUME LineageInv, [Next]_vars PROVE TrainedFromStored'
  OBVIOUS
<1>1. Grows
  BY GrowsStep
<1>2. \A m \in models :
        RowWith(m.feature, m.batch, m.split)' /\ (m.strict => ValidWith(m.batch, "SUCCESS")')
  <2> TAKE m \in models
  <2>1. /\ m.batch \in Batches /\ RowWith(m.feature, m.batch, m.split)
        /\ m.strict => ValidWith(m.batch, "SUCCESS")
    BY DEF LineageInv, TypeInv, StoreTypes, Models, Derived, TrainedFromStored
  <2> QED
    BY <1>1, <2>1, GrowsFacts
<1>3. CASE UNCHANGED models
  BY <1>2, <1>3 DEF TrainedFromStored
<1>4. CASE TrainSave
  <2>1. PICK m : /\ m = [run |-> dag.n, feature |-> dag.feature, batch |-> dag.batch,
                        strict |-> dag.strict, split |-> dag.split]
                 /\ models' = models \cup {m}
    BY <1>4 DEF TrainSave
  <2>2. dag.state = "running" /\ dag.task = "train" /\ dag.batch \in Batches
    BY <1>4, TaskFacts DEF TrainSave, LineageInv, TaskNames
  <2>3. PICK b \in Batches : b = dag.batch
    BY <2>2
  <2>4. RowWith(m.feature, b, m.split)' /\ (m.strict => ValidWith(b, "SUCCESS")')
    BY <1>1, <2>1, <2>2, <2>3, KeptRelies DEF Late
  <2> QED
    BY <1>2, <2>1, <2>3, <2>4 DEF TrainedFromStored
<1> QED
  BY <1>3, <1>4, Recorded

\* The invariant is inductive.
LEMMA LineageInvInductive ==
    /\ Init => LineageInv
    /\ LineageInv /\ [Next]_vars => LineageInv'
<1>1. ASSUME Init PROVE LineageInv
  <2>1. TypeInv
    BY <1>1, TypeInit
  <2>2. Derived
    BY <1>1, FS_EmptySet DEF Init, Derived, RawComplete, ValidatedFromRaw, OneValidation,
       PreparedFromValidated, StoredFromPrepared, RowsDiffer, TrainedFromStored
  <2>3. dag.state # "running"
    BY <1>1 DEF Init, NoRun
  <2>4. Relies
    BY <2>3 DEF Relies, IngestRun, ValidateRun, QualityRun, StrictRun, PrepareRun, PersistRun,
                FeatureRun, At
  <2> QED
    BY <2>1, <2>2, <2>4 DEF LineageInv
<1>2. LineageInv /\ [Next]_vars => LineageInv'
  BY TypeStep, ReliesStep, RawCompleteStep, ValidationsStep, PreparationsStep, StoreStep,
     ModelsStep DEF LineageInv, Derived
<1> QED
  BY <1>1, <1>2

-----------------------------------------------------------------------------
(***************************************************************************)
(* Theorems.                                                               *)
(***************************************************************************)

LEMMA LineageInvariant == Spec => []LineageInv
<1>1. Init => LineageInv
  BY LineageInvInductive
<1>2. LineageInv /\ [Next]_vars => LineageInv'
  BY LineageInvInductive
<1> QED
  BY <1>1, <1>2, PTL DEF Spec

\* Every artifact in the feature warehouse goes back to raw files of its batch.
LEMMA StoredFromRaw ==
    ASSUME LineageInv, NEW r \in store
    PROVE  \E v \in validations :
              /\ v.batch = r.batch /\ v.content = r.content /\ RawWith(r.batch, r.content)
<1>1. PICK p \in preparations : p.batch = r.batch /\ p.content = r.content
  BY DEF LineageInv, Derived, StoredFromPrepared, PreparedWith
<1>2. PICK v \in Eligible(p.batch) : v.content = p.content
  BY DEF LineageInv, Derived, PreparedFromValidated, EligibleWith
<1>3. v \in validations /\ v.batch = p.batch
  BY DEF Eligible
<1>4. RawWith(v.batch, v.content)
  BY <1>3 DEF LineageInv, Derived, ValidatedFromRaw
<1> QED
  BY <1>1, <1>2, <1>3, <1>4

\* The features of a batch are stored in the warehouse once for a split and a
\* configuration, whatever crashed, was retried or was run again: all files a
\* batch is ever prepared from are the same.
THEOREM FeatureBatchIsUnique == Spec => []FeaturesStoredOnce
<1>1. LineageInv => FeaturesStoredOnce
  <2> SUFFICES ASSUME LineageInv, NEW r \in store, NEW s \in store, r.batch = s.batch,
                      r.split = s.split, r.release = s.release
               PROVE  r = s
    BY DEF FeaturesStoredOnce
  <2>1. PICK v \in validations : v.batch = r.batch /\ v.content = r.content
    BY StoredFromRaw
  <2>2. PICK w \in validations : w.batch = s.batch /\ w.content = s.content
    BY StoredFromRaw
  <2>3. r.content = s.content
    BY <2>1, <2>2 DEF LineageInv, Derived, OneValidation
  <2>4. r.identity = s.identity
    BY <2>3 DEF LineageInv, Derived, StoredFromPrepared, IdentityOf
  <2> QED
    BY <2>4 DEF LineageInv, Derived, RowsDiffer
<1> QED
  BY <1>1, LineageInvariant, PTL

\* A model comes from a feature batch of the batch its run ingested and of the
\* split its run was given, computed from raw files of that batch.
THEOREM TrainingIsOnOwnBatch == Spec => []TrainedOnOwnBatch
<1>1. LineageInv => TrainedOnOwnBatch
  <2> SUFFICES ASSUME LineageInv, NEW m \in models
               PROVE  \E r \in store :
                         /\ r.id = m.feature /\ r.batch = m.batch /\ r.split = m.split
                         /\ \E h \in RawHours(m.batch) : r.content = objects[<<m.batch, h>>]
    BY DEF TrainedOnOwnBatch
  <2>1. PICK r \in store : r.id = m.feature /\ r.batch = m.batch /\ r.split = m.split
    BY DEF LineageInv, Derived, TrainedFromStored, RowWith
  <2>2. RawWith(r.batch, r.content)
    BY StoredFromRaw
  <2> QED
    BY <2>1, <2>2 DEF RawWith
<1> QED
  BY <1>1, LineageInvariant, PTL

\* A strict run trains on a batch that validated without any issue only.
THEOREM StrictTrainingIsClean == Spec => []StrictRunsTrainOnCleanBatches
<1>1. LineageInv => StrictRunsTrainOnCleanBatches
  BY DEF LineageInv, Derived, TrainedFromStored, ValidWith, StrictRunsTrainOnCleanBatches
<1> QED
  BY <1>1, LineageInvariant, PTL

-----------------------------------------------------------------------------
(***************************************************************************)
(* The refinement.                                                         *)
(***************************************************************************)

artifacts ==
    <<RawArtifacts, ValidatedArtifacts, PreparedArtifacts, StoredArtifacts, TrainedArtifacts>>

\* Steps that record nothing.
LEMMA QuietStutters ==
    ASSUME UNCHANGED <<objects, rawManifests, validations, preparations, store, models>>
    PROVE  UNCHANGED artifacts
BY DEF artifacts, RawArtifacts, ValidatedArtifacts, PreparedArtifacts, StoredArtifacts,
       TrainedArtifacts

\* Storing raw files shows in no artifact before their manifest.
LEMMA IngestObjectsStutters ==
    ASSUME LineageInv, NEW answered \in BOOLEAN, IngestObjects(answered)
    PROVE  UNCHANGED artifacts
<1>1. Grows
  BY GrowsIngest
<1>2. UNCHANGED <<rawManifests, validations, preparations, store, models>>
  BY DEF IngestObjects, outputs, learned
<1>3. RawArtifacts' = RawArtifacts
  BY <1>1, <1>2 DEF Grows, RawArtifacts
<1> QED
  BY <1>2, <1>3 DEF artifacts, ValidatedArtifacts, PreparedArtifacts, StoredArtifacts,
                    TrainedArtifacts

LEMMA IngestManifestRefines ==
    ASSUME LineageInv, IngestManifest
    PROVE  (\E a \in Promise!Artifacts : Promise!Ingest(a)) \/ UNCHANGED artifacts
<1> DEFINE k == <<dag.batch, dag.at>>
<1>1. UNCHANGED <<objects, validations, preparations, store, models>>
  BY DEF IngestManifest, world, outputs, learned
<1>2. /\ ValidatedArtifacts' = ValidatedArtifacts /\ PreparedArtifacts' = PreparedArtifacts
      /\ StoredArtifacts' = StoredArtifacts /\ TrainedArtifacts' = TrainedArtifacts
  BY <1>1 DEF ValidatedArtifacts, PreparedArtifacts, StoredArtifacts, TrainedArtifacts
<1>3. dag.batch \in Batches /\ k \in Partitions /\ objects[k] \in Contents
  <2>1. dag.batch \in Batches
    BY DEF IngestManifest, LineageInv, TypeInv, Placed, Ingested, At
  <2>2. k \in Partitions
    BY <2>1, TypeFacts DEF LineageInv, Partitions
  <2> QED
    BY <2>1, <2>2 DEF LineageInv, TypeInv, StoreTypes
<1>4. CASE rawManifests[k] = "none" /\ dag.verdict = "SUCCESS"
  <2>1. rawManifests' = [rawManifests EXCEPT ![k] = "SUCCESS"]
    BY <1>4 DEF IngestManifest
  <2>2. \A q \in Partitions : rawManifests'[q] = "SUCCESS" <=> rawManifests[q] = "SUCCESS" \/ q = k
    BY <1>3, <2>1 DEF LineageInv, TypeInv, StoreTypes
  <2>3. RawArtifacts' = RawArtifacts \cup {<<k[1], objects[k]>>}
    BY <1>1, <1>3, <2>2 DEF RawArtifacts
  <2>4. <<k[1], objects[k]>> \in Promise!Artifacts
    BY <1>3 DEF Promise!Artifacts
  <2> QED
    BY <1>2, <2>3, <2>4 DEF Promise!Ingest
<1>5. CASE ~(rawManifests[k] = "none" /\ dag.verdict = "SUCCESS")
  <2>1. \A q \in Partitions : rawManifests'[q] = "SUCCESS" <=> rawManifests[q] = "SUCCESS"
    BY <1>3, <1>5 DEF IngestManifest, LineageInv, TypeInv, StoreTypes
  <2>2. RawArtifacts' = RawArtifacts
    BY <1>1, <2>1 DEF RawArtifacts
  <2> QED
    BY <1>2, <2>2 DEF artifacts
<1> QED
  BY <1>4, <1>5

LEMMA ValidateManifestRefines ==
    ASSUME LineageInv, NEW s \in Statuses, ValidateManifest(s)
    PROVE  (\E a \in Promise!Artifacts : Promise!Validate(a)) \/ UNCHANGED artifacts
<1>1. UNCHANGED <<objects, rawManifests, preparations, store, models>>
  BY DEF ValidateManifest, raw, learned
<1>2. /\ RawArtifacts' = RawArtifacts /\ PreparedArtifacts' = PreparedArtifacts
      /\ StoredArtifacts' = StoredArtifacts /\ TrainedArtifacts' = TrainedArtifacts
  BY <1>1 DEF RawArtifacts, PreparedArtifacts, StoredArtifacts, TrainedArtifacts
<1>3. PICK new : /\ new = [batch |-> dag.batch, hour |-> dag.at, content |-> dag.content,
                          status |-> s]
                 /\ validations' = validations \cup {new}
  BY DEF ValidateManifest
<1>4. new.batch = dag.batch /\ new.content = dag.content /\ new.status = s
  BY <1>3
<1>5. CASE s = "FAILED"
  <2>1. ValidatedArtifacts' = ValidatedArtifacts
    BY <1>3, <1>4, <1>5 DEF ValidatedArtifacts
  <2> QED
    BY <1>2, <2>1 DEF artifacts
<1>6. CASE s # "FAILED"
  <2> DEFINE a == <<dag.batch, dag.content>>
  <2>1. dag.batch \in Batches /\ dag.content \in Contents
    BY TaskFacts, TypeFacts DEF ValidateManifest, LineageInv, TaskNames
  <2>2. a \in Promise!Artifacts
    BY <2>1 DEF Promise!Artifacts
  <2>3. ExistingValidations(dag.batch) = {} /\ RawWith(dag.batch, dag.content)
    BY DEF ValidateManifest, LineageInv, Relies, ValidateRun
  <2>4. PICK h \in RawHours(dag.batch) : objects[<<dag.batch, h>>] = dag.content
    BY <2>3 DEF RawWith
  <2>5. <<dag.batch, h>> \in Partitions /\ rawManifests[<<dag.batch, h>>] = "SUCCESS"
    BY <2>1, <2>4 DEF RawHours, Partitions
  <2>6. a \in RawArtifacts
    BY <2>4, <2>5 DEF RawArtifacts
  <2>7. \A other \in ValidatedArtifacts : other[1] # dag.batch
    BY <2>3 DEF ExistingValidations, ValidatedArtifacts, ArtifactOf
  <2>8. ValidatedArtifacts' = ValidatedArtifacts \cup {a}
    BY <1>3, <1>4, <1>6 DEF ValidatedArtifacts, ArtifactOf
  <2> QED
    BY <1>2, <2>2, <2>6, <2>7, <2>8 DEF Promise!Validate
<1> QED
  BY <1>5, <1>6

LEMMA PreparationRefines ==
    ASSUME LineageInv, PrepareManifest \/ CrashWhileWriting
    PROVE  (\E a \in Promise!Artifacts : Promise!Prepare(a)) \/ UNCHANGED artifacts
<1>1. UNCHANGED <<objects, rawManifests, validations, store, models>>
  BY DEF PrepareManifest, CrashWhileWriting, raw, learned
<1>2. /\ RawArtifacts' = RawArtifacts /\ ValidatedArtifacts' = ValidatedArtifacts
      /\ StoredArtifacts' = StoredArtifacts /\ TrainedArtifacts' = TrainedArtifacts
  BY <1>1 DEF RawArtifacts, ValidatedArtifacts, StoredArtifacts, TrainedArtifacts
<1>3. CASE CrashWhileWriting
  <2>1. PreparedArtifacts' = PreparedArtifacts
    BY <1>3 DEF CrashWhileWriting, PreparedArtifacts
  <2> QED
    BY <1>2, <2>1 DEF artifacts
<1>4. CASE PrepareManifest
  <2> DEFINE a == <<dag.batch, dag.content>>
  <2>1. dag.batch \in Batches /\ dag.content \in Contents
    BY <1>4, TaskFacts, TypeFacts DEF PrepareManifest, LineageInv, TaskNames
  <2>2. a \in Promise!Artifacts
    BY <2>1 DEF Promise!Artifacts
  <2>3. EligibleWith(dag.batch, dag.content)
    BY <1>4 DEF PrepareManifest, LineageInv, Relies, PrepareRun
  <2>4. PICK v \in validations : v.batch = dag.batch /\ v.status # "FAILED" /\ v.content = dag.content
    BY <2>3 DEF EligibleWith, Eligible
  <2>5. a \in ValidatedArtifacts
    BY <2>4 DEF ValidatedArtifacts, ArtifactOf
  <2>6. PICK new : /\ new.batch = dag.batch /\ new.content = dag.content /\ new.torn = FALSE
                   /\ preparations' = preparations \cup {new}
    BY <1>4 DEF PrepareManifest
  <2>7. PreparedArtifacts' = PreparedArtifacts \cup {a}
    BY <2>6 DEF PreparedArtifacts, ArtifactOf
  <2> QED
    BY <1>2, <2>2, <2>5, <2>7 DEF Promise!Prepare
<1> QED
  BY <1>3, <1>4

LEMMA FeaturesPersistRefines ==
    ASSUME LineageInv, FeaturesPersist
    PROVE  (\E a \in Promise!Artifacts : Promise!Store(a)) \/ UNCHANGED artifacts
<1>1. UNCHANGED <<objects, rawManifests, validations, preparations, models>>
  BY DEF FeaturesPersist, raw, outputs
<1>2. /\ RawArtifacts' = RawArtifacts /\ ValidatedArtifacts' = ValidatedArtifacts
      /\ PreparedArtifacts' = PreparedArtifacts
  BY <1>1 DEF RawArtifacts, ValidatedArtifacts, PreparedArtifacts
<1>3. CASE store' = store
  BY <1>1, <1>3, QuietStutters
<1>4. CASE store' # store
  <2> DEFINE a == <<dag.batch, dag.content>>
             id == Cardinality(store) + 1
  <2>1. dag.batch \in Batches /\ dag.content \in Contents
    BY TaskFacts, TypeFacts DEF FeaturesPersist, LineageInv, TaskNames
  <2>2. a \in Promise!Artifacts
    BY <2>1 DEF Promise!Artifacts
  <2>3. PreparedWith(dag.batch, dag.content)
    BY DEF FeaturesPersist, LineageInv, Relies, PersistRun
  <2>4. a \in PreparedArtifacts
    BY <2>3 DEF PreparedWith, PreparedArtifacts, ArtifactOf
  <2>5. PICK row : /\ row.id = id /\ row.batch = dag.batch /\ row.content = dag.content
                   /\ store' = store \cup {row}
    BY <1>4 DEF FeaturesPersist
  <2>6. StoredArtifacts' = StoredArtifacts \cup {a}
    BY <2>5 DEF StoredArtifacts, ArtifactOf
  <2>7. \A m \in models : m.feature # row.id
    <3> TAKE m \in models
    <3>1. PICK r \in store : r.id = m.feature
      BY DEF LineageInv, Derived, TrainedFromStored, RowWith
    <3>2. r.id <= Cardinality(store) /\ r.id \in Nat
      BY DEF LineageInv, Derived, RowsDiffer, TypeInv, StoreTypes, Rows
    <3>3. Cardinality(store) \in Nat
      BY FS_CardinalityType DEF LineageInv, TypeInv, StoreTypes
    <3> QED
      BY <2>5, <3>1, <3>2, <3>3
  <2>8. TrainedArtifacts' = TrainedArtifacts
    BY <1>1, <2>5, <2>7 DEF TrainedArtifacts, ArtifactOf
  <2> QED
    BY <1>2, <2>2, <2>4, <2>6, <2>8 DEF Promise!Store
<1> QED
  BY <1>3, <1>4

LEMMA TrainSaveRefines ==
    ASSUME LineageInv, TrainSave
    PROVE  \E a \in Promise!Artifacts : Promise!Train(a)
<1>1. UNCHANGED <<objects, rawManifests, validations, preparations, store>>
  BY DEF TrainSave, raw, outputs
<1>2. /\ RawArtifacts' = RawArtifacts /\ ValidatedArtifacts' = ValidatedArtifacts
      /\ PreparedArtifacts' = PreparedArtifacts /\ StoredArtifacts' = StoredArtifacts
  BY <1>1 DEF RawArtifacts, ValidatedArtifacts, PreparedArtifacts, StoredArtifacts
<1>3. RowWith(dag.feature, dag.batch, dag.split)
  BY DEF TrainSave, At, LineageInv, Relies, FeatureRun, Late
<1>4. PICK row \in store : row.id = dag.feature
  BY <1>3 DEF RowWith
<1>5. PICK m : m.feature = dag.feature /\ models' = models \cup {m}
  BY DEF TrainSave
<1>6. \A r \in store : r.id = dag.feature => r = row
  BY <1>4 DEF LineageInv, Derived, RowsDiffer
<1>7. TrainedArtifacts' = TrainedArtifacts \cup {ArtifactOf(row)}
  BY <1>1, <1>4, <1>5, <1>6 DEF TrainedArtifacts
<1>8. ArtifactOf(row) \in Promise!Artifacts /\ ArtifactOf(row) \in StoredArtifacts
  BY <1>4 DEF LineageInv, TypeInv, StoreTypes, Rows, ArtifactOf, StoredArtifacts,
              Promise!Artifacts
<1> QED
  BY <1>2, <1>7, <1>8 DEF Promise!Train

\* Every step of the stages is a step of the lineage or shows in no artifact.
LEMMA LineageSimulation == LineageInv /\ [Next]_vars => [Promise!Next]_(Promise!vars)
<1> SUFFICES ASSUME LineageInv, [Next]_vars PROVE Promise!Next \/ UNCHANGED artifacts
  BY DEF Promise!vars, artifacts
<1> USE DEF raw, outputs, learned, world
<1>1. CASE \/ UNCHANGED vars \/ Tick \/ ChangeConfiguration \/ RegenerateByHand
           \/ \E given \in 0..MaxBatches, generate, strict \in BOOLEAN, split \in Splits :
                  StartRun(given, generate, strict, split)
           \/ Crash \/ StageRaises \/ GenerateFile \/ SkipGeneration
  BY <1>1, QuietStutters DEF vars, Tick, ChangeConfiguration, RegenerateByHand, StartRun,
                             Crash, StageRaises, GenerateFile, SkipGeneration
<1>2. CASE \/ ValidateStart \/ ValidateOutputs \/ enforce_quality_gate \/ PrepareStart
           \/ PrepareOutputs \/ FeaturesStart \/ FeaturesManifest \/ verify_feature_store
           \/ TrainStart
  BY <1>2, QuietStutters
     DEF ValidateStart, ValidateOutputs, enforce_quality_gate, PrepareStart, PrepareOutputs,
         FeaturesStart, FeaturesManifest, verify_feature_store, TrainStart
<1>3. CASE IngestObjects(TRUE) \/ IngestObjects(FALSE)
  BY <1>3, IngestObjectsStutters
<1>4. CASE IngestManifest
  BY <1>4, IngestManifestRefines DEF Promise!Next
<1>5. CASE \E s \in Statuses : ValidateManifest(s)
  BY <1>5, ValidateManifestRefines DEF Promise!Next
<1>6. CASE PrepareManifest \/ CrashWhileWriting
  BY <1>6, PreparationRefines DEF Promise!Next
<1>7. CASE FeaturesPersist
  BY <1>7, FeaturesPersistRefines DEF Promise!Next
<1>8. CASE TrainSave
  BY <1>8, TrainSaveRefines DEF Promise!Next
<1> QED
  BY <1>1, <1>2, <1>3, <1>4, <1>5, <1>6, <1>7, <1>8 DEF Next, Step

\* The stages implement the lineage: an artifact of a stage is derived from the
\* same artifact of the stage before, and none is ever withdrawn.
THEOREM StagesImplementLineage == Spec => ImplementsLineage
<1>1. Init => Promise!Init
  BY DEF Init, Promise!Init, RawArtifacts, ValidatedArtifacts, PreparedArtifacts,
         StoredArtifacts, TrainedArtifacts
<1>2. LineageInv /\ [Next]_vars => [Promise!Next]_(Promise!vars)
  BY LineageSimulation
<1> QED
  BY <1>1, <1>2, LineageInvariant, PTL DEF Spec, ImplementsLineage, Promise!Spec

-----------------------------------------------------------------------------
(***************************************************************************)
(* The batch of the run, with or without faults.                           *)
(***************************************************************************)

Past == TaskNames \ {"generate", "ingest"}
Running(task) == dag.state = "running" /\ dag.task = task

\* Nothing is stored under a batch identifier that was not handed out.
BatchesAreNew ==
    \A k \in Partitions : k[1] > lastBatch => rawManifests[k] = "none" /\ objects[k] = Missing

\* A run that generates its data was given no batch.
GeneratesOwnBatch == dag.state = "running" /\ dag.generate => dag.given = 0

\* The landing files the run has generated are those of the configuration in force.
LandedByRun ==
    /\ Running("generate") /\ dag.generate =>
          \A i \in 1..dag.written : landing[Files[i]] = release
    /\ Running("ingest") /\ dag.generate => \A f \in Names : landing[f] = release

\* Between the objects and the manifest of an ingestion.
BetweenObjectsAndManifest ==
    At("ingest", "manifest") =>
        /\ dag.batch <= lastBatch
        /\ dag.given = 0 => \A h \in Hours : rawManifests[<<dag.batch, h>>] = "none"
        /\ dag.generate /\ dag.verdict = "SUCCESS" =>
              \A f \in Names : objects[<<dag.batch, dag.at>>][f] = release

\* The batch of a run past ingestion has a manifest; one of success, if the run
\* made the batch.
RawOfRun ==
    dag.state = "running" /\ dag.task \in Past =>
        /\ \E h \in Hours : rawManifests[<<dag.batch, h>>] # "none"
        /\ dag.given = 0 => RawHours(dag.batch) # {}

\* No other run has validated a batch that the run made.
ValidatedByRun ==
    Running("validate") /\ dag.given = 0 => ExistingValidations(dag.batch) = {}

\* What the run passed on to preparation and to features is there.
EligibleForRun == Running("prepare") => Eligible(dag.batch) # {}
PreparedForRun == Running("features") => \E c \in Contents : PreparedWith(dag.batch, c)
PersistsOnce ==
    At("features", "persist") => find_identity(Identity(dag.batch, dag.content, dag.split)) = {}

-----------------------------------------------------------------------------
(***************************************************************************)
(* What is stored as long as nothing failed.                               *)
(***************************************************************************)

NothingTorn ==
    (\A p \in preparations : ~p.torn) /\ (\A i \in DOMAIN manifests : ~manifests[i].torn)

\* Outputs without a manifest are those of the attempt under way.
OutputsHaveManifests ==
    /\ \A k \in reports : ExistingValidations(k[1]) # {} \/
                          (At("validate", "manifest") /\ dag.batch = k[1])
    /\ \A k \in drafts : ExistingPreparations(k[1]) # {} \/
                         (At("prepare", "manifest") /\ dag.batch = k[1])

\* A batch is prepared once; a batch that the run made, by the run.
PreparedOnce ==
    /\ \A p, q \in preparations : p.batch = q.batch => p = q
    /\ At("prepare", "outputs") \/ At("prepare", "manifest") =>
          ExistingPreparations(dag.batch) = {}
    /\ dag.state = "running" /\ dag.given = 0 /\ dag.task \in {"validate", "quality", "prepare"} =>
          ExistingPreparations(dag.batch) = {}

\* The rows of the warehouse and the feature manifests belong together, but for
\* the manifest the attempt under way has still to write.
RowsHaveManifests ==
    /\ \A r \in store : (\E i \in DOMAIN manifests : manifests[i].id = r.id) \/
                        (At("features", "manifest") /\ dag.feature = r.id)
    /\ \A i \in DOMAIN manifests : \E r \in store : r.id = manifests[i].id
    /\ \A i, j \in DOMAIN manifests : manifests[i].id = manifests[j].id => i = j
    /\ At("features", "manifest") => \A i \in DOMAIN manifests : manifests[i].id # dag.feature

\* The ingestion of generated data is complete.
IngestsAll == At("ingest", "manifest") /\ dag.generate => dag.verdict = "SUCCESS"

Tidy ==
    /\ NothingTorn /\ OutputsHaveManifests /\ PreparedOnce /\ RowsHaveManifests
    /\ IngestsAll

TidyInv == faults = 0 => Tidy
-----------------------------------------------------------------------------
(***************************************************************************)
(* How attempts end, and the tasks past ingestion.                         *)
(***************************************************************************)

Kept(r, q) == q.given = r.given /\ q.generate = r.generate /\ q.batch = r.batch

\* The run starts its task over, or has failed for this reason.
Again(why) ==
    /\ Kept(dag, dag')
    /\ \/ dag'.state = "failed" /\ dag'.error = why
       \/ dag'.state = "running" /\ dag'.task = dag.task /\ dag'.step = "start" /\ dag'.written = 0

\* The run is over, or starts the next task.
Onward ==
    \/ dag'.state = "success"
    \/ /\ dag'.state = "running" /\ dag'.task = NextTask[dag.task] /\ dag'.step = "start"
       /\ dag'.written = 0 /\ dag.task # "finalize" /\ Kept(dag, dag')

LEMMA RaisedAgain ==
    ASSUME TypeInv, NEW why \in Errors, dag.state = "running", dag' = Raised(dag, why)
    PROVE  Again(why)
<1>1. dag \in Runs /\ dag.tries <= Retries[dag.task]
  BY TypeFacts
<1>2. /\ dag' \in Runs /\ Same(dag, dag') /\ dag'.task = dag.task
      /\ \/ dag'.state = "failed"
         \/ dag'.state = "running" /\ dag'.step = "start" /\ dag'.written = 0
  BY <1>1, RaisedRun
<1>3. dag'.state = "failed" => dag'.error = why
  <2>1. CASE dag.tries < Retries[dag.task]
    <3>1. dag' = [Fresh(dag) EXCEPT !.tries = dag.tries + 1]
      BY <2>1 DEF Raised
    <3>2. dag'.state = "running"
      BY <1>1, <3>1, FreshRun DEF Runs
    <3> QED
      BY <3>2
  <2>2. CASE ~(dag.tries < Retries[dag.task])
    BY <1>1, <2>2 DEF Raised, Runs
  <2> QED
    BY <2>1, <2>2
<1> QED
  BY <1>2, <1>3 DEF Again, Kept, Same

LEMMA CompletedOnward ==
    ASSUME NEW r \in Runs, r.state = "running", r.task = dag.task, Kept(dag, r),
           dag' = Completed(r)
    PROVE  Onward
BY CompletedRun DEF Onward, Kept, Same

\* A status or no status in the place of the verdict.
LEMMA VerdictKept ==
    ASSUME TypeInv, NEW verdict \in Statuses \cup {""}, dag.state = "running"
    PROVE  LET r == [dag EXCEPT !.verdict = verdict]
           IN  r \in Runs /\ r.state = "running" /\ r.task = dag.task /\ Kept(dag, r)
BY TypeFacts DEF Runs, Kept

\* The run has taken a step within its task.
Within(step) ==
    dag'.state = "running" /\ dag'.task = dag.task /\ dag'.step = step /\ Kept(dag, dag')

\* How the steps of the tasks past ingestion move the run.
LEMMA ValidationMoves ==
    ASSUME TypeInv,
           \/ ValidateStart \/ ValidateOutputs \/ enforce_quality_gate
           \/ \E status \in Statuses : ValidateManifest(status)
    PROVE  /\ dag.state = "running" /\ dag.task \in {"validate", "quality"}
           /\ \/ Onward \/ \E why \in Errors : Again(why)
              \/ ValidateStart /\ Within("outputs")
              \/ ValidateOutputs /\ Within("manifest")
<1>1. /\ dag.state = "running" /\ dag.task \in {"validate", "quality"} /\ dag \in Runs
  BY TypeFacts DEF ValidateStart, ValidateOutputs, ValidateManifest, enforce_quality_gate, At
<1>2. ASSUME NEW verdict \in Statuses \cup {""}, dag' = Completed([dag EXCEPT !.verdict = verdict])
      PROVE  Onward
  BY <1>1, <1>2, VerdictKept, CompletedOnward
<1>3. ASSUME NEW why \in Errors, dag' = Raised(dag, why) PROVE Again(why)
  BY <1>1, <1>3, RaisedAgain
<1>4. CASE ValidateStart
  <2>1. ASSUME NEW v \in ExistingValidations(dag.batch) PROVE v.status \in Statuses
    BY DEF ExistingValidations, TypeInv, StoreTypes, Validations
  <2>2. ASSUME NEW c, dag' = [dag EXCEPT !.step = "outputs", !.content = c, !.at = hour]
        PROVE  Within("outputs")
    BY <1>1, <2>2 DEF Within, Kept, Runs
  <2> QED
    BY <1>1, <1>2, <1>3, <1>4, <2>1, <2>2 DEF ValidateStart, Errors
<1>5. CASE ValidateOutputs
  <2>1. dag' = Goto(dag, "manifest") => Within("manifest")
    BY <1>1 DEF Within, Kept, Runs, Goto
  <2> QED
    BY <1>1, <1>3, <1>5, <2>1 DEF ValidateOutputs, Errors
<1>6. CASE enforce_quality_gate
  BY <1>1, <1>2, <1>3, <1>6 DEF enforce_quality_gate, Errors
<1>7. CASE \E status \in Statuses : ValidateManifest(status)
  BY <1>1, <1>2, <1>7 DEF ValidateManifest
<1> QED
  BY <1>1, <1>4, <1>5, <1>6, <1>7

LEMMA PreparationMoves ==
    ASSUME TypeInv, PrepareStart \/ PrepareOutputs \/ PrepareManifest
    PROVE  /\ dag.state = "running" /\ dag.task = "prepare"
           /\ \/ Onward \/ \E why \in Errors : Again(why)
              \/ PrepareStart /\ Within("outputs")
              \/ PrepareOutputs /\ Within("manifest")
<1>1. dag.state = "running" /\ dag.task = "prepare" /\ dag \in Runs
  BY TypeFacts DEF PrepareStart, PrepareOutputs, PrepareManifest, At
<1>2. dag' = Completed(dag) => Onward
  BY <1>1, CompletedOnward DEF Kept
<1>3. ASSUME NEW why \in Errors, dag' = Raised(dag, why) PROVE Again(why)
  BY <1>1, <1>3, RaisedAgain
<1>4. ASSUME NEW c, dag' = [dag EXCEPT !.step = "outputs", !.content = c, !.at = hour]
      PROVE  Within("outputs")
  BY <1>1, <1>4 DEF Within, Kept, Runs
<1>5. dag' = Goto(dag, "manifest") => Within("manifest")
  BY <1>1 DEF Within, Kept, Runs, Goto
<1>6. CASE PrepareStart
  BY <1>1, <1>2, <1>3, <1>4, <1>6 DEF PrepareStart, Errors
<1>7. CASE PrepareOutputs
  BY <1>1, <1>3, <1>5, <1>7 DEF PrepareOutputs, Errors
<1>8. CASE PrepareManifest
  BY <1>1, <1>2, <1>8 DEF PrepareManifest
<1> QED
  BY <1>1, <1>6, <1>7, <1>8

LEMMA FeaturesMoves ==
    ASSUME TypeInv, FeaturesStart \/ FeaturesPersist \/ FeaturesManifest
    PROVE  /\ dag.state = "running" /\ dag.task = "features"
           /\ \/ Onward \/ \E why \in Errors : Again(why)
              \/ FeaturesStart /\ Within("persist")
              \/ FeaturesPersist /\ Within("manifest")
<1>1. dag.state = "running" /\ dag.task = "features" /\ dag \in Runs
  BY TypeFacts DEF FeaturesStart, FeaturesPersist, FeaturesManifest, At
<1>2. dag' = Completed(dag) => Onward
  BY <1>1, CompletedOnward DEF Kept
<1>3. ASSUME NEW why \in Errors, dag' = Raised(dag, why) PROVE Again(why)
  BY <1>1, <1>3, RaisedAgain
<1>4. CASE FeaturesStart
  <2>1. ASSUME NEW c, dag' = [dag EXCEPT !.step = "persist", !.content = c]
        PROVE  Within("persist")
    BY <1>1, <2>1 DEF Within, Kept, Runs
  <2>2. ASSUME NEW r \in store, dag' = Completed([dag EXCEPT !.feature = r.id])
        PROVE  Onward
    <3>1. r.id \in Nat
      BY DEF TypeInv, StoreTypes, Rows
    <3>2. PICK q \in Runs : q = [dag EXCEPT !.feature = r.id]
      BY <1>1, <3>1 DEF Runs
    <3>3. q.state = "running" /\ q.task = dag.task /\ Kept(dag, q)
      BY <1>1, <3>2 DEF Runs, Kept
    <3> QED
      BY <2>2, <3>2, <3>3, CompletedOnward
  <2> QED
    BY <1>1, <1>3, <1>4, <2>1, <2>2 DEF FeaturesStart, find_identity, Errors
<1>5. CASE FeaturesPersist
  <2>1. ASSUME NEW id, dag' = [dag EXCEPT !.step = "manifest", !.feature = id]
        PROVE  Within("manifest")
    BY <1>1, <2>1 DEF Within, Kept, Runs
  <2> QED
    BY <1>1, <1>3, <1>5, <2>1 DEF FeaturesPersist, Errors
<1>6. CASE FeaturesManifest
  BY <1>1, <1>2, <1>6 DEF FeaturesManifest
<1> QED
  BY <1>1, <1>4, <1>5, <1>6

LEMMA TrainingMoves ==
    ASSUME TypeInv, verify_feature_store \/ TrainStart \/ TrainSave
    PROVE  /\ dag.state = "running" /\ dag.task \in Late
           /\ \/ Onward \/ \E why \in Errors : Again(why)
              \/ TrainStart /\ Within("save")
<1>1. dag.state = "running" /\ dag.task \in Late /\ dag \in Runs
  BY TypeFacts DEF verify_feature_store, TrainStart, TrainSave, At, Late
<1>2. dag' = Completed(dag) => Onward
  BY <1>1, CompletedOnward DEF Kept
<1>3. dag' = Raised(dag, "no unique manifest") => \E why \in Errors : Again(why)
  BY <1>1, RaisedAgain DEF Errors
<1>4. dag' = Goto(dag, "save") => Within("save")
  BY <1>1 DEF Within, Kept, Runs, Goto
<1> QED
  BY <1>1, <1>2, <1>3, <1>4 DEF verify_feature_store, TrainStart, TrainSave

\* How a fault moves the run, whatever its task.
LEMMA FaultMoves ==
    ASSUME TypeInv, Crash \/ CrashWhileWriting \/ StageRaises
    PROVE  dag.state = "running" /\ \E why \in {"crash", "stage error"} : Again(why)
<1>1. dag.state = "running" /\ dag \in Runs
  BY TypeFacts DEF Crash, CrashWhileWriting, StageRaises, At
<1>2. CASE Crash \/ CrashWhileWriting
  BY <1>1, <1>2, RaisedAgain DEF Crash, CrashWhileWriting, Errors
<1>3. CASE StageRaises
  <2>1. dag' = [dag EXCEPT !.state = "failed", !.error = "stage error"]
    BY <1>3 DEF StageRaises
  <2>2. Again("stage error")
    BY <1>1, <2>1 DEF Again, Kept, Runs
  <2> QED
    BY <1>1, <2>2
<1> QED
  BY <1>2, <1>3

\* The steps of the tasks past ingestion.
PastStep ==
    \/ ValidateStart \/ ValidateOutputs \/ \E s \in Statuses : ValidateManifest(s)
    \/ enforce_quality_gate
    \/ PrepareStart \/ PrepareOutputs \/ PrepareManifest
    \/ FeaturesStart \/ FeaturesPersist \/ FeaturesManifest \/ verify_feature_store
    \/ TrainStart \/ TrainSave

LEMMA PastMoves ==
    ASSUME TypeInv, PastStep
    PROVE  /\ UNCHANGED <<world, raw, faults>>
           /\ dag.state = "running" /\ dag.task \in Past
           /\ Onward \/ (\E step : Within(step)) \/ \E why \in Errors : Again(why)
<1>1. UNCHANGED <<world, raw, faults>>
  BY DEF PastStep, ValidateStart, ValidateOutputs, ValidateManifest, enforce_quality_gate,
         PrepareStart, PrepareOutputs, PrepareManifest, FeaturesStart, FeaturesPersist,
         FeaturesManifest, verify_feature_store, TrainStart, TrainSave
<1>2. {"validate", "quality", "prepare", "features"} \cup Late \subseteq Past
  BY DEF Past, TaskNames, Late
<1> QED
  BY <1>1, <1>2, ValidationMoves, PreparationMoves, FeaturesMoves, TrainingMoves DEF PastStep

-----------------------------------------------------------------------------
(***************************************************************************)
(* The raw files of the run's batch.                                       *)
(***************************************************************************)

RawInv ==
    /\ BatchesAreNew /\ GeneratesOwnBatch /\ LandedByRun /\ BetweenObjectsAndManifest
    /\ RawOfRun /\ FreshBatchIsCurrent

\* Nobody but ingestion touches the raw store and the batch of the run.
LEMMA RawKept ==
    ASSUME TypeInv, RawInv, UNCHANGED <<release, lastBatch, objects, rawManifests>>,
           dag.state = "running", dag.task \in Past,
           Onward \/ (\E step : Within(step)) \/ \E why \in Errors : Again(why)
    PROVE  RawInv'
<1>1. BatchesAreNew'
  BY DEF RawInv, BatchesAreNew
<1>2. dag'.state = "running" => dag'.task \in Past /\ Kept(dag, dag')
  BY NextTaskValues DEF Onward, Within, Again, Past, TaskNames
<1>3. GeneratesOwnBatch'
  BY <1>2 DEF RawInv, GeneratesOwnBatch, Kept
<1>4. LandedByRun' /\ BetweenObjectsAndManifest'
  BY <1>2 DEF LandedByRun, BetweenObjectsAndManifest, Running, At, Past
<1>5. RawOfRun'
  BY <1>2, SMTT(30) DEF RawInv, RawOfRun, RawHours, Kept
<1>6. FreshBatchIsCurrent'
  BY <1>2 DEF RawInv, FreshBatchIsCurrent, RawHours, Kept, Past
<1> QED
  BY <1>1, <1>3, <1>4, <1>5, <1>6 DEF RawInv

\* An attempt of any task that failed leaves the raw store as it was.
LEMMA RawAgain ==
    ASSUME RawInv, UNCHANGED <<release, landing, lastBatch, objects, rawManifests>>,
           dag.state = "running", NEW why, Again(why)
    PROVE  RawInv'
<1>1. dag'.state = "running" =>
          dag'.task = dag.task /\ dag'.step = "start" /\ dag'.written = 0 /\ Kept(dag, dag')
  BY DEF Again
<1>2. BatchesAreNew'
  BY DEF RawInv, BatchesAreNew
<1>3. GeneratesOwnBatch'
  BY <1>1 DEF RawInv, GeneratesOwnBatch, Kept
<1>4. LandedByRun'
  BY <1>1 DEF RawInv, LandedByRun, Running, Kept
<1>5. BetweenObjectsAndManifest'
  BY <1>1 DEF BetweenObjectsAndManifest, At
<1>6. RawOfRun'
  BY <1>1 DEF RawInv, RawOfRun, RawHours, Kept
<1>7. FreshBatchIsCurrent'
  BY <1>1 DEF RawInv, FreshBatchIsCurrent, RawHours, Kept
<1> QED
  BY <1>2, <1>3, <1>4, <1>5, <1>6, <1>7 DEF RawInv

LEMMA RawWorld ==
    ASSUME TypeInv, RawInv,
           \/ UNCHANGED vars \/ Tick \/ ChangeConfiguration \/ RegenerateByHand
           \/ \E given \in 0..MaxBatches, generate, strict \in BOOLEAN, split \in Splits :
                  StartRun(given, generate, strict, split)
    PROVE  RawInv'
<1> USE DEF raw, outputs, learned, world
<1>1. CASE UNCHANGED vars \/ Tick
  <2>1. UNCHANGED <<release, landing, lastBatch, objects, rawManifests, dag>>
    BY <1>1 DEF vars, Tick
  <2> QED
    BY <2>1 DEF RawInv, BatchesAreNew, GeneratesOwnBatch, LandedByRun, Running,
                BetweenObjectsAndManifest, At, RawOfRun, FreshBatchIsCurrent, RawHours
<1>2. ASSUME UNCHANGED <<lastBatch, objects, rawManifests, dag>>, dag.state # "running"
      PROVE  RawInv'
  BY <1>2 DEF RawInv, BatchesAreNew, GeneratesOwnBatch, LandedByRun, Running,
              BetweenObjectsAndManifest, At, RawOfRun, FreshBatchIsCurrent
<1>3. CASE ChangeConfiguration \/ RegenerateByHand
  BY <1>2, <1>3 DEF ChangeConfiguration, RegenerateByHand
<1>4. CASE \E given \in 0..MaxBatches, generate, strict \in BOOLEAN, split \in Splits :
               StartRun(given, generate, strict, split)
  <2>1. PICK given \in 0..MaxBatches, generate \in BOOLEAN, strict \in BOOLEAN, split \in Splits :
            StartRun(given, generate, strict, split)
    BY <1>4
  <2>2. /\ dag'.task = "generate" /\ dag'.step = "start" /\ dag'.written = 0
        /\ dag'.given = given /\ dag'.generate = generate
    BY <2>1 DEF StartRun, NoRun
  <2>3. UNCHANGED <<objects, rawManifests>> /\ (generate => given = 0)
    BY <2>1 DEF StartRun
  <2>4. lastBatch' \in Nat /\ lastBatch \in Nat /\ lastBatch <= lastBatch'
    <3>1. lastBatch' = IF given > lastBatch THEN given ELSE lastBatch
      BY <2>1 DEF StartRun
    <3>2. lastBatch \in 0..MaxBatches /\ MaxBatches \in Nat
      BY BoundsFacts DEF TypeInv, StoreTypes
    <3> QED
      BY <3>1, <3>2
  <2>5. BatchesAreNew'
    BY <2>3, <2>4 DEF RawInv, BatchesAreNew, Partitions, Batches
  <2> QED
    BY <2>2, <2>3, <2>5 DEF RawInv, GeneratesOwnBatch, LandedByRun, Running,
                      BetweenObjectsAndManifest, At, RawOfRun, FreshBatchIsCurrent, Past
<1> QED
  BY <1>1, <1>3, <1>4

\* Generation replaces the landing files in their order.
LEMMA RawGenerate ==
    ASSUME TypeInv, RawInv, GenerateFile \/ SkipGeneration
    PROVE  RawInv'
<1> USE DEF raw, outputs, learned, world
<1>1. /\ dag.state = "running" /\ dag.task = "generate" /\ dag.step = "start" /\ dag \in Runs
      /\ dag.written \in Nat /\ dag.written < Len(Files) /\ Len(Files) \in Nat
      /\ UNCHANGED <<release, lastBatch, objects, rawManifests>>
  BY FilesFacts DEF GenerateFile, SkipGeneration, At, TypeInv, Placed, Runs
<1>2. BatchesAreNew'
  BY <1>1 DEF RawInv, BatchesAreNew
<1>3. ASSUME Onward, dag.generate => \A f \in Names : landing'[f] = release
      PROVE  RawInv'
  <2>1. \/ dag'.state # "running"
        \/ dag'.task = "ingest" /\ dag'.step = "start" /\ Kept(dag, dag')
    BY <1>1, <1>3, NextTaskValues DEF Onward
  <2>2. GeneratesOwnBatch'
    BY <1>1, <2>1 DEF RawInv, GeneratesOwnBatch, Kept
  <2>3. LandedByRun'
    BY <1>1, <1>3, <2>1 DEF LandedByRun, Running, Kept
  <2>4. BetweenObjectsAndManifest' /\ RawOfRun' /\ FreshBatchIsCurrent'
    BY <2>1 DEF BetweenObjectsAndManifest, At, RawOfRun, Past, FreshBatchIsCurrent
  <2> QED
    BY <1>2, <2>2, <2>3, <2>4 DEF RawInv
<1>4. CASE SkipGeneration
  BY <1>1, <1>3, <1>4, CompletedOnward DEF SkipGeneration, Kept
<1>5. CASE GenerateFile
  <2> DEFINE done == dag.written + 1
  <2>1. /\ done \in 1..Len(Files) /\ dag.generate /\ landing \in Contents
        /\ landing' = [landing EXCEPT ![Files[done]] = release]
    BY <1>1, <1>5 DEF GenerateFile, Landed, TypeInv, StoreTypes
  <2>2. \A i \in 1..dag.written : landing[Files[i]] = release /\ Files[i] \in Names
    BY <1>1, <2>1, FilesFacts DEF RawInv, LandedByRun, Running
  <2>3. \A i \in 1..done : landing'[Files[i]] = release
    <3>1. Files[done] \in Names /\ DOMAIN landing = Names
      BY <2>1, FilesFacts DEF Contents
    <3>2. landing'[Files[done]] = release
      BY <2>1, <3>1
    <3>3. \A i \in 1..dag.written : landing'[Files[i]] = release
      BY <2>1, <2>2, <3>1
    <3>4. \A i \in 1..done : i = done \/ i \in 1..dag.written
      BY <1>1
    <3> QED
      BY <3>2, <3>3, <3>4
  <2>4. CASE done = Len(Files)
    <3>1. Onward
      BY <1>1, <1>5, <2>4, CompletedOnward DEF GenerateFile, Kept
    <3>2. \A f \in Names : landing'[f] = release
      <4>1. \A f \in Names : \E i \in 1..done : f = Files[i]
        BY <2>4, StagesConfiguration DEF Names
      <4> QED
        BY <2>3, <4>1
    <3> QED
      BY <1>3, <3>1, <3>2
  <2>5. CASE done # Len(Files)
    <3>1. dag' = [dag EXCEPT !.written = done]
      BY <1>5, <2>5 DEF GenerateFile
    <3>2. /\ dag'.state = "running" /\ dag'.task = "generate" /\ dag'.step = "start"
          /\ dag'.written = done /\ Kept(dag, dag')
      BY <1>1, <3>1 DEF Runs, Kept
    <3>3. LandedByRun'
      BY <1>1, <2>3, <3>2 DEF LandedByRun, Running
    <3>4. GeneratesOwnBatch'
      BY <1>1, <3>2 DEF RawInv, GeneratesOwnBatch, Kept
    <3>5. BetweenObjectsAndManifest' /\ RawOfRun' /\ FreshBatchIsCurrent'
      BY <3>2 DEF BetweenObjectsAndManifest, At, RawOfRun, Past, FreshBatchIsCurrent
    <3> QED
      BY <1>2, <3>3, <3>4, <3>5 DEF RawInv
  <2> QED
    BY <2>4, <2>5
<1> QED
  BY <1>4, <1>5

\* The objects of a batch of the run's own go where nothing was stored.
LEMMA RawIngestObjects ==
    ASSUME TypeInv, RawInv, NEW answered \in BOOLEAN, IngestObjects(answered)
    PROVE  RawInv'
<1> DEFINE b == dag'.batch
           k == <<b, hour>>
<1>1. /\ b = (IF dag.given = 0 THEN lastBatch + 1 ELSE dag.given)
      /\ b \in Batches /\ b <= lastBatch' /\ dag'.at = hour /\ dag'.step = "manifest"
      /\ dag' = [dag EXCEPT !.step = "manifest", !.batch = b, !.at = hour,
                            !.verdict = dag'.verdict]
      /\ dag'.verdict = "SUCCESS" =>
            \A f \in Names : landing[f] # 0 /\ objects[k][f] \in {0, landing[f]}
      /\ objects' = [objects EXCEPT ![k] =
            [f \in Names |-> IF objects[k][f] = 0 THEN landing[f] ELSE objects[k][f]]]
  BY IngestedObjects
<1>2. /\ dag \in Runs /\ dag.state = "running" /\ dag.task = "ingest" /\ hour \in Hours
      /\ lastBatch \in Nat /\ objects \in [Partitions -> Contents]
      /\ UNCHANGED <<release, landing, rawManifests>>
      /\ lastBatch' = IF dag.given = 0 THEN lastBatch + 1 ELSE lastBatch
  BY TypeFacts DEF IngestObjects, At, TypeInv, StoreTypes
<1> HIDE DEF b
<1>3. /\ dag'.state = "running" /\ dag'.task = "ingest" /\ dag'.given = dag.given
      /\ dag'.generate = dag.generate
  BY <1>1, <1>2 DEF Runs
<1>4. k \in Partitions /\ \A h \in Hours : <<b, h>> \in Partitions
  BY <1>1, <1>2 DEF Partitions
<1>5. BatchesAreNew'
  <2> SUFFICES ASSUME NEW q \in Partitions, q[1] > lastBatch'
               PROVE  rawManifests[q] = "none" /\ objects'[q] = Missing
    BY <1>2 DEF BatchesAreNew
  <2>1. q[1] \in Nat /\ b \in Nat /\ lastBatch' \in Nat
    BY <1>1, <1>2 DEF Partitions, Batches
  <2>2. q # k /\ q[1] > lastBatch
    BY <1>1, <1>2, <2>1
  <2> QED
    BY <1>1, <1>2, <2>2 DEF RawInv, BatchesAreNew
<1>6. GeneratesOwnBatch' /\ LandedByRun'
  BY <1>2, <1>3 DEF RawInv, GeneratesOwnBatch, LandedByRun, Running
<1>7. BetweenObjectsAndManifest'
  <2>1. ASSUME dag.given = 0, NEW h \in Hours PROVE rawManifests'[<<b, h>>] = "none"
    <3>1. <<b, h>> \in Partitions /\ <<b, h>>[1] > lastBatch
      BY <1>1, <1>2, <1>4, <2>1
    <3> QED
      BY <1>2, <3>1 DEF RawInv, BatchesAreNew
  <2>2. ASSUME dag.generate, dag'.verdict = "SUCCESS", NEW f \in Names
        PROVE  objects'[k][f] = release
    <3>1. landing[f] = release
      BY <1>2, <2>2 DEF RawInv, LandedByRun, Running
    <3>2. objects'[k] = [g \in Names |-> IF objects[k][g] = 0 THEN landing[g] ELSE objects[k][g]]
      BY <1>1, <1>2, <1>4
    <3> QED
      BY <1>1, <2>2, <3>1, <3>2
  <2> QED
    BY <1>1, <1>2, <1>3, <2>1, <2>2 DEF BetweenObjectsAndManifest, b
<1>8. RawOfRun' /\ FreshBatchIsCurrent'
  BY <1>3 DEF RawOfRun, Past, FreshBatchIsCurrent
<1> QED
  BY <1>5, <1>6, <1>7, <1>8 DEF RawInv

\* A run that goes on after ingestion has a manifest, and its own one if it made
\* the batch.
LEMMA RawIngestManifest ==
    ASSUME TypeInv, RawInv, IngestManifest
    PROVE  RawInv'
<1> DEFINE b == dag.batch
           k == <<b, dag.at>>
<1> USE DEF raw, outputs, learned, world
<1>1. /\ dag \in Runs /\ At("ingest", "manifest") /\ dag.state = "running"
      /\ dag.task = "ingest" /\ b \in Batches /\ dag.at \in Hours
      /\ dag.verdict \in {"SUCCESS", "PARTIAL_SUCCESS"} /\ lastBatch \in Nat
      /\ UNCHANGED <<release, landing, lastBatch, objects>>
  BY TypeFacts DEF IngestManifest, At, TypeInv, Placed, Ingested
<1>2. /\ k \in Partitions /\ rawManifests \in [Partitions -> {"none", "SUCCESS", "PARTIAL_SUCCESS"}]
      /\ rawManifests' = IF rawManifests[k] = "none"
                         THEN [rawManifests EXCEPT ![k] = dag.verdict] ELSE rawManifests
  BY <1>1 DEF IngestManifest, Partitions, TypeInv, StoreTypes
<1>3. /\ b <= lastBatch
      /\ dag.given = 0 => rawManifests[k] = "none"
      /\ dag.generate /\ dag.verdict = "SUCCESS" => \A f \in Names : objects[k][f] = release
  BY <1>1 DEF RawInv, BetweenObjectsAndManifest
<1>4. rawManifests'[k] # "none" /\ (dag.given = 0 => rawManifests'[k] = dag.verdict)
  BY <1>1, <1>2, <1>3
<1>5. BatchesAreNew'
  <2> SUFFICES ASSUME NEW q \in Partitions, q[1] > lastBatch
               PROVE  rawManifests'[q] = "none" /\ objects[q] = Missing
    BY <1>1 DEF BatchesAreNew
  <2>1. q # k
    BY <1>1, <1>3 DEF Partitions, Batches
  <2> QED
    BY <1>2, <2>1 DEF RawInv, BatchesAreNew
<1>6. CASE dag.verdict = "SUCCESS"
  <2>1. Onward
    BY <1>1, <1>6, CompletedOnward DEF IngestManifest, Kept
  <2>2. \/ dag'.state # "running"
        \/ dag'.task = "validate" /\ Kept(dag, dag')
    BY <1>1, <2>1, NextTaskValues DEF Onward
  <2>3. GeneratesOwnBatch'
    BY <1>1, <2>2 DEF RawInv, GeneratesOwnBatch, Kept
  <2>4. LandedByRun' /\ BetweenObjectsAndManifest'
    BY <2>2 DEF LandedByRun, Running, BetweenObjectsAndManifest, At
  <2>5. RawOfRun'
    BY <1>1, <1>4, <1>6, <2>2 DEF RawOfRun, RawHours, Kept
  <2>6. FreshBatchIsCurrent'
    <3>1. SUFFICES ASSUME dag.generate, dag'.batch = b
                   PROVE  /\ dag.at \in RawHours(b)'
                          /\ \A f \in Names : objects'[k][f] = release'
      BY <2>2 DEF FreshBatchIsCurrent, Kept, RawHours
    <3>2. dag.given = 0
      BY <1>1, <3>1 DEF RawInv, GeneratesOwnBatch
    <3> QED
      BY <1>1, <1>3, <1>4, <1>6, <3>1, <3>2 DEF RawHours
  <2> QED
    BY <1>5, <2>3, <2>4, <2>5, <2>6 DEF RawInv
<1>7. CASE dag.verdict # "SUCCESS"
  <2>1. Again("ingestion")
    BY <1>1, <1>7, RaisedAgain DEF IngestManifest, Errors
  <2>2. \/ dag'.state # "running"
        \/ dag'.task = "ingest" /\ dag'.step = "start" /\ Kept(dag, dag')
    BY <1>1, <2>1 DEF Again
  <2>3. GeneratesOwnBatch' /\ LandedByRun'
    BY <1>1, <2>2 DEF RawInv, GeneratesOwnBatch, LandedByRun, Running, Kept
  <2>4. BetweenObjectsAndManifest' /\ RawOfRun' /\ FreshBatchIsCurrent'
    BY <2>2 DEF BetweenObjectsAndManifest, At, RawOfRun, Past, FreshBatchIsCurrent
  <2> QED
    BY <1>5, <2>3, <2>4 DEF RawInv
<1> QED
  BY <1>6, <1>7

LEMMA RawStep == TypeInv /\ RawInv /\ [Next]_vars => RawInv'
<1> SUFFICES ASSUME TypeInv, RawInv, [Next]_vars PROVE RawInv'
  OBVIOUS
<1>1. CASE PastStep
  BY <1>1, PastMoves, RawKept DEF world, raw
<1>2. CASE Crash \/ CrashWhileWriting \/ StageRaises
  <2>1. UNCHANGED <<world, raw>>
    BY <1>2 DEF Crash, CrashWhileWriting, StageRaises
  <2> QED
    BY <1>2, <2>1, FaultMoves, RawAgain DEF world, raw
<1>3. CASE GenerateFile \/ SkipGeneration
  BY <1>3, RawGenerate
<1>4. CASE IngestObjects(TRUE) \/ IngestObjects(FALSE)
  BY <1>4, RawIngestObjects
<1>5. CASE IngestManifest
  BY <1>5, RawIngestManifest
<1> QED
  BY <1>1, <1>2, <1>3, <1>4, <1>5, RawWorld DEF Next, Step, PastStep

LEMMA RawInit == Init => RawInv
<1> SUFFICES ASSUME Init PROVE RawInv
  OBVIOUS
<1>1. dag.state # "running"
  BY DEF Init, NoRun
<1>2. BatchesAreNew
  BY DEF Init, BatchesAreNew
<1> QED
  BY <1>1, <1>2 DEF RawInv, GeneratesOwnBatch, LandedByRun, Running,
                    BetweenObjectsAndManifest, At, RawOfRun, FreshBatchIsCurrent

\* A run that generates its data goes on with all of it, whatever an earlier run
\* left in the landing zone and whichever attempts were made.
THEOREM FreshBatchStaysCurrent == Spec => []FreshBatchIsCurrent
<1>1. RawInv => FreshBatchIsCurrent
  BY DEF RawInv
<1>2. Init => TypeInv
  BY TypeInit
<1>3. TypeInv /\ [Next]_vars => TypeInv'
  BY TypeStep
<1> QED
  BY <1>1, <1>2, <1>3, RawInit, RawStep, PTL DEF Spec
-----------------------------------------------------------------------------
(***************************************************************************)
(* Where the run comes from.                                               *)
(***************************************************************************)

\* The clock and the operator, who leaves the configurations of a run alone.
Elsewhere ==
    /\ UNCHANGED <<dag, raw, outputs, learned, faults>>
    /\ dag.state = "running" => release' = release

LEMMA ElsewhereSteps ==
    ASSUME UNCHANGED vars \/ Tick \/ ChangeConfiguration \/ RegenerateByHand
    PROVE  Elsewhere
BY DEF vars, world, Tick, ChangeConfiguration, RegenerateByHand, Elsewhere, raw, outputs, learned

\* How generation and ingestion move the run.
LEMMA IngestionMoves ==
    ASSUME TypeInv
    PROVE  /\ \A given \in 0..MaxBatches, generate, strict \in BOOLEAN, split \in Splits :
                 StartRun(given, generate, strict, split) =>
                     dag'.task = "generate" /\ dag'.step = "start"
           /\ GenerateFile \/ SkipGeneration =>
                 /\ dag.state = "running" /\ dag.task = "generate"
                 /\ Onward \/ (dag'.task = "generate" /\ dag'.step = "start")
           /\ \A answered \in BOOLEAN : IngestObjects(answered) =>
                 /\ dag.state = "running" /\ dag.task = "ingest" /\ dag'.task = "ingest"
                 /\ dag'.step = "manifest"
           /\ IngestManifest =>
                 /\ dag.state = "running" /\ dag.task = "ingest"
                 /\ Onward \/ Again("ingestion")
<1>1. dag \in Runs
  BY TypeFacts
<1>2. ASSUME NEW given, NEW generate, NEW strict, NEW split,
             StartRun(given, generate, strict, split)
      PROVE  dag'.task = "generate" /\ dag'.step = "start"
  BY <1>2 DEF StartRun, NoRun
<1>3. ASSUME GenerateFile \/ SkipGeneration
      PROVE  /\ dag.state = "running" /\ dag.task = "generate"
             /\ Onward \/ (dag'.task = "generate" /\ dag'.step = "start")
  <2>1. dag.state = "running" /\ dag.task = "generate" /\ dag.step = "start"
    BY <1>3 DEF GenerateFile, SkipGeneration, At
  <2>2. dag' = Completed(dag) => Onward
    BY <1>1, <2>1, CompletedOnward DEF Kept
  <2>3. ASSUME NEW done, dag' = [dag EXCEPT !.written = done]
        PROVE  dag'.task = "generate" /\ dag'.step = "start"
    BY <1>1, <2>1, <2>3 DEF Runs
  <2> QED
    BY <1>3, <2>1, <2>2, <2>3 DEF GenerateFile, SkipGeneration
<1>4. ASSUME NEW answered \in BOOLEAN, IngestObjects(answered)
      PROVE  /\ dag.state = "running" /\ dag.task = "ingest" /\ dag'.task = "ingest"
             /\ dag'.step = "manifest"
  BY <1>1, <1>4 DEF IngestObjects, At, Runs
<1>5. ASSUME IngestManifest
      PROVE  /\ dag.state = "running" /\ dag.task = "ingest"
             /\ Onward \/ Again("ingestion")
  <2>1. dag.state = "running" /\ dag.task = "ingest"
    BY <1>5 DEF IngestManifest, At
  <2>2. dag' = Completed(dag) => Onward
    BY <1>1, <2>1, CompletedOnward DEF Kept
  <2>3. dag' = Raised(dag, "ingestion") => Again("ingestion")
    BY <2>1, RaisedAgain DEF Errors
  <2> QED
    BY <1>5, <2>1, <2>2, <2>3 DEF IngestManifest
<1> QED
  BY <1>2, <1>3, <1>4, <1>5

\* The step a run is at within a task was taken by one action.
LEMMA StepOrigin ==
    ASSUME TypeInv, [Next]_vars, dag'.state = "running", dag'.step # "start"
    PROVE  \/ Elsewhere
           \/ dag'.task = "ingest" /\ \E answered \in BOOLEAN : IngestObjects(answered)
           \/ ValidateStart /\ dag.task = "validate" /\ Within("outputs")
           \/ ValidateOutputs /\ dag.task = "validate" /\ Within("manifest")
           \/ PrepareStart /\ dag.task = "prepare" /\ Within("outputs")
           \/ PrepareOutputs /\ dag.task = "prepare" /\ Within("manifest")
           \/ FeaturesStart /\ dag.task = "features" /\ Within("persist")
           \/ FeaturesPersist /\ dag.task = "features" /\ Within("manifest")
           \/ TrainStart /\ dag.task = "train" /\ Within("save")
<1>1. ~Onward /\ \A why : ~Again(why)
  BY DEF Onward, Again
<1>2. CASE UNCHANGED vars \/ Tick \/ ChangeConfiguration \/ RegenerateByHand
  BY <1>2, ElsewhereSteps
<1>3. CASE \/ Crash \/ CrashWhileWriting \/ StageRaises
  BY <1>1, <1>3, FaultMoves
<1>4. CASE \/ \E given \in 0..MaxBatches, generate, strict \in BOOLEAN, split \in Splits :
                 StartRun(given, generate, strict, split)
           \/ GenerateFile \/ SkipGeneration \/ IngestManifest
           \/ IngestObjects(TRUE) \/ IngestObjects(FALSE)
  BY <1>1, <1>4, IngestionMoves
<1>5. CASE \/ ValidateStart \/ ValidateOutputs \/ enforce_quality_gate
           \/ \E status \in Statuses : ValidateManifest(status)
  BY <1>1, <1>5, ValidationMoves DEF ValidateStart, ValidateOutputs, At
<1>6. CASE PrepareStart \/ PrepareOutputs \/ PrepareManifest
  BY <1>1, <1>6, PreparationMoves
<1>7. CASE FeaturesStart \/ FeaturesPersist \/ FeaturesManifest
  BY <1>1, <1>7, FeaturesMoves
<1>8. CASE verify_feature_store \/ TrainStart \/ TrainSave
  BY <1>1, <1>8, TrainingMoves DEF TrainStart, At
<1> QED
  BY <1>2, <1>3, <1>4, <1>5, <1>6, <1>7, <1>8 DEF Next, Step

\* A run past ingestion was at the same task before, or some action has ended
\* the task before that one.
LEMMA TaskOrigin ==
    ASSUME TypeInv, [Next]_vars, dag'.state = "running", dag'.task \in Past
    PROVE  /\ dag.state = "running" /\ Kept(dag, dag')
           /\ \/ dag'.task = dag.task
              \/ /\ Onward /\ dag'.step = "start" /\ dag'.task = NextTask[dag.task]
                 /\ dag'.task = "validate" => IngestManifest
                 /\ dag'.task = "quality" =>
                       ValidateStart \/ \E status \in Statuses : ValidateManifest(status)
                 /\ dag'.task = "prepare" => enforce_quality_gate
                 /\ dag'.task = "features" => PrepareStart \/ PrepareOutputs \/ PrepareManifest
<1> DEFINE Stays == dag.state = "running" /\ Kept(dag, dag') /\ dag'.task = dag.task
<1>1. Onward => /\ Kept(dag, dag') /\ dag'.step = "start" /\ dag'.task = NextTask[dag.task]
                /\ dag.task # "finalize"
  BY DEF Onward
<1>2. dag'.task # "generate" /\ dag'.task # "ingest" /\ dag.task \in TaskNames
  BY TypeFacts DEF Past, Runs
<1>3. ASSUME NEW why, Again(why), dag.state = "running" PROVE Stays
  BY <1>3 DEF Again
<1>4. ASSUME NEW step, Within(step), dag.state = "running" PROVE Stays
  BY <1>4 DEF Within
<1>5. CASE UNCHANGED vars \/ Tick \/ ChangeConfiguration \/ RegenerateByHand
  BY <1>5, ElsewhereSteps DEF Elsewhere, Kept
<1>6. CASE Crash \/ CrashWhileWriting \/ StageRaises
  BY <1>3, <1>6, FaultMoves
<1>7. CASE \/ \E given \in 0..MaxBatches, generate, strict \in BOOLEAN, split \in Splits :
                 StartRun(given, generate, strict, split)
           \/ GenerateFile \/ SkipGeneration \/ IngestObjects(TRUE) \/ IngestObjects(FALSE)
  BY <1>1, <1>2, <1>7, IngestionMoves, NextTaskValues
<1>8. CASE IngestManifest
  BY <1>1, <1>2, <1>3, <1>8, IngestionMoves, NextTaskValues
<1>9. CASE \/ ValidateStart \/ ValidateOutputs
           \/ \E status \in Statuses : ValidateManifest(status)
  <2>1. dag.task = "validate"
    BY <1>9 DEF ValidateStart, ValidateOutputs, ValidateManifest, At
  <2>2. CASE ValidateOutputs
    <3>1. ~Onward
      BY ZenonT(60), <2>1, <2>2, TypeFacts, RaisedAgain, <1>1, NextTaskValues
      DEF ValidateOutputs, At, Again, Errors, Goto, Runs
    <3> QED
      BY <1>3, <1>4, <2>2, <3>1, ValidationMoves
  <2>3. CASE ValidateStart \/ \E status \in Statuses : ValidateManifest(status)
    BY <1>1, <1>3, <1>4, <2>1, <2>3, ValidationMoves, NextTaskValues
  <2> QED
    BY <1>9, <2>2, <2>3
<1>10. CASE enforce_quality_gate
  <2>1. dag.task = "quality"
    BY <1>10 DEF enforce_quality_gate, At
  <2>2. ~ValidateStart /\ ~ValidateOutputs
    BY <2>1 DEF ValidateStart, ValidateOutputs, At
  <2> QED
    BY <1>1, <1>3, <1>4, <1>10, <2>1, <2>2, ValidationMoves, NextTaskValues
<1>11. CASE PrepareStart \/ PrepareOutputs \/ PrepareManifest
  BY <1>1, <1>3, <1>4, <1>11, PreparationMoves, NextTaskValues
<1>12. CASE FeaturesStart \/ FeaturesPersist \/ FeaturesManifest
  BY <1>1, <1>3, <1>4, <1>12, FeaturesMoves, NextTaskValues
<1>13. CASE verify_feature_store \/ TrainStart \/ TrainSave
  BY <1>1, <1>3, <1>4, <1>13, TrainingMoves, NextTaskValues DEF Late
<1> QED
  BY <1>5, <1>6, <1>7, <1>8, <1>9, <1>10, <1>11, <1>12, <1>13 DEF Next, Step
-----------------------------------------------------------------------------
(***************************************************************************)
(* What one task hands over to the next.                                   *)
(***************************************************************************)

HandoverInv == ValidatedByRun /\ EligibleForRun /\ PreparedForRun /\ PersistsOnce

\* The run past ingestion works on a batch.
LEMMA PastBatch ==
    ASSUME TypeInv, dag.state = "running", dag.task \in Past
    PROVE  dag.batch \in Batches /\ dag \in Runs
BY DEF TypeInv, Placed, Ingested, Past

\* A batch that the run has just stored has no validation, and within its
\* validation only the last step records one.
LEMMA ValidatedByRunStep ==
    LineageInv /\ RawInv /\ ValidatedByRun /\ [Next]_vars => ValidatedByRun'
<1> SUFFICES ASSUME LineageInv, RawInv, ValidatedByRun, [Next]_vars,
                    dag'.state = "running", dag'.task = "validate", dag'.given = 0
             PROVE  ExistingValidations(dag.batch)' = {}
  BY DEF ValidatedByRun, Running
<1>1. TypeInv /\ "validate" \in Past
  BY DEF LineageInv, Past, TaskNames
<1>2. dag.state = "running" /\ dag.given = 0 /\ dag'.batch = dag.batch
  BY <1>1, TaskOrigin DEF Kept
<1>3. CASE dag.task = "validate"
  <2>1. ExistingValidations(dag.batch) = {}
    BY <1>2, <1>3 DEF ValidatedByRun, Running
  <2>2. ASSUME NEW status \in Statuses PROVE ~ValidateManifest(status)
    <3>1. SUFFICES ASSUME ValidateManifest(status) PROVE FALSE
      OBVIOUS
    <3>2. Onward
      BY <1>1, <1>2, <3>1, VerdictKept, CompletedOnward DEF ValidateManifest
    <3> QED
      BY <1>3, <3>2, NextTaskValues DEF Onward
  <2>3. validations' = validations
    BY <2>2, Recorded
  <2> QED
    BY <1>2, <2>1, <2>3 DEF ExistingValidations
<1>4. CASE IngestManifest
  <2>1. /\ \A h \in Hours : rawManifests[<<dag.batch, h>>] = "none"
        /\ validations' = validations
    BY <1>2, <1>4 DEF IngestManifest, outputs, RawInv, BetweenObjectsAndManifest
  <2>2. RawHours(dag.batch) = {}
    BY <2>1 DEF RawHours
  <2>3. \A v \in validations : v.batch # dag.batch
    BY <2>2 DEF LineageInv, Derived, ValidatedFromRaw, RawWith
  <2> QED
    BY <1>2, <2>1, <2>3 DEF ExistingValidations
<1> QED
  BY <1>1, <1>3, <1>4, TaskOrigin

\* The gate lets a run through to preparation only on a validation that did not
\* fail.
LEMMA EligibleForRunStep ==
    LineageInv /\ EligibleForRun /\ [Next]_vars => EligibleForRun'
<1> SUFFICES ASSUME LineageInv, EligibleForRun, [Next]_vars,
                    dag'.state = "running", dag'.task = "prepare"
             PROVE  Eligible(dag.batch)' # {}
  BY DEF EligibleForRun, Running
<1>1. TypeInv /\ "prepare" \in Past /\ Grows
  BY GrowsStep DEF LineageInv, Past, TaskNames
<1>2. dag.state = "running" /\ dag'.batch = dag.batch
  BY <1>1, TaskOrigin DEF Kept
<1>3. Eligible(dag.batch) \subseteq Eligible(dag.batch)'
  BY <1>1, <1>2 DEF Grows, Eligible
<1>4. CASE dag.task = "prepare"
  BY <1>2, <1>3, <1>4 DEF EligibleForRun, Running
<1>5. CASE enforce_quality_gate
  <2>1. dag.task = "quality"
    BY <1>5 DEF enforce_quality_gate, At
  <2>2. ~Rejected(dag.verdict, dag.strict)
    <3>1. SUFFICES ASSUME Rejected(dag.verdict, dag.strict) PROVE FALSE
      OBVIOUS
    <3>2. Again("quality gate")
      BY <1>1, <1>2, <1>5, <3>1, RaisedAgain DEF enforce_quality_gate, Errors
    <3> QED
      BY <2>1, <3>2 DEF Again
  <2>3. PICK v \in validations : v.batch = dag.batch /\ v.status = dag.verdict
    BY <1>2, <2>1 DEF LineageInv, Relies, QualityRun, ValidWith
  <2>4. v \in Eligible(dag.batch)
    BY <2>2, <2>3 DEF Rejected, Eligible
  <2> QED
    BY <1>2, <1>3, <2>4
<1> QED
  BY <1>1, <1>4, <1>5, TaskOrigin

\* A run reaches features with a whole manifest of preparation for its batch.
LEMMA PreparedForRunStep ==
    LineageInv /\ PreparedForRun /\ [Next]_vars => PreparedForRun'
<1> SUFFICES ASSUME LineageInv, PreparedForRun, [Next]_vars,
                    dag'.state = "running", dag'.task = "features"
             PROVE  \E c \in Contents : PreparedWith(dag.batch, c)'
  BY DEF PreparedForRun, Running
<1>1. TypeInv /\ "features" \in Past /\ "prepare" \in Past /\ Grows
  BY GrowsStep DEF LineageInv, Past, TaskNames
<1>2. dag.state = "running" /\ dag'.batch = dag.batch
  BY <1>1, TaskOrigin DEF Kept
<1>3. ASSUME NEW c \in Contents, PreparedWith(dag.batch, c), dag.batch \in Batches
      PROVE  PreparedWith(dag.batch, c)'
  BY <1>1, <1>2, <1>3, GrowsFacts
<1>4. CASE dag.task = "features"
  <2>1. dag.batch \in Batches
    BY <1>1, <1>2, <1>4, PastBatch
  <2> QED
    BY <1>2, <1>3, <1>4, <2>1 DEF PreparedForRun, Running
<1>5. CASE (PrepareStart \/ PrepareOutputs \/ PrepareManifest) /\ dag.task # "features"
  <2>1. dag.task = "prepare" /\ dag \in Runs /\ dag.batch \in Batches
    BY <1>1, <1>2, <1>5, PastBatch DEF PrepareStart, PrepareOutputs, PrepareManifest, At
  <2>2. \A why \in Errors : dag' # Raised(dag, why)
    BY <1>1, <1>2, <2>1, RaisedAgain DEF Again
  <2>3. CASE PrepareStart
    <3>1. \A c : dag' # [dag EXCEPT !.step = "outputs", !.content = c, !.at = hour]
      BY <2>1 DEF Runs
    <3>2. PICK p \in ExistingPreparations(dag.batch) : ~p.torn
      BY <2>2, <2>3, <3>1 DEF PrepareStart, Errors
    <3>3. p.content \in Contents /\ PreparedWith(dag.batch, p.content)
      BY <3>2 DEF ExistingPreparations, PreparedWith, LineageInv, TypeInv, StoreTypes, Preparations
    <3> QED
      BY <1>3, <2>1, <3>3
  <2>4. CASE PrepareOutputs
    BY <2>1, <2>2, <2>4 DEF PrepareOutputs, Goto, Runs, Errors
  <2>5. CASE PrepareManifest
    <3>1. \E p \in preparations' : p.batch = dag.batch /\ p.content = dag.content /\ ~p.torn
      <4> DEFINE p == [batch |-> dag.batch, hour |-> dag.at, content |-> dag.content, torn |-> FALSE]
      <4>1. p \in preparations'
        BY <2>5 DEF PrepareManifest
      <4> QED
        BY <4>1
    <3>2. dag.content \in Contents
      BY <2>1 DEF Runs
    <3> QED
      BY <1>2, <3>1, <3>2 DEF PreparedWith
  <2> QED
    BY <1>5, <2>3, <2>4, <2>5
<1> QED
  BY <1>1, <1>4, <1>5, TaskOrigin

\* What an attempt computes was not in the warehouse when it started, and nobody
\* else writes there.
LEMMA PersistsOnceStep == TypeInv /\ PersistsOnce /\ [Next]_vars => PersistsOnce'
<1> SUFFICES ASSUME TypeInv, PersistsOnce, [Next]_vars,
                    dag'.state = "running", dag'.task = "features", dag'.step = "persist"
             PROVE  find_identity(Identity(dag.batch, dag.content, dag.split))' = {}
  BY DEF PersistsOnce, At
<1>1. CASE Elsewhere
  BY <1>1 DEF Elsewhere, learned, PersistsOnce, At, find_identity, Identity
<1>2. CASE FeaturesStart /\ Within("persist") /\ dag.task = "features"
  <2>1. dag \in Runs /\ dag.state = "running" /\ store' = store /\ release' = release
    BY <1>2, TypeFacts DEF FeaturesStart, At, learned, world
  <2>2. \A why \in Errors : dag' # Raised(dag, why)
    BY <2>1, RaisedAgain DEF Again
  <2>3. \A r \in store : dag' # Completed([dag EXCEPT !.feature = r.id])
    <3>1. SUFFICES ASSUME NEW r \in store, dag' = Completed([dag EXCEPT !.feature = r.id])
                   PROVE  FALSE
      OBVIOUS
    <3>2. r.id \in Nat
      BY DEF TypeInv, StoreTypes, Rows
    <3>3. PICK q \in Runs : q = [dag EXCEPT !.feature = r.id]
      BY <2>1, <3>2 DEF Runs
    <3>4. q.state = "running" /\ q.task = dag.task /\ Kept(dag, q)
      BY <2>1, <3>3 DEF Runs, Kept
    <3>5. Onward
      BY <3>1, <3>3, <3>4, CompletedOnward
    <3> QED
      BY <3>5 DEF Onward
  <2>4. PICK p \in preparations :
           /\ p.batch = dag.batch /\ find_identity(Identity(p.batch, p.content, dag.split)) = {}
           /\ dag' = [dag EXCEPT !.step = "persist", !.content = p.content]
    BY <1>2, <2>2, <2>3 DEF FeaturesStart, find_identity, Errors
  <2>5. dag'.batch = dag.batch /\ dag'.content = p.content /\ dag'.split = dag.split
    BY <2>1, <2>4 DEF Runs
  <2> QED
    BY <2>1, <2>4, <2>5 DEF find_identity, Identity
<1> QED
  BY <1>1, <1>2, StepOrigin DEF Within

LEMMA HandoverStep == LineageInv /\ RawInv /\ HandoverInv /\ [Next]_vars => HandoverInv'
BY ValidatedByRunStep, EligibleForRunStep, PreparedForRunStep, PersistsOnceStep
DEF HandoverInv, LineageInv

LEMMA HandoverInit == Init => HandoverInv
<1> SUFFICES ASSUME Init PROVE HandoverInv
  OBVIOUS
<1>1. dag.state # "running"
  BY DEF Init, NoRun
<1> QED
  BY <1>1 DEF HandoverInv, ValidatedByRun, EligibleForRun, PreparedForRun, PersistsOnce, Running, At
-----------------------------------------------------------------------------
(***************************************************************************)
(* What is stored as long as nothing fails.                                *)
(***************************************************************************)

\* Faults are counted, so a run without any has taken none of these steps.
LEMMA NoFaults ==
    ASSUME TypeInv, [Next]_vars, faults' = 0
    PROVE  /\ faults = 0 /\ ~Crash /\ ~CrashWhileWriting /\ ~IngestObjects(FALSE)
           /\ Elsewhere \/ StageRaises \/ Step \/
              \E given \in 0..MaxBatches, generate, strict \in BOOLEAN, split \in Splits :
                  StartRun(given, generate, strict, split)
<1>1. faults \in Nat
  BY BoundsFacts DEF TypeInv, StoreTypes
<1>2. ~Crash /\ ~CrashWhileWriting /\ ~IngestObjects(FALSE)
  BY <1>1 DEF Crash, CrashWhileWriting, IngestObjects
<1>3. \/ Elsewhere \/ StageRaises \/ Step
      \/ \E given \in 0..MaxBatches, generate, strict \in BOOLEAN, split \in Splits :
            StartRun(given, generate, strict, split)
  BY <1>2, ElsewhereSteps DEF Next
<1>4. CASE Elsewhere \/ StageRaises
  BY <1>2, <1>3, <1>4 DEF Elsewhere, StageRaises
<1>5. CASE \E given \in 0..MaxBatches, generate, strict \in BOOLEAN, split \in Splits :
              StartRun(given, generate, strict, split)
  BY <1>2, <1>3, <1>5 DEF StartRun
<1>6. CASE PastStep
  BY <1>2, <1>3, <1>6, PastMoves
<1>7. CASE GenerateFile \/ SkipGeneration \/ IngestObjects(TRUE) \/ IngestManifest
  BY <1>2, <1>3, <1>7 DEF GenerateFile, SkipGeneration, IngestObjects, IngestManifest
<1> QED
  BY <1>3, <1>4, <1>5, <1>6, <1>7 DEF Step, PastStep

\* A run that is not under way waits for the next one.
LEMMA WaitsForRun ==
    ASSUME TypeInv, [Next]_vars, faults' = 0, dag.state # "running"
    PROVE  Elsewhere \/ dag'.state = "running"
<1>1. ~StageRaises
  BY DEF StageRaises, At
<1>2. ~PastStep
  BY PastMoves
<1>3. ~GenerateFile /\ ~SkipGeneration /\ ~IngestObjects(TRUE) /\ ~IngestManifest
  BY DEF GenerateFile, SkipGeneration, IngestObjects, IngestManifest, At
<1>4. ASSUME NEW given, NEW generate, NEW strict, NEW split,
             StartRun(given, generate, strict, split)
      PROVE  dag'.state = "running"
  BY <1>4 DEF StartRun, NoRun
<1> QED
  BY <1>1, <1>2, <1>3, <1>4, NoFaults DEF Step, PastStep

\* Before its manifest a stage has nothing to do but to write it.
LEMMA ManifestSteps ==
    ASSUME TypeInv, [Next]_vars, faults' = 0, dag.state = "running", dag.step = "manifest"
    PROVE  \/ Elsewhere \/ IngestManifest \/ PrepareManifest \/ FeaturesManifest
           \/ \E status \in Statuses : ValidateManifest(status)
<1>1. ~StageRaises
  BY DEF StageRaises, At
<1>2. \A given, generate, strict, split : ~StartRun(given, generate, strict, split)
  BY DEF StartRun
<1>3. ~GenerateFile /\ ~SkipGeneration /\ ~IngestObjects(TRUE)
  BY DEF GenerateFile, SkipGeneration, IngestObjects, At
<1>4. ~ValidateStart /\ ~ValidateOutputs /\ ~enforce_quality_gate /\ ~PrepareStart
  BY DEF ValidateStart, ValidateOutputs, enforce_quality_gate, PrepareStart, At
<1>5. /\ ~PrepareOutputs /\ ~FeaturesStart /\ ~FeaturesPersist /\ ~verify_feature_store
      /\ ~TrainStart /\ ~TrainSave
  BY DEF PrepareOutputs, FeaturesStart, FeaturesPersist, verify_feature_store, TrainStart,
         TrainSave, At
<1> QED
  BY <1>1, <1>2, <1>3, <1>4, <1>5, NoFaults DEF Step

\* Where a step writes outputs and feature manifests.
LEMMA Written ==
    ASSUME [Next]_vars
    PROVE  /\ UNCHANGED reports \/ ValidateOutputs
           /\ UNCHANGED drafts \/ PrepareOutputs
           /\ UNCHANGED manifests \/ FeaturesManifest \/ CrashWhileWriting
<1> USE DEF raw, outputs, learned, world
<1>1. CASE \/ UNCHANGED vars \/ Tick \/ ChangeConfiguration \/ RegenerateByHand
           \/ \E given \in 0..MaxBatches, generate, strict \in BOOLEAN, split \in Splits :
                  StartRun(given, generate, strict, split)
           \/ Crash \/ StageRaises \/ GenerateFile \/ SkipGeneration
  BY <1>1 DEF vars, Tick, ChangeConfiguration, RegenerateByHand, StartRun, Crash,
              StageRaises, GenerateFile, SkipGeneration
<1>2. CASE \/ ValidateStart \/ ValidateOutputs \/ enforce_quality_gate \/ PrepareStart
           \/ PrepareOutputs \/ FeaturesStart \/ FeaturesManifest \/ verify_feature_store
           \/ TrainStart
  BY <1>2 DEF ValidateStart, ValidateOutputs, enforce_quality_gate, PrepareStart,
              PrepareOutputs, FeaturesStart, FeaturesManifest, verify_feature_store, TrainStart
<1>3. CASE \/ CrashWhileWriting \/ IngestObjects(TRUE) \/ IngestObjects(FALSE)
           \/ IngestManifest \/ \E s \in Statuses : ValidateManifest(s)
  BY <1>3 DEF CrashWhileWriting, IngestObjects, IngestManifest, ValidateManifest
<1>4. CASE PrepareManifest \/ FeaturesPersist \/ TrainSave
  BY <1>4 DEF PrepareManifest, FeaturesPersist, TrainSave
<1> QED
  BY <1>1, <1>2, <1>3, <1>4 DEF Next, Step

LEMMA NothingTornStep ==
    TypeInv /\ NothingTorn /\ [Next]_vars /\ faults' = 0 => NothingTorn'
<1> SUFFICES ASSUME TypeInv, NothingTorn, [Next]_vars, faults' = 0 PROVE NothingTorn'
  OBVIOUS
<1>1. ~CrashWhileWriting
  BY NoFaults
<1>2. \A p \in preparations' : ~p.torn
  BY <1>1, Recorded DEF NothingTorn, PrepareManifest
<1>3. \A i \in DOMAIN manifests' : ~manifests'[i].torn
  <2>1. CASE UNCHANGED manifests
    BY <2>1 DEF NothingTorn
  <2>2. CASE FeaturesManifest
    <3>1. manifests \in Seq([id : Nat, torn : BOOLEAN])
      BY DEF TypeInv, StoreTypes
    <3>2. manifests' = Append(manifests, [id |-> dag.feature, torn |-> FALSE])
      BY <2>2 DEF FeaturesManifest
    <3> QED
      BY <3>1, <3>2 DEF NothingTorn
  <2> QED
    BY <1>1, <2>1, <2>2, Written
<1> QED
  BY <1>2, <1>3 DEF NothingTorn

\* Between the outputs of a validation and its manifest no other step is taken.
LEMMA ReportsStep ==
    ASSUME LineageInv, OutputsHaveManifests, [Next]_vars, faults' = 0, NEW k \in reports'
    PROVE  \/ \E v \in validations' : v.batch = k[1]
           \/ At("validate", "manifest")' /\ dag'.batch = k[1]
<1>1. TypeInv /\ validations \subseteq validations'
  BY GrowsStep DEF LineageInv, Grows
<1>2. CASE k \in reports /\ \E v \in validations : v.batch = k[1]
  BY <1>1, <1>2
<1>3. CASE At("validate", "manifest") /\ dag.batch = k[1]
  <2>1. Elsewhere \/ \E status \in Statuses : ValidateManifest(status)
    BY <1>1, <1>3, ManifestSteps DEF At, IngestManifest, PrepareManifest, FeaturesManifest
  <2>2. CASE Elsewhere
    BY <1>3, <2>2 DEF Elsewhere, At
  <2>3. ASSUME NEW status \in Statuses, ValidateManifest(status)
        PROVE  \E v \in validations' : v.batch = k[1]
    <3> DEFINE v == [batch |-> dag.batch, hour |-> dag.at, content |-> dag.content,
                     status |-> status]
    <3>1. v \in validations'
      BY <2>3 DEF ValidateManifest
    <3> QED
      BY <1>3, <3>1
  <2> QED
    BY <2>1, <2>2, <2>3
<1>4. CASE k \notin reports
  <2>1. ValidateOutputs /\ k = <<dag.batch, dag.at>> /\ dag' = Goto(dag, "manifest")
    BY <1>4, Written DEF ValidateOutputs
  <2>2. dag \in Runs /\ At("validate", "outputs")
    BY <1>1, <2>1, TypeFacts DEF ValidateOutputs
  <2> QED
    BY <2>1, <2>2 DEF At, Goto, Runs
<1> QED
  BY <1>2, <1>3, <1>4 DEF OutputsHaveManifests, ExistingValidations

LEMMA DraftsStep ==
    ASSUME LineageInv, OutputsHaveManifests, [Next]_vars, faults' = 0, NEW k \in drafts'
    PROVE  \/ \E p \in preparations' : p.batch = k[1]
           \/ At("prepare", "manifest")' /\ dag'.batch = k[1]
<1>1. TypeInv /\ preparations \subseteq preparations'
  BY GrowsStep DEF LineageInv, Grows
<1>2. CASE k \in drafts /\ \E p \in preparations : p.batch = k[1]
  BY <1>1, <1>2
<1>3. CASE At("prepare", "manifest") /\ dag.batch = k[1]
  <2>1. Elsewhere \/ PrepareManifest
    BY <1>1, <1>3, ManifestSteps DEF At, IngestManifest, ValidateManifest, FeaturesManifest
  <2>2. CASE Elsewhere
    BY <1>3, <2>2 DEF Elsewhere, At
  <2>3. CASE PrepareManifest
    <3> DEFINE p == [batch |-> dag.batch, hour |-> dag.at, content |-> dag.content,
                     torn |-> FALSE]
    <3>1. p \in preparations'
      BY <2>3 DEF PrepareManifest
    <3> QED
      BY <1>3, <3>1
  <2> QED
    BY <2>1, <2>2, <2>3
<1>4. CASE k \notin drafts
  <2>1. PrepareOutputs /\ k = <<dag.batch, dag.at>> /\ dag' = Goto(dag, "manifest")
    BY <1>4, Written DEF PrepareOutputs
  <2>2. dag \in Runs /\ At("prepare", "outputs")
    BY <1>1, <2>1, TypeFacts DEF PrepareOutputs
  <2> QED
    BY <2>1, <2>2 DEF At, Goto, Runs
<1> QED
  BY <1>2, <1>3, <1>4 DEF OutputsHaveManifests, ExistingPreparations

LEMMA OutputsHaveManifestsStep ==
    LineageInv /\ OutputsHaveManifests /\ [Next]_vars /\ faults' = 0 => OutputsHaveManifests'
BY ReportsStep, DraftsStep DEF OutputsHaveManifests, ExistingValidations, ExistingPreparations

\* The attempt that prepares a batch found no manifest of it.
LEMMA PreparingAlone ==
    ASSUME TypeInv, PreparedOnce, [Next]_vars, faults' = 0,
           At("prepare", "outputs")' \/ At("prepare", "manifest")'
    PROVE  \A p \in preparations' : p.batch # dag'.batch
<1>1. dag'.state = "running" /\ dag'.task = "prepare" /\ dag'.step \in {"outputs", "manifest"}
  BY DEF At
<1>2. CASE Elsewhere
  BY <1>1, <1>2 DEF Elsewhere, outputs, At, PreparedOnce, ExistingPreparations
<1>3. CASE PrepareStart /\ dag.task = "prepare" /\ Within("outputs")
  <2>1. dag \in Runs /\ dag.state = "running" /\ preparations' = preparations
    BY <1>3, TypeFacts DEF PrepareStart, At, outputs
  <2>2. \A why \in Errors : dag' # Raised(dag, why)
    BY <1>3, <2>1, RaisedAgain DEF Again, Within
  <2>3. dag' # Completed(dag)
    BY <1>3, <2>1, CompletedOnward DEF Kept, Onward, Within
  <2>4. ExistingPreparations(dag.batch) = {}
    BY <1>3, <2>2, <2>3 DEF PrepareStart, Errors
  <2> QED
    BY <1>3, <2>1, <2>4 DEF ExistingPreparations, Within, Kept
<1>4. CASE PrepareOutputs /\ dag.task = "prepare" /\ Within("manifest")
  <2>1. At("prepare", "outputs") /\ preparations' = preparations
    BY <1>4 DEF PrepareOutputs
  <2> QED
    BY <1>4, <2>1 DEF PreparedOnce, ExistingPreparations, Within, Kept
<1> QED
  BY <1>1, <1>2, <1>3, <1>4, StepOrigin DEF Within

\* Nobody but the run prepares the batch that the run made.
LEMMA OwnBatchUnprepared ==
    ASSUME LineageInv, RawInv, PreparedOnce, [Next]_vars, faults' = 0,
           dag'.state = "running", dag'.given = 0, dag'.task \in {"validate", "quality", "prepare"}
    PROVE  \A p \in preparations' : p.batch # dag'.batch
<1>1. TypeInv /\ dag'.task \in Past
  BY DEF LineageInv, Past, TaskNames
<1>2. dag.state = "running" /\ dag.given = 0 /\ dag'.batch = dag.batch
  BY <1>1, TaskOrigin DEF Kept
<1>3. ~PrepareManifest /\ ~CrashWhileWriting
  <2>1. ASSUME PrepareManifest PROVE FALSE
    <3>1. Onward
      BY <1>1, <1>2, <2>1, TypeFacts, CompletedOnward DEF PrepareManifest, Kept
    <3> QED
      BY <2>1, <3>1, NextTaskValues DEF Onward, PrepareManifest, At
  <2> QED
    BY <1>1, <2>1, NoFaults
<1>4. preparations' = preparations
  BY <1>3, Recorded
<1>5. CASE dag.task \in {"validate", "quality", "prepare"}
  BY <1>2, <1>4, <1>5 DEF PreparedOnce, ExistingPreparations
<1>6. CASE IngestManifest
  <2>1. RawHours(dag.batch) = {}
    BY <1>2, <1>6 DEF IngestManifest, RawInv, BetweenObjectsAndManifest, RawHours
  <2>2. \A v \in validations : v.batch # dag.batch
    BY <2>1 DEF LineageInv, Derived, ValidatedFromRaw, RawWith
  <2>3. \A p \in preparations : p.batch # dag.batch
    BY <2>2 DEF LineageInv, Derived, PreparedFromValidated, EligibleWith, Eligible
  <2> QED
    BY <1>2, <1>4, <2>3
<1> QED
  BY <1>1, <1>5, <1>6, TaskOrigin DEF ValidateStart, ValidateManifest, enforce_quality_gate, At

LEMMA PreparedOnceStep ==
    LineageInv /\ RawInv /\ PreparedOnce /\ [Next]_vars /\ faults' = 0 => PreparedOnce'
<1> SUFFICES ASSUME LineageInv, RawInv, PreparedOnce, [Next]_vars, faults' = 0
             PROVE  PreparedOnce'
  OBVIOUS
<1>1. TypeInv
  BY DEF LineageInv
<1>2. \A p, q \in preparations' : p.batch = q.batch => p = q
  <2>1. CASE UNCHANGED preparations
    BY <2>1 DEF PreparedOnce
  <2>2. CASE PrepareManifest
    <3> DEFINE p == [batch |-> dag.batch, hour |-> dag.at, content |-> dag.content,
                     torn |-> FALSE]
    <3>1. preparations' = preparations \cup {p} /\ At("prepare", "manifest")
      BY <2>2 DEF PrepareManifest
    <3>2. p.batch = dag.batch
      OBVIOUS
    <3>3. \A q \in preparations : q.batch # dag.batch
      BY <3>1 DEF PreparedOnce, ExistingPreparations
    <3> HIDE DEF p
    <3> QED
      BY <3>1, <3>2, <3>3 DEF PreparedOnce
  <2> QED
    BY <1>1, <2>1, <2>2, Recorded, NoFaults
<1>3. At("prepare", "outputs")' \/ At("prepare", "manifest")' =>
         ExistingPreparations(dag.batch)' = {}
  BY <1>1, PreparingAlone DEF ExistingPreparations
<1>4. dag'.state = "running" /\ dag'.given = 0 /\ dag'.task \in {"validate", "quality", "prepare"}
         => ExistingPreparations(dag.batch)' = {}
  BY OwnBatchUnprepared DEF ExistingPreparations
<1> QED
  BY <1>2, <1>3, <1>4 DEF PreparedOnce

\* A row is stored by an attempt that goes on to write its manifest.
LEMMA RowsPersist ==
    ASSUME LineageInv, RowsHaveManifests, FeaturesPersist,
           find_identity(Identity(dag.batch, dag.content, dag.split)) = {}
    PROVE  RowsHaveManifests'
<1> DEFINE id == Cardinality(store) + 1
           row == [id |-> id, identity |-> Identity(dag.batch, dag.content, dag.split),
                   batch |-> dag.batch, content |-> dag.content, split |-> dag.split,
                     release |-> release]
<1>1. /\ At("features", "persist") /\ manifests' = manifests /\ store' = store \cup {row}
      /\ dag' = [dag EXCEPT !.step = "manifest", !.feature = id] /\ dag \in Runs
  BY TypeFacts DEF FeaturesPersist, LineageInv
<1>2. row.id = id
  OBVIOUS
<1> HIDE DEF row
<1>3. Cardinality(store) \in Nat /\ \A r \in store : r.id \in Nat /\ r.id <= Cardinality(store)
  BY FS_CardinalityType DEF LineageInv, TypeInv, StoreTypes, Rows, Derived, RowsDiffer
<1>4. At("features", "manifest")' /\ dag'.feature = id /\ ~At("features", "manifest")
  BY <1>1 DEF At, Runs
<1> HIDE DEF id
<1>5. \A i \in DOMAIN manifests : manifests[i].id # id
  BY <1>3 DEF RowsHaveManifests, id
<1> QED
  BY <1>1, <1>2, <1>4, <1>5 DEF RowsHaveManifests

LEMMA RowsManifest ==
    ASSUME LineageInv, RowsHaveManifests, FeaturesManifest
    PROVE  RowsHaveManifests'
<1> DEFINE m == [id |-> dag.feature, torn |-> FALSE]
           n == Len(manifests)
<1>1. /\ At("features", "manifest") /\ store' = store /\ manifests' = Append(manifests, m)
      /\ dag' = Completed(dag) /\ dag \in Runs
  BY TypeFacts DEF FeaturesManifest, LineageInv
<1>2. m.id = dag.feature
  OBVIOUS
<1>3. m \in [id : Nat, torn : BOOLEAN] /\ manifests \in Seq([id : Nat, torn : BOOLEAN])
  BY <1>1 DEF Runs, LineageInv, TypeInv, StoreTypes
<1> HIDE DEF m
<1>4. /\ DOMAIN manifests = 1..n /\ n \in Nat /\ DOMAIN manifests' = 1..(n + 1)
      /\ manifests'[n + 1] = m /\ \A i \in 1..n : manifests'[i] = manifests[i]
  BY <1>1, <1>3
<1>5. ~At("features", "manifest")'
  BY <1>1, CompletedOnward DEF At, Onward, Kept
<1>6. PICK r \in store : r.id = dag.feature
  BY <1>1 DEF LineageInv, Relies, FeatureRun, RowWith
<1>7. \A i \in 1..n : manifests[i].id # dag.feature
  BY <1>1, <1>4 DEF RowsHaveManifests
<1> HIDE DEF n
<1>8. \A s \in store' : \E i \in DOMAIN manifests' : manifests'[i].id = s.id
  <2> TAKE s \in store'
  <2>1. CASE s.id = dag.feature
    BY <1>2, <1>4, <2>1
  <2>2. CASE s.id # dag.feature
    BY <1>1, <1>4, <2>2 DEF RowsHaveManifests
  <2> QED
    BY <2>1, <2>2
<1>9. \A i \in DOMAIN manifests' : \E s \in store' : s.id = manifests'[i].id
  BY <1>1, <1>2, <1>4, <1>6 DEF RowsHaveManifests
<1>10. \A i, j \in DOMAIN manifests' : manifests'[i].id = manifests'[j].id => i = j
  BY <1>2, <1>4, <1>7 DEF RowsHaveManifests
<1> QED
  BY <1>5, <1>8, <1>9, <1>10 DEF RowsHaveManifests

LEMMA RowsHaveManifestsStep ==
    LineageInv /\ RowsHaveManifests /\ [Next]_vars /\ faults' = 0 => RowsHaveManifests'
<1> SUFFICES ASSUME LineageInv, RowsHaveManifests, [Next]_vars, faults' = 0
             PROVE  RowsHaveManifests'
  OBVIOUS
<1>1. TypeInv
  BY DEF LineageInv
<1> DEFINE stores ==
             FeaturesPersist /\ find_identity(Identity(dag.batch, dag.content, dag.split)) = {}
<1>2. CASE stores
  BY <1>2, RowsPersist
<1>3. CASE FeaturesManifest
  BY <1>3, RowsManifest
<1>4. CASE Elsewhere
  BY <1>4 DEF Elsewhere, learned, RowsHaveManifests, At
<1>5. CASE ~stores /\ ~FeaturesManifest /\ ~Elsewhere
  <2>1. store' = store /\ manifests' = manifests
    BY <1>1, <1>5, Recorded, Written, NoFaults DEF FeaturesPersist
  <2>2. ~At("features", "manifest")
    BY <1>1, <1>5, ManifestSteps DEF At, IngestManifest, PrepareManifest, ValidateManifest
  <2>3. ~At("features", "manifest")'
    <3>1. SUFFICES ASSUME At("features", "manifest")' PROVE FALSE
      OBVIOUS
    <3>2. FeaturesPersist /\ dag.task = "features"
      BY <1>1, <1>5, <3>1, StepOrigin DEF At, Within
    <3>3. dag.state = "running" /\ dag' = Raised(dag, "rolled back")
      BY <1>5, <3>2 DEF FeaturesPersist, At
    <3> QED
      BY <1>1, <3>1, <3>3, RaisedAgain DEF Again, At, Errors
  <2> QED
    BY <2>1, <2>2, <2>3 DEF RowsHaveManifests
<1> QED
  BY <1>2, <1>3, <1>4, <1>5

\* The ingestion of generated data finds every landing file, and its batch has
\* no objects yet.
LEMMA IngestsAllStep ==
    TypeInv /\ RawInv /\ IngestsAll /\ [Next]_vars /\ faults' = 0 => IngestsAll'
<1> SUFFICES ASSUME TypeInv, RawInv, IngestsAll, [Next]_vars, faults' = 0,
                    At("ingest", "manifest")', dag'.generate
             PROVE  dag'.verdict = "SUCCESS"
  BY DEF IngestsAll
<1>1. CASE Elsewhere
  BY <1>1 DEF Elsewhere, IngestsAll, At
<1>2. CASE IngestObjects(TRUE)
  <2> DEFINE k == <<lastBatch + 1, hour>>
  <2>1. /\ dag \in Runs /\ dag.state = "running" /\ dag.task = "ingest"
        /\ dag' = [dag EXCEPT !.step = "manifest", !.batch = dag'.batch, !.at = hour,
                              !.verdict = dag'.verdict]
        /\ dag'.batch \in Batches
        /\ dag'.batch = IF dag.given = 0 THEN lastBatch + 1 ELSE dag.given
    BY <1>2, IngestedObjects, TypeFacts DEF IngestObjects, At
  <2>2. dag.generate
    BY <2>1 DEF Runs
  <2>3. dag.given = 0
    BY <2>1, <2>2 DEF RawInv, GeneratesOwnBatch
  <2>4. /\ k \in Partitions /\ k[1] > lastBatch /\ release \in Nat \ {0}
        /\ \A f \in Names : landing[f] = release
    BY <2>1, <2>2, <2>3, TypeFacts, BoundsFacts
    DEF RawInv, LandedByRun, Running, Partitions, TypeInv, StoreTypes
  <2>5. \A f \in Names : landing[f] # 0 /\ objects[k][f] \in {0, landing[f]}
    BY <2>4 DEF RawInv, BatchesAreNew, Missing
  <2>6. dag' = [dag EXCEPT !.step = "manifest", !.batch = lastBatch + 1, !.at = hour,
                           !.verdict = "SUCCESS"]
    BY <1>2, <2>3, <2>5 DEF IngestObjects
  <2> QED
    BY <2>1, <2>6 DEF Runs
<1> QED
  BY <1>1, <1>2, StepOrigin, NoFaults DEF At, Within

LEMMA TidyStep == LineageInv /\ RawInv /\ TidyInv /\ [Next]_vars => TidyInv'
<1> SUFFICES ASSUME LineageInv, RawInv, TidyInv, [Next]_vars, faults' = 0 PROVE Tidy'
  BY DEF TidyInv
<1>1. TypeInv /\ Tidy
  BY NoFaults DEF LineageInv, TidyInv
<1> QED
  BY <1>1, NothingTornStep, OutputsHaveManifestsStep, PreparedOnceStep, RowsHaveManifestsStep,
     IngestsAllStep DEF Tidy

LEMMA TidyInit == Init => TidyInv
<1> SUFFICES ASSUME Init PROVE Tidy
  BY DEF TidyInv
<1>1. dag.state # "running"
  BY DEF Init, NoRun
<1>2. NothingTorn /\ OutputsHaveManifests
  BY DEF Init, NothingTorn, OutputsHaveManifests
<1>3. PreparedOnce /\ RowsHaveManifests /\ IngestsAll
  BY <1>1 DEF Init, PreparedOnce, RowsHaveManifests, IngestsAll, At
<1> QED
  BY <1>2, <1>3 DEF Tidy
-----------------------------------------------------------------------------
(***************************************************************************)
(* Why a run fails when nothing has.                                       *)
(***************************************************************************)

\* The invariant of a state without faults.
Settled == LineageInv /\ RawInv /\ HandoverInv /\ Tidy

\* The run has failed for this reason.
Fails(why) == dag'.state = "failed" => dag'.error = why /\ Kept(dag, dag')

LEMMA RaisedFails ==
    ASSUME TypeInv, NEW why \in Errors, dag.state = "running", dag' = Raised(dag, why)
    PROVE  Fails(why)
BY RaisedAgain DEF Again, Fails

LEMMA CompletedLives ==
    ASSUME NEW r \in Runs, r.state = "running", r.task = dag.task, Kept(dag, r),
           dag' = Completed(r)
    PROVE  dag'.state # "failed"
BY CompletedOnward DEF Onward

LEMMA ValidationCause ==
    ASSUME Settled,
           \/ ValidateStart \/ ValidateOutputs \/ enforce_quality_gate
           \/ \E status \in Statuses : ValidateManifest(status),
           dag'.state = "failed"
    PROVE  FaultFreeRunsFailForCause'
<1>1. /\ TypeInv /\ dag \in Runs /\ dag.state = "running" /\ rawManifests' = rawManifests
      /\ dag.task \in {"validate", "quality"}
  BY TypeFacts DEF Settled, LineageInv, ValidateStart, ValidateOutputs, ValidateManifest,
                   enforce_quality_gate, At, raw
<1>2. \A verdict \in Statuses \cup {""} : dag' # Completed([dag EXCEPT !.verdict = verdict])
  BY <1>1, VerdictKept, CompletedLives
<1>3. CASE ValidateStart
  <2>1. dag.task = "validate" /\ "validate" \in Past
    BY <1>3 DEF ValidateStart, At, Past, TaskNames
  <2>2. \A v \in ExistingValidations(dag.batch) : v.status \in Statuses
    BY <1>1 DEF ExistingValidations, TypeInv, StoreTypes, Validations
  <2>3. \A c : dag' # [dag EXCEPT !.step = "outputs", !.content = c, !.at = hour]
    BY <1>1 DEF Runs
  <2>4. \/ RawHours(dag.batch) = {} /\ dag' = Raised(dag, "raw batch not found")
        \/ ExistingValidations(dag.batch) # {} /\ dag' = Raised(dag, "content conflict")
    BY <1>2, <1>3, <2>2, <2>3 DEF ValidateStart
  <2>5. CASE RawHours(dag.batch) = {} /\ dag' = Raised(dag, "raw batch not found")
    <3>1. dag'.error = "raw batch not found" /\ Kept(dag, dag')
      BY <1>1, <2>5, RaisedFails DEF Fails, Errors
    <3>2. dag.given # 0 /\ \E h \in Hours : rawManifests[<<dag.batch, h>>] # "none"
      BY <1>1, <2>1, <2>5 DEF Settled, RawInv, RawOfRun
    <3>3. PICK h \in Hours : rawManifests[<<dag.batch, h>>] # "none"
      BY <3>2
    <3>4. <<dag.batch, h>> \in Partitions /\ rawManifests[<<dag.batch, h>>] # "SUCCESS"
      BY <1>1, <2>1, <2>5, PastBatch DEF RawHours, Partitions
    <3>5. rawManifests[<<dag.batch, h>>] = "PARTIAL_SUCCESS"
      BY <1>1, <3>3, <3>4 DEF TypeInv, StoreTypes
    <3> QED
      BY <1>1, <3>1, <3>2, <3>5 DEF FaultFreeRunsFailForCause, Kept
  <2>6. CASE ExistingValidations(dag.batch) # {} /\ dag' = Raised(dag, "content conflict")
    <3>1. dag'.error = "content conflict" /\ Kept(dag, dag')
      BY <1>1, <2>6, RaisedFails DEF Fails, Errors
    <3>2. dag.given # 0
      BY <1>1, <2>1, <2>6 DEF Settled, HandoverInv, ValidatedByRun, Running
    <3> QED
      BY <3>1, <3>2 DEF FaultFreeRunsFailForCause, Kept
  <2> QED
    BY <2>4, <2>5, <2>6
<1>4. CASE ValidateOutputs
  <2>1. At("validate", "outputs") /\ dag' # Goto(dag, "manifest")
    BY <1>1, <1>4 DEF ValidateOutputs, Goto, Runs
  <2>2. <<dag.batch, dag.at>> \in reports
    BY <1>4, <2>1 DEF ValidateOutputs
  <2>3. ExistingValidations(dag.batch) = {} /\ ~At("validate", "manifest")
    BY <2>1 DEF Settled, LineageInv, Relies, ValidateRun, At
  <2> QED
    BY <2>2, <2>3 DEF Settled, Tidy, OutputsHaveManifests
<1>5. CASE enforce_quality_gate
  <2>1. dag' = Raised(dag, "quality gate")
    BY <1>2, <1>5 DEF enforce_quality_gate
  <2>2. dag'.error = "quality gate"
    BY <1>1, <2>1, RaisedFails DEF Fails, Errors
  <2> QED
    BY <2>2 DEF FaultFreeRunsFailForCause
<1>6. CASE \E status \in Statuses : ValidateManifest(status)
  BY <1>2, <1>6 DEF ValidateManifest
<1> QED
  BY <1>3, <1>4, <1>5, <1>6

LEMMA PreparationCause ==
    ASSUME Settled, PrepareStart \/ PrepareOutputs \/ PrepareManifest, dag'.state = "failed"
    PROVE  FaultFreeRunsFailForCause'
<1>1. TypeInv /\ dag \in Runs /\ dag.state = "running" /\ dag.task = "prepare"
  BY TypeFacts DEF Settled, LineageInv, PrepareStart, PrepareOutputs, PrepareManifest, At
<1>2. dag' # Completed(dag)
  BY <1>1, CompletedLives DEF Kept
<1>3. CASE PrepareStart
  <2>1. Eligible(dag.batch) # {}
    BY <1>1 DEF Settled, HandoverInv, EligibleForRun, Running
  <2>2. \A c : dag' # [dag EXCEPT !.step = "outputs", !.content = c, !.at = hour]
    BY <1>1 DEF Runs
  <2>3. PICK p \in ExistingPreparations(dag.batch) :
           \/ Cardinality(ExistingPreparations(dag.batch)) > 1
           \/ p.torn
           \/ dag' = Raised(dag, "content conflict")
    BY <1>2, <1>3, <2>1, <2>2 DEF PrepareStart
  <2>4. ExistingPreparations(dag.batch) = {p}
    BY <2>3 DEF Settled, Tidy, PreparedOnce, ExistingPreparations
  <2>5. ~(Cardinality(ExistingPreparations(dag.batch)) > 1)
    BY <2>4, FS_Singleton
  <2>6. ~p.torn
    BY <2>3 DEF Settled, Tidy, NothingTorn, ExistingPreparations
  <2>7. dag' = Raised(dag, "content conflict")
    BY <2>3, <2>5, <2>6
  <2>8. dag'.error = "content conflict" /\ Kept(dag, dag')
    BY <1>1, <2>7, RaisedFails DEF Fails, Errors
  <2>9. dag.given # 0
    BY <1>1, <2>3 DEF Settled, Tidy, PreparedOnce
  <2> QED
    BY <2>8, <2>9 DEF FaultFreeRunsFailForCause, Kept
<1>4. CASE PrepareOutputs
  <2>1. At("prepare", "outputs") /\ dag' # Goto(dag, "manifest")
    BY <1>1, <1>4 DEF PrepareOutputs, Goto, Runs
  <2>2. <<dag.batch, dag.at>> \in drafts
    BY <1>4, <2>1 DEF PrepareOutputs
  <2>3. ExistingPreparations(dag.batch) = {} /\ ~At("prepare", "manifest")
    BY <2>1 DEF Settled, Tidy, PreparedOnce, At
  <2> QED
    BY <2>2, <2>3 DEF Settled, Tidy, OutputsHaveManifests
<1>5. CASE PrepareManifest
  BY <1>2, <1>5 DEF PrepareManifest
<1> QED
  BY <1>3, <1>4, <1>5

LEMMA FeaturesCause ==
    ASSUME Settled, FeaturesStart \/ FeaturesPersist \/ FeaturesManifest
    PROVE  dag'.state # "failed"
<1>1. TypeInv /\ dag \in Runs /\ dag.state = "running" /\ dag.task = "features"
  BY TypeFacts DEF Settled, LineageInv, FeaturesStart, FeaturesPersist, FeaturesManifest, At
<1>2. dag' = Completed(dag) => dag'.state # "failed"
  BY <1>1, CompletedLives DEF Kept
<1>3. CASE FeaturesStart
  <2> DEFINE newest == manifests[Len(manifests)]
  <2>1. \A c : dag' = [dag EXCEPT !.step = "persist", !.content = c] => dag'.state # "failed"
    BY <1>1 DEF Runs
  <2>2. ASSUME NEW r \in store, dag' = Completed([dag EXCEPT !.feature = r.id])
        PROVE  dag'.state # "failed"
    <3>1. r.id \in Nat
      BY <1>1 DEF TypeInv, StoreTypes, Rows
    <3>2. PICK q \in Runs : q = [dag EXCEPT !.feature = r.id]
      BY <1>1, <3>1 DEF Runs
    <3>3. q.state = "running" /\ q.task = dag.task /\ Kept(dag, q)
      BY <1>1, <3>2 DEF Runs, Kept
    <3> QED
      BY <2>2, <3>2, <3>3, CompletedLives
  <2>3. \E p \in preparations : p.batch = dag.batch /\ ~p.torn
    BY <1>1 DEF Settled, HandoverInv, PreparedForRun, Running, PreparedWith
  <2>4. ASSUME NEW r \in store PROVE manifests # <<>> /\ ~newest.torn
    <3>1. ~At("features", "manifest")
      BY <1>3 DEF FeaturesStart, At
    <3>2. PICK i \in DOMAIN manifests : manifests[i].id = r.id
      BY <3>1 DEF Settled, Tidy, RowsHaveManifests
    <3>3. manifests \in Seq([id : Nat, torn : BOOLEAN])
      BY <1>1 DEF TypeInv, StoreTypes
    <3>4. Len(manifests) \in DOMAIN manifests /\ manifests # <<>>
      BY <3>2, <3>3
    <3> QED
      BY <3>4 DEF Settled, Tidy, NothingTorn
  <2> HIDE DEF newest
  <2>5. \/ \E c : dag' = [dag EXCEPT !.step = "persist", !.content = c]
        \/ \E r \in store : manifests = <<>> \/ newest.torn
        \/ \E r \in store : dag' = Completed([dag EXCEPT !.feature = r.id])
    BY <1>3, <2>3 DEF FeaturesStart, find_identity, newest
  <2> QED
    BY <2>1, <2>2, <2>4, <2>5
<1>4. CASE FeaturesPersist
  <2>1. find_identity(Identity(dag.batch, dag.content, dag.split)) = {}
    BY <1>4 DEF FeaturesPersist, Settled, HandoverInv, PersistsOnce
  <2>2. dag' = [dag EXCEPT !.step = "manifest", !.feature = Cardinality(store) + 1]
    BY <1>4, <2>1 DEF FeaturesPersist
  <2> QED
    BY <1>1, <2>2 DEF Runs
<1>5. CASE FeaturesManifest
  BY <1>2, <1>5 DEF FeaturesManifest
<1> QED
  BY <1>3, <1>4, <1>5

LEMMA TrainingCause ==
    ASSUME Settled, verify_feature_store \/ TrainStart \/ TrainSave
    PROVE  dag'.state # "failed"
<1>1. TypeInv /\ dag \in Runs /\ dag.state = "running" /\ dag.task \in Late
  BY TypeFacts DEF Settled, LineageInv, verify_feature_store, TrainStart, TrainSave, At, Late
<1>2. dag' = Completed(dag) => dag'.state # "failed"
  BY <1>1, CompletedLives DEF Kept
<1>3. CASE TrainStart
  <2>1. PICK r \in store : r.id = dag.feature
    BY <1>1 DEF Settled, LineageInv, Relies, FeatureRun, RowWith
  <2>2. ~At("features", "manifest")
    BY <1>1 DEF At, Late
  <2>3. PICK i \in DOMAIN manifests : manifests[i].id = dag.feature
    BY <2>1, <2>2 DEF Settled, Tidy, RowsHaveManifests
  <2>4. ManifestsOf(dag.feature) = {i}
    BY <2>3 DEF Settled, Tidy, RowsHaveManifests, NothingTorn, ManifestsOf
  <2>5. Cardinality(ManifestsOf(dag.feature)) = 1
    BY <2>4, FS_Singleton
  <2>6. dag' = Goto(dag, "save")
    BY <1>3, <2>5 DEF TrainStart
  <2> QED
    BY <1>1, <2>6 DEF Goto, Runs
<1> QED
  BY <1>2, <1>3 DEF verify_feature_store, TrainSave

LEMMA IngestionCause ==
    ASSUME Settled, dag'.state = "failed",
           GenerateFile \/ SkipGeneration \/ IngestObjects(TRUE) \/ IngestManifest
    PROVE  FaultFreeRunsFailForCause'
<1>1. TypeInv /\ dag \in Runs /\ dag.state = "running"
  BY TypeFacts DEF Settled, LineageInv, GenerateFile, SkipGeneration, IngestObjects,
                   IngestManifest, At
<1>2. dag' # Completed(dag)
  BY <1>1, CompletedLives DEF Kept
<1>3. \A done : dag' # [dag EXCEPT !.written = done]
  BY <1>1 DEF Runs
<1>4. ~IngestObjects(TRUE)
  <2>1. SUFFICES ASSUME IngestObjects(TRUE) PROVE FALSE
    OBVIOUS
  <2>2. dag' = [dag EXCEPT !.step = "manifest", !.batch = dag'.batch, !.at = hour,
                           !.verdict = dag'.verdict]
    BY <1>1, <2>1, IngestedObjects
  <2> QED
    BY <1>1, <2>2 DEF Runs
<1>5. CASE IngestManifest
  <2>1. dag.verdict # "SUCCESS" /\ dag' = Raised(dag, "ingestion") /\ At("ingest", "manifest")
    BY <1>2, <1>5 DEF IngestManifest
  <2>2. ~dag.generate
    BY <2>1 DEF Settled, Tidy, IngestsAll
  <2>3. dag'.error = "ingestion" /\ Kept(dag, dag')
    BY <1>1, <2>1, RaisedFails DEF Fails, Errors
  <2> QED
    BY <2>2, <2>3 DEF FaultFreeRunsFailForCause, Kept
<1> QED
  BY <1>2, <1>3, <1>4, <1>5 DEF GenerateFile, SkipGeneration

LEMMA CauseStep ==
    LineageInv /\ RawInv /\ HandoverInv /\ TidyInv /\ FaultFreeRunsFailForCause /\ [Next]_vars
        => FaultFreeRunsFailForCause'
<1> SUFFICES ASSUME LineageInv, RawInv, HandoverInv, TidyInv, FaultFreeRunsFailForCause,
                    [Next]_vars, dag'.state = "failed", faults' = 0
             PROVE  FaultFreeRunsFailForCause'
  BY DEF FaultFreeRunsFailForCause
<1>1. TypeInv /\ faults = 0 /\ Settled /\ dag \in Runs
  BY NoFaults, TypeFacts DEF LineageInv, TidyInv, Settled
<1>2. CASE Elsewhere
  BY <1>1, <1>2 DEF Elsewhere, raw, FaultFreeRunsFailForCause
<1>3. CASE dag.state = "running"
  <2>1. \A given, generate, strict, split : ~StartRun(given, generate, strict, split)
    BY <1>3 DEF StartRun
  <2>2. CASE StageRaises
    <3>1. dag'.error = "stage error"
      BY <1>1, <2>2 DEF StageRaises, Runs
    <3> QED
      BY <3>1 DEF FaultFreeRunsFailForCause
  <2>3. CASE Step
    BY <1>1, <2>3, IngestionCause, ValidationCause, PreparationCause, FeaturesCause,
       TrainingCause DEF Step
  <2> QED
    BY <1>1, <1>2, <2>1, <2>2, <2>3, NoFaults
<1> QED
  BY <1>1, <1>2, <1>3, WaitsForRun

\* The inductive invariant.
CauseInv ==
    LineageInv /\ RawInv /\ HandoverInv /\ TidyInv /\ FaultFreeRunsFailForCause

LEMMA CauseInvariant == Spec => []CauseInv
<1>1. ASSUME Init PROVE CauseInv
  <2>1. dag.state # "failed"
    BY <1>1 DEF Init, NoRun
  <2> QED
    BY <1>1, <2>1, LineageInvInductive, RawInit, HandoverInit, TidyInit
    DEF CauseInv, FaultFreeRunsFailForCause
<1>2. CauseInv /\ [Next]_vars => CauseInv'
  <2>1. LineageInv /\ [Next]_vars => LineageInv'
    BY LineageInvInductive
  <2>2. LineageInv => TypeInv
    BY DEF LineageInv
  <2> QED
    BY <2>1, <2>2, RawStep, HandoverStep, TidyStep, CauseStep DEF CauseInv
<1> QED
  BY <1>1, <1>2, PTL DEF Spec

\* A run without faults fails for its data or for what it was asked to process,
\* and never because of what stages, attempts or runs before it left behind.
THEOREM FaultFreeFailuresHaveCauses == Spec => []FaultFreeRunsFailForCause
<1>1. CauseInv => FaultFreeRunsFailForCause
  BY DEF CauseInv
<1> QED
  BY <1>1, CauseInvariant, PTL

\* Where nothing has failed, the feature-store gate means what its name says: the
\* feature batch the run goes on with has a manifest.
THEOREM GateIsSoundWithoutFaults == Spec => [](faults = 0 => GateMeansOwnManifest)
<1>1. CauseInv => (faults = 0 => GateMeansOwnManifest)
  <2> SUFFICES ASSUME CauseInv, faults = 0, dag.state = "running",
                      dag.task \in {"register", "train", "finalize"}
               PROVE  \E i \in DOMAIN manifests : manifests[i].id = dag.feature
    BY DEF GateMeansOwnManifest
  <2>1. PICK r \in store : r.id = dag.feature
    BY DEF CauseInv, LineageInv, Relies, FeatureRun, RowWith, Late
  <2>2. ~At("features", "manifest")
    BY DEF At
  <2> QED
    BY <2>1, <2>2 DEF CauseInv, TidyInv, Tidy, RowsHaveManifests
<1> QED
  BY <1>1, CauseInvariant, PTL
=============================================================================
