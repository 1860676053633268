------------------------------- MODULE Stages -------------------------------
(***************************************************************************)
(* The orchestrated pipeline: one DAG run at a time takes its tasks in a   *)
(* line, each attempt of a task calls a stage runner, and Airflow retries  *)
(* an attempt that raised, crashed or timed out.  The stages share the     *)
(* landing zone, the raw store, the directories of outputs and manifests   *)
(* partitioned by hour and batch, and the feature warehouse.  A content    *)
(* tells for each landing file the generator configuration it was made     *)
(* with; what is derived from a content is named by it.  The feature stage *)
(* takes its configuration from the same release.                          *)
(***************************************************************************)
EXTENDS Integers, Sequences, FiniteSets

CONSTANTS Files,        \* the landing files in the order they are written
          Retries,      \* Airflow retries of each task
          Parameters,   \* bound: strictness and split that runs are started with
          MaxRuns,      \* bound: DAG runs
          MaxHour,      \* bound: hours the clock goes through
          MaxRelease,   \* bound: releases of the configurations
          MaxFaults,    \* bound: crashed attempts and failed API fetches
          MaxBatches    \* bound: batch identifiers

TaskNames == {"generate", "ingest", "validate", "quality", "prepare", "features",
              "gate", "register", "train", "finalize"}

ASSUME StagesConfiguration ==
    /\ Files \in Seq(STRING) /\ Files # <<>>
    /\ \A i, j \in DOMAIN Files : Files[i] = Files[j] => i = j
    /\ Retries \in [TaskNames -> Nat]
ASSUME StagesBounds ==
    {MaxRuns, MaxHour, MaxRelease, MaxFaults, MaxBatches} \subseteq Nat /\ MaxRelease > 0

VARIABLES hour,         \* the current UTC hour
          release,      \* the configurations in force, of the generator and the feature stage
          landing,      \* the release each landing file was made with, or 0
          lastBatch,    \* batch identifiers handed out or asked for
          objects,      \* raw files by batch and hour
          rawManifests, \* status of the ingestion manifest by batch and hour
          reports,      \* batches and hours with a validation report
          validations,  \* validation manifests
          drafts,       \* batches and hours with prepared outputs
          preparations, \* preparation manifests, some of them torn
          store,        \* feature batches in the warehouse
          manifests,    \* feature manifests in the order they were written
          models,       \* trained models
          faults,       \* faults so far
          dag           \* the current or last DAG run

raw == <<objects, rawManifests>>
outputs == <<reports, validations, drafts, preparations>>
learned == <<store, manifests, models>>
world == <<hour, release, landing, lastBatch>>
vars == <<world, raw, outputs, learned, faults, dag>>

Names == {Files[i] : i \in DOMAIN Files}
Batches == 1..MaxBatches
Hours == 0..MaxHour
Contents == [Names -> 0..MaxRelease]
Partitions == Batches \X Hours
Missing == [f \in Names |-> 0]
Splits == {"train", "all"}
Statuses == {"SUCCESS", "COMPLETED_WITH_QUALITY_ISSUES", "FAILED"}
StepNames == {"start", "outputs", "manifest", "persist", "save"}
Errors == {"crash", "ingestion", "raw batch not found", "content conflict", "output conflict",
           "quality gate", "no validated batch", "several manifests", "torn manifest",
           "no prepared batch", "no manifest", "rolled back", "no unique manifest",
           "stage error"}

NoRun ==
    [state |-> "idle", n |-> 0, task |-> "generate", step |-> "start", tries |-> 0,
     written |-> 0, given |-> 0, generate |-> FALSE, strict |-> FALSE, split |-> "train", batch |-> 0,
     verdict |-> "", content |-> Missing, feature |-> 0, at |-> 0, error |-> ""]

Init ==
    /\ hour = 0 /\ release = 1 /\ landing = Missing /\ lastBatch = 0
    /\ objects = [k \in Partitions |-> Missing]
    /\ rawManifests = [k \in Partitions |-> "none"]
    /\ reports = {} /\ validations = {} /\ drafts = {} /\ preparations = {}
    /\ store = {} /\ manifests = <<>> /\ models = {}
    /\ faults = 0 /\ dag = NoRun
-----------------------------------------------------------------------------
(* Time, the operator and Airflow. *)

Tick ==
    /\ hour < MaxHour /\ hour' = hour + 1
    /\ UNCHANGED <<release, landing, lastBatch, raw, outputs, learned, faults, dag>>

\* Configurations and source data are changed between runs.
ChangeConfiguration ==
    /\ dag.state # "running" /\ release < MaxRelease /\ release' = release + 1
    /\ UNCHANGED <<hour, landing, lastBatch, raw, outputs, learned, faults, dag>>

\* The operator runs the generator with --overwrite between runs.
RegenerateByHand ==
    /\ dag.state # "running"
    /\ landing' = [f \in Names |-> release]
    /\ UNCHANGED <<hour, release, lastBatch, raw, outputs, learned, faults, dag>>

\* A supplied batch is an explicit reprocessing request: nothing is generated.
\* Its identifier need only be well formed; one that no run had is a new batch.
StartRun(given, generate, strict, split) ==
    /\ dag.state # "running" /\ dag.n < MaxRuns
    /\ <<strict, split>> \in Parameters
    /\ given <= lastBatch + 1 /\ (given # 0 => ~generate)
    /\ lastBatch' = IF given > lastBatch THEN given ELSE lastBatch
    /\ dag' = [NoRun EXCEPT !.state = "running", !.n = dag.n + 1, !.given = given,
                            !.generate = generate, !.strict = strict, !.split = split]
    /\ UNCHANGED <<hour, release, landing, raw, outputs, learned, faults>>

NextTask ==
    [generate |-> "ingest", ingest |-> "validate", validate |-> "quality",
     quality |-> "prepare", prepare |-> "features", features |-> "gate",
     gate |-> "register", register |-> "train", train |-> "finalize",
     finalize |-> "finalize"]

At(task, step) == dag.state = "running" /\ dag.task = task /\ dag.step = step
Goto(r, step) == [r EXCEPT !.step = step]

\* The run before the first or the next attempt of a task: what the former
\* attempt had read is forgotten.
Fresh(r) == [r EXCEPT !.step = "start", !.written = 0, !.content = Missing, !.at = 0,
                      !.error = ""]

\* The run after an attempt that returned.
Completed(r) ==
    IF r.task = "finalize" THEN [NoRun EXCEPT !.state = "success", !.n = r.n]
    ELSE [Fresh(r) EXCEPT !.task = NextTask[r.task], !.tries = 0]

\* A mutant: one attempt too many.
RaisedOnceMore(r, why) ==
    IF r.tries <= Retries[r.task] THEN [Fresh(r) EXCEPT !.tries = r.tries + 1]
    ELSE [r EXCEPT !.state = "failed", !.error = why]

\* A mutant: attempts are not counted.
RaisedUncounted(r, why) == Fresh(r)

\* The run after an attempt that raised: another one, or the end.
Raised(r, why) ==
    IF r.tries < Retries[r.task] THEN [Fresh(r) EXCEPT !.tries = r.tries + 1]
    ELSE [r EXCEPT !.state = "failed", !.error = why]

\* A worker dies or the execution times out.
Crash ==
    /\ dag.state = "running" /\ faults < MaxFaults
    /\ faults' = faults + 1 /\ dag' = Raised(dag, "crash")
    /\ UNCHANGED <<world, raw, outputs, learned>>

\* A stage refuses its data, the gate empty feature tables in the newest manifest,
\* or registration what it finds on disk; when, is told by the modules DataFlow
\* and Versioning.  The next attempts meet the same data, change nothing either
\* and raise alike, so the run ends.
StageRaises ==
    /\ \/ At("generate", "start") /\ dag.generate /\ dag.written = 0
       \/ At("validate", "outputs") \/ At("prepare", "outputs") \/ At("features", "persist")
       \/ At("gate", "start") \/ At("register", "start") \/ At("train", "save") \/ At("finalize", "start")
    /\ dag' = [dag EXCEPT !.state = "failed", !.error = "stage error"]
    /\ UNCHANGED <<world, raw, outputs, learned, faults>>

\* These two manifests are not written atomically.
CrashWhileWriting ==
    /\ faults < MaxFaults /\ faults' = faults + 1 /\ dag' = Raised(dag, "crash")
    /\ \/ /\ At("prepare", "manifest")
          /\ preparations' = preparations \cup
                {[batch |-> dag.batch, hour |-> dag.at, content |-> dag.content, torn |-> TRUE]}
          /\ UNCHANGED manifests
       \/ /\ At("features", "manifest")
          /\ manifests' = Append(manifests, [id |-> dag.feature, torn |-> TRUE])
          /\ UNCHANGED preparations
    /\ UNCHANGED <<world, raw, reports, validations, drafts, store, models>>
-----------------------------------------------------------------------------
(* Generation and ingestion. *)

\* A mutant: a file that exists is kept.
LandedUnlessPresent(f) ==
    IF landing[f] = 0 THEN [landing EXCEPT ![f] = release] ELSE landing

Landed(f) == [landing EXCEPT ![f] = release]

\* The five files replace the former ones one after the other.
GenerateFile ==
    /\ At("generate", "start") /\ dag.generate
    /\ LET done == dag.written + 1
       IN  /\ landing' = Landed(Files[done])
           /\ dag' = IF done = Len(Files) THEN Completed(dag)
                     ELSE [dag EXCEPT !.written = done]
    /\ UNCHANGED <<hour, release, lastBatch, raw, outputs, learned, faults>>

SkipGeneration ==
    /\ At("generate", "start") /\ ~dag.generate
    /\ dag' = Completed(dag)
    /\ UNCHANGED <<world, raw, outputs, learned, faults>>

\* Without a batch id in the context every attempt makes one of its own.  A file
\* that is missing or differs from the object under its key, and an API that
\* does not answer, make the run a partial success.
IngestObjects(answered) ==
    /\ At("ingest", "start")
    /\ answered \/ faults < MaxFaults
    /\ dag.given = 0 => lastBatch < MaxBatches
    /\ LET batch == IF dag.given = 0 THEN lastBatch + 1 ELSE dag.given
           k == <<batch, hour>>
           complete == answered /\ \A f \in Names :
                          landing[f] # 0 /\ objects[k][f] \in {0, landing[f]}
       IN  /\ objects' = [objects EXCEPT ![k] =
                 [f \in Names |-> IF objects[k][f] = 0 THEN landing[f] ELSE objects[k][f]]]
           /\ lastBatch' = IF dag.given = 0 THEN batch ELSE lastBatch
           /\ dag' = [dag EXCEPT !.step = "manifest", !.batch = batch, !.at = hour,
                         !.verdict = IF complete THEN "SUCCESS" ELSE "PARTIAL_SUCCESS"]
    /\ faults' = IF answered THEN faults ELSE faults + 1
    /\ UNCHANGED <<hour, release, landing, rawManifests, outputs, learned>>

\* A manifest that is there already is left, whatever its status says; a run
\* that stored everything is content with it.
IngestManifest ==
    /\ At("ingest", "manifest")
    /\ LET k == <<dag.batch, dag.at>>
       IN  rawManifests' = IF rawManifests[k] = "none"
                           THEN [rawManifests EXCEPT ![k] = dag.verdict] ELSE rawManifests
    /\ dag' = IF dag.verdict = "SUCCESS" THEN Completed(dag) ELSE Raised(dag, "ingestion")
    /\ UNCHANGED <<world, objects, outputs, learned, faults>>
-----------------------------------------------------------------------------
(* Validation and the quality gate. *)

\* A mutant: the status of a manifest is not looked at.
RawHoursOfAny(b) == {h \in Hours : rawManifests[<<b, h>>] # "none"}

RawHours(b) == {h \in Hours : rawManifests[<<b, h>>] = "SUCCESS"}

ExistingValidations(b) == {v \in validations : v.batch = b}

\* The newest successful raw batch; a validation it already has is returned when
\* it had the same files, and refused when it had others.
ValidateStart ==
    /\ At("validate", "start")
    /\ \/ RawHours(dag.batch) = {} /\ dag' = Raised(dag, "raw batch not found")
       \/ \E h \in RawHours(dag.batch) :
            LET content == objects[<<dag.batch, h>>]
            IN  /\ \A g \in RawHours(dag.batch) : g <= h
                /\ \/ /\ ExistingValidations(dag.batch) = {}
                      /\ dag' = [dag EXCEPT !.step = "outputs", !.content = content, !.at = hour]
                   \/ \E v \in ExistingValidations(dag.batch) :
                        dag' = IF v.content = content
                               THEN Completed([dag EXCEPT !.verdict = v.status])
                               ELSE Raised(dag, "content conflict")
    /\ UNCHANGED <<world, raw, outputs, learned, faults>>

\* The report names its run, so a report of another attempt is a conflict.
ValidateOutputs ==
    /\ At("validate", "outputs")
    /\ IF <<dag.batch, dag.at>> \in reports
       THEN dag' = Raised(dag, "output conflict") /\ UNCHANGED reports
       ELSE dag' = Goto(dag, "manifest") /\ reports' = reports \cup {<<dag.batch, dag.at>>}
    /\ UNCHANGED <<world, raw, validations, drafts, preparations, learned, faults>>

ValidateManifest(status) ==
    /\ At("validate", "manifest")
    /\ validations' = validations \cup
          {[batch |-> dag.batch, hour |-> dag.at, content |-> dag.content, status |-> status]}
    /\ dag' = Completed([dag EXCEPT !.verdict = status])
    /\ UNCHANGED <<world, raw, reports, drafts, preparations, learned, faults>>

\* A mutant: strictness is forgotten.
RejectedUnlessFailed(verdict, strict) == verdict = "FAILED"

Rejected(verdict, strict) == verdict = "FAILED" \/ (strict /\ verdict # "SUCCESS")

enforce_quality_gate ==
    /\ At("quality", "start")
    /\ dag' = IF Rejected(dag.verdict, dag.strict) THEN Raised(dag, "quality gate")
              ELSE Completed([dag EXCEPT !.verdict = ""])
    /\ UNCHANGED <<world, raw, outputs, learned, faults>>
-----------------------------------------------------------------------------
(* Preparation. *)

Eligible(b) == {v \in validations : v.batch = b /\ v.status # "FAILED"}

\* A mutant: an existing manifest never counts.
ExistingPreparationsNever(b) == {}

ExistingPreparations(b) == {p \in preparations : p.batch = b}

PrepareStart ==
    /\ At("prepare", "start")
    /\ LET existing == ExistingPreparations(dag.batch)
       IN  IF Eligible(dag.batch) = {} THEN dag' = Raised(dag, "no validated batch")
           ELSE \E v \in Eligible(dag.batch) :
             IF existing = {}
             THEN dag' = [dag EXCEPT !.step = "outputs", !.content = v.content, !.at = hour]
             ELSE \E p \in existing :
                    dag' = IF Cardinality(existing) > 1 THEN Raised(dag, "several manifests")
                           ELSE IF p.torn THEN Raised(dag, "torn manifest")
                           ELSE IF p.content # v.content THEN Raised(dag, "content conflict")
                           ELSE Completed(dag)
    /\ UNCHANGED <<world, raw, outputs, learned, faults>>

\* The prepared users tell their age at the start of the attempt, so outputs of
\* another attempt are a conflict.
PrepareOutputs ==
    /\ At("prepare", "outputs")
    /\ IF <<dag.batch, dag.at>> \in drafts
       THEN dag' = Raised(dag, "output conflict") /\ UNCHANGED drafts
       ELSE dag' = Goto(dag, "manifest") /\ drafts' = drafts \cup {<<dag.batch, dag.at>>}
    /\ UNCHANGED <<world, raw, reports, validations, preparations, learned, faults>>

PrepareManifest ==
    /\ At("prepare", "manifest")
    /\ preparations' = preparations \cup
          {[batch |-> dag.batch, hour |-> dag.at, content |-> dag.content, torn |-> FALSE]}
    /\ dag' = Completed(dag)
    /\ UNCHANGED <<world, raw, reports, validations, drafts, learned, faults>>
-----------------------------------------------------------------------------
(* Features and training. *)

\* A mutant: the identity of a feature batch tells the run that made it.
IdentityOfRun(batch, content, split) == <<batch, content, split, release, dag.n>>

\* A mutant: the identity of a feature batch does not tell the split.
IdentityOfAnySplit(batch, content, split) == <<batch, content, release>>

Identity(batch, content, split) == <<batch, content, split, release>>

find_identity(identity) == {r \in store : r.identity = identity}

\* An input that is in the warehouse already is not computed again.  What the
\* task reports then comes from the newest manifest there is.
FeaturesStart ==
    /\ At("features", "start")
    /\ LET readable == {p \in preparations : p.batch = dag.batch /\ ~p.torn}
           newest == manifests[Len(manifests)]
       IN  IF readable = {} THEN dag' = Raised(dag, "no prepared batch")
           ELSE \E p \in readable :
             LET rows == find_identity(Identity(p.batch, p.content, dag.split))
             IN  IF rows = {}
                 THEN dag' = [dag EXCEPT !.step = "persist", !.content = p.content]
                 ELSE IF manifests = <<>> THEN dag' = Raised(dag, "no manifest")
                 ELSE IF newest.torn THEN dag' = Raised(dag, "torn manifest")
                 ELSE \E r \in rows : dag' = Completed([dag EXCEPT !.feature = r.id])
    /\ UNCHANGED <<world, raw, outputs, learned, faults>>

\* One transaction; the identity is unique in the warehouse.
FeaturesPersist ==
    /\ At("features", "persist")
    /\ LET id == Cardinality(store) + 1
           identity == Identity(dag.batch, dag.content, dag.split)
       IN  IF find_identity(identity) # {}
           THEN dag' = Raised(dag, "rolled back") /\ UNCHANGED store
           ELSE /\ store' = store \cup
                    {[id |-> id, identity |-> identity, batch |-> dag.batch,
                      content |-> dag.content, split |-> dag.split, release |-> release]}
                /\ dag' = [dag EXCEPT !.step = "manifest", !.feature = id]
    /\ UNCHANGED <<world, raw, outputs, manifests, models, faults>>

FeaturesManifest ==
    /\ At("features", "manifest")
    /\ manifests' = Append(manifests, [id |-> dag.feature, torn |-> FALSE])
    /\ dag' = Completed(dag)
    /\ UNCHANGED <<world, raw, outputs, store, models, faults>>

\* The gate looks at what the features task reported, which is a success with
\* rows, or it is refused above, and with a manifest that exists.  Registration
\* and the final verification (module Versioning) change nothing the other stages
\* read.
verify_feature_store ==
    /\ dag.task \in {"gate", "register", "finalize"} /\ At(dag.task, "start")
    /\ dag' = Completed(dag)
    /\ UNCHANGED <<world, raw, outputs, learned, faults>>

ManifestsOf(id) == {i \in DOMAIN manifests : manifests[i].id = id /\ ~manifests[i].torn}

TrainStart ==
    /\ At("train", "start")
    /\ dag' = IF Cardinality(ManifestsOf(dag.feature)) = 1
              THEN Goto(dag, "save")
              ELSE Raised(dag, "no unique manifest")
    /\ UNCHANGED <<world, raw, outputs, learned, faults>>

TrainSave ==
    /\ At("train", "save")
    /\ models' = models \cup {[run |-> dag.n, feature |-> dag.feature,
                               batch |-> dag.batch, strict |-> dag.strict, split |-> dag.split]}
    /\ dag' = Completed(dag)
    /\ UNCHANGED <<world, raw, outputs, store, manifests, faults>>
-----------------------------------------------------------------------------
Step ==
    \/ GenerateFile \/ SkipGeneration
    \/ IngestObjects(TRUE) \/ IngestManifest
    \/ ValidateStart \/ ValidateOutputs \/ \E s \in Statuses : ValidateManifest(s)
    \/ enforce_quality_gate
    \/ PrepareStart \/ PrepareOutputs \/ PrepareManifest
    \/ FeaturesStart \/ FeaturesPersist \/ FeaturesManifest \/ verify_feature_store
    \/ TrainStart \/ TrainSave

Next ==
    \/ Tick \/ ChangeConfiguration \/ RegenerateByHand
    \/ \E given \in 0..MaxBatches, generate, strict \in BOOLEAN, split \in Splits :
          StartRun(given, generate, strict, split)
    \/ Step \/ IngestObjects(FALSE) \/ Crash \/ CrashWhileWriting \/ StageRaises

\* The scheduler goes on with a run that has something to do.
Spec == Init /\ [][Next]_vars /\ WF_vars(Step)
-----------------------------------------------------------------------------
(***************************************************************************)
(* Properties                                                              *)
(***************************************************************************)

Ends == {"idle", "success", "failed"}

\* The fields of a run.
Runs ==
    [state : Ends \cup {"running"}, n : Nat, task : TaskNames, step : StepNames,
     tries : Nat, written : Nat, given : Nat, generate : BOOLEAN, strict : BOOLEAN,
     split : Splits, batch : 0..MaxBatches, verdict : Statuses \cup {"", "PARTIAL_SUCCESS"},
     content : Contents, feature : Nat, at : Hours, error : Errors \cup {""}]

\* The state is of its types, and the run has made no more attempts of its task
\* than Airflow grants it.
TypeOK ==
    /\ hour \in Hours /\ release \in 1..MaxRelease /\ landing \in Contents
    /\ lastBatch \in 0..MaxBatches /\ faults \in 0..MaxFaults
    /\ objects \in [Partitions -> Contents]
    /\ rawManifests \in [Partitions -> {"none", "SUCCESS", "PARTIAL_SUCCESS"}]
    /\ reports \subseteq Partitions /\ drafts \subseteq Partitions
    /\ validations \subseteq
          [batch : Batches, hour : Hours, content : Contents, status : Statuses]
    /\ preparations \subseteq
          [batch : Batches, hour : Hours, content : Contents, torn : BOOLEAN]
    /\ manifests \in Seq([id : Nat, torn : BOOLEAN])
    /\ dag \in Runs /\ dag.tries <= Retries[dag.task]

\* A run that generates its data goes on with all of it: past ingestion, every
\* raw file of its batch was made with the configuration in force, whatever
\* earlier run left half of its files behind.
FreshBatchIsCurrent ==
    dag.state = "running" /\ dag.generate /\ dag.task \notin {"generate", "ingest"} =>
        \E h \in RawHours(dag.batch) : \A f \in Names : objects[<<dag.batch, h>>][f] = release

\* A run trains on what it was started for: its model comes from a feature batch
\* of the batch it ingested and of the split it was given, computed from files of
\* that batch, also when the warehouse had other features of the batch.
TrainedOnOwnBatch ==
    \A m \in models : \E r \in store :
        /\ r.id = m.feature /\ r.batch = m.batch /\ r.split = m.split
        /\ \E h \in RawHours(m.batch) : r.content = objects[<<m.batch, h>>]

\* The features of a batch are computed and stored once for a split and a
\* configuration, whatever crashed or was run again; only another split or another
\* configuration stores the batch a second time.
FeaturesStoredOnce ==
    \A r, s \in store :
        r.batch = s.batch /\ r.split = s.split /\ r.release = s.release => r = s

\* Where no attempt crashed and the API always answered, a run fails for the
\* data only, and never because the stages disagree about what is stored: a
\* stage refuses its data (the feature-store gate, the counts of the newest
\* manifest), landing files are missing, the quality gate rejects the batch, or
\* the landing files of a reprocessed batch have changed since or the batch had
\* been stored in part.
FaultFreeRunsFailForCause ==
    dag.state = "failed" /\ faults = 0 =>
        \/ dag.error \in {"quality gate", "stage error"}
        \/ dag.error = "ingestion" /\ ~dag.generate
        \/ dag.error = "content conflict" /\ dag.given # 0
        \/ dag.error = "raw batch not found" /\ dag.given # 0
              /\ \E h \in Hours : rawManifests[<<dag.batch, h>>] = "PARTIAL_SUCCESS"

\* A strict run trains only on a batch that validated without any issue, also
\* when a run that was not strict had prepared it before.
StrictRunsTrainOnCleanBatches ==
    \A m \in models : m.strict =>
        \E v \in validations : v.batch = m.batch /\ v.status = "SUCCESS"

\* Past the feature-store gate the feature batch of the run has a manifest.
GateMeansOwnManifest ==
    dag.state = "running" /\ dag.task \in {"register", "train", "finalize"} =>
        \E i \in DOMAIN manifests : manifests[i].id = dag.feature

\* The stages implement the abstract lineage, each artifact read off the commit
\* record of its stage.
ArtifactOf(x) == <<x.batch, x.content>>
RawArtifacts == {<<k[1], objects[k]>> : k \in {q \in Partitions : rawManifests[q] = "SUCCESS"}}
ValidatedArtifacts == {ArtifactOf(v) : v \in {w \in validations : w.status # "FAILED"}}
PreparedArtifacts == {ArtifactOf(p) : p \in {q \in preparations : ~q.torn}}
StoredArtifacts == {ArtifactOf(r) : r \in store}
TrainedArtifacts == {ArtifactOf(r) : r \in {s \in store : \E m \in models : m.feature = s.id}}
Promise ==
    INSTANCE Lineage WITH
        raw <- RawArtifacts, validated <- ValidatedArtifacts, prepared <- PreparedArtifacts,
        stored <- StoredArtifacts, trained <- TrainedArtifacts
ImplementsLineage == Promise!Spec

\* Every DAG run ends, also when its attempts keep raising.
DagRunEnds == dag.state = "running" ~> dag.state \in {"success", "failed"}
=============================================================================
