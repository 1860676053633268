# RecoMart: TLA+ specifications

RecoMart (`src/`) is a batch recommendation pipeline.  A generator publishes
source files, an ingestion runner stores them with a popularity response in a
raw store, validation, preparation and feature engineering derive datasets from
each other, models are trained, and a registry versions every artifact and
draws their lineage.  An Airflow DAG, a CLI per stage and `dvc repro` all start
the same stage code.  The state that matters is on disk, in S3 or in a
database; what is hard is what happens when stages overlap, stop half way, or
are started again.

This directory looks at it from two sides.  The *stage side* models what is on
disk and the steps that change it: ingestion and its store, the version
registry, and the DAG's tasks from generation to training with their manifests,
retries and crashes.  The *data side* models what is in the rows: the generator,
every validation rule, preparation, features, recommendations and metrics, as
operators over tables, and one batch that flows through all of them.  TLC checks
both on small instances; TLAPS proves the safety properties of the stage side,
and all but two of the data side, for every instance.  `PROJECT.json` lists
components, runs, mutated definitions, the source lines of every definition,
findings, hazards and theorems.

## Inventory

| Component (under `src/src/`) | State | Operations | What is hard | What makes it correct | Module |
| --- | --- | --- | --- | --- | --- |
| `ingestion` runner, file and API services | run record, manifest of the batch's hour | attempt every source, publish the manifest once | concurrent and repeated runs of a batch, crash before the manifest, a source replaced while it is read, retries | the manifest describes stored objects; success means stored | `Ingestion` |
| `ingestion/storage.py` | raw objects, local or S3 | exists, write_file, write_bytes | publication without a lock, lost acknowledgements | write-once objects, true checksums | `Ingestion`, contract `RawStore` |
| `versioning` | registry document, its temporary file | observe, register, generate_lineage, verify | read-modify-replace without a lock, artifacts changing during observation, artifacts restored | unique versions, one current entry, registered parents, consistent lineage | `Versioning` |
| `generator`, MovieLens loader | five incoming files | load, generate | files replaced one at a time; sessions, final clicks and purchase delays must fit a window | what it writes passes validation without a warning | `Generator`, `DataFlow`; `GenerateFile` in `Stages`, `Publish` in `Ingestion` |
| `api` | none (reads the incoming files) | list_popularity | reads while a file is replaced; records it cannot serve | a whole answer within its response contract, or an error | `list_popularity`, `PopularityResponse` in `Generator`; `FetchResponse`, `FetchFails` in `Ingestion` |
| `validation` | valid and quarantined rows, reports, manifest | resolve a batch, apply the rules, score, write | rules across datasets, one bad column, repeated keys; a retry meets the outputs of the first attempt; an old verdict found again | valid rows are true; a verdict is of these bytes; the score agrees with the verdict | `Frames`, `Validation`, `DataFlow`, `Stages` |
| `preparation` | prepared frames, matrices, splits, manifest | clean, aggregate, split, write, reuse | split at its boundaries; outputs before the manifest; a torn manifest | train is before validation is before test, and they are everything | `Preparation`, `DataFlow`, `Stages` |
| `feature_engineering` | SQL feature tables, manifest | compute, find_identity, persist | tables computed apart must agree; commit and manifest are two steps; catalog lookups | events are seen up to the split only; one feature batch per content, split and configuration | `Features`, `DataFlow`, `Stages` |
| `modeling` | models, training summary | load inputs, fit, recommend, evaluate | which feature batch is trained on; short lists, empty users | trains on the run's batch; recommends the unseen; metrics are shares | `Training`, `DataFlow`, `Stages` |
| `orchestration`, `dags` | task states, context between tasks | eleven tasks in a line, retries, timeouts, gates | a task retried after its effect; the newest manifest belongs to another batch; reprocessing | downstream tasks use this run's batch; gates mean what they say; every run ends | `Stages`, contract `Lineage` |
| `reporting`, visualisation, `scripts`, `airflow/scripts`, loggers | none read by others | formatting | - | - | not modelled |

Interactions: the stages meet only through files, the store, the database and
the context dictionary the DAG passes on.  The generator writes what ingestion
and the API read; ingestion's manifest is what validation resolves a batch by;
each stage's manifest is found by the next; versioning reads every stage's
newest manifest and hashes every directory.

## Modules

### Ingestion and RawStore

One process is one execution of `IngestionRunner.run`; `run[p]` is its local
state and `pc` the next call it makes:

    source -> count -> check -> copy -> link        a file on local storage
    source ->          check ->         link        the API response, local
    source -> (count) -> check -> upload            S3
    manifest -> publish (-> put on S3) -> returned | raised

| Action | Code |
| --- | --- |
| `Start`, `NewRun` | `run` up to the loop; the hour of the start fixes the partition |
| `HashSource`, `CountSource`, `ReadFails` | `sha256_file`, `count_source_records`: two separate reads |
| `FetchResponse`, `FetchFails`, `RejectUrl` | the API client with its attempts; the constructor that raises |
| `CheckDestination` | `target.exists()` or `head_object`, `_existing_result` |
| `CopyToTemp`, `LinkTarget` | temporary copy, its verification, exclusive `os.link` |
| `Upload`, `UploadFails` | `_retry` around an upload whose effect and acknowledgement may part |
| `CheckManifest`, `LinkManifest`, `HeadManifest`, `PutManifest`, `ManifestFails` | the manifest: reuse, publish, conflict |
| `Crash`, `Publish`, `Tick` | the process dies; a source is replaced; the clock moves |

`Recorded` is the end of every source: append the file record, go on.  Contents
are numbers, 0 is absence, and two contents have the same checksum only if they
are the same (SHA-256 without collisions).  `Publish` puts any content at a
source, earlier ones too: the generator is deterministic in its seed.  The step
`CountSource` is a read that may fail; the number it finds is left out.  A source
replaced before it and put back after it leaves the row count of the bytes in
between on the record of the stored ones, and no property is stated of it: no
document says which bytes are counted, and no stage decides anything by the
number.  A `LinkTarget` that published the object may still end as FAILED: the
removal of the temporary copy or the final `stat` can raise after the link.

`RawStore` is what the raw layer promises its readers: a key is written at most
once, with a true checksum, and a commit record appears at most once per batch
and hour, decides every source and calls stored only what is stored.
`Ingestion!ImplementsRawStore` is the refinement, on the two variables they
share.

Abstracted: the parsing of files and responses (accepted or rejected), wording of errors,
backoff delays, the temporary file's leftovers after a crash.

### Versioning

A registrar is one call of `VersioningService.register`, of all stages in the
configured order or of one:

    observe (one step per stage) -> load -> register (one step per stage)
        -> open -> writing -> replace -> done

`content[s]` is what the stage's directory holds, `basis[s]` the parent content
it was produced from, `usable[s]` the manifests `_latest` may answer.
`Reporter` says whose manifest describes a stage: the incoming files are
described by ingestion's.  A version number stands for base version plus patch.
`_write_json` is three steps because every registrar uses the same temporary
name; a file opened by one may have been renamed into place by another
(`target`), or hold the bytes of two (`mixed`).  `LineageGenerated` and
`Verified` are `generate_lineage` and `verify` as functions of the document.
`input` in an entry is a history field, absent from the real document: what the
artifact was produced from.  `scheduled` is chosen once: whether
registration is always of all stages together (`register` without a stage, as the
CLI does), begun when each stage has run on its parent's output, and no stage runs
meanwhile.  Otherwise anything may be registered at any time, also stage by stage
as the DAG does.

The environment is `Produce` (a stage runs) and `Restore` (dvc checkout or an
earlier generator seed: earlier bytes, newest manifest unchanged); `Restores` bounds
the instances in which it happens.

Abstracted: batch ids and timestamps (an entry keeps the run its manifest was
written by), record counts, the model-run nodes of the lineage graph, the
summary document, changes of configured base versions.  Of `verify` the
comparison of checksums is modelled; that it also looks for each entry's manifest
and for the lineage document is not.

### The data side

A table is a sequence of rows with the set of lost columns, the number of extra
ones and whether it could be parsed (`Frames`).  A row is a record; a cell is a
number, a name, or one of the values `Blank`, `Garbled` (text where a number or a
date belongs) and `Fraction` (a number that is not whole).  Ratings are counted in
ten-thousandths and scores in hundredths, so that rounding is integer arithmetic.
Time is in units of the sessions' thirty seconds.

| Module | Code | How |
| --- | --- | --- |
| `Generator` | `movielens_loader`, `users_`, `products_`, `clickstream_`, `purchase_`, `popularity_generator`, `PopularityService` | `Loadable` is the loader's checks; every random choice is a field of a *draw* (offset of an interaction, delay of a purchase, quantity, rating drift), bounded by what the code asks the random source for |
| `Validation` | `validators`, `rules`, `profiler`, `_run_status`, `_overall_quality_score` | a rule is its category, its severity, whether it failed and the rows it failed; a rule the code skips because a column is missing fails no row; `validate` splits, scores and gives the verdict |
| `Preparation` | `transformations` | cleaning, one interaction per click and per order, aggregation per pair, matrices, `chronological_split` |
| `Features` | `features` | counts per user, item and pair, activity levels by quantile, co-occurrence cut to the top neighbours, six similarities and their weighted score; a tie in the neighbour search is any choice |
| `Training` | `collaborative`, `content_based`, `evaluation`, `compare_models` | what factors and vectors learn is an arbitrary *appeal* of an item for a user; seen items, ranking, cut, ties and metrics are the code's |
| `DataFlow` | the stages in order | one action per stage; a stage that raises ends the batch with its reason; between generation and ingestion an outside writer may do up to `MaxDefects` defects to the files |

`DataFlow` composes them:

    idle -> generated (-> damaged) -> ingested -> validated -> accepted
         -> prepared -> engineered -> trained        or stopped, with a reason

An answer of the API is stored only if every record keeps its response contract
(`PopularityResponse`: whole identifiers and counts, ratings and scores on their
scales, one of two trends); otherwise the request is a 500, ingestion is partial and
validation never takes the batch.  A generator whose window has no second left
before the minimum purchase delay raises, as does one that finds no room for a
delay.

Abstracted: names, categories and demographic values (model values or a constant
table), encodings, scaling, time-window features, plots and reports.

### The stage side: Lineage and Stages

`Lineage` is the abstract specification: an artifact is a batch with the content
of its files; each stage derives it from the same artifact of the stage before,
a batch is validated with one content, nothing is withdrawn.  `Stages` is the
DAG: `dag` is the one active run (`max_active_runs=1`) with its task, its step
within the task, the attempts made, and the context it passes on; the other
variables are what the stages leave behind.

| Action of `Stages` | Code |
| --- | --- |
| `StartRun` | `resolve_runtime_config`: a supplied batch, known or not, turns generation off; the run has its strictness and its split |
| `GenerateFile`, `SkipGeneration` | `generate_source_data`; one atomic replacement per file |
| `IngestObjects`, `IngestManifest` | `ingest_raw_data`: a new batch per attempt unless one is given; the objects, then the manifest, which is kept if it exists |
| `ValidateStart`, `ValidateOutputs`, `ValidateManifest` | newest SUCCESS raw manifest; `_resolve_existing`; report, then manifest (written atomically) |
| `enforce_quality_gate` | the gate, over the verdict of this run or of the manifest it found |
| `PrepareStart`, `PrepareOutputs`, `PrepareManifest` | `_find_existing`; outputs that differ between attempts; manifest in place |
| `FeaturesStart`, `FeaturesPersist`, `FeaturesManifest` | `find_identity`; one transaction; manifest in place |
| `verify_feature_store` | the second gate (its refusal of empty tables is a `StageRaises`, since after a reuse the counts are those of the newest manifest); registration and the final verification (module `Versioning`) pass likewise |
| `TrainStart`, `TrainSave` | the unique readable manifest of the feature batch; the models |
| `Crash`, `CrashWhileWriting`, `StageRaises`, `Tick`, `ChangeConfiguration`, `RegenerateByHand` | worker death or timeout, a torn manifest, a stage that refuses its data, the clock, the operator |

What a stage does with rows is not repeated here: `ValidateManifest` takes any
status, and `StageRaises` is a stage that refuses its data, with the reasons
`DataFlow` finds.  An ingestion run is two steps, its objects and its manifest;
that it can be seen so is `RawStore`, which `Ingestion` is proved to implement.
The content of a batch is the release of each of its files.

The identity of a feature batch is the batch, its prepared content, the split the
run was started with and the configuration in force (`Identity`), so reprocessing
a batch with another of them stores it again.  A `release` stands for the
configurations of the generator and of the feature stage together; a run that does
not generate sees a new release as a new feature configuration only.  Validation
and preparation also compare configuration hashes when they look for earlier
results (`validation_runner.py:368`); changes of those are not modelled.

`strict` of a model is a history field, absent from the real model bundle.

### MC and proof modules

`MCIngestion`, `MCVersioning`, `MCDataFlow` and `MCStages` give the constants
small values.

| Module | Theorems about |
| --- | --- |
| `IngestionStoreProofs` | the types of the ingestion runner, what it makes of local storage and of S3, and that it implements `RawStore` |
| `VersioningProofs` | the registry with any number of registrars that start at any time, then with scheduled registration or one registrar |
| `StagesProofs` | the types of the stages, where their artifacts come from, that they implement `Lineage`, and what a run may fail for |
| `DataFlowProofs` | the rows of a batch: types under every defect, which rows are kept, the split and the past |
| `SumTheorems` | sums over finite sets, quotients, means, and the inequality of Cauchy and Schwarz |
| `DataFlowResultProofs` | which operator gave each result of a batch; the types of every artifact, the scores and the verdict |
| `DataFlowCleanProofs` | a batch nothing happens to: the generator against every rule and every later stage |
| `DataFlowOutputProofs` | recommendations, metrics and feature tables |

`SumOf` in `Frames` is the sum of a function's values (the model's totals, means
and dot products are written with it), so that one lemma, `SumIsTotal`, ties all
of them to the totals of `SumTheorems`.

## Runs

| Run | Question | Instance |
| --- | --- | --- |
| `ingestion_local` | do concurrent, crashing, repeated runs keep store and manifest consistent? | 2 processes, 3 invocations, one file and the API, 2 contents each, good and bad URLs |
| `ingestion_s3` | do retries, lost acknowledgements and reruns, one after the other, keep the store write-once, and does every run end? | 1 process, 3 invocations over 2 hours, 2 attempts, sources change between runs |
| `ingestion_s3_overwrite` | (violated) and two runs at once, with a source replaced in between? | 2 processes, 2 invocations, 1 attempt |
| `ingestion_partial` | (violated) is a batch whose run succeeded committed as a success? | 1 process, 2 invocations |
| `versioning_single` | is a full registration a consistent, verifiable lineage, is history kept and the document readable, while stages run and the registrar crashes? | 1 registrar, a chain of 2 stages, 3 contents, FAILED runs, earlier batches |
| `versioning_concurrent` | what survives two registrars without a lock, and where all stages are registered together, does the parent entry supply the child's input checksum? | 2 registrars, a chain of 2 stages, 3 contents, scheduled (with checkouts) or not (without) |
| `versioning_restore` | (violated) is one entry current after a checkout? | 2 stages, 3 contents |
| `dataflow` | do generator, validator, features and models agree about the rows, and how far does a defect reach? | 5 sources of up to 5 ratings by 2 users of 3 products, offsets at and past the ends of the window, every delay, one defect of any kind, place and value, strict and lenient gate, 2 appeals |
| `dataflow_copies` | (violated) is a repeated product quarantined? | the damaged sources alone |
| `dataflow_leakage` | (violated) do the catalog's features know no later rating? | as `dataflow`, no defects |
| `stages` | does every run end, train on its own batch, and refine `Lineage`, through a crash, a timeout, a silent API and reprocessing? | 2 runs, 2 hours, 2 releases of 2 files, 1 fault, the retries of the DAG |
| `stages_feature_gate` | (violated) does the feature gate mean that this feature batch has a manifest? | as `stages` |

Why the bounds are enough.  Every hazard of ingestion is between two runs of one
partition, or a run and one replacement of a source: two processes, a third
invocation for the rerun after both, two contents per source, which may
alternate.  Partitions share
nothing, so one batch and, with crashes across the hour, two hours suffice.  A
second file adds a source but no new kind of step; the proofs cover any number.
Two attempts distinguish the first, a repeated and the last.  For the registry,
a stage must be registered, superseded and registered again: two contents of the
root stage and one of its child is 3.  `MaxHour`, `MaxGen`, `MaxRuns` and `MaxContent` are the
only bounds; each is a guard of the action that counts.

`ingestion_s3` assumes that runs of one batch do not overlap and that sources do
not change during a run: what the DAG's order and `max_active_runs=1` give.
`ingestion_s3_overwrite` drops both (`Scheduled = FALSE`, two processes): an
overlapping run alone would upload the same bytes again.

`dataflow`.  A batch does not meet other batches on the data side, so one is
enough.  A rule relates at most two datasets, a pair feature two items and two
users, a session two clicks: the five sources have a user with a session of two
ratings and one who starts a new one, a product everybody and one nobody rated, a
source in which one product alone is rated, one without purchases, and one the
loader refuses.  One defect at a time is
what makes `ValidRowsAreTrue` and `ContaminationIsLocal` say which rule catches
what; two defects may hide each other (a click and the order that needs it).
Two small sources are damaged, the others differ in the shape of the data.
Co-occurrence is cut at one neighbour and similarity at the first rank, so that
both cuts happen.

`stages`.  Every hazard is between a run that left something behind and one that
finds it: two runs, the second of which may reprocess the batch of the first.
Two hours separate outputs of the same task; two releases the same file before
and after a change, or a batch before and after a change of the feature
configuration; a lenient run on the train split and a strict one on all events
(`Parameters`) differ in both; one fault is enough to leave any prefix of a task.
`MaxBatches` is the attempts to ingest that two runs can make, so it never
blocks one.  Two files make a landing zone of two generations possible.

Deadlock is not checked: with the bounds used up, everything may stop, and a
batch of `DataFlow` ends.

Fairness: `FairSpec` has weak fairness on the steps of a process.  Every
blocking call of a run has a timeout (HTTP) or returns (local files, boto3), and
no step waits for another process.  Starts, crashes and the environment are not
fair.  It is used by `RunTerminates` alone.  `Stages` has weak fairness on the
steps of the running task: the Airflow scheduler keeps scheduling a run that has
a task to do, and every task has an execution timeout.  Crashes, the clock, the
operator and the start of a run are not fair.  `DagRunEnds` uses it.

Every property of a passing run has a mutated definition in its module (an
operator marked "A mutant") under which TLC finds the property violated.

## Findings

* **S3 overwrites.** `S3Storage` asks `head_object` and then uploads without a
  condition (`storage.py:273`); the design says raw objects are never
  overwritten.  Two runs of a batch at once, with a source replaced between their
  uploads, break it: the later upload replaces the object, with a checksum in its
  metadata that is not that of the new bytes.  Local storage keeps the promise
  whatever happens; S3 keeps it if runs do not overlap and sources stand still
  during a run.  Both are proved, and also that with sources standing still
  overlapping runs leave the objects alone and can only replace each other's
  manifest.
* **A partial manifest outlives the successful rerun.** When a rerun in the same
  hour completes a partial batch, the runner returns SUCCESS and keeps the
  PARTIAL_SUCCESS manifest as the commit record (`ingestion_runner.py:173`).
  Readers of the manifest never learn that the batch is complete.
* **Two current entries.** Registering a content seen before sets `is_current`
  on its entry and leaves the newer entry's flag (`service.py:127`).  Proved: with
  one registrar this needs a restored artifact.
* **A gate that looks at another batch's manifest.** After a crash between the
  warehouse commit and the feature manifest, the retry is idempotent and the
  stage reports the newest feature manifest there is (`stages.py:178`), of
  another batch.  The gate passes; training of this batch fails for ever, since
  no rerun writes the missing manifest.  Proved: without a crash the gate means
  what it says.
* **A repeated product stops validation.** The rules promise to quarantine every
  copy of a product identifier; the price lookup of the purchase rules
  (`validators.py:594`) raises on it, and nothing is quarantined or reported.

* **Catalog features know later ratings.** `external_popularity_score` and the
  average rating weighed in the item similarity come from the catalog and the
  popularity response (`features.py:187-190`, `:205`, `:457-459`), which the
  generator computes from all ratings (`CatalogFeaturesSeeOnlyThePast`); the
  guidelines (`FEATURE_ENGINEERING_GUIDELINES.md:52-54`) allow only what was
  available at the cutoff.  What is counted from events keeps to them, and is proved
  to.  `price_scaled`, fitted before the split, is of the same kind and not modelled.

Where no document says otherwise, what the model shows is listed as a hazard and
not as a finding: clicks of a quarantined product stop feature engineering
(`LookupFailsForQuarantinedProduct` says that nothing else does), unless it is
the only product anybody touched: then there is no neighbour to look up, and the
collaborative model recommends it, which never looks into the catalog
(`RecommendsUnseenOnly` names the exception); a failed row may hide in the
rounding of a quality score once a dataset has 6000 required cells
(`ScoreAgreesWithVerdict` holds below that); a user without unseen items stops
training; one garbled identifier types a column as text; a
torn preparation manifest blocks its batch, a partial raw manifest its hour; a
retry in the same hour after a crash meets its own outputs; the row count of a
file record may be of bytes that were put in its place for a moment.

Overlapping registrars lose each other's entries, against
`DATA_VERSIONING.md:66` (the registry records every registered version) and `:79`
(prior entries are retained), and can publish a
torn document.  TLC shows both on the instance of `versioning_concurrent` when
`HistoryIsRetained` or `RegistryIsReadable` is added to it.  They are hazards and
no run of their own: `max_active_runs=1` keeps the DAG from it, and the document
does not say that registration may run twice at once.

## Proofs

**Ingestion.**  Assumptions: those stated in `Ingestion` on its constants (the
configured order lists every file, attempts are positive).  Numbers of processes,
files, batches, hours, attempts and contents are arbitrary.

* `TypeCorrect`: `TypeOK` is inductive by itself.  `StepPlaced` reduces a step of
  a process to the shape of its invocation afterwards (`Placed`: in its type and,
  at a source's control point, at a configured source).
* Local storage (`Storage = "local"`), `LocalInvariant`: `ManifestDescribesStore`
  is not inductive: a manifest is written from records made long before.
  `LocalInv` adds, for every invocation, that the sources before `pos` are decided
  and what they call stored is in the store under the recorded checksum, that the
  temporary copy at
  `link` is the hashed content (`Sound`), and that a run that returned left a
  manifest.  Steps are of three kinds: quiet ones (one lemma per action),
  `LinkTarget` and `LinkManifest`; the latter two only add to the store (`Grown`),
  under which the claims of all others survive.
* `LocalManifestDescribesStore`, `LocalSuccessfulRunIsStored`,
  `LocalSuccessfulRunsAgree`, `LocalChecksumsAreTrue`
  follow from it; `LocalNeverOverwritten` from the three kinds of step.
* `LocalImplementsRawStore`: `LinkTarget` on a free key is `Put`, `LinkManifest`
  on a free partition is `Commit`, everything else stutters.
* S3 (`Storage = "s3"`), `S3Invariant`: nothing is exclusive, so the argument is
  another.  `Scheduled` is what the DAG's order gives: a source is replaced only
  while no run is active.  Then what an invocation has read is what its source
  holds now (`ReadAsIs`), and two invocations of a partition at `upload` of the
  same source hold the same bytes (`UploadsSame`: the object is absent or has
  them).  So an upload adds an object or sends again what is there (`Kept`),
  whichever of its effect and acknowledgement is lost, and the records of all
  others survive it.  A source that changes in between refutes the invariant, and
  the finding above is that trace.
* `ScheduledChecksumsAreTrue`, `ScheduledManifestDescribesStore`,
  `ScheduledSuccessfulRunIsStored`, `ScheduledSuccessfulRunsAgree`
  follow, for any number of runs at once.
* `LoneRunnerNeverOverwrites`, `LoneRunnerImplementsRawStore` need `OneRunner`
  besides (`max_active_runs=1`): two runs that both found no manifest publish two,
  and one replaces the other.  With one, the manifest at `put` is missing or the
  run's own, sent again after a lost acknowledgement (`PutsOwn`).

`LocalInv`, `S3Inv` and the invariant of one runner were also checked with TLC on
instances like those of `ingestion_local` and `ingestion_s3`.

**Versioning.**  Assumptions: those stated in `Versioning` (the order lists every
stage, every stage but the root has a parent).  The theorems of
the second part of `VersioningProofs` name what they need besides: `Alone` (at most one
registrar: the DAG has one active run), `ParentsFirst` (an artifact is configured after its parent, as in
`configs/versioning.yaml`; the code does not check it) and `Restores = {}` (no dvc
checkout of earlier bytes: with one the property is false, run
`versioning_restore`).

* `DocsInvariant`: `VersionsAreUnique` speaks of the published document, which
  is a renamed temporary file, which is some registrar's copy of an earlier
  published document.  So the invariant is that every document in flight is
  `GoodDoc`: typed, unique in versions and checksums, holding the parents it
  names, and bounded, so that `max(versions)` exists (`GreatestExists`, from
  well-founded induction on the naturals).  A registrar moreover carries a
  complete observation of every stage it is to register, and current versions
  its document holds.  `RegisteredGood` is the heart: appending a fresh version
  or rewriting a known entry keeps `GoodDoc`.  That registrars lose each other's
  updates does not matter to it.
* `RegistryTypeCorrect`, `VersionsStayUnique`, `ParentsStayRegistered` follow.
* `LoneRegistryIsReadable`, `LoneHistoryIsRetained`: with one registrar
  (`SingleInv`) an open temporary file is never renamed, and from `load` to
  `replace` what the registrar writes `Retains` every version of the document
  on disk (`RegisteredRetains`).  Both are false of two registrars.
* `ScheduledParentsSupplyInput`: for any number of registrars, in behaviours with
  `scheduled`: every registration is of all stages and begins when they have run on
  each other's output.  A stage registered alone, or over an artifact made from an
  earlier output of its parent, can name a parent entry that did not supply its
  input.  The DAG registers the stages one call after the other in the configured
  order (`stages.py:216-219`, `:294-295`); what that gives beside another registrar
  is outside this property and `FullRegistrationGivesLineage`.  The invariant
  `SupplyInv` is again about every document in flight: each is `Supplied`, an
  entry's input is the content of the parent entry it names.  A new entry is,
  because what was observed was consistent when observation began and a parent is
  registered before its child in the same pass (`RunsInOrder`).
* `LoneStageHasOneCurrent`, `LoneRegistrationVerifies`,
  `LoneRegistrationGivesLineage` are about the end of a pass over all stages.
  The entry that is current must be the newest of its stage, and what a stage
  holds now must not be the content of an older one.  `LatestInv` says so of every
  document (`Latest`, `Aged`) and follows the pass: after `n` steps of it the
  first `n` stages are covered by entries with the observed content
  (`Progress`: `Covers`, `Complete`), which `verify` and `generate_lineage` then
  find (`Shows`, `Links`).

**Stages.**  Assumptions: those stated in `Stages` on its constants (files are
listed once, bounds and retries are naturals).  Numbers of files, runs, hours,
releases, faults and retries are arbitrary.

* `StagesTypeCorrect`: the type invariant with, for the run, what holds at each
  step (`Placed`: a batch once ingestion has stored its objects, a verdict where
  one is read, attempts within the retries), one lemma per action.
* The lineage properties speak of the end of a chain whose links were made by
  different runs, hours apart, with anything in between.  `LineageInv` adds two
  parts to the types.  `Derived` is about what is stored: a successful raw
  manifest has all its objects, what is validated is what was ingested, what is
  prepared is what was validated, what is in the warehouse is what was prepared,
  a batch has one validation, and warehouse rows differ in identity and number.
  `Relies` is about the run between a step that reads and one that writes: what
  it read still holds when it writes.  The latter needs that records are only
  added (`GrowsFacts`), since the run that relies on them is not the one that
  made them; and that a batch validated is not validated again, which is why
  `ValidateStart` looks for any validation of the batch.
* `FeatureBatchIsUnique` (one for a content, split and configuration),
  `TrainingIsOnOwnBatch` (the run's batch and split) and `StrictTrainingIsClean`
  follow.  The last is the reason for `StrictRun`: a strict run may never
  validate itself, and stands on the verdict it found.
* `StagesImplementLineage`: under `LineageInv` the commit of each stage is the
  abstract step on the artifact it adds, `IngestManifest` to `TrainSave`, and
  everything else stutters.
* `CauseInv` is the second invariant of `StagesProofs`.  `RawInv` is about the batch
  of the run: it was not handed out before, a generating run's landing files are
  of the release in force, and so are the objects ingested from them.
  `FreshBatchStaysCurrent` is its last part, with or without faults.
* `FaultFreeFailuresHaveCauses` goes through every way a task raises and shows that
  the code's reasons exclude all but the listed ones.  `HandoverInv` says that what
  a task passed on is there when the next one looks for it; `TidyInv` that as long
  as nothing has failed every output has its manifest, a batch is prepared once and
  warehouse rows have manifests.  `GateIsSoundWithoutFaults` follows from the last.

`LineageInv` was also checked with TLC on the instance of `stages`.

**Data.**  Assumptions: those stated on the constants, among them `SourceTables`
(the loader's tables hold whole numbers, a listed product has a price), and for
`EventFeaturesStayInThePast` that `SourceSplit` is `"train"`, as
`configs/feature_engineering.yaml` sets it.  Tables, draws, percentages and the
number of defects are arbitrary.

* Sorting: `InOrder` chooses for each place an element with that many elements
  before it.  For a strict total order on a finite set ranks are distinct
  (`RankGrows`) and below the size, so by counting every rank is taken
  (`RankTaken`): the list is complete, without repetitions and sorted.
* `SplitFollowsTime`: wherever `chronological_split` does not raise, its cuts lie
  within the list (`CutsAreOrdered`), the partitions are everything, disjoint,
  and in the order of time.  It needs interactions with whole times and distinct
  identifiers (`Sortable`); with a repeated identifier it is false.
* `FlowInvariant`: that they are `Sortable` is carried by types.  The generator
  writes typed cells (`GeneratedClicks`, `GeneratedPurchases`), a defect of any
  kind puts a cell of the type or a marker in its place (`DamageKeepsTypes`),
  ingestion keeps them.  The other conjuncts say that each artifact was computed
  from the one before.
* `ValidEvents`: the rules turn types into facts.  A row that is kept passed the
  identifier, timestamp and key rules (`RulesApply`), so its time is a number, its
  identifier is its own, and its product is in the raw catalog.
* `EventFeaturesStayInThePast` and `LookupFailsForOneCause` follow.  The maximum that
  is the reference time is taken by an event of the train partition
  (`LatestIsTaken`).  The theorem is about the events features are counted from; the
  catalog columns they also use do know later ratings, which is a finding.

* `ResultInvariant`: the other results are functions of the rows, so what is
  proved of them goes through the operators that computed them.  `ResultInv` adds
  to `FlowInv` where each artifact came from: the files are tables of one source
  (`TablesOf`: every cell is a value the generator writes for that source or a
  marker, whatever the number of defects), the report, the features, the lists
  and the metrics are the operators' answers for what the stage read.
* Sums.  The library's induction takes an operator as a parameter, which the
  provers cannot instantiate.  `LeastSubset` stands in for it: among the subsets
  of a finite set for which a claim fails there is one without a failing part.
  With it a total is well defined and independent of the order of its elements
  (`SumsAgree`, `TotalStep`), bounded, monotone and additive, and counts of
  classes add up (`TotalOfCounts`).
* `ArtifactsAreTyped` is then `TypeOK`, and `ScoresShowTheVerdict` what the
  scores mean.  Every rule is sound (`RulesAreSound`: it counts the rows it
  names), a category's score is full exactly when no row failed a rule of it
  (`CategoryScore`), and the weighted sum loses at least thirty points over the
  number of required cells for anything that failed (`WeightedScore`).  That is
  more than the half hundredth that rounding forgives as long as there are fewer
  than `HidingSize` = 6000 cells; without that bound the property is false.
* `RecommendationsAreUnseen`: a list is ranked by a strict order, so it shows its
  elements once, and first elements of an ordered list are elements
  (`ScoresInOrder`, `FirstAreShort`).  That what is shown is in the catalog holds
  because engineering has looked up every touched product, except when a single
  product was touched: the exception in the property.
* `MetricsStayShares`: hits are at most the length of the list, the discounts of
  any hits are at most those of as many first ranks (`FirstRanksAreBest`), which
  is what the ideal list gets, and a mean keeps the order of what it averages
  (`MeansKeepOrder`).
* `FeatureTablesAlwaysAgree`: totals per user, item and pair are counts of the
  events by a key (`TotalsBalance`), and a pair of items counts the users with
  both pair features (`PairsCountUsers`).  The cosine of two items is at most one
  by the inequality of Cauchy and Schwarz (`CauchySchwarz`, by `LeastSubset`
  again), whole roots included (`RootOf`); the price spread is never zero
  (`SpreadIsWide`), so every similarity is on its scale.

* `GeneratorPassesValidation` and `GeneratorFeedsEveryStage` are about a batch
  nothing happens to, for any source and any draw.  Every rule is shown to pass on
  what the generator writes for it (`UsersPass`, `ProductsPass`, `ClicksPass`,
  `PurchasesPass`, `PopularityPasses`), from what its rows are: the clicks of every
  rating, each once and in the order of time (`CleanClicks`), sessions that begin
  with a view (`SessionsBeginWithView`), one purchase for a rating of 4 or 5
  after the click it points at (`PurchaseFollowsClicks`), mean ratings that
  rounding keeps on the scale (`MeanRatingOnScale`), and an API that answers with
  one record per product.  `CleanInv` carries the frames of the draw through the
  stages: a delay always fits (`DelaysAlwaysFit`), nothing is quarantined
  (`CleanReport`), so the strict gate opens, every click and purchase becomes an
  interaction (`CleanInteractions`) and the split refuses only too few of them
  (`TrainingRemains`).  `KeyError` is then excluded by `LookupFailsForOneCause`.

These two theorems have a hypothesis, `Fits`, with what no code checks.  Of a
source: positive identifiers, and one rating for a user and a product, as in
`data/basedata/ml-100k`; two ratings of a pair are two purchases which can both
point at the same final click.  Of the configurations: the click window has a
second left before the minimum purchase delay (`configs/generator.yaml`: 24 hours
and 5 minutes; without one `generate_clickstream` raises,
`clickstream_generator.py:53-56`), validation accepts the
quantities the generator orders (1 to 3 of at most 100), it runs when the
reference time is at most the tolerance ahead and the popularity not yet too old
(a week, `configs/validation_rules.yaml`), and a split has at least 3 records and
holds out at most 66 percent (`configs/preparation.yaml`: 3 and 30).  `MCDataFlow`
assumes `Fits` too, so TLC evaluates it.  `MarkersApart` in `Generator` says that
the markers for odd cells are none of the values the generator writes.

Recommendations and metrics need one assumption more: `LearnedAppeal`, training
gives a number to every user and product of a source it could load.

`FlowInv`, `ResultInv` and `CleanInv` were also checked with TLC on the instance of
`dataflow`.  Two properties were restated when their proofs failed: TLC had no dataset of 6000
cells, and no source in which one product alone is rated (`Single` in
`MCDataFlow` is that source now).

Model-checked only: termination (`RunTerminates`, `DagRunEnds`: liveness is
outside what the prover handles), and two properties of the data side,
`ValidRowsAreTrue` and `ContaminationIsLocal`: they hold of one defect and are
about the instance's bound.

## Not modelled

* `reporting/`, `validation/reporting.py`, `modeling/reporting.py`,
  visualisation, EDA plots, `scripts/`: they format results; nothing reads them
  back.  `validation/config.py` and the other loaders of configuration: their
  checks are the assumptions on the constants.
* The row counts of ingestion's file records (only that counting may fail).
* Changes of the validation and preparation configurations, and the identity they
  enter; those of the feature stage are modelled.
* The manifest and lineage-document checks of `verify`.
* Encoders, scalers and time-window features: columns no modelled stage reads.
* What gradient descent learns: any appeal of items is allowed, so the
  properties of lists and metrics do not depend on it.
* Loggers, Airflow set-up scripts, callbacks and the summary task: they write
  evidence only.
* MLflow tracking and model bundles: pure output; a failure there is
  `StageRaises`.

## Plan

1. `DataFlow`: two defects, with a weaker `ContaminationIsLocal`.
2. `Features`: time-window features and preferences.
