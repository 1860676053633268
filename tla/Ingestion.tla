----------------------------- MODULE Ingestion -----------------------------
(***************************************************************************)
(* The ingestion runner: processes that each attempt every configured      *)
(* source of one batch, store the bytes in a local or an S3 raw store and  *)
(* publish the manifest, the commit record of the batch.  Processes may    *)
(* run concurrently on the same batch (a scheduler's attempt and a manual  *)
(* rerun), crash at any step and be started again, while the generator     *)
(* replaces the incoming files and the clock moves to the next hour.       *)
(***************************************************************************)
EXTENDS Naturals, Sequences

CONSTANTS
    Procs,          \* operating-system processes running the CLI or the task
    Files,          \* names of the incoming files
    RequiredFiles,  \* the configured order of the files
    Api,            \* the popularity API, the last source of every run
    Batches,        \* batch identifiers
    Storage,        \* "local" or "s3"
    ApiUrls,        \* "http" and "other": URLs that pass _safe_http_url or not
    Scheduled,      \* whether the generator runs only between runs (the DAG)
    ApiAttempts,    \* request.max_attempts
    S3Attempts,     \* s3.max_attempts
    MaxHour,        \* bound: hours the clock goes through
    MaxGen,         \* bound: contents a source may hold
    MaxRuns         \* bound: invocations of the runner

ASSUME SourcesAssumption ==
    /\ RequiredFiles \in Seq(Files)
    /\ \A f \in Files : \E n \in 1..Len(RequiredFiles) : RequiredFiles[n] = f
    /\ Api \notin Files

ASSUME ConfigAssumption ==
    /\ Storage \in {"local", "s3"}
    /\ ApiUrls \subseteq {"http", "other"}
    /\ Scheduled \in BOOLEAN
    /\ ApiAttempts \in Nat \ {0}
    /\ S3Attempts \in Nat \ {0}

ASSUME BoundsAssumption ==
    /\ MaxHour \in Nat
    /\ MaxGen \in Nat
    /\ MaxRuns \in Nat

VARIABLES
    source,         \* current content of each source; 0 is a missing file
    hour,           \* the UTC hour
    objects,        \* raw data objects by source, hour and batch
    manifests,      \* published manifests by hour and batch
    run,            \* the invocation each process executes
    lastId          \* run ids handed out so far

vars == <<source, hour, objects, manifests, run, lastId>>

Items == Files \cup {Api}
Hours == 0..MaxHour
Sources == Append(RequiredFiles, Api)

\* The contract: names of the stored values, and the write-once store itself.
Raw ==
    INSTANCE RawStore WITH
        Items <- Items, Hours <- Hours, Batches <- Batches,
        objects <- objects, manifests <- manifests

Keys == Items \X Hours \X Batches
Partitions == Hours \X Batches
Absent == [body |-> 0, sha |-> 0]
Stored == {"SUCCESS", "IDEMPOTENT_SUCCESS"}
NoEntry == [status |-> "PENDING", sha |-> 0]
NoManifest == [id |-> 0, files |-> [i \in Items |-> NoEntry]]

\* Control points of one invocation.  A source goes source -> (count) ->
\* check -> copy -> link on local storage and ... check -> upload on S3.
SourcePcs == {"source", "count", "check", "copy", "link", "upload"}
ManifestPcs == {"manifest", "publish", "put"}
EndPcs == {"idle", "returned", "raised"}
Pcs == SourcePcs \cup ManifestPcs \cup EndPcs

Source(p) == Sources[run[p].pos]
Partition(p) == <<run[p].hour, run[p].batch>>
Key(p) == <<Source(p), run[p].hour, run[p].batch>>

\* _aggregate_status over the manifest's file records.
RunStatus(files) ==
    IF \A i \in Items : files[i].status \in Stored THEN "SUCCESS"
    ELSE IF \E i \in Items : files[i].status \in Stored
         THEN "PARTIAL_SUCCESS" ELSE "FAILED"

\* An invocation before its first source: run id, partition and URL.
NewRun(pc, id, h, b, u) ==
    [pc |-> pc, id |-> id, hour |-> h, batch |-> b, url |-> u, pos |-> 1,
     sha |-> 0, temp |-> 0, tries |-> 1,
     files |-> [i \in Items |-> NoEntry]]

Init ==
    /\ source \in [Items -> {0, 1}]
    /\ hour = 0
    /\ objects = [k \in Keys |-> Absent]
    /\ manifests = [q \in Partitions |-> NoManifest]
    /\ \E b \in Batches, u \in ApiUrls :
          run = [p \in Procs |-> NewRun("idle", 0, 0, b, u)]
    /\ lastId = 0
-----------------------------------------------------------------------------
(***************************************************************************)
(* Recording the outcome of a source.                                      *)
(***************************************************************************)

\* A mutant: the loop does not stop at the last source.
RecordedPastEnd(r, status) ==
    [r EXCEPT !.files[Sources[r.pos]] =
                  [status |-> status, sha |-> r.sha],
              !.pos = r.pos + 1, !.pc = "source",
              !.sha = 0, !.temp = 0, !.tries = 1]

\* A mutant: the manifest is published after the first source.
RecordedEarly(r, status) ==
    [r EXCEPT !.files[Sources[r.pos]] =
                  [status |-> status, sha |-> r.sha],
              !.pos = r.pos + 1, !.pc = "manifest",
              !.sha = 0, !.temp = 0, !.tries = 1]

\* The invocation r after its current source ended with a status: the file
\* record is appended and the loop moves to the next source or the manifest.
Recorded(r, status) ==
    LET kept == status \in Stored
    IN  [r EXCEPT
            !.files[Sources[r.pos]] =
                [status |-> status, sha |-> IF kept THEN r.sha ELSE 0],
            !.pos = r.pos + 1,
            !.pc = IF r.pos < Len(Sources) THEN "source" ELSE "manifest",
            !.sha = 0, !.temp = 0, !.tries = 1]

\* A mutant: an exhausted budget starts over.
RetryForever(r, max, gaveUp) ==
    IF r.tries < max THEN [r EXCEPT !.tries = @ + 1] ELSE [r EXCEPT !.tries = 1]

\* The invocation r after a transient error: one more attempt while the
\* budget lasts, otherwise the given outcome.
RetryOr(r, max, gaveUp) ==
    IF r.tries < max THEN [r EXCEPT !.tries = @ + 1] ELSE gaveUp

Become(p, r) == run' = [run EXCEPT ![p] = r]
Record(p, status) == Become(p, Recorded(run[p], status))
Goto(p, pc) == Become(p, [run[p] EXCEPT !.pc = pc])

At(p, pc) == run[p].pc = pc
AtFile(p, pc) == At(p, pc) /\ Source(p) # Api
AtApi(p, pc) == At(p, pc) /\ Source(p) = Api

world == <<source, hour, lastId>>
-----------------------------------------------------------------------------
(***************************************************************************)
(* Starting a run, and the environment.                                    *)
(***************************************************************************)

\* IngestionRunner.run up to the first source: the hour of the start fixes
\* the partition of everything the run writes.
Start(p) ==
    /\ run[p].pc \in EndPcs
    /\ lastId < MaxRuns
    /\ lastId' = lastId + 1
    /\ \E b \in Batches, u \in ApiUrls :
          Become(p, NewRun("source", lastId + 1, hour, b, u))
    /\ UNCHANGED <<source, hour, objects, manifests>>

\* The process dies (killed, timed out, or by an exception run does not
\* catch); only what it published stays.
Crash(p) ==
    /\ run[p].pc \notin EndPcs
    /\ Become(p, NewRun("idle", 0, 0, run[p].batch, run[p].url))
    /\ UNCHANGED <<source, hour, objects, manifests, lastId>>

\* The generator atomically replaces one incoming file, or the API starts to
\* answer from replaced files.  The seed decides the bytes, so a source may
\* return to a content it had before.
Publish(i) ==
    /\ Scheduled => \A p \in Procs : run[p].pc \in EndPcs
    /\ \E c \in 1..MaxGen : source' = [source EXCEPT ![i] = c]
    /\ UNCHANGED <<hour, objects, manifests, run, lastId>>

Tick ==
    /\ hour < MaxHour
    /\ hour' = hour + 1
    /\ UNCHANGED <<source, objects, manifests, run, lastId>>
-----------------------------------------------------------------------------
(***************************************************************************)
(* FileIngestionService.ingest and PopularityApiIngestionService.fetch.    *)
(***************************************************************************)

\* The file is missing, unreadable or malformed, when it is looked for,
\* hashed or counted.
ReadFails(p) ==
    /\ AtFile(p, "source") \/ AtFile(p, "count")
    /\ Record(p, "FAILED")
    /\ UNCHANGED <<objects, manifests, world>>

\* sha256_file of the source as it is now.
HashSource(p) ==
    /\ AtFile(p, "source")
    /\ source[Source(p)] # 0
    /\ Become(p, [run[p] EXCEPT !.sha = source[Source(p)], !.pc = "count"])
    /\ UNCHANGED <<objects, manifests, world>>

\* count_source_records opens the file again; the file may have been replaced
\* since, and may be once more before it is copied.
CountSource(p) ==
    /\ AtFile(p, "count")
    /\ Goto(p, "check")
    /\ UNCHANGED <<objects, manifests, world>>

\* A URL that is not HTTP makes the constructor of the API service raise,
\* outside the runner's try: the run ends with no manifest.
RejectUrl(p) ==
    /\ AtApi(p, "source")
    /\ run[p].url # "http"
    /\ Goto(p, "raised")
    /\ UNCHANGED <<objects, manifests, world>>

\* A complete, valid response.
FetchResponse(p) ==
    /\ AtApi(p, "source")
    /\ run[p].url = "http"
    /\ source[Api] # 0
    /\ Become(p, [run[p] EXCEPT !.sha = source[Api], !.temp = source[Api],
                                !.tries = 1, !.pc = "check"])
    /\ UNCHANGED <<objects, manifests, world>>

\* A request error, a transient status (an unavailable source is a 500), or
\* a permanent status, which is not retried, nor is an invalid body.
FetchFails(p) ==
    /\ AtApi(p, "source")
    /\ run[p].url = "http"
    /\ \/ Become(p, RetryOr(run[p], ApiAttempts, Recorded(run[p], "FAILED")))
       \/ Record(p, "FAILED")
    /\ UNCHANGED <<objects, manifests, world>>
-----------------------------------------------------------------------------
(***************************************************************************)
(* RawStorage.write_file and write_bytes, local and S3.                    *)
(***************************************************************************)

\* The checksum the store answers for an object: local storage hashes the
\* bytes, S3 trusts the metadata of the upload.
ShaOf(o) == IF Storage = "local" THEN o.body ELSE o.sha

\* _existing_result on an object that is there.
Reuse(p, o) ==
    Record(p, IF ShaOf(o) = run[p].sha THEN "IDEMPOTENT_SUCCESS" ELSE "FAILED")

\* A mutant: an existing object is taken for the same object.
CheckUncompared(p) ==
    /\ At(p, "check")
    /\ IF objects[Key(p)] = Absent
         THEN Goto(p, IF Storage = "s3" THEN "upload"
                      ELSE IF Source(p) = Api THEN "link" ELSE "copy")
         ELSE Record(p, "IDEMPOTENT_SUCCESS")
    /\ UNCHANGED <<objects, manifests, world>>

\* A mutant: the object is written without looking.
CheckSkipped(p) ==
    /\ At(p, "check")
    /\ Goto(p, IF Storage = "s3" THEN "upload"
               ELSE IF Source(p) = Api THEN "link" ELSE "copy")
    /\ UNCHANGED <<objects, manifests, world>>

\* target.exists() or head_object before anything is written.
CheckDestination(p) ==
    /\ At(p, "check")
    /\ IF objects[Key(p)] = Absent
         THEN Goto(p, IF Storage = "s3" THEN "upload"
                      ELSE IF Source(p) = Api THEN "link" ELSE "copy")
         ELSE Reuse(p, objects[Key(p)])
    /\ UNCHANGED <<objects, manifests, world>>

\* An OSError or a head_object error; head_object is not retried.
StorageFails(p) ==
    /\ run[p].pc \in {"check", "copy", "link"}
    /\ Record(p, "FAILED")
    /\ UNCHANGED <<objects, manifests, world>>

\* A mutant: the temporary copy is not verified against the checksum.
CopyUnverified(p) ==
    /\ At(p, "copy")
    /\ Become(p, [run[p] EXCEPT !.temp = source[Source(p)], !.pc = "link"])
    /\ UNCHANGED <<objects, manifests, world>>

\* LocalStorage.write_file: copy to a temporary file and hash the copy (the
\* bytes of a response are written as they are).
CopyToTemp(p) ==
    /\ At(p, "copy")
    /\ IF source[Source(p)] = run[p].sha
         THEN Become(p, [run[p] EXCEPT !.temp = source[Source(p)],
                                       !.pc = "link"])
         ELSE Record(p, "FAILED")
    /\ UNCHANGED <<objects, manifests, world>>

\* A mutant: os.replace instead of os.link.
ReplaceTarget(p) ==
    /\ At(p, "link")
    /\ objects' = [objects EXCEPT ![Key(p)] =
                      [body |-> run[p].temp, sha |-> run[p].sha]]
    /\ Record(p, "SUCCESS")
    /\ UNCHANGED <<manifests, world>>

\* os.link: exclusive publication, or the object another run published first.
\* An error while the temporary name is removed or the size is read fails the
\* source although its object is published.
LinkTarget(p) ==
    /\ At(p, "link")
    /\ IF objects[Key(p)] = Absent
         THEN /\ objects' = [objects EXCEPT ![Key(p)] =
                                [body |-> run[p].temp, sha |-> run[p].sha]]
              /\ Record(p, "SUCCESS") \/ Record(p, "FAILED")
         ELSE /\ Reuse(p, objects[Key(p)])
              /\ UNCHANGED objects
    /\ UNCHANGED <<manifests, world>>

\* The bytes an upload sends: a file is read while it is uploaded, a
\* response is the payload that was hashed.
UploadBody(p) == IF Source(p) = Api THEN run[p].sha ELSE source[Source(p)]

\* A mutant: the upload carries no sha256 metadata.
UploadUntagged(p) ==
    /\ At(p, "upload")
    /\ objects' = [objects EXCEPT ![Key(p)] = [body |-> UploadBody(p), sha |-> 0]]
    /\ \/ Record(p, "SUCCESS")
       \/ Become(p, RetryOr(run[p], S3Attempts, Recorded(run[p], "FAILED")))
    /\ UNCHANGED <<manifests, world>>

\* One upload_file or put_object that reaches the store; the acknowledgement
\* may be lost, which is a transient error to _retry.
Upload(p) ==
    /\ At(p, "upload")
    /\ objects' = [objects EXCEPT ![Key(p)] =
                      [body |-> UploadBody(p), sha |-> run[p].sha]]
    /\ \/ Record(p, "SUCCESS")
       \/ Become(p, RetryOr(run[p], S3Attempts, Recorded(run[p], "FAILED")))
    /\ UNCHANGED <<manifests, world>>

\* An upload that stores nothing: transient, or permanent and not retried.
UploadFails(p) ==
    /\ At(p, "upload")
    /\ \/ Become(p, RetryOr(run[p], S3Attempts, Recorded(run[p], "FAILED")))
       \/ Record(p, "FAILED")
    /\ UNCHANGED <<objects, manifests, world>>
-----------------------------------------------------------------------------
(***************************************************************************)
(* The manifest, after every source was attempted.                         *)
(***************************************************************************)

ManifestOf(p) == [id |-> run[p].id, files |-> run[p].files]

\* storage.exists: a run that succeeded reuses the manifest that is there, a
\* run that did not raises.
CheckManifest(p) ==
    /\ At(p, "manifest")
    /\ Goto(p, IF manifests[Partition(p)] = NoManifest THEN "publish"
               ELSE IF RunStatus(run[p].files) = "SUCCESS" THEN "returned"
               ELSE "raised")
    /\ UNCHANGED <<objects, manifests, world>>

\* LocalStorage.write_bytes: the payload names the run, so a manifest that
\* appeared meanwhile is a conflict, and a conflict raises, as does an error
\* after the link.
LinkManifest(p) ==
    /\ At(p, "publish")
    /\ Storage = "local"
    /\ IF manifests[Partition(p)] = NoManifest
         THEN /\ manifests' = [manifests EXCEPT ![Partition(p)] = ManifestOf(p)]
              /\ Goto(p, "returned") \/ Goto(p, "raised")
         ELSE /\ Goto(p, "raised")
              /\ UNCHANGED manifests
    /\ UNCHANGED <<objects, world>>

\* S3Storage.write_bytes asks for the object a second time ...
HeadManifest(p) ==
    /\ At(p, "publish")
    /\ Storage = "s3"
    /\ Goto(p, IF manifests[Partition(p)] = NoManifest THEN "put" ELSE "raised")
    /\ UNCHANGED <<objects, manifests, world>>

\* ... and then puts it unconditionally, with the retries of an upload.
PutManifest(p) ==
    /\ At(p, "put")
    /\ manifests' = [manifests EXCEPT ![Partition(p)] = ManifestOf(p)]
    /\ \/ Goto(p, "returned")
       \/ Become(p, RetryOr(run[p], S3Attempts, [run[p] EXCEPT !.pc = "raised"]))
    /\ UNCHANGED <<objects, world>>

\* Any error of the manifest's publication ends the run with an exception.
ManifestFails(p) ==
    /\ \/ run[p].pc \in ManifestPcs /\ Goto(p, "raised")
       \/ /\ At(p, "put")
          /\ Become(p, RetryOr(run[p], S3Attempts,
                               [run[p] EXCEPT !.pc = "raised"]))
    /\ UNCHANGED <<objects, manifests, world>>
-----------------------------------------------------------------------------
Step(p) ==
    \/ ReadFails(p) \/ HashSource(p) \/ CountSource(p)
    \/ RejectUrl(p) \/ FetchResponse(p) \/ FetchFails(p)
    \/ CheckDestination(p) \/ StorageFails(p)
    \/ CopyToTemp(p) \/ LinkTarget(p) \/ Upload(p) \/ UploadFails(p)
    \/ CheckManifest(p) \/ LinkManifest(p)
    \/ HeadManifest(p) \/ PutManifest(p) \/ ManifestFails(p)

Next ==
    \/ \E p \in Procs : Start(p) \/ Crash(p) \/ Step(p)
    \/ \E i \in Items : Publish(i)
    \/ Tick

Spec == Init /\ [][Next]_vars

\* A process that is running keeps running: every call it makes is bounded
\* by a timeout or returns.
FairSpec == Spec /\ \A p \in Procs : WF_vars(Step(p))
-----------------------------------------------------------------------------
(***************************************************************************)
(* Properties.                                                             *)
(***************************************************************************)

Statuses == Stored \cup {"PENDING", "FAILED"}
Entries == [status : Statuses, sha : Nat]
Objects == [body : Nat, sha : Nat]
Manifests == [id : Nat, files : [Items -> Entries]]
Invocations ==
    [pc : Pcs, id : Nat, hour : Hours, batch : Batches, url : ApiUrls,
     pos : 1..(Len(Sources) + 1), sha : Nat, temp : Nat,
     tries : Nat, files : [Items -> Entries]]

\* Every variable has its type, and an invocation at a source's control
\* point is at one of the configured sources.
TypeOK ==
    /\ source \in [Items -> Nat]
    /\ hour \in Hours
    /\ objects \in [Keys -> Objects]
    /\ manifests \in [Partitions -> Manifests]
    /\ run \in [Procs -> Invocations]
    /\ \A p \in Procs : run[p].pc \in SourcePcs => run[p].pos <= Len(Sources)
    /\ lastId \in Nat

\* The file records of one run or manifest, against the store: what they call
\* stored in partition q is there, with the bytes of the recorded checksum.
Describes(files, q) ==
    \A i \in Items : files[i].status \in Stored =>
        objects[<<i, q[1], q[2]>>] =
            [body |-> files[i].sha, sha |-> files[i].sha]

\* A published manifest decides every source (the runner publishes it after
\* all attempts) and describes objects that are in the store, byte for byte,
\* whatever ran concurrently, crashed or was retried since.
ManifestDescribesStore ==
    \A q \in Partitions : manifests[q] # NoManifest =>
        /\ \A i \in Items : manifests[q].files[i].status # "PENDING"
        /\ Describes(manifests[q].files, q)

\* A run that ended with SUCCESS (exit code 0) leaves every source of its
\* partition in the store and a manifest beside it.
SuccessfulRunIsStored ==
    \A p \in Procs :
        run[p].pc = "returned" /\ RunStatus(run[p].files) = "SUCCESS" =>
            /\ Describes(run[p].files, Partition(p))
            /\ manifests[Partition(p)] # NoManifest

\* Two runs of one batch in one hour that both ended with SUCCESS ingested the
\* same bytes of every source, however they interleaved with each other and
\* with the generator.
SuccessfulRunsAgree ==
    \A p1, p2 \in Procs :
        /\ run[p1].pc = "returned" /\ RunStatus(run[p1].files) = "SUCCESS"
        /\ run[p2].pc = "returned" /\ RunStatus(run[p2].files) = "SUCCESS"
        /\ Partition(p1) = Partition(p2)
        => \A i \in Items : run[p1].files[i].sha = run[p2].files[i].sha

\* A run that ended with SUCCESS has a commit record that says SUCCESS.
SuccessIsCommitted ==
    \A p \in Procs :
        run[p].pc = "returned" /\ RunStatus(run[p].files) = "SUCCESS" =>
            RunStatus(manifests[Partition(p)].files) = "SUCCESS"

\* Raw objects and manifests are never overwritten or removed.
NeverOverwritten ==
    [][/\ \A k \in Keys : objects[k] # Absent => objects'[k] = objects[k]
       /\ \A q \in Partitions :
             manifests[q] # NoManifest => manifests'[q] = manifests[q]]_vars

\* An object in the store is what its checksum says.
ChecksumsAreTrue == \A k \in Keys : objects[k].body = objects[k].sha

\* Every run ends: its retries are bounded and no step waits for another run.
RunTerminates ==
    \A p \in Procs : run[p].pc \notin EndPcs ~> run[p].pc \in EndPcs

\* Local storage implements the write-once store.
ImplementsRawStore == Raw!Spec
=============================================================================
