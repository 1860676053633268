------------------------ MODULE IngestionStoreProofs ------------------------
(***************************************************************************)
(* Theorems about the ingestion runner, for any number of processes, files *)
(* and batches and any value of the retry budgets and bounds: its types,   *)
(* for both stores, and what it makes of the raw layer.                    *)
(*                                                                         *)
(* On local storage the raw layer is write-once, whatever runs at once:    *)
(* the inductive invariant of the runner, the safety properties it         *)
(* implies, and the refinement of RawStore. On S3, where nothing is        *)
(* exclusive, the same follows from the schedule: the manifests describe   *)
(* the store as long as sources change only between runs, and the store is *)
(* write-once if runs do not overlap either.                               *)
(*                                                                         *)
(* The properties are not inductive by themselves. That a manifest tells   *)
(* the truth about the store depends on the file records of the runs that  *)
(* may still publish one, and those depend on the temporary file being the *)
(* bytes whose checksum the run computed, though the source may have been  *)
(* replaced between the two reads.                                         *)
(***************************************************************************)
EXTENDS Ingestion, TLAPS

-----------------------------------------------------------------------------
(***************************************************************************)
(* The sequence of sources.                                                *)
(***************************************************************************)

\* The runner's sources are the items of the batch, each of them at some
\* position, and there is at least one: the API.
LEMMA SourcesCoverItems ==
    /\ Len(Sources) \in Nat \ {0}
    /\ \A n \in 1..Len(Sources) : Sources[n] \in Items
    /\ \A i \in Items : \E n \in 1..Len(Sources) : Sources[n] = i
<1>1. RequiredFiles \in Seq(Files) /\ Len(RequiredFiles) \in Nat
  BY SourcesAssumption
<1>2. Len(Sources) = Len(RequiredFiles) + 1
  BY <1>1 DEF Sources
<1>3. \A n \in 1..Len(RequiredFiles) :
         Sources[n] = RequiredFiles[n] /\ Sources[n] \in Files
  BY <1>1 DEF Sources
<1>4. Sources[Len(RequiredFiles) + 1] = Api
  BY <1>1 DEF Sources
<1>5. \A n \in 1..Len(Sources) : Sources[n] \in Items
  BY <1>1, <1>2, <1>3, <1>4 DEF Items
<1>6. ASSUME NEW i \in Items
      PROVE  \E n \in 1..Len(Sources) : Sources[n] = i
  <2>1. CASE i = Api
    BY <1>1, <1>2, <1>4, <2>1
  <2>2. CASE i \in Files
    <3>1. PICK n \in 1..Len(RequiredFiles) : RequiredFiles[n] = i
      BY <2>2, SourcesAssumption
    <3>2. n \in 1..Len(Sources)
      BY <1>1, <1>2
    <3> QED
      BY <1>3, <3>1, <3>2
  <2> QED
    BY <2>1, <2>2 DEF Items
<1> QED
  BY <1>1, <1>2, <1>5, <1>6
-----------------------------------------------------------------------------
(***************************************************************************)
(* Types.                                                                  *)
(***************************************************************************)

\* An invocation of the right type, placed at one of the sources while it
\* works on a source.
Placed(r) ==
    /\ r \in Invocations
    /\ r.pc \in SourcePcs => r.pos <= Len(Sources)

\* A new invocation is placed at the first source.
LEMMA NewRunPlaced ==
    ASSUME NEW pc \in Pcs, NEW id \in Nat, NEW h \in Hours, NEW b \in Batches,
           NEW u \in ApiUrls
    PROVE  Placed(NewRun(pc, id, h, b, u))
<1>1. 1 \in 1..(Len(Sources) + 1) /\ 1 <= Len(Sources)
  BY SourcesCoverItems
<1>2. NoEntry \in Entries
  BY DEF NoEntry, Entries, Statuses
<1> QED
  BY <1>1, <1>2 DEF Placed, NewRun, Invocations

\* What Recorded leaves in each field: the current source is decided, the
\* loop moves on, and the working fields are cleared.
RecordedFiles(r, status) ==
    [r.files EXCEPT ![Sources[r.pos]] =
        [status |-> status,
         sha |-> IF status \in Stored THEN r.sha ELSE 0]]

LEMMA RecordedFields ==
    ASSUME NEW r \in Invocations, NEW status
    PROVE  Recorded(r, status) =
              [pc |-> IF r.pos < Len(Sources) THEN "source" ELSE "manifest",
               id |-> r.id, hour |-> r.hour, batch |-> r.batch, url |-> r.url,
               pos |-> r.pos + 1, sha |-> 0, temp |-> 0, tries |-> 1,
               files |-> RecordedFiles(r, status)]
<1> DEFINE e == [status |-> status,
                 sha |-> IF status \in Stored THEN r.sha ELSE 0]
           next == IF r.pos < Len(Sources) THEN "source" ELSE "manifest"
<1>1. r = [pc |-> r.pc, id |-> r.id, hour |-> r.hour, batch |-> r.batch,
           url |-> r.url, pos |-> r.pos, sha |-> r.sha, temp |-> r.temp,
           tries |-> r.tries, files |-> r.files]
  BY DEF Invocations
<1>2. Recorded(r, status) =
         [r EXCEPT !.files[Sources[r.pos]] = e, !.pos = r.pos + 1, !.pc = next,
                   !.sha = 0, !.temp = 0, !.tries = 1]
  BY DEF Recorded
<1>3. RecordedFiles(r, status) = [r.files EXCEPT ![Sources[r.pos]] = e]
  BY DEF RecordedFiles
<1> HIDE DEF e, next
<1>4. Recorded(r, status) =
         [pc |-> next, id |-> r.id, hour |-> r.hour, batch |-> r.batch,
          url |-> r.url, pos |-> r.pos + 1, sha |-> 0,
          temp |-> 0, tries |-> 1, files |-> RecordedFiles(r, status)]
  BY <1>1, <1>2, <1>3
<1> QED
  BY <1>4 DEF next

LEMMA RecordedPlaced ==
    ASSUME NEW r, Placed(r), r.pos <= Len(Sources), NEW status \in Statuses
    PROVE  Placed(Recorded(r, status))
<1> DEFINE next == IF r.pos < Len(Sources) THEN "source" ELSE "manifest"
<1>1. RecordedFiles(r, status) \in [Items -> Entries]
  BY DEF RecordedFiles, Placed, Invocations, Entries
<1>2. r.pos + 1 \in 1..(Len(Sources) + 1)
  BY SourcesCoverItems DEF Placed, Invocations
<1>3. next \in Pcs
  BY DEF Pcs, SourcePcs, ManifestPcs
<1>4. next \in SourcePcs => r.pos + 1 <= Len(Sources)
  BY SourcesCoverItems DEF SourcePcs, Placed, Invocations
<1>5. Recorded(r, status) =
         [pc |-> next, id |-> r.id, hour |-> r.hour, batch |-> r.batch,
          url |-> r.url, pos |-> r.pos + 1, sha |-> 0,
          temp |-> 0, tries |-> 1, files |-> RecordedFiles(r, status)]
  BY RecordedFields DEF Placed
<1> HIDE DEF next
<1> QED
  BY <1>1, <1>2, <1>3, <1>4, <1>5 DEF Placed, Invocations

\* One more attempt.
LEMMA AttemptPlaced ==
    ASSUME NEW r, Placed(r)
    PROVE  Placed([r EXCEPT !.tries = r.tries + 1])
  BY DEF Placed, Invocations

\* A transient error keeps the invocation where it is or gives up.
LEMMA RetryOrPlaced ==
    ASSUME NEW r, Placed(r), NEW max, NEW gaveUp, Placed(gaveUp)
    PROVE  Placed(RetryOr(r, max, gaveUp))
  BY AttemptPlaced DEF RetryOr

\* A move to another control point that does not go back to a source.
LEMMA GotoPlaced ==
    ASSUME NEW r, Placed(r), NEW pc \in Pcs,
           pc \in SourcePcs => r.pos <= Len(Sources)
    PROVE  Placed([r EXCEPT !.pc = pc])
  BY DEF Placed, Invocations

\* Each step of a process turns its invocation into a placed one.
StepsTo(p) == \E r : Placed(r) /\ run' = [run EXCEPT ![p] = r]

LEMMA StepPlaced ==
    ASSUME TypeOK, NEW p \in Procs, Step(p)
    PROVE  StepsTo(p)
<1> DEFINE i == run[p]
<1>1. Placed(i) /\ source \in [Items -> Nat]
  BY DEF TypeOK, Placed
<1>2. ASSUME i.pc \in SourcePcs
      PROVE  /\ i.pos <= Len(Sources)
             /\ Source(p) \in Items
  BY <1>1, <1>2, SourcesCoverItems DEF Placed, Invocations, Source
<1>3. {"SUCCESS", "IDEMPOTENT_SUCCESS", "FAILED"} \subseteq Statuses
  BY DEF Statuses, Stored
<1>4. ASSUME NEW s \in {"SUCCESS", "IDEMPOTENT_SUCCESS", "FAILED"},
             i.pc \in SourcePcs
      PROVE  Placed(Recorded(i, s))
  BY <1>1, <1>2, <1>3, <1>4, RecordedPlaced
<1>5. ASSUME NEW r, Placed(r), Become(p, r) PROVE StepsTo(p)
  BY <1>5 DEF Become, StepsTo
<1>6. ASSUME NEW s \in {"SUCCESS", "IDEMPOTENT_SUCCESS", "FAILED"},
             i.pc \in SourcePcs, Record(p, s)
      PROVE  StepsTo(p)
  BY <1>4, <1>5, <1>6 DEF Record
<1>7. ASSUME NEW pc \in Pcs \ SourcePcs, Goto(p, pc) PROVE StepsTo(p)
  BY <1>1, <1>5, <1>7, GotoPlaced DEF Goto
<1>8. ASSUME NEW pc \in SourcePcs, i.pc \in SourcePcs, Goto(p, pc)
      PROVE  StepsTo(p)
  <2>1. pc \in Pcs
    BY DEF Pcs
  <2> QED
    BY <1>1, <1>2, <1>5, <1>8, <2>1, GotoPlaced DEF Goto
<1>9. ASSUME NEW o, i.pc \in SourcePcs, Reuse(p, o) PROVE StepsTo(p)
  BY <1>6, <1>9 DEF Reuse
<1>10. CASE ReadFails(p)
  BY <1>6, <1>10 DEF ReadFails, AtFile, At, SourcePcs
<1>11. CASE HashSource(p)
  <2>1. i.pc \in SourcePcs
    BY <1>11 DEF HashSource, AtFile, At, SourcePcs
  <2>2. Placed([i EXCEPT !.sha = source[Source(p)], !.pc = "count"])
    BY <1>1, <1>2, <2>1 DEF Placed, Invocations, Pcs, SourcePcs
  <2> QED
    BY <1>5, <1>11, <2>2 DEF HashSource
<1>12. CASE CountSource(p)
  <2>1. i.pc \in SourcePcs
    BY <1>12 DEF CountSource, AtFile, At, SourcePcs
  <2> QED
    BY <1>8, <1>12, <2>1 DEF CountSource, SourcePcs
<1>13. CASE RejectUrl(p)
  BY <1>7, <1>13 DEF RejectUrl, Pcs, SourcePcs, EndPcs
<1>14. CASE FetchResponse(p)
  <2>1. i.pc \in SourcePcs /\ Source(p) = Api
    BY <1>14 DEF FetchResponse, AtApi, At, SourcePcs
  <2>2. source[Api] \in Nat
    BY <1>1 DEF Items
  <2>3. Placed([i EXCEPT !.sha = source[Api], !.temp = source[Api],
                         !.tries = 1, !.pc = "check"])
    BY <1>1, <1>2, <2>1, <2>2 DEF Placed, Invocations, Pcs, SourcePcs
  <2> QED
    BY <1>5, <1>14, <2>3 DEF FetchResponse
<1>15. CASE FetchFails(p)
  <2>1. i.pc \in SourcePcs
    BY <1>15 DEF FetchFails, AtApi, At, SourcePcs
  <2>2. Placed(RetryOr(i, ApiAttempts, Recorded(i, "FAILED")))
    BY <1>1, <1>4, <2>1, RetryOrPlaced
  <2> QED
    BY <1>5, <1>6, <1>15, <2>1, <2>2 DEF FetchFails
<1>16. CASE CheckDestination(p)
  <2>1. i.pc \in SourcePcs
    BY <1>16 DEF CheckDestination, At, SourcePcs
  <2>2. (IF Storage = "s3" THEN "upload"
         ELSE IF Source(p) = Api THEN "link" ELSE "copy") \in SourcePcs
    BY DEF SourcePcs
  <2> QED
    BY <1>8, <1>9, <1>16, <2>1, <2>2 DEF CheckDestination
<1>17. CASE StorageFails(p)
  BY <1>6, <1>17 DEF StorageFails, SourcePcs
<1>18. CASE CopyToTemp(p)
  <2>1. i.pc \in SourcePcs
    BY <1>18 DEF CopyToTemp, At, SourcePcs
  <2>2. Placed([i EXCEPT !.temp = source[Source(p)], !.pc = "link"])
    BY <1>1, <1>2, <2>1 DEF Placed, Invocations, Pcs, SourcePcs
  <2> QED
    BY <1>5, <1>6, <1>18, <2>1, <2>2 DEF CopyToTemp
<1>19. CASE LinkTarget(p)
  <2>1. i.pc \in SourcePcs
    BY <1>19 DEF LinkTarget, At, SourcePcs
  <2> QED
    BY <1>6, <1>9, <1>19, <2>1 DEF LinkTarget
<1>20. CASE Upload(p)
  <2>1. i.pc \in SourcePcs
    BY <1>20 DEF Upload, At, SourcePcs
  <2>2. Placed(RetryOr(i, S3Attempts, Recorded(i, "FAILED")))
    BY <1>1, <1>4, <2>1, RetryOrPlaced
  <2> QED
    BY <1>5, <1>6, <1>20, <2>1, <2>2 DEF Upload
<1>21. CASE UploadFails(p)
  <2>1. i.pc \in SourcePcs
    BY <1>21 DEF UploadFails, At, SourcePcs
  <2>2. Placed(RetryOr(i, S3Attempts, Recorded(i, "FAILED")))
    BY <1>1, <1>4, <2>1, RetryOrPlaced
  <2> QED
    BY <1>5, <1>6, <1>21, <2>1, <2>2 DEF UploadFails
<1>22. {"publish", "returned", "raised", "put"} \subseteq Pcs \ SourcePcs
  BY DEF Pcs, SourcePcs, ManifestPcs, EndPcs
<1>23. CASE CheckManifest(p)
  BY <1>7, <1>22, <1>23 DEF CheckManifest
<1>24. CASE LinkManifest(p)
  BY <1>7, <1>22, <1>24 DEF LinkManifest
<1>25. CASE HeadManifest(p)
  BY <1>7, <1>22, <1>25 DEF HeadManifest
<1>26. Placed(RetryOr(i, S3Attempts, [i EXCEPT !.pc = "raised"]))
  BY <1>1, <1>22, GotoPlaced, RetryOrPlaced
<1>27. CASE PutManifest(p)
  BY <1>5, <1>7, <1>22, <1>26, <1>27 DEF PutManifest
<1>28. CASE ManifestFails(p)
  BY <1>5, <1>7, <1>22, <1>26, <1>28 DEF ManifestFails
<1> QED
  BY <1>10, <1>11, <1>12, <1>13, <1>14, <1>15, <1>16, <1>17, <1>18, <1>19,
     <1>20, <1>21, <1>23, <1>24, <1>25, <1>27, <1>28 DEF Step

\* A step of a process leaves what the environment changes alone.
LEMMA StepKeepsWorld ==
    ASSUME NEW p \in Procs, Step(p)
    PROVE  UNCHANGED <<source, hour, lastId>>
  BY DEF Step, world, ReadFails, HashSource, CountSource, RejectUrl,
         FetchResponse, FetchFails, CheckDestination, StorageFails, CopyToTemp,
         LinkTarget, Upload, UploadFails, CheckManifest, LinkManifest,
         HeadManifest, PutManifest, ManifestFails

\* Only a link or an upload touches the objects.
LEMMA StepObjects ==
    ASSUME NEW p \in Procs, Step(p)
    PROVE  \/ UNCHANGED objects
           \/ LinkTarget(p)
           \/ Upload(p)
  BY DEF Step, ReadFails, HashSource, CountSource, RejectUrl, FetchResponse,
         FetchFails, CheckDestination, StorageFails, CopyToTemp, UploadFails,
         CheckManifest, LinkManifest, HeadManifest, PutManifest, ManifestFails

\* Only a link or a put of the manifest touches the manifests.
LEMMA StepManifests ==
    ASSUME NEW p \in Procs, Step(p)
    PROVE  \/ UNCHANGED manifests
           \/ LinkManifest(p)
           \/ PutManifest(p)
  BY DEF Step, ReadFails, HashSource, CountSource, RejectUrl, FetchResponse,
         FetchFails, CheckDestination, StorageFails, CopyToTemp, LinkTarget,
         Upload, UploadFails, CheckManifest, HeadManifest, ManifestFails

\* Objects and manifests keep their types.
LEMMA StepStoreTypes ==
    ASSUME TypeOK, NEW p \in Procs, Step(p)
    PROVE  /\ objects' \in [Keys -> Objects]
           /\ manifests' \in [Partitions -> Manifests]
<1>1. run[p] \in Invocations /\ source \in [Items -> Nat]
  BY DEF TypeOK
<1>2. objects' \in [Keys -> Objects]
  <2>1. CASE LinkTarget(p)
    <3>1. [body |-> run[p].temp, sha |-> run[p].sha] \in Objects
      BY <1>1 DEF Invocations, Objects
    <3> QED
      BY <2>1, <3>1 DEF LinkTarget, TypeOK
  <2>2. CASE Upload(p)
    <3>1. Source(p) \in Items
      BY <2>2, SourcesCoverItems
      DEF TypeOK, Upload, At, SourcePcs, Invocations, Source
    <3>2. UploadBody(p) \in Nat
      BY <1>1, <3>1 DEF UploadBody, Invocations
    <3>3. [body |-> UploadBody(p), sha |-> run[p].sha] \in Objects
      BY <1>1, <3>2 DEF Invocations, Objects
    <3> QED
      BY <2>2, <3>3 DEF Upload, TypeOK
  <2> QED
    BY <2>1, <2>2, StepObjects DEF TypeOK
<1>3. manifests' \in [Partitions -> Manifests]
  <2>1. ManifestOf(p) \in Manifests
    BY <1>1 DEF ManifestOf, Invocations, Manifests
  <2> QED
    BY <2>1, StepManifests DEF TypeOK, LinkManifest, PutManifest
<1> QED
  BY <1>2, <1>3

\* Types and places are kept by every step.
LEMMA TypeStep == TypeOK /\ [Next]_vars => TypeOK'
<1> SUFFICES ASSUME TypeOK, [Next]_vars
             PROVE  TypeOK'
  OBVIOUS
<1> DEFINE AllPlaced == \A p \in Procs : run[p].pc \in SourcePcs =>
                                             run[p].pos <= Len(Sources)
<1>1. ASSUME NEW p \in Procs, NEW r, Placed(r), run' = [run EXCEPT ![p] = r]
      PROVE  run' \in [Procs -> Invocations] /\ AllPlaced'
  BY <1>1 DEF Placed, TypeOK
<1>2. ASSUME NEW p \in Procs, Start(p) PROVE TypeOK'
  <2>1. PICK b \in Batches, u \in ApiUrls :
           Become(p, NewRun("source", lastId + 1, hour, b, u))
    BY <1>2 DEF Start
  <2>2. Placed(NewRun("source", lastId + 1, hour, b, u))
    BY NewRunPlaced DEF TypeOK, Pcs, SourcePcs
  <2>3. run' \in [Procs -> Invocations] /\ AllPlaced'
    BY <1>1, <2>1, <2>2 DEF Become
  <2> QED
    BY <1>2, <2>3 DEF Start, TypeOK
<1>3. ASSUME NEW p \in Procs, Crash(p) PROVE TypeOK'
  <2>1. run[p].batch \in Batches /\ run[p].url \in ApiUrls /\ 0 \in Hours
    BY BoundsAssumption DEF TypeOK, Invocations, Hours
  <2>2. Placed(NewRun("idle", 0, 0, run[p].batch, run[p].url))
    BY <2>1, NewRunPlaced DEF Pcs, EndPcs
  <2>3. run' \in [Procs -> Invocations] /\ AllPlaced'
    BY <1>1, <1>3, <2>2 DEF Crash, Become
  <2> QED
    BY <1>3, <2>3 DEF Crash, TypeOK
<1>4. ASSUME NEW p \in Procs, Step(p) PROVE TypeOK'
  <2>1. run' \in [Procs -> Invocations] /\ AllPlaced'
    BY <1>1, <1>4, StepPlaced DEF StepsTo
  <2> QED
    BY <1>4, <2>1, StepKeepsWorld, StepStoreTypes DEF TypeOK
<1>5. ASSUME NEW i \in Items, Publish(i) PROVE TypeOK'
  BY <1>5 DEF Publish, TypeOK
<1>6. CASE Tick
  BY <1>6, BoundsAssumption DEF Tick, TypeOK, Hours
<1>7. CASE UNCHANGED vars
  BY <1>7 DEF vars, TypeOK
<1> QED
  BY <1>2, <1>3, <1>4, <1>5, <1>6, <1>7 DEF Next

LEMMA TypeInit == Init => TypeOK
<1> SUFFICES ASSUME Init PROVE TypeOK
  OBVIOUS
<1>1. 0 \in Hours
  BY BoundsAssumption DEF Hours
<1>2. PICK b \in Batches, u \in ApiUrls :
         run = [p \in Procs |-> NewRun("idle", 0, 0, b, u)]
  BY DEF Init
<1>3. Placed(NewRun("idle", 0, 0, b, u))
  BY <1>1, NewRunPlaced DEF Pcs, EndPcs
<1>4. NoManifest \in Manifests /\ Absent \in Objects
  BY DEF NoManifest, Manifests, NoEntry, Entries, Statuses, Absent, Objects
<1> QED
  BY <1>1, <1>2, <1>3, <1>4 DEF Init, TypeOK, Placed

\* Whatever the storage, every variable keeps its type and a run that works
\* on a source is at one of the configured sources: the loop of
\* IngestionRunner.run never goes past the last one.
THEOREM TypeCorrect == Spec => []TypeOK
  BY TypeInit, TypeStep, PTL DEF Spec

-----------------------------------------------------------------------------
(***************************************************************************)
(* The store: what the inductive invariant says of the files and           *)
(* manifests.                                                              *)
(***************************************************************************)

ToSource == {"count", "check", "copy", "link"}

\* File records that decided their checksums: a stored source has one.
Consistent(files) ==
    \A i \in Items : files[i].status \in Stored => files[i].sha # 0

\* What an invocation knows at each control point.
Sound(r) ==
    /\ r.pc \notin {"upload", "put"}
    /\ r.pc \notin EndPcs => r.id # 0
    /\ r.pc \in SourcePcs \cup ManifestPcs =>
          \A n \in 1..(r.pos - 1) : r.files[Sources[n]].status # "PENDING"
    /\ r.pc \in ManifestPcs => r.pos = Len(Sources) + 1
    /\ r.pc \in ToSource => r.sha # 0
    /\ r.pc \in {"count", "copy"} => Sources[r.pos] # Api
    /\ r.pc = "check" /\ Sources[r.pos] = Api => r.temp = r.sha
    /\ r.pc = "link" => r.temp = r.sha
    /\ Consistent(r.files)

RunInv(r) ==
    /\ Sound(r)
    /\ Describes(r.files, <<r.hour, r.batch>>)
    /\ r.pc = "returned" => manifests[<<r.hour, r.batch>>] # NoManifest

ManifestInv(q) ==
    manifests[q] # NoManifest =>
        /\ \A i \in Items : manifests[q].files[i].status # "PENDING"
        /\ Consistent(manifests[q].files)
        /\ Describes(manifests[q].files, q)

LocalInv ==
    /\ TypeOK
    /\ ChecksumsAreTrue
    /\ \A p \in Procs : RunInv(run[p])
    /\ \A q \in Partitions : ManifestInv(q)
-----------------------------------------------------------------------------
(***************************************************************************)
(* Recording an outcome.                                                   *)
(***************************************************************************)

\* A decided source keeps the file records decided and consistent.
LEMMA RecordedSound ==
    ASSUME NEW r, Placed(r), Sound(r), r.pc \in SourcePcs,
           NEW status \in Statuses \ {"PENDING"},
           status \in Stored => r.sha # 0
    PROVE  Sound(Recorded(r, status))
<1> DEFINE next == IF r.pos < Len(Sources) THEN "source" ELSE "manifest"
           f == RecordedFiles(r, status)
           s == Sources[r.pos]
<1>1. /\ r \in Invocations /\ r.pos \in 1..Len(Sources) /\ s \in Items
      /\ r.files \in [Items -> Entries] /\ r.pos \in Nat /\ Len(Sources) \in Nat
  BY SourcesCoverItems DEF Placed, Invocations
<1>2. Recorded(r, status) =
         [pc |-> next, id |-> r.id, hour |-> r.hour, batch |-> r.batch,
          url |-> r.url, pos |-> r.pos + 1, sha |-> 0,
          temp |-> 0, tries |-> 1, files |-> f]
  BY <1>1, RecordedFields
<1>3. /\ f[s].status = status
      /\ \A i \in Items : i # s => f[i] = r.files[i]
      /\ status \in Stored => f[s].sha = r.sha
  BY <1>1 DEF RecordedFiles
<1> HIDE DEF f
<1>4. Consistent(f)
  <2> SUFFICES ASSUME NEW i \in Items
               PROVE  f[i].status \in Stored => f[i].sha # 0
    BY DEF Consistent
  <2>1. CASE i = s
    BY <1>3, <2>1 DEF Stored
  <2>2. CASE i # s
    BY <1>3, <2>2 DEF Sound, Consistent
  <2> QED
    BY <2>1, <2>2
<1>5. \A n \in 1..r.pos : f[Sources[n]].status # "PENDING"
  <2> SUFFICES ASSUME NEW n \in 1..r.pos PROVE f[Sources[n]].status # "PENDING"
    OBVIOUS
  <2>1. Sources[n] \in Items
    BY <1>1, SourcesCoverItems
  <2>2. CASE Sources[n] = s
    BY <1>3, <2>2
  <2>3. CASE Sources[n] # s
    <3>1. n \in 1..(r.pos - 1)
      BY <1>1, <2>3
    <3> QED
      BY <1>3, <2>1, <2>3, <3>1 DEF Sound
  <2> QED
    BY <2>2, <2>3
<1>6. (r.pos + 1) - 1 = r.pos
  BY <1>1
<1>7. next = "manifest" => r.pos + 1 = Len(Sources) + 1
  BY <1>1
<1>8. r.id # 0
  BY DEF Sound, SourcePcs, EndPcs
<1>9. next \in {"source", "manifest"}
  OBVIOUS
<1> HIDE DEF next
<1> QED
  BY <1>2, <1>4, <1>5, <1>6, <1>7, <1>8, <1>9
  DEF Sound, ToSource, SourcePcs, ManifestPcs, EndPcs

\* The file records after a source that is in the store as the run has it,
\* or that is not called stored.
LEMMA RecordedDescribes ==
    ASSUME NEW r, Placed(r), r.pc \in SourcePcs, NEW status,
           Describes(r.files, <<r.hour, r.batch>>),
           status \in Stored =>
              objects[<<Sources[r.pos], r.hour, r.batch>>] =
                 [body |-> r.sha, sha |-> r.sha]
    PROVE  Describes(RecordedFiles(r, status), <<r.hour, r.batch>>)
<1> DEFINE s == Sources[r.pos]
           f == RecordedFiles(r, status)
<1>1. s \in Items /\ r.files \in [Items -> Entries]
  BY SourcesCoverItems DEF Placed, Invocations
<1>2. /\ f[s].status = status
      /\ \A i \in Items : i # s => f[i] = r.files[i]
      /\ status \in Stored => f[s].sha = r.sha
  BY <1>1 DEF RecordedFiles
<1> HIDE DEF f
<1>3. <<r.hour, r.batch>>[1] = r.hour /\ <<r.hour, r.batch>>[2] = r.batch
  OBVIOUS
<1>4. ASSUME NEW i \in Items, f[i].status \in Stored
      PROVE  objects[<<i, r.hour, r.batch>>] =
                [body |-> f[i].sha, sha |-> f[i].sha]
  <2>1. CASE i = s
    BY <1>2, <1>4, <2>1
  <2>2. CASE i # s
    BY <1>2, <1>3, <1>4, <2>2 DEF Describes
  <2> QED
    BY <2>1, <2>2
<1> QED
  BY <1>3, <1>4 DEF Describes, f

\* Both together: recording keeps the invariant of the invocation.
LEMMA RecordedInv ==
    ASSUME NEW r, Placed(r), RunInv(r), r.pc \in SourcePcs,
           NEW status \in Statuses \ {"PENDING"},
           status \in Stored =>
              /\ r.sha # 0
              /\ objects[<<Sources[r.pos], r.hour, r.batch>>] =
                    [body |-> r.sha, sha |-> r.sha]
    PROVE  RunInv(Recorded(r, status))
<1> DEFINE next == IF r.pos < Len(Sources) THEN "source" ELSE "manifest"
<1>1. Sound(Recorded(r, status))
  BY RecordedSound DEF RunInv
<1>2. Recorded(r, status) =
         [pc |-> next, id |-> r.id, hour |-> r.hour, batch |-> r.batch,
          url |-> r.url, pos |-> r.pos + 1, sha |-> 0,
          temp |-> 0, tries |-> 1, files |-> RecordedFiles(r, status)]
  BY RecordedFields DEF Placed
<1>3. Describes(RecordedFiles(r, status), <<r.hour, r.batch>>)
  BY RecordedDescribes DEF RunInv
<1>4. next \in {"source", "manifest"}
  OBVIOUS
<1> HIDE DEF next
<1> QED
  BY <1>1, <1>2, <1>3, <1>4 DEF RunInv

\* A source that failed needs nothing of the store.
LEMMA FailedInv ==
    ASSUME NEW r, Placed(r), RunInv(r), r.pc \in SourcePcs
    PROVE  RunInv(Recorded(r, "FAILED"))
<1>1. "FAILED" \in Statuses \ {"PENDING"} /\ "FAILED" \notin Stored
  BY DEF Statuses, Stored
<1> QED
  BY <1>1, RecordedInv
-----------------------------------------------------------------------------
(***************************************************************************)
(* Steps of a process that publish nothing.                                *)
(***************************************************************************)

QuietTo(p) == \E r : Placed(r) /\ RunInv(r) /\ run' = [run EXCEPT ![p] = r]

\* What the invariant says of the invocation of p, unfolded once.
LEMMA AboutRun ==
    ASSUME LocalInv, NEW p \in Procs
    PROVE  /\ Placed(run[p]) /\ RunInv(run[p])
           /\ run[p].pc \in SourcePcs =>
                 /\ Source(p) = Sources[run[p].pos]
                 /\ Source(p) \in Items
                 /\ Key(p) \in Keys
                 /\ Key(p) = <<Sources[run[p].pos], run[p].hour, run[p].batch>>
           /\ Partition(p) \in Partitions
           /\ Partition(p) = <<run[p].hour, run[p].batch>>
  BY SourcesCoverItems
  DEF LocalInv, TypeOK, Placed, Invocations, Source, Key, Keys, Partition,
      Partitions

\* Asking for an object that is there: the same bytes, or a conflict.
LEMMA ReuseQuiet ==
    ASSUME Storage = "local", LocalInv, NEW p \in Procs,
           run[p].pc \in {"check", "link"},
           objects[Key(p)] # Absent, Reuse(p, objects[Key(p)])
    PROVE  QuietTo(p)
<1> DEFINE i == run[p]
           o == objects[Key(p)]
<1>1. i.pc \in SourcePcs /\ i.sha # 0
  BY AboutRun DEF SourcePcs, RunInv, Sound, ToSource
<1>2. o.body = o.sha /\ o \in Objects
  BY <1>1, AboutRun DEF LocalInv, ChecksumsAreTrue, TypeOK
<1>3. o = [body |-> o.body, sha |-> o.body]
  BY <1>2 DEF Objects
<1>4. {"IDEMPOTENT_SUCCESS", "FAILED"} \subseteq Statuses \ {"PENDING"}
  BY DEF Statuses, Stored
<1>5. CASE o.body = i.sha
  <2>1. Record(p, "IDEMPOTENT_SUCCESS")
    BY <1>5 DEF Reuse, ShaOf
  <2>2. Placed(Recorded(i, "IDEMPOTENT_SUCCESS"))
    BY <1>1, <1>4, AboutRun, RecordedPlaced DEF Placed
  <2>3. RunInv(Recorded(i, "IDEMPOTENT_SUCCESS"))
    BY <1>1, <1>3, <1>4, <1>5, AboutRun, RecordedInv
  <2> QED
    BY <2>1, <2>2, <2>3 DEF QuietTo, Record, Become
<1>6. CASE o.body # i.sha
  <2>1. Record(p, "FAILED")
    BY <1>6 DEF Reuse, ShaOf
  <2>2. Placed(Recorded(i, "FAILED"))
    BY <1>1, <1>4, AboutRun, RecordedPlaced DEF Placed
  <2> QED
    BY <1>1, <2>1, <2>2, AboutRun, FailedInv DEF QuietTo, Record, Become
<1> QED
  BY <1>5, <1>6

\* One case per action; the actions of the S3 store have no case, since no
\* invocation reaches them.
LEMMA QuietStep ==
    ASSUME Storage = "local", LocalInv, NEW p \in Procs, Step(p),
           UNCHANGED objects, UNCHANGED manifests
    PROVE  QuietTo(p)
<1> DEFINE i == run[p]
<1>1. Placed(i) /\ RunInv(i) /\ source \in [Items -> Nat] /\ i \in Invocations
  BY AboutRun DEF LocalInv, TypeOK, Placed
<1>2. ASSUME i.pc \in SourcePcs, Record(p, "FAILED") PROVE QuietTo(p)
  <2>1. "FAILED" \in Statuses
    BY DEF Statuses
  <2>2. Placed(Recorded(i, "FAILED")) /\ RunInv(Recorded(i, "FAILED"))
    BY <1>1, <1>2, <2>1, RecordedPlaced, FailedInv DEF Placed
  <2> QED
    BY <1>2, <2>2 DEF QuietTo, Record, Become
<1>3. ASSUME NEW r, Placed(r), RunInv(r), Become(p, r) PROVE QuietTo(p)
  BY <1>3 DEF QuietTo, Become
<1>4. CASE ReadFails(p)
  BY <1>2, <1>4 DEF ReadFails, AtFile, At, SourcePcs
<1>5. CASE HashSource(p)
  <2> DEFINE r == [i EXCEPT !.sha = source[Source(p)], !.pc = "count"]
  <2>1. i.pc = "source" /\ Source(p) # Api /\ source[Source(p)] # 0
        /\ Become(p, r)
    BY <1>5 DEF HashSource, AtFile, At
  <2>2. Source(p) \in Items /\ Source(p) = Sources[i.pos] /\ source[Source(p)] \in Nat
    BY <1>1, <2>1, AboutRun DEF SourcePcs
  <2>3. Placed(r)
    BY <1>1, <2>1, <2>2 DEF Placed, Invocations, Pcs, SourcePcs
  <2>4. RunInv(r)
    BY <1>1, <2>1, <2>2
    DEF RunInv, Sound, Invocations, ToSource, SourcePcs,
        ManifestPcs, EndPcs
  <2> QED
    BY <1>3, <2>1, <2>3, <2>4
<1>6. CASE CountSource(p)
  <2> DEFINE r == [i EXCEPT !.pc = "check"]
  <2>1. i.pc = "count" /\ Source(p) # Api /\ Become(p, r)
    BY <1>6 DEF CountSource, AtFile, At, Goto
  <2>2. Source(p) \in Items /\ Source(p) = Sources[i.pos] /\ source[Source(p)] \in Nat
    BY <1>1, <2>1, AboutRun DEF SourcePcs
  <2>3. Placed(r)
    BY <1>1, <2>1, <2>2 DEF Placed, Invocations, Pcs, SourcePcs
  <2>4. RunInv(r)
    BY <1>1, <2>1, <2>2
    DEF RunInv, Sound, Invocations, ToSource, SourcePcs,
        ManifestPcs, EndPcs
  <2> QED
    BY <1>3, <2>1, <2>3, <2>4
<1>7. ASSUME NEW pc \in {"raised", "publish"}, Goto(p, pc),
             pc = "publish" => i.pc = "manifest"
      PROVE  QuietTo(p)
  <2> DEFINE r == [i EXCEPT !.pc = pc]
  <2>1. Placed(r)
    BY <1>1, <1>7, GotoPlaced DEF Pcs, SourcePcs, ManifestPcs, EndPcs
  <2>2. RunInv(r)
    BY <1>1, <1>7
    DEF RunInv, Sound, Invocations, ToSource, SourcePcs,
        ManifestPcs, EndPcs
  <2> QED
    BY <1>3, <1>7, <2>1, <2>2 DEF Goto
<1>8. CASE RejectUrl(p)
  BY <1>7, <1>8 DEF RejectUrl
<1>9. CASE FetchResponse(p)
  <2> DEFINE r == [i EXCEPT !.sha = source[Api], !.temp = source[Api],
                            !.tries = 1, !.pc = "check"]
  <2>1. i.pc = "source" /\ Source(p) = Api /\ source[Api] # 0 /\ Become(p, r)
    BY <1>9 DEF FetchResponse, AtApi, At
  <2>2. Sources[i.pos] = Api /\ source[Api] \in Nat
    BY <1>1, <2>1, AboutRun DEF SourcePcs, Items
  <2>3. Placed(r)
    BY <1>1, <2>1, <2>2 DEF Placed, Invocations, Pcs, SourcePcs
  <2>4. RunInv(r)
    BY <1>1, <2>1, <2>2
    DEF RunInv, Sound, Invocations, ToSource, SourcePcs,
        ManifestPcs, EndPcs
  <2> QED
    BY <1>3, <2>1, <2>3, <2>4
<1>10. CASE FetchFails(p)
  <2>1. i.pc = "source" /\ i.pc \in SourcePcs
    BY <1>10 DEF FetchFails, AtApi, At, SourcePcs
  <2>2. CASE Record(p, "FAILED")
    BY <1>2, <2>1, <2>2
  <2>3. CASE i.tries < ApiAttempts /\ Become(p, [i EXCEPT !.tries = @ + 1])
    <3> DEFINE r == [i EXCEPT !.tries = i.tries + 1]
    <3>1. Placed(r)
      BY <1>1, AttemptPlaced
    <3>2. RunInv(r)
      BY <1>1, <2>1 DEF RunInv, Sound, Invocations
    <3> QED
      BY <1>3, <2>3, <3>1, <3>2
  <2> QED
    BY <1>10, <2>2, <2>3 DEF FetchFails, RetryOr, Record
<1>11. CASE CheckDestination(p)
  <2>1. i.pc = "check"
    BY <1>11 DEF CheckDestination, At
  <2>2. CASE objects[Key(p)] # Absent
    BY <1>11, <2>1, <2>2, ReuseQuiet DEF CheckDestination
  <2>3. CASE objects[Key(p)] = Absent
    <3> DEFINE pc == IF Source(p) = Api THEN "link" ELSE "copy"
               r == [i EXCEPT !.pc = pc]
    <3>1. Become(p, r)
      BY <1>11, <2>3 DEF CheckDestination, Goto
    <3>2. Source(p) = Sources[i.pos]
      BY DEF Source
    <3>3. Placed(r)
      BY <1>1, <2>1 DEF Placed, Invocations, Pcs, SourcePcs
    <3>4. CASE Source(p) = Api
      BY <1>1, <1>3, <2>1, <3>1, <3>2, <3>3, <3>4
      DEF RunInv, Sound, Invocations, ToSource, SourcePcs,
          ManifestPcs, EndPcs
    <3>5. CASE Source(p) # Api
      BY <1>1, <1>3, <2>1, <3>1, <3>2, <3>3, <3>5
      DEF RunInv, Sound, Invocations, ToSource, SourcePcs,
          ManifestPcs, EndPcs
    <3> QED
      BY <3>4, <3>5
  <2> QED
    BY <2>2, <2>3
<1>12. CASE StorageFails(p)
  BY <1>2, <1>12 DEF StorageFails, SourcePcs
<1>13. CASE CopyToTemp(p)
  <2>1. i.pc = "copy" /\ i.pc \in SourcePcs
    BY <1>13 DEF CopyToTemp, At, SourcePcs
  <2>2. CASE source[Source(p)] = i.sha
    <3> DEFINE r == [i EXCEPT !.temp = i.sha, !.pc = "link"]
    <3>1. Become(p, r)
      BY <1>13, <2>2 DEF CopyToTemp
    <3>2. Placed(r)
      BY <1>1, <2>1 DEF Placed, Invocations, Pcs, SourcePcs
    <3>3. RunInv(r)
      BY <1>1, <2>1
      DEF RunInv, Sound, Invocations, ToSource, SourcePcs,
          ManifestPcs, EndPcs
    <3> QED
      BY <1>3, <3>1, <3>2, <3>3
  <2> QED
    BY <1>2, <1>13, <2>1, <2>2 DEF CopyToTemp
<1>14. CASE LinkTarget(p)
  <2>1. i.pc = "link" /\ i.pc \in SourcePcs
    BY <1>14 DEF LinkTarget, At, SourcePcs
  <2>2. objects[Key(p)] # Absent
    <3> SUFFICES ASSUME objects[Key(p)] = Absent PROVE FALSE
      OBVIOUS
    <3>1. objects'[Key(p)] = [body |-> i.temp, sha |-> i.sha]
      BY <1>14, <2>1, AboutRun DEF LinkTarget, LocalInv, TypeOK
    <3>2. i.sha # 0
      BY <1>1, <2>1 DEF RunInv, Sound, ToSource
    <3> QED
      BY <3>1, <3>2 DEF Absent
  <2> QED
    BY <1>14, <2>1, <2>2, ReuseQuiet DEF LinkTarget
<1>15. i.pc \notin {"upload", "put"}
  BY <1>1 DEF RunInv, Sound
<1>16. CASE CheckManifest(p)
  <2>1. i.pc = "manifest"
    BY <1>16 DEF CheckManifest, At
  <2>2. CASE Goto(p, "returned") /\ manifests[Partition(p)] # NoManifest
    <3> DEFINE r == [i EXCEPT !.pc = "returned"]
    <3>1. Placed(r)
      BY <1>1, GotoPlaced DEF Pcs, SourcePcs, EndPcs
    <3>2. RunInv(r)
      BY <1>1, <2>1, <2>2, AboutRun
      DEF RunInv, Sound, Invocations, ToSource, SourcePcs,
          ManifestPcs, EndPcs
    <3> QED
      BY <1>3, <2>2, <3>1, <3>2 DEF Goto
  <2> QED
    BY <1>7, <1>16, <2>1, <2>2 DEF CheckManifest
<1>17. CASE LinkManifest(p)
  <2>1. i.pc = "publish" /\ i.id # 0
    BY <1>1, <1>17 DEF LinkManifest, At, RunInv, Sound, EndPcs
  <2>2. manifests[Partition(p)] # NoManifest
    <3> SUFFICES ASSUME manifests[Partition(p)] = NoManifest PROVE FALSE
      OBVIOUS
    <3>1. manifests'[Partition(p)] = ManifestOf(p)
      BY <1>17, AboutRun DEF LinkManifest, LocalInv, TypeOK
    <3> QED
      BY <2>1, <3>1 DEF ManifestOf, NoManifest
  <2> QED
    BY <1>7, <1>17, <2>2 DEF LinkManifest
<1>18. CASE ManifestFails(p)
  BY <1>7, <1>15, <1>18 DEF ManifestFails, At
<1> QED
  BY <1>4, <1>5, <1>6, <1>8, <1>9, <1>10, <1>11, <1>12, <1>13, <1>14, <1>15,
     <1>16, <1>17, <1>18
  DEF Step, Upload, UploadFails, HeadManifest, PutManifest, At
-----------------------------------------------------------------------------
(***************************************************************************)
(* The two steps that publish.                                             *)
(***************************************************************************)

\* The store after a step: what was there is there unchanged.
Grown ==
    /\ \A k \in Keys : objects[k] # Absent => objects'[k] = objects[k]
    /\ \A q \in Partitions :
          manifests[q] # NoManifest => manifests'[q] = manifests[q]

\* Every object written by a link is new, and what its checksum says.
LEMMA LinkPublishes ==
    ASSUME Storage = "local", LocalInv, NEW p \in Procs, LinkTarget(p),
           objects[Key(p)] = Absent
    PROVE  /\ run[p].pc = "link" /\ run[p].sha # 0
           /\ run[p].temp = run[p].sha
           /\ objects' = [objects EXCEPT ![Key(p)] =
                            [body |-> run[p].sha, sha |-> run[p].sha]]
           /\ Record(p, "SUCCESS") \/ Record(p, "FAILED")
           /\ UNCHANGED <<manifests, source>>
  BY AboutRun DEF LinkTarget, At, RunInv, Sound, ToSource, world

\* Every manifest written by a link is new.
LEMMA LinkManifestPublishes ==
    ASSUME LocalInv, NEW p \in Procs, LinkManifest(p),
           manifests[Partition(p)] = NoManifest
    PROVE  /\ run[p].pc = "publish" /\ run[p].id # 0
           /\ ManifestOf(p) # NoManifest
           /\ manifests' = [manifests EXCEPT ![Partition(p)] = ManifestOf(p)]
           /\ Goto(p, "returned") \/ Goto(p, "raised")
           /\ UNCHANGED <<objects, source>>
<1>1. run[p].pc = "publish" /\ run[p].id # 0
  BY AboutRun DEF LinkManifest, At, RunInv, Sound, EndPcs
<1>2. ManifestOf(p) # NoManifest
  BY <1>1 DEF ManifestOf, NoManifest
<1> QED
  BY <1>1, <1>2 DEF LinkManifest, world

\* A step of a process publishes an object, or a manifest, or nothing.
LEMMA StepKinds ==
    ASSUME Storage = "local", LocalInv, NEW p \in Procs, Step(p)
    PROVE  \/ LinkTarget(p) /\ objects[Key(p)] = Absent
           \/ LinkManifest(p) /\ manifests[Partition(p)] = NoManifest
           \/ UNCHANGED <<objects, manifests>>
<1>1. run[p].pc \notin {"upload", "put"}
  BY AboutRun DEF RunInv, Sound
<1>2. ~Upload(p) /\ ~PutManifest(p)
  BY <1>1 DEF Upload, PutManifest, At
<1>3. CASE LinkTarget(p)
  BY <1>3 DEF LinkTarget
<1>4. CASE LinkManifest(p)
  BY <1>4 DEF LinkManifest
<1> QED
  BY <1>2, <1>3, <1>4, StepObjects, StepManifests

LEMMA StepGrows ==
    ASSUME Storage = "local", LocalInv, NEW p \in Procs, Step(p)
    PROVE  Grown
<1>1. CASE LinkTarget(p) /\ objects[Key(p)] = Absent
  BY <1>1, LinkPublishes DEF Grown, LocalInv, TypeOK
<1>2. CASE LinkManifest(p) /\ manifests[Partition(p)] = NoManifest
  BY <1>2, LinkManifestPublishes DEF Grown, LocalInv, TypeOK
<1>3. CASE UNCHANGED <<objects, manifests>>
  BY <1>3 DEF Grown
<1> QED
  BY <1>1, <1>2, <1>3, StepKinds

\* What held of records and invocations goes on holding in a grown store.
LEMMA DescribesGrown ==
    ASSUME Grown, NEW files, Consistent(files), NEW q \in Partitions,
           Describes(files, q)
    PROVE  Describes(files, q)'
<1> SUFFICES ASSUME NEW i \in Items, files[i].status \in Stored
             PROVE  objects'[<<i, q[1], q[2]>>] =
                       [body |-> files[i].sha, sha |-> files[i].sha]
  BY DEF Describes
<1>1. <<i, q[1], q[2]>> \in Keys
  BY DEF Keys, Partitions
<1>2. objects[<<i, q[1], q[2]>>] = [body |-> files[i].sha, sha |-> files[i].sha]
  BY DEF Describes
<1>3. files[i].sha # 0
  BY DEF Consistent
<1>4. objects[<<i, q[1], q[2]>>] # Absent
  BY <1>2, <1>3 DEF Absent
<1> QED
  BY <1>1, <1>2, <1>4 DEF Grown

LEMMA RunInvGrown ==
    ASSUME Grown, NEW r, Placed(r), RunInv(r)
    PROVE  RunInv(r)'
<1>1. <<r.hour, r.batch>> \in Partitions
  BY DEF Placed, Invocations, Partitions
<1>2. Describes(r.files, <<r.hour, r.batch>>)'
  BY <1>1, DescribesGrown DEF RunInv, Sound
<1>3. Sound(r)'
  BY DEF RunInv, Sound
<1>4. r.pc = "returned" => manifests'[<<r.hour, r.batch>>] # NoManifest
  BY <1>1 DEF RunInv, Grown
<1> QED
  BY <1>2, <1>3, <1>4 DEF RunInv
-----------------------------------------------------------------------------
(***************************************************************************)
(* The invariant is inductive.                                             *)
(***************************************************************************)

\* The other processes' invocations, and the one that moved.
LEMMA OthersKeep ==
    ASSUME TypeOK', LocalInv, Grown, NEW p \in Procs, NEW r, RunInv(r)',
           run' = [run EXCEPT ![p] = r]
    PROVE  \A q \in Procs : RunInv(run[q])'
<1> SUFFICES ASSUME NEW q \in Procs PROVE RunInv(run[q])'
  OBVIOUS
<1>1. run \in [Procs -> Invocations]
  BY DEF LocalInv, TypeOK
<1>2. CASE q = p
  <2>1. run'[q] = r
    BY <1>1, <1>2
  <2> QED
    BY <2>1 DEF RunInv, Sound, Consistent, Describes
<1>3. CASE q # p
  <2>1. run'[q] = run[q]
    BY <1>1, <1>3
  <2>2. Placed(run[q]) /\ RunInv(run[q])
    BY AboutRun
  <2>3. ASSUME NEW s, s = run[q] PROVE RunInv(s)'
    BY <2>2, <2>3, RunInvGrown DEF LocalInv
  <2>4. PICK s : s = run[q]
    OBVIOUS
  <2>5. RunInv(s)' /\ run'[q] = s
    BY <2>1, <2>3, <2>4
  <2> QED
    BY <2>5 DEF RunInv, Sound, Consistent, Describes
<1> QED
  BY <1>2, <1>3

\* The step of a process that publishes nothing.
LEMMA QuietKeeps ==
    ASSUME TypeOK', Storage = "local", LocalInv, NEW p \in Procs, Step(p),
           UNCHANGED <<objects, manifests>>
    PROVE  LocalInv'
<1>1. PICK r : Placed(r) /\ RunInv(r) /\ run' = [run EXCEPT ![p] = r]
  BY QuietStep DEF QuietTo
<1>2. Grown
  BY StepGrows
<1>3. RunInv(r)'
  BY <1>1, <1>2, RunInvGrown DEF LocalInv
<1>4. \A q \in Procs : RunInv(run[q])'
  BY <1>1, <1>2, <1>3, OthersKeep
<1>5. ChecksumsAreTrue'
  BY DEF LocalInv, ChecksumsAreTrue
<1>6. \A q \in Partitions : ManifestInv(q)'
  BY DEF LocalInv, ManifestInv, Describes
<1> QED
  BY <1>4, <1>5, <1>6 DEF LocalInv

\* The step that links an object, whether the run then records it or fails.
LEMMA LinkKeeps ==
    ASSUME TypeOK', Storage = "local", LocalInv, NEW p \in Procs, Step(p),
           LinkTarget(p), objects[Key(p)] = Absent
    PROVE  LocalInv'
<1> DEFINE i == run[p]
           next == IF i.pos < Len(Sources) THEN "source" ELSE "manifest"
<1>1. Grown
  BY StepGrows
<1>0. PICK status \in {"SUCCESS", "FAILED"} :
         run' = [run EXCEPT ![p] = Recorded(i, status)]
  BY LinkPublishes DEF Record, Become
<1>2. /\ i.pc \in SourcePcs /\ i.sha # 0
      /\ objects' = [objects EXCEPT ![Key(p)] = [body |-> i.sha, sha |-> i.sha]]
      /\ UNCHANGED manifests
  BY LinkPublishes DEF SourcePcs
<1>3. /\ Placed(i) /\ RunInv(i) /\ Key(p) \in Keys
      /\ Key(p) = <<Sources[i.pos], i.hour, i.batch>>
      /\ <<i.hour, i.batch>> \in Partitions
  BY <1>2, AboutRun
<1>4. status \in Statuses \ {"PENDING"}
  BY DEF Statuses, Stored
<1>5. objects'[<<Sources[i.pos], i.hour, i.batch>>] =
         [body |-> i.sha, sha |-> i.sha]
  BY <1>2, <1>3 DEF LocalInv, TypeOK
<1>6. PICK r : r = Recorded(i, status)
  OBVIOUS
<1>7. Sound(r)
  BY <1>2, <1>3, <1>4, <1>6, RecordedSound DEF RunInv
<1>8. r = [pc |-> next, id |-> i.id, hour |-> i.hour, batch |-> i.batch,
           url |-> i.url, pos |-> i.pos + 1, sha |-> 0,
           temp |-> 0, tries |-> 1, files |-> RecordedFiles(i, status)]
  BY <1>3, <1>6, RecordedFields DEF Placed
<1>9. next \in {"source", "manifest"}
  OBVIOUS
<1> HIDE DEF next
<1>10. Describes(r.files, <<r.hour, r.batch>>)'
  <2>1. Describes(i.files, <<i.hour, i.batch>>)
    BY <1>3 DEF RunInv
  <2>2. /\ Sources[i.pos] \in Items /\ i.files \in [Items -> Entries]
        /\ Consistent(i.files)
    BY <1>2, <1>3, SourcesCoverItems DEF Placed, Invocations, RunInv, Sound
  <2>3. /\ r.files[Sources[i.pos]].status = status
        /\ status \in Stored => r.files[Sources[i.pos]].sha = i.sha
        /\ \A k \in Items : k # Sources[i.pos] => r.files[k] = i.files[k]
    BY <1>8, <2>2 DEF RecordedFiles
  <2>4. PICK f, h, b : f = i.files /\ h = i.hour /\ b = i.batch
    OBVIOUS
  <2>5. Describes(f, <<h, b>>)'
    BY <1>1, <1>3, <2>1, <2>2, <2>4, DescribesGrown
  <2>6. r.hour = h /\ r.batch = b
    BY <1>8, <2>4
  <2>7. <<h, b>>[1] = h /\ <<h, b>>[2] = b
    OBVIOUS
  <2>8. ASSUME NEW k \in Items, r.files[k].status \in Stored
        PROVE  objects'[<<k, h, b>>] =
                  [body |-> r.files[k].sha, sha |-> r.files[k].sha]
    <3>1. CASE k = Sources[i.pos]
      BY <1>5, <2>3, <2>4, <2>8, <3>1
    <3>2. CASE k # Sources[i.pos]
      BY <2>3, <2>4, <2>5, <2>7, <2>8, <3>2 DEF Describes
    <3> QED
      BY <3>1, <3>2
  <2> QED
    BY <2>6, <2>7, <2>8 DEF Describes
<1>11. RunInv(r)'
  BY <1>7, <1>8, <1>9, <1>10 DEF RunInv, Sound, Consistent
<1>12. \A q \in Procs : RunInv(run[q])'
  BY <1>0, <1>1, <1>6, <1>11, OthersKeep
<1>13. ChecksumsAreTrue'
  BY <1>2, <1>3 DEF LocalInv, ChecksumsAreTrue, TypeOK
<1>14. ASSUME NEW q \in Partitions PROVE ManifestInv(q)'
  <2> SUFFICES ASSUME manifests[q] # NoManifest PROVE ManifestInv(q)'
    BY <1>2 DEF ManifestInv
  <2>1. ManifestInv(q)
    BY DEF LocalInv
  <2>2. PICK f : f = manifests[q].files
    OBVIOUS
  <2>3. Describes(f, q)'
    BY <1>1, <2>1, <2>2, DescribesGrown DEF ManifestInv
  <2> QED
    BY <1>2, <2>1, <2>2, <2>3 DEF ManifestInv, Describes
<1> QED
  BY <1>12, <1>13, <1>14 DEF LocalInv

\* The step that links a manifest: every source is decided by then.
LEMMA LinkManifestKeeps ==
    ASSUME TypeOK', Storage = "local", LocalInv, NEW p \in Procs, Step(p),
           LinkManifest(p), manifests[Partition(p)] = NoManifest
    PROVE  LocalInv'
<1> DEFINE i == run[p]
<1>1. Grown
  BY StepGrows
<1>0. PICK end \in {"returned", "raised"} :
         run' = [run EXCEPT ![p] = [i EXCEPT !.pc = end]]
  BY LinkManifestPublishes DEF Goto, Become
<1>2. /\ i.pc = "publish" /\ i.id # 0
      /\ ManifestOf(p) # NoManifest
      /\ manifests' = [manifests EXCEPT ![Partition(p)] = ManifestOf(p)]
      /\ UNCHANGED objects
  BY LinkManifestPublishes
<1>3. /\ i \in Invocations /\ RunInv(i) /\ Partition(p) \in Partitions
      /\ Partition(p) = <<i.hour, i.batch>>
  BY AboutRun DEF Placed
<1>4. manifests'[Partition(p)] = ManifestOf(p)
  BY <1>2, <1>3 DEF LocalInv, TypeOK
<1>5. \A k \in Items : i.files[k].status # "PENDING"
  <2> SUFFICES ASSUME NEW k \in Items PROVE i.files[k].status # "PENDING"
    OBVIOUS
  <2>1. PICK n \in 1..Len(Sources) : Sources[n] = k
    BY SourcesCoverItems
  <2>2. n \in 1..(i.pos - 1)
    BY <1>2, <1>3, SourcesCoverItems DEF RunInv, Sound, ManifestPcs
  <2> QED
    BY <1>2, <1>3, <2>1, <2>2 DEF RunInv, Sound, ManifestPcs
<1>6. PICK r : r = [i EXCEPT !.pc = end]
  OBVIOUS
<1>7. /\ r.pc = end /\ r.id = i.id /\ r.hour = i.hour
      /\ r.batch = i.batch /\ r.pos = i.pos /\ r.files = i.files
  BY <1>3, <1>6 DEF Invocations
<1>8. Sound(r)
  BY <1>3, <1>7
  DEF RunInv, Sound, ToSource, SourcePcs, ManifestPcs, EndPcs
<1>9. Describes(r.files, <<r.hour, r.batch>>)'
  BY <1>2, <1>3, <1>7 DEF RunInv, Describes
<1>10. manifests'[<<r.hour, r.batch>>] # NoManifest
  BY <1>2, <1>3, <1>4, <1>7
<1>11. RunInv(r)'
  BY <1>7, <1>8, <1>9, <1>10 DEF RunInv, Sound, Consistent
<1>12. \A q \in Procs : RunInv(run[q])'
  BY <1>0, <1>1, <1>6, <1>11, OthersKeep
<1>13. ChecksumsAreTrue'
  BY <1>2 DEF LocalInv, ChecksumsAreTrue
<1>14. ASSUME NEW q \in Partitions PROVE ManifestInv(q)'
  <2>1. CASE q = Partition(p)
    <3>1. manifests'[q].files = i.files
      BY <1>4, <2>1 DEF ManifestOf
    <3>2. Consistent(i.files) /\ Describes(i.files, q)
      BY <1>3, <2>1 DEF RunInv, Sound
    <3> QED
      BY <1>2, <1>5, <3>1, <3>2 DEF ManifestInv, Consistent, Describes
  <2>2. CASE q # Partition(p)
    <3>1. manifests'[q] = manifests[q]
      BY <1>2, <2>2 DEF LocalInv, TypeOK
    <3> QED
      BY <1>2, <3>1 DEF LocalInv, ManifestInv, Consistent, Describes
  <2> QED
    BY <2>1, <2>2
<1> QED
  BY <1>12, <1>13, <1>14 DEF LocalInv

\* A step that leaves the store alone and gives one process a fresh
\* invocation.
LEMMA FreshKeeps ==
    ASSUME TypeOK', LocalInv, NEW p \in Procs,
           NEW pc \in {"idle", "source"}, NEW id \in Nat, NEW h, NEW b, NEW u,
           pc = "source" => id # 0,
           run' = [run EXCEPT ![p] = NewRun(pc, id, h, b, u)],
           UNCHANGED <<objects, manifests>>
    PROVE  LocalInv'
<1>1. Grown
  BY DEF Grown
<1>2. PICK r : r = NewRun(pc, id, h, b, u)
  OBVIOUS
<1>3. /\ r.pc = pc /\ r.id = id /\ r.pos = 1
      /\ r.files = [i \in Items |-> NoEntry]
  BY <1>2 DEF NewRun
<1>4. Consistent(r.files) /\ \A i \in Items : r.files[i].status \notin Stored
  BY <1>3 DEF Consistent, NoEntry, Stored
<1>5. RunInv(r)'
  BY <1>3, <1>4
  DEF RunInv, Sound, Consistent, Describes, ToSource, SourcePcs,
      ManifestPcs, EndPcs
<1>6. \A q \in Procs : RunInv(run[q])'
  BY <1>1, <1>2, <1>5, OthersKeep
<1>7. ChecksumsAreTrue' /\ \A q \in Partitions : ManifestInv(q)'
  BY DEF LocalInv, ChecksumsAreTrue, ManifestInv, Consistent, Describes
<1> QED
  BY <1>6, <1>7 DEF LocalInv

\* A step of the environment.
LEMMA WorldKeeps ==
    ASSUME TypeOK', LocalInv, UNCHANGED <<run, objects, manifests>>
    PROVE  LocalInv'
<1>1. Grown
  BY DEF Grown
<1>2. ASSUME NEW q \in Procs PROVE RunInv(run[q])'
  <2>1. PICK r : r = run[q]
    OBVIOUS
  <2>2. RunInv(r)' /\ run'[q] = r
    BY <1>1, <2>1, AboutRun, RunInvGrown DEF LocalInv
  <2> QED
    BY <2>2 DEF RunInv, Sound, Consistent, Describes
<1>3. ChecksumsAreTrue' /\ \A q \in Partitions : ManifestInv(q)'
  BY DEF LocalInv, ChecksumsAreTrue, ManifestInv, Consistent, Describes
<1> QED
  BY <1>2, <1>3 DEF LocalInv

LEMMA LocalInvStep ==
    ASSUME Storage = "local", LocalInv, [Next]_vars
    PROVE  LocalInv'
<1>1. TypeOK'
  BY TypeStep DEF LocalInv
<1>2. ASSUME NEW p \in Procs, Start(p) PROVE LocalInv'
  <2>1. PICK b \in Batches, u \in ApiUrls :
           run' = [run EXCEPT ![p] = NewRun("source", lastId + 1, hour, b, u)]
    BY <1>2 DEF Start, Become
  <2>2. lastId + 1 \in Nat /\ lastId + 1 # 0
    BY DEF LocalInv, TypeOK
  <2>3. UNCHANGED <<objects, manifests>>
    BY <1>2 DEF Start
  <2> QED
    BY <1>1, <2>1, <2>2, <2>3, FreshKeeps
<1>3. ASSUME NEW p \in Procs, Crash(p) PROVE LocalInv'
  <2>1. /\ run' = [run EXCEPT ![p] =
                     NewRun("idle", 0, 0, run[p].batch, run[p].url)]
        /\ UNCHANGED <<objects, manifests>>
    BY <1>3 DEF Crash, Become
  <2> QED
    BY <1>1, <2>1, FreshKeeps
<1>4. ASSUME NEW p \in Procs, Step(p) PROVE LocalInv'
  BY <1>1, <1>4, StepKinds, QuietKeeps, LinkKeeps, LinkManifestKeeps
<1>5. ASSUME NEW i \in Items, Publish(i) PROVE LocalInv'
  BY <1>1, <1>5, WorldKeeps DEF Publish
<1>6. CASE Tick
  BY <1>1, <1>6, WorldKeeps DEF Tick
<1>7. CASE UNCHANGED vars
  BY <1>1, <1>7, WorldKeeps DEF vars
<1> QED
  BY <1>2, <1>3, <1>4, <1>5, <1>6, <1>7 DEF Next

LEMMA LocalInvInit ==
    ASSUME Init
    PROVE  LocalInv
<1>1. TypeOK
  BY TypeInit
<1>2. ChecksumsAreTrue
  BY DEF Init, ChecksumsAreTrue, Absent
<1>3. PICK b \in Batches, u \in ApiUrls :
         run = [p \in Procs |-> NewRun("idle", 0, 0, b, u)]
  BY DEF Init
<1>4. RunInv(NewRun("idle", 0, 0, b, u))
  BY DEF NewRun, NoEntry, Stored, RunInv, Sound, Consistent,
         Describes, ToSource, SourcePcs, ManifestPcs, EndPcs
<1>5. \A q \in Partitions : manifests[q] = NoManifest
  BY DEF Init
<1> QED
  BY <1>1, <1>2, <1>3, <1>4, <1>5 DEF LocalInv, ManifestInv
-----------------------------------------------------------------------------
(***************************************************************************)
(* The theorems.                                                           *)
(***************************************************************************)

\* On local storage the inductive invariant holds in every state.
THEOREM LocalInvariant ==
    ASSUME Storage = "local"
    PROVE  Spec => []LocalInv
<1>1. Init => LocalInv
  BY LocalInvInit
<1>2. LocalInv /\ [Next]_vars => LocalInv'
  BY LocalInvStep
<1> QED
  BY <1>1, <1>2, PTL DEF Spec

\* A published manifest decides every source and describes objects that are
\* in the store, byte for byte (IngestionRunner.run, LocalStorage).
THEOREM LocalManifestDescribesStore ==
    ASSUME Storage = "local"
    PROVE  Spec => []ManifestDescribesStore
<1>1. LocalInv => ManifestDescribesStore
  BY DEF LocalInv, ManifestInv, ManifestDescribesStore
<1> QED
  BY <1>1, LocalInvariant, PTL

\* A run that ends with SUCCESS leaves every source and a manifest behind.
THEOREM LocalSuccessfulRunIsStored ==
    ASSUME Storage = "local"
    PROVE  Spec => []SuccessfulRunIsStored
<1>1. LocalInv => SuccessfulRunIsStored
  BY DEF LocalInv, RunInv, SuccessfulRunIsStored, Partition
<1> QED
  BY <1>1, LocalInvariant, PTL

\* An object in the store is what its checksum says: the temporary copy is
\* hashed before it is linked.
THEOREM LocalChecksumsAreTrue ==
    ASSUME Storage = "local"
    PROVE  Spec => []ChecksumsAreTrue
<1>1. LocalInv => ChecksumsAreTrue
  BY DEF LocalInv
<1> QED
  BY <1>1, LocalInvariant, PTL

\* Runs whose records describe one store agree about its bytes.
LEMMA DescribedRunsAgree ==
    ASSUME \A p \in Procs : Describes(run[p].files, Partition(p))
    PROVE  SuccessfulRunsAgree
<1>1. ASSUME NEW p1 \in Procs, NEW p2 \in Procs, NEW i \in Items,
             RunStatus(run[p1].files) = "SUCCESS",
             RunStatus(run[p2].files) = "SUCCESS",
             Partition(p1) = Partition(p2)
      PROVE  run[p1].files[i].sha = run[p2].files[i].sha
  <2>1. run[p1].files[i].status \in Stored /\ run[p2].files[i].status \in Stored
    BY <1>1 DEF RunStatus
  <2>2. /\ Describes(run[p1].files, Partition(p1))
        /\ Describes(run[p2].files, Partition(p1))
    BY <1>1
  <2>3. [body |-> run[p1].files[i].sha, sha |-> run[p1].files[i].sha] =
           [body |-> run[p2].files[i].sha, sha |-> run[p2].files[i].sha]
    BY <2>1, <2>2 DEF Describes
  <2> QED
    BY <2>3
<1> QED
  BY <1>1 DEF SuccessfulRunsAgree

\* Two successful runs of a batch in one hour ingested the same bytes.
THEOREM LocalSuccessfulRunsAgree ==
    ASSUME Storage = "local"
    PROVE  Spec => []SuccessfulRunsAgree
<1>1. LocalInv => SuccessfulRunsAgree
  BY DescribedRunsAgree DEF LocalInv, RunInv, Partition
<1> QED
  BY <1>1, LocalInvariant, PTL

\* Only processes touch the store, and they only add to it.
LEMMA NextGrows ==
    ASSUME Storage = "local", LocalInv, [Next]_vars
    PROVE  /\ \A k \in Keys : objects[k] # Absent => objects'[k] = objects[k]
           /\ \A q \in Partitions :
                 manifests[q] # NoManifest => manifests'[q] = manifests[q]
<1>1. ASSUME NEW p \in Procs, Step(p) PROVE Grown
  BY <1>1, StepGrows
<1>2. CASE UNCHANGED <<objects, manifests>>
  BY <1>2
<1> QED
  BY <1>1, <1>2 DEF Next, Start, Crash, Publish, Tick, vars, Grown

\* Raw objects and manifests are never overwritten or removed: os.link fails
\* on a target that exists, and nothing else publishes.
THEOREM LocalNeverOverwritten ==
    ASSUME Storage = "local"
    PROVE  Spec => NeverOverwritten
<1>1. LocalInv /\ [Next]_vars =>
         [/\ \A k \in Keys : objects[k] # Absent => objects'[k] = objects[k]
          /\ \A q \in Partitions :
                manifests[q] # NoManifest => manifests'[q] = manifests[q]]_vars
  BY NextGrows
<1> QED
  BY <1>1, LocalInvariant, PTL DEF Spec, NeverOverwritten
-----------------------------------------------------------------------------
(***************************************************************************)
(* Local storage implements the write-once store.  The variables objects   *)
(* and manifests map to themselves: a link of an object is a Put, a link   *)
(* of a manifest is a Commit, and every other step is a stutter.           *)
(***************************************************************************)

LEMMA SameNames ==
    /\ Raw!Keys = Keys /\ Raw!Partitions = Partitions
    /\ Raw!Absent = Absent /\ Raw!NoManifest = NoManifest
    /\ Raw!Stored = Stored
  BY DEF Raw!Keys, Keys, Raw!Partitions, Partitions, Raw!Absent, Absent,
         Raw!NoManifest, NoManifest, Raw!NoEntry, NoEntry, Raw!Stored, Stored

\* Linking an object is a Put of the abstract store.
LEMMA LinkIsPut ==
    ASSUME Storage = "local", LocalInv, NEW p \in Procs, LinkTarget(p),
           objects[Key(p)] = Absent
    PROVE  Raw!Put(Key(p))
<1> DEFINE o == [body |-> run[p].sha, sha |-> run[p].sha]
<1>1. /\ run[p].pc = "link" /\ run[p].sha # 0
      /\ objects' = [objects EXCEPT ![Key(p)] = o]
      /\ UNCHANGED manifests
  BY LinkPublishes
<1>2. Key(p) \in Keys
  BY <1>1, AboutRun DEF SourcePcs
<1>3. objects'[Key(p)] = o
  BY <1>1, <1>2 DEF LocalInv, TypeOK
<1>4. objects' = [objects EXCEPT ![Key(p)] = objects'[Key(p)]]
  BY <1>1, <1>3
<1>5. objects'[Key(p)].body # 0 /\ objects'[Key(p)].sha = objects'[Key(p)].body
  BY <1>1, <1>3
<1> QED
  BY <1>1, <1>4, <1>5, SameNames DEF Raw!Put

\* Linking a manifest is a Commit: by LocalInv' the new record decides and
\* describes every source.
LEMMA LinkManifestIsCommit ==
    ASSUME LocalInv, LocalInv', NEW p \in Procs, LinkManifest(p),
           manifests[Partition(p)] = NoManifest
    PROVE  Raw!Commit(Partition(p))
<1> DEFINE q == Partition(p)
           m == ManifestOf(p)
<1>1. /\ run[p].id # 0 /\ m # NoManifest
      /\ manifests' = [manifests EXCEPT ![q] = m]
      /\ UNCHANGED objects
  BY LinkManifestPublishes
<1>2. q \in Partitions
  BY AboutRun
<1>3. manifests'[q] = m
  BY <1>1, <1>2 DEF LocalInv, TypeOK
<1>4. m.id # 0
  BY <1>1 DEF ManifestOf
<1>5. PICK c : c = q
  OBVIOUS
<1>6. ManifestInv(c)'
  BY <1>2, <1>5 DEF LocalInv
<1>7. ASSUME NEW i \in Items
      PROVE  /\ m.files[i].status # "PENDING"
             /\ m.files[i].status \in Stored =>
                   objects[<<i, c[1], c[2]>>] =
                      [body |-> m.files[i].sha, sha |-> m.files[i].sha]
  BY <1>1, <1>3, <1>5, <1>6 DEF ManifestInv, Describes
<1>8. /\ manifests' = [manifests EXCEPT ![q] = manifests'[q]]
      /\ manifests'[q].id # 0
  BY <1>1, <1>3, <1>4
<1>9. ASSUME NEW i \in Items
      PROVE  /\ manifests'[q].files[i].status # "PENDING"
             /\ manifests'[q].files[i].status \in Stored =>
                   objects[<<i, q[1], q[2]>>] =
                      [body |-> manifests'[q].files[i].sha,
                       sha |-> manifests'[q].files[i].sha]
  BY <1>3, <1>5, <1>7
<1> QED
  BY <1>1, <1>8, <1>9, SameNames DEF Raw!Commit

\* Every behaviour of the runner on local storage is one of the write-once
\* store.
THEOREM LocalImplementsRawStore ==
    ASSUME Storage = "local"
    PROVE  Spec => ImplementsRawStore
<1>1. Init => Raw!Init
  BY SameNames DEF Init, Raw!Init
<1>2. LocalInv /\ LocalInv' /\ [Next]_vars => [Raw!Next]_Raw!vars
  <2> SUFFICES ASSUME LocalInv, LocalInv', [Next]_vars
               PROVE  Raw!Next \/ UNCHANGED <<objects, manifests>>
    BY DEF Raw!vars
  <2>1. ASSUME NEW p \in Procs, Step(p)
        PROVE  Raw!Next \/ UNCHANGED <<objects, manifests>>
    <3>1. CASE LinkTarget(p) /\ objects[Key(p)] = Absent
      <4>1. Key(p) \in Raw!Keys
        BY <3>1, AboutRun, LinkPublishes, SameNames DEF SourcePcs
      <4> QED
        BY <3>1, <4>1, LinkIsPut DEF Raw!Next
    <3>2. CASE LinkManifest(p) /\ manifests[Partition(p)] = NoManifest
      <4>1. Partition(p) \in Raw!Partitions
        BY AboutRun, SameNames
      <4> QED
        BY <3>2, <4>1, LinkManifestIsCommit DEF Raw!Next
    <3> QED
      BY <2>1, <3>1, <3>2, StepKinds
  <2> QED
    BY <2>1 DEF Next, Start, Crash, Publish, Tick, vars
<1> QED
  BY <1>1, <1>2, LocalInvariant, PTL
  DEF Spec, ImplementsRawStore, Raw!Spec
-----------------------------------------------------------------------------
(***************************************************************************)
(* S3.  A run looks for an object, and uploads it in a later step without  *)
(* a condition; an upload whose acknowledgement is lost is sent again.     *)
(* What keeps the store true is that a source does not change while any    *)
(* run is under way: every upload of a key then sends the same bytes.      *)
(***************************************************************************)

ToUpload == {"count", "check", "upload"}

\* What an invocation has decided, at any control point.
Decided(r) ==
    /\ r.pc \notin EndPcs => r.id # 0
    /\ r.pc \in SourcePcs \cup ManifestPcs =>
          \A n \in 1..(r.pos - 1) : r.files[Sources[n]].status # "PENDING"
    /\ r.pc \in ManifestPcs => r.pos = Len(Sources) + 1
    /\ Consistent(r.files)

\* What it has read is what the source holds now.
ReadAsIs(r) ==
    r.pc \in ToUpload =>
        /\ r.sha # 0
        /\ r.sha = source[Sources[r.pos]]

\* Another run may have uploaded the object since this one looked for it.
UploadsSame(r) ==
    r.pc = "upload" =>
        objects[<<Sources[r.pos], r.hour, r.batch>>] \in
            {Absent, [body |-> r.sha, sha |-> r.sha]}

S3RunInv(r) ==
    /\ r.pc \notin {"copy", "link"}
    /\ Decided(r)
    /\ ReadAsIs(r)
    /\ UploadsSame(r)
    /\ Describes(r.files, <<r.hour, r.batch>>)
    /\ r.pc = "returned" => manifests[<<r.hour, r.batch>>] # NoManifest

S3Inv ==
    /\ TypeOK
    /\ ChecksumsAreTrue
    /\ \A p \in Procs : S3RunInv(run[p])
    /\ \A q \in Partitions : ManifestInv(q)

\* An upload adds an object with the bytes its source holds, or sends again
\* what is there; a put leaves a manifest.
Kept ==
    /\ \A k \in Keys :
          \/ objects'[k] = objects[k]
          \/ /\ objects[k] = Absent
             /\ objects'[k] = [body |-> source[k[1]], sha |-> source[k[1]]]
    /\ \A q \in Partitions :
          manifests[q] # NoManifest => manifests'[q] # NoManifest

\* Recording an outcome needs nothing that is particular to a store.
LEMMA RecordedDecided ==
    ASSUME NEW r, Placed(r), Decided(r), r.pc \in SourcePcs,
           NEW status \in Statuses \ {"PENDING"},
           status \in Stored => r.sha # 0
    PROVE  Decided(Recorded(r, status))
<1> DEFINE next == IF r.pos < Len(Sources) THEN "source" ELSE "manifest"
<1>1. PICK s : s = [r EXCEPT !.pc = "source"]
  OBVIOUS
<1>2. /\ s.pc = "source" /\ s.id = r.id /\ s.pos = r.pos /\ s.files = r.files
      /\ s.sha = r.sha /\ s.hour = r.hour
      /\ s.batch = r.batch /\ s.url = r.url
  BY <1>1 DEF Placed, Invocations
<1>3. Placed(s)
  BY <1>1, GotoPlaced DEF Pcs, SourcePcs, Placed
<1>4. Sound(s)
  BY <1>2 DEF Decided, Sound, ToSource, SourcePcs, ManifestPcs, EndPcs
<1>5. Sound(Recorded(s, status))
  BY <1>2, <1>3, <1>4, RecordedSound DEF SourcePcs
<1>6. RecordedFiles(s, status) = RecordedFiles(r, status)
  BY <1>2 DEF RecordedFiles
<1>7. Recorded(s, status) = Recorded(r, status)
  BY <1>2, <1>3, <1>6, RecordedFields DEF Placed
<1> QED
  BY <1>5, <1>7 DEF Sound, Decided

\* Recording keeps the invariant of the invocation: the next control point
\* has read nothing yet.
LEMMA RecordedS3 ==
    ASSUME NEW r, Placed(r), S3RunInv(r), r.pc \in SourcePcs,
           NEW status \in Statuses \ {"PENDING"},
           status \in Stored =>
              /\ r.sha # 0
              /\ objects[<<Sources[r.pos], r.hour, r.batch>>] =
                    [body |-> r.sha, sha |-> r.sha]
    PROVE  S3RunInv(Recorded(r, status))
<1> DEFINE next == IF r.pos < Len(Sources) THEN "source" ELSE "manifest"
<1>1. Decided(Recorded(r, status))
  BY RecordedDecided DEF S3RunInv
<1>2. Recorded(r, status) =
         [pc |-> next, id |-> r.id, hour |-> r.hour, batch |-> r.batch,
          url |-> r.url, pos |-> r.pos + 1, sha |-> 0,
          temp |-> 0, tries |-> 1, files |-> RecordedFiles(r, status)]
  BY RecordedFields DEF Placed
<1>3. Describes(RecordedFiles(r, status), <<r.hour, r.batch>>)
  BY RecordedDescribes DEF S3RunInv
<1>4. next \in {"source", "manifest"}
  OBVIOUS
<1> HIDE DEF next
<1> QED
  BY <1>1, <1>2, <1>3, <1>4 DEF S3RunInv, ReadAsIs, UploadsSame, ToUpload

\* The same of the state a step leads to.
RecordingIsSafe ==
    \A r : \A status \in Statuses \ {"PENDING"} :
        /\ Placed(r) /\ S3RunInv(r) /\ r.pc \in SourcePcs
        /\ status \in Stored =>
              /\ r.sha # 0
              /\ objects[<<Sources[r.pos], r.hour, r.batch>>] =
                    [body |-> r.sha, sha |-> r.sha]
        => S3RunInv(Recorded(r, status))

LEMMA RecordingSafe == RecordingIsSafe
  BY RecordedS3 DEF RecordingIsSafe

LEMMA RecordingStaysSafe == RecordingIsSafe'
  BY RecordingSafe, PTL

\* A source that failed needs nothing of the store.
LEMMA FailedS3 ==
    ASSUME NEW r, Placed(r), S3RunInv(r), r.pc \in SourcePcs
    PROVE  /\ Placed(Recorded(r, "FAILED"))
           /\ S3RunInv(Recorded(r, "FAILED"))
<1>1. "FAILED" \in Statuses \ {"PENDING"} /\ "FAILED" \notin Stored
  BY DEF Statuses, Stored
<1>2. r.pos <= Len(Sources)
  BY DEF Placed
<1> QED
  BY <1>1, <1>2, RecordedS3, RecordedPlaced
-----------------------------------------------------------------------------
(***************************************************************************)
(* S3: steps of a process.                                                 *)
(***************************************************************************)

QuietS3(p) == \E r : Placed(r) /\ S3RunInv(r) /\ run' = [run EXCEPT ![p] = r]

\* What the invariant says of the invocation of p, unfolded once.
LEMMA AboutS3Run ==
    ASSUME S3Inv, NEW p \in Procs
    PROVE  /\ Placed(run[p]) /\ S3RunInv(run[p])
           /\ run[p].pc \in SourcePcs =>
                 /\ Source(p) = Sources[run[p].pos]
                 /\ Source(p) \in Items
                 /\ Key(p) \in Keys
                 /\ Key(p) = <<Sources[run[p].pos], run[p].hour, run[p].batch>>
           /\ Partition(p) \in Partitions
           /\ Partition(p) = <<run[p].hour, run[p].batch>>
  BY SourcesCoverItems
  DEF S3Inv, TypeOK, Placed, Invocations, Source, Key, Keys, Partition,
      Partitions

\* An attempt more is at the same control point with the same data.
LEMMA AttemptS3 ==
    ASSUME NEW r, Placed(r), S3RunInv(r)
    PROVE  /\ Placed([r EXCEPT !.tries = r.tries + 1])
           /\ S3RunInv([r EXCEPT !.tries = r.tries + 1])
<1>1. PICK s : s = [r EXCEPT !.tries = r.tries + 1]
  OBVIOUS
<1>2. /\ s.pc = r.pc /\ s.id = r.id /\ s.pos = r.pos /\ s.files = r.files
      /\ s.sha = r.sha /\ s.hour = r.hour
      /\ s.batch = r.batch
  BY <1>1 DEF Placed, Invocations
<1>3. Decided(s)
  BY <1>2 DEF S3RunInv, Decided
<1>4. ReadAsIs(s) /\ UploadsSame(s)
  BY <1>2 DEF S3RunInv, ReadAsIs, UploadsSame
<1>5. S3RunInv(s)
  BY <1>2, <1>3, <1>4 DEF S3RunInv
<1> QED
  BY <1>1, <1>5, AttemptPlaced

\* A move between control points at which nothing read is relied on.
LEMMA GotoS3 ==
    ASSUME NEW r, Placed(r), S3RunInv(r), NEW pc \in ManifestPcs \cup {"returned", "raised"},
           pc \in ManifestPcs => r.pc \in ManifestPcs,
           pc = "returned" => manifests[<<r.hour, r.batch>>] # NoManifest
    PROVE  /\ Placed([r EXCEPT !.pc = pc])
           /\ S3RunInv([r EXCEPT !.pc = pc])
<1>1. PICK s : s = [r EXCEPT !.pc = pc]
  OBVIOUS
<1>2. /\ s.pc = pc /\ s.id = r.id /\ s.pos = r.pos /\ s.files = r.files
      /\ s.hour = r.hour /\ s.batch = r.batch
  BY <1>1 DEF Placed, Invocations
<1>3. Placed(s)
  BY <1>1, GotoPlaced DEF Pcs, SourcePcs, ManifestPcs, EndPcs
<1>4. Decided(s)
  BY <1>2 DEF S3RunInv, Decided, SourcePcs, ManifestPcs, EndPcs
<1>5. ReadAsIs(s) /\ UploadsSame(s)
  BY <1>2 DEF ReadAsIs, UploadsSame, ToUpload, ManifestPcs
<1>6. pc \notin {"copy", "link"}
  BY DEF ManifestPcs
<1>7. S3RunInv(s)
  BY <1>2, <1>4, <1>5, <1>6 DEF S3RunInv
<1> QED
  BY <1>1, <1>3, <1>7

\* Both of the state a step leads to.
MovingIsSafe ==
    \A r : Placed(r) /\ S3RunInv(r) =>
        /\ S3RunInv([r EXCEPT !.tries = r.tries + 1])
        /\ S3RunInv([r EXCEPT !.pc = "raised"])
        /\ manifests[<<r.hour, r.batch>>] # NoManifest =>
              S3RunInv([r EXCEPT !.pc = "returned"])

LEMMA MovingSafe == MovingIsSafe
  BY AttemptS3, GotoS3 DEF MovingIsSafe, ManifestPcs

LEMMA MovingStaysSafe == MovingIsSafe'
  BY MovingSafe, PTL

\* One case per action that publishes nothing; the actions of local storage
\* have no case, since no invocation reaches them.
LEMMA QuietS3Step ==
    ASSUME Storage = "s3", S3Inv, NEW p \in Procs, Step(p), ~Upload(p),
           ~PutManifest(p)
    PROVE  QuietS3(p) /\ UNCHANGED <<objects, manifests>>
<1> DEFINE i == run[p]
<1>1. Placed(i) /\ S3RunInv(i) /\ source \in [Items -> Nat] /\ i \in Invocations
  BY AboutS3Run DEF S3Inv, TypeOK, Placed
<1>2. ~CopyToTemp(p) /\ ~LinkTarget(p) /\ ~LinkManifest(p)
  BY <1>1 DEF S3RunInv, CopyToTemp, LinkTarget, LinkManifest, At
<1>3. UNCHANGED <<objects, manifests>>
  BY <1>2, StepObjects, StepManifests
<1> SUFFICES QuietS3(p)
  BY <1>3
<1>4. ASSUME i.pc \in SourcePcs, Record(p, "FAILED") PROVE QuietS3(p)
  BY <1>1, <1>4, FailedS3 DEF QuietS3, Record, Become
<1>5. ASSUME NEW r, Placed(r), S3RunInv(r), Become(p, r) PROVE QuietS3(p)
  BY <1>5 DEF QuietS3, Become
<1>6. ASSUME NEW pc \in ManifestPcs \cup {"returned", "raised"}, Goto(p, pc),
             pc \in ManifestPcs => i.pc \in ManifestPcs,
             pc = "returned" => manifests[<<i.hour, i.batch>>] # NoManifest
      PROVE  QuietS3(p)
  BY <1>1, <1>6, GotoS3 DEF QuietS3, Goto, Become
<1>7. ASSUME i.pc \in SourcePcs, NEW gaveUp, NEW max, Placed(gaveUp), S3RunInv(gaveUp),
             Become(p, RetryOr(i, max, gaveUp))
      PROVE  QuietS3(p)
  BY <1>1, <1>7, AttemptS3 DEF QuietS3, RetryOr, Become
<1>8. CASE ReadFails(p)
  BY <1>4, <1>8 DEF ReadFails, AtFile, At, SourcePcs
<1>9. CASE HashSource(p)
  <2> DEFINE r == [i EXCEPT !.sha = source[Source(p)], !.pc = "count"]
  <2>1. i.pc = "source" /\ source[Source(p)] # 0 /\ Become(p, r)
    BY <1>9 DEF HashSource, AtFile, At
  <2>2. Source(p) \in Items /\ Source(p) = Sources[i.pos] /\ source[Source(p)] \in Nat
    BY <1>1, <2>1, AboutS3Run DEF SourcePcs
  <2>3. Placed(r)
    BY <1>1, <2>1, <2>2 DEF Placed, Invocations, Pcs, SourcePcs
  <2>4. S3RunInv(r)
    BY <1>1, <2>1, <2>2
    DEF S3RunInv, Decided, ReadAsIs, UploadsSame, ToUpload, Invocations,
        SourcePcs, ManifestPcs, EndPcs
  <2> QED
    BY <1>5, <2>1, <2>3, <2>4
<1>10. CASE CountSource(p)
  <2> DEFINE r == [i EXCEPT !.pc = "check"]
  <2>1. i.pc = "count" /\ Become(p, r)
    BY <1>10 DEF CountSource, AtFile, At, Goto
  <2>2. Source(p) \in Items /\ Source(p) = Sources[i.pos] /\ source[Source(p)] \in Nat
    BY <1>1, <2>1, AboutS3Run DEF SourcePcs
  <2>3. Placed(r)
    BY <1>1, <2>1, <2>2 DEF Placed, Invocations, Pcs, SourcePcs
  <2>4. S3RunInv(r)
    BY <1>1, <2>1, <2>2
    DEF S3RunInv, Decided, ReadAsIs, UploadsSame, ToUpload, Invocations,
        SourcePcs, ManifestPcs, EndPcs
  <2> QED
    BY <1>5, <2>1, <2>3, <2>4
<1>11. CASE RejectUrl(p)
  BY <1>6, <1>11 DEF RejectUrl, ManifestPcs
<1>12. CASE FetchResponse(p)
  <2> DEFINE r == [i EXCEPT !.sha = source[Api], !.temp = source[Api],
                            !.tries = 1, !.pc = "check"]
  <2>1. i.pc = "source" /\ Source(p) = Api /\ source[Api] # 0 /\ Become(p, r)
    BY <1>12 DEF FetchResponse, AtApi, At
  <2>2. Sources[i.pos] = Api /\ source[Api] \in Nat
    BY <1>1, <2>1, AboutS3Run DEF SourcePcs, Items
  <2>3. Placed(r)
    BY <1>1, <2>1, <2>2 DEF Placed, Invocations, Pcs, SourcePcs
  <2>4. S3RunInv(r)
    BY <1>1, <2>1, <2>2
    DEF S3RunInv, Decided, ReadAsIs, UploadsSame, ToUpload, Invocations,
        SourcePcs, ManifestPcs, EndPcs
  <2> QED
    BY <1>5, <2>1, <2>3, <2>4
<1>13. CASE FetchFails(p)
  <2>1. i.pc \in SourcePcs
    BY <1>13 DEF FetchFails, AtApi, At, SourcePcs
  <2> QED
    BY <1>1, <1>4, <1>7, <1>13, <2>1, FailedS3 DEF FetchFails
<1>14. CASE CheckDestination(p)
  <2>1. i.pc = "check" /\ i.pc \in SourcePcs
    BY <1>14 DEF CheckDestination, At, SourcePcs
  <2>2. /\ Key(p) = <<Sources[i.pos], i.hour, i.batch>> /\ Key(p) \in Keys
        /\ Source(p) = Sources[i.pos]
    BY <2>1, AboutS3Run
  <2>3. i.sha # 0 /\ i.sha = source[Sources[i.pos]]
    BY <1>1, <2>1 DEF S3RunInv, ReadAsIs, ToUpload
  <2>4. CASE objects[Key(p)] = Absent
    <3> DEFINE r == [i EXCEPT !.pc = "upload"]
    <3>1. Become(p, r)
      BY <1>14, <2>4 DEF CheckDestination, Goto
    <3>2. Placed(r)
      BY <1>1, <2>1 DEF Placed, Invocations, Pcs, SourcePcs
    <3>3. S3RunInv(r)
      BY <1>1, <2>1, <2>2, <2>3, <2>4
      DEF S3RunInv, Decided, ReadAsIs, UploadsSame, ToUpload, Invocations,
          SourcePcs, ManifestPcs, EndPcs
    <3> QED
      BY <1>5, <3>1, <3>2, <3>3
  <2>5. CASE objects[Key(p)] # Absent
    <3> DEFINE o == objects[Key(p)]
    <3>1. Reuse(p, o)
      BY <1>14, <2>5 DEF CheckDestination
    <3>2. o.body = o.sha /\ o \in Objects
      BY <2>2 DEF S3Inv, ChecksumsAreTrue, TypeOK
    <3>3. CASE o.sha = i.sha
      <4>1. Record(p, "IDEMPOTENT_SUCCESS")
        BY <3>1, <3>3 DEF Reuse, ShaOf
      <4>2. o = [body |-> i.sha, sha |-> i.sha]
        BY <3>2, <3>3 DEF Objects
      <4>3. "IDEMPOTENT_SUCCESS" \in Statuses \ {"PENDING"}
        BY DEF Statuses, Stored
      <4>4. S3RunInv(Recorded(i, "IDEMPOTENT_SUCCESS"))
        BY <1>1, <2>1, <2>2, <2>3, <4>2, <4>3, RecordedS3
      <4>5. Placed(Recorded(i, "IDEMPOTENT_SUCCESS"))
        BY <1>1, <2>1, <4>3, RecordedPlaced DEF Placed
      <4> QED
        BY <1>5, <4>1, <4>4, <4>5 DEF Record
    <3>4. CASE o.sha # i.sha
      BY <1>4, <2>1, <3>1, <3>4 DEF Reuse, ShaOf
    <3> QED
      BY <3>3, <3>4
  <2> QED
    BY <2>4, <2>5
<1>15. CASE StorageFails(p)
  BY <1>4, <1>15 DEF StorageFails, SourcePcs
<1>16. CASE UploadFails(p)
  <2>1. i.pc \in SourcePcs
    BY <1>16 DEF UploadFails, At, SourcePcs
  <2> QED
    BY <1>1, <1>4, <1>7, <1>16, <2>1, FailedS3 DEF UploadFails
<1>17. CASE CheckManifest(p)
  <2>1. i.pc = "manifest" /\ i.pc \in ManifestPcs
    BY <1>17 DEF CheckManifest, At, ManifestPcs
  <2>2. {"publish"} \subseteq ManifestPcs
    BY DEF ManifestPcs
  <2>3. Partition(p) = <<i.hour, i.batch>>
    BY AboutS3Run
  <2> QED
    BY <1>6, <1>17, <2>1, <2>2, <2>3 DEF CheckManifest, ManifestPcs
<1>18. CASE HeadManifest(p)
  <2>1. i.pc = "publish" /\ i.pc \in ManifestPcs
    BY <1>18 DEF HeadManifest, At, ManifestPcs
  <2> QED
    BY <1>6, <1>18, <2>1 DEF HeadManifest, ManifestPcs
<1>19. CASE ManifestFails(p)
  <2>1. i.pc \in ManifestPcs
    BY <1>19 DEF ManifestFails, At, ManifestPcs
  <2>2. Placed([i EXCEPT !.pc = "raised"]) /\ S3RunInv([i EXCEPT !.pc = "raised"])
    BY <1>1, GotoS3 DEF ManifestPcs
  <2>3. CASE Goto(p, "raised")
    BY <1>6, <2>3 DEF ManifestPcs
  <2>4. CASE Become(p, RetryOr(i, S3Attempts, [i EXCEPT !.pc = "raised"]))
    BY <1>1, <2>2, <2>4, AttemptS3 DEF QuietS3, RetryOr, Become
  <2> QED
    BY <1>19, <2>3, <2>4 DEF ManifestFails
<1> QED
  BY <1>8, <1>9, <1>10, <1>11, <1>12, <1>13, <1>14, <1>15, <1>16, <1>17, <1>18,
     <1>19, <1>2 DEF Step

\* An upload writes what the source holds, and what it writes over, if
\* anything, is the same.
LEMMA UploadWrites ==
    ASSUME S3Inv, NEW p \in Procs, Upload(p)
    PROVE  /\ run[p].pc = "upload" /\ Key(p) \in Keys
           /\ run[p].sha # 0
           /\ run[p].sha = source[Sources[run[p].pos]]
           /\ Key(p) = <<Sources[run[p].pos], run[p].hour, run[p].batch>>
           /\ objects[Key(p)] \in {Absent, [body |-> run[p].sha, sha |-> run[p].sha]}
           /\ objects' = [objects EXCEPT ![Key(p)] =
                            [body |-> run[p].sha, sha |-> run[p].sha]]
           /\ UNCHANGED <<manifests, source>>
<1>1. run[p].pc = "upload" /\ run[p].pc \in SourcePcs
  BY DEF Upload, At, SourcePcs
<1>2. /\ Key(p) \in Keys /\ Source(p) = Sources[run[p].pos]
      /\ Key(p) = <<Sources[run[p].pos], run[p].hour, run[p].batch>>
  BY <1>1, AboutS3Run
<1>3. /\ run[p].sha # 0
      /\ run[p].sha = source[Sources[run[p].pos]]
  BY <1>1, AboutS3Run DEF S3RunInv, ReadAsIs, ToUpload
<1>4. objects[Key(p)] \in {Absent, [body |-> run[p].sha, sha |-> run[p].sha]}
  BY <1>1, <1>2, AboutS3Run DEF S3RunInv, UploadsSame
<1>5. UploadBody(p) = run[p].sha
  BY <1>2, <1>3 DEF UploadBody
<1> QED
  BY <1>1, <1>2, <1>3, <1>4, <1>5 DEF Upload, world

\* A put writes the manifest of a run that decided every source.
LEMMA PutWrites ==
    ASSUME S3Inv, NEW p \in Procs, PutManifest(p)
    PROVE  /\ run[p].pc = "put" /\ ManifestOf(p) # NoManifest
           /\ manifests' = [manifests EXCEPT ![Partition(p)] = ManifestOf(p)]
           /\ \A i \in Items : run[p].files[i].status # "PENDING"
           /\ UNCHANGED <<objects, source>>
<1> DEFINE i == run[p]
<1>1. i.pc = "put" /\ i.pc \in ManifestPcs /\ i.pc \notin EndPcs
  BY DEF PutManifest, At, ManifestPcs, EndPcs
<1>2. Decided(i) /\ i \in Invocations
  BY AboutS3Run DEF S3RunInv, Placed
<1>3. ManifestOf(p) # NoManifest
  BY <1>1, <1>2 DEF Decided, ManifestOf, NoManifest
<1>4. ASSUME NEW k \in Items PROVE i.files[k].status # "PENDING"
  <2>1. PICK n \in 1..Len(Sources) : Sources[n] = k
    BY SourcesCoverItems
  <2>2. n \in 1..(i.pos - 1)
    BY <1>1, <1>2, SourcesCoverItems DEF Decided
  <2> QED
    BY <1>1, <1>2, <2>1, <2>2 DEF Decided
<1> QED
  BY <1>1, <1>3, <1>4 DEF PutManifest, world

LEMMA StepKept ==
    ASSUME Storage = "s3", S3Inv, NEW p \in Procs, Step(p)
    PROVE  Kept /\ UNCHANGED source
<1>1. CASE Upload(p)
  <2> DEFINE o == [body |-> run[p].sha, sha |-> run[p].sha]
  <2>1. /\ Key(p) \in Keys /\ Key(p)[1] = Sources[run[p].pos]
        /\ run[p].sha = source[Sources[run[p].pos]]
        /\ objects[Key(p)] \in {Absent, o}
        /\ objects' = [objects EXCEPT ![Key(p)] = o]
        /\ UNCHANGED <<manifests, source>>
    BY <1>1, UploadWrites
  <2>2. o = [body |-> source[Key(p)[1]], sha |-> source[Key(p)[1]]]
    BY <2>1
  <2> HIDE DEF o
  <2>3. ASSUME NEW k \in Keys
        PROVE  \/ objects'[k] = objects[k]
               \/ /\ objects[k] = Absent
                  /\ objects'[k] = [body |-> source[k[1]], sha |-> source[k[1]]]
    <3>1. CASE k = Key(p)
      BY <2>1, <2>2, <3>1 DEF S3Inv, TypeOK
    <3>2. CASE k # Key(p)
      BY <2>1, <3>2 DEF S3Inv, TypeOK
    <3> QED
      BY <3>1, <3>2
  <2> QED
    BY <2>1, <2>3 DEF Kept
<1>2. CASE PutManifest(p)
  BY <1>2, PutWrites DEF Kept, S3Inv, TypeOK
<1>3. CASE ~Upload(p) /\ ~PutManifest(p)
  BY <1>3, QuietS3Step, StepKeepsWorld DEF Kept
<1> QED
  BY <1>1, <1>2, <1>3

\* Records that described the store go on doing so.
LEMMA DescribesKept ==
    ASSUME Kept, NEW files, Consistent(files), NEW q \in Partitions,
           Describes(files, q)
    PROVE  Describes(files, q)'
<1> SUFFICES ASSUME NEW i \in Items, files[i].status \in Stored
             PROVE  objects'[<<i, q[1], q[2]>>] =
                       [body |-> files[i].sha, sha |-> files[i].sha]
  BY DEF Describes
<1>1. <<i, q[1], q[2]>> \in Keys
  BY DEF Keys, Partitions
<1>2. objects[<<i, q[1], q[2]>>] = [body |-> files[i].sha, sha |-> files[i].sha]
  BY DEF Describes
<1>3. files[i].sha # 0
  BY DEF Consistent
<1>4. objects[<<i, q[1], q[2]>>] # Absent
  BY <1>2, <1>3 DEF Absent
<1> QED
  BY <1>1, <1>2, <1>4 DEF Kept

\* So does what an invocation relies on, while the sources stand still; an
\* invocation that has ended, or not begun, does not rely on the sources.
LEMMA S3RunKept ==
    ASSUME Kept, NEW r, Placed(r), S3RunInv(r),
           UNCHANGED source \/ r.pc \in EndPcs
    PROVE  S3RunInv(r)'
<1>1. <<r.hour, r.batch>> \in Partitions
  BY DEF Placed, Invocations, Partitions
<1>2. Describes(r.files, <<r.hour, r.batch>>)'
  BY <1>1, DescribesKept DEF S3RunInv, Decided
<1>3. Decided(r)'
  BY DEF S3RunInv, Decided, Consistent
<1>4. ReadAsIs(r)'
  BY DEF S3RunInv, ReadAsIs, ToUpload, EndPcs
<1>5. UploadsSame(r)'
  <2> SUFFICES ASSUME r.pc = "upload"
               PROVE  objects'[<<Sources[r.pos], r.hour, r.batch>>] \in
                         {Absent, [body |-> r.sha, sha |-> r.sha]}
    BY DEF UploadsSame
  <2> DEFINE k == <<Sources[r.pos], r.hour, r.batch>>
  <2>1. Sources[r.pos] \in Items
    BY SourcesCoverItems DEF Placed, Invocations, SourcePcs
  <2>2. k \in Keys /\ k[1] = Sources[r.pos]
    BY <2>1 DEF Keys, Placed, Invocations
  <2>3. r.sha = source[Sources[r.pos]]
    BY DEF S3RunInv, ReadAsIs, ToUpload
  <2>4. objects[k] \in {Absent, [body |-> r.sha, sha |-> r.sha]}
    BY DEF S3RunInv, UploadsSame
  <2> HIDE DEF k
  <2>5. objects'[k] \in {Absent, [body |-> r.sha, sha |-> r.sha]}
    BY <2>2, <2>3, <2>4 DEF Kept
  <2> QED
    BY <2>5 DEF k
<1>6. r.pc = "returned" => manifests'[<<r.hour, r.batch>>] # NoManifest
  BY <1>1 DEF S3RunInv, Kept
<1>7. r.pc \notin {"copy", "link"}
  BY DEF S3RunInv
<1> QED
  BY <1>2, <1>3, <1>4, <1>5, <1>6, <1>7 DEF S3RunInv
-----------------------------------------------------------------------------
(***************************************************************************)
(* S3: the invariant is inductive.                                         *)
(***************************************************************************)

\* The other processes' invocations, and the one that moved.
LEMMA OthersKeepS3 ==
    ASSUME S3Inv, Kept, UNCHANGED source, NEW p \in Procs, NEW r, S3RunInv(r)',
           run' = [run EXCEPT ![p] = r]
    PROVE  \A q \in Procs : S3RunInv(run[q])'
<1> SUFFICES ASSUME NEW q \in Procs PROVE S3RunInv(run[q])'
  OBVIOUS
<1>1. run \in [Procs -> Invocations]
  BY DEF S3Inv, TypeOK
<1>2. ASSUME NEW s, s = run'[q], S3RunInv(s)' PROVE S3RunInv(run[q])'
  BY <1>2 DEF S3RunInv, Decided, Consistent, ReadAsIs, UploadsSame, Describes
<1>3. CASE q = p
  BY <1>1, <1>2, <1>3
<1>4. CASE q # p
  <2>1. PICK s : s = run[q]
    OBVIOUS
  <2>2. S3RunInv(s)'
    BY <2>1, AboutS3Run, S3RunKept
  <2> QED
    BY <1>1, <1>2, <1>4, <2>1, <2>2
<1> QED
  BY <1>3, <1>4

\* Manifests that were there go on describing the store.
LEMMA ManifestsKept ==
    ASSUME S3Inv, Kept, NEW q \in Partitions, manifests'[q] = manifests[q]
    PROVE  ManifestInv(q)'
<1> SUFFICES ASSUME manifests[q] # NoManifest PROVE ManifestInv(q)'
  BY DEF ManifestInv
<1>1. ManifestInv(q)
  BY DEF S3Inv
<1>2. PICK f : f = manifests[q].files
  OBVIOUS
<1>3. Describes(f, q)'
  BY <1>1, <1>2, DescribesKept DEF ManifestInv
<1>4. Describes(manifests[q].files, q)'
  BY <1>2, <1>3 DEF Describes
<1> QED
  BY <1>1, <1>4 DEF ManifestInv, Consistent, Describes

\* The step of a process that publishes nothing.
LEMMA QuietS3Keeps ==
    ASSUME TypeOK', Storage = "s3", S3Inv, NEW p \in Procs, Step(p),
           ~Upload(p), ~PutManifest(p)
    PROVE  S3Inv'
<1>1. PICK r : Placed(r) /\ S3RunInv(r) /\ run' = [run EXCEPT ![p] = r]
  BY QuietS3Step DEF QuietS3
<1>2. Kept /\ UNCHANGED source /\ UNCHANGED <<objects, manifests>>
  BY StepKept, QuietS3Step
<1>3. S3RunInv(r)'
  BY <1>1, <1>2, S3RunKept
<1>4. \A q \in Procs : S3RunInv(run[q])'
  BY <1>1, <1>2, <1>3, OthersKeepS3
<1>5. ChecksumsAreTrue'
  BY <1>2 DEF S3Inv, ChecksumsAreTrue
<1>6. \A q \in Partitions : ManifestInv(q)'
  BY <1>2, ManifestsKept
<1> QED
  BY <1>4, <1>5, <1>6 DEF S3Inv

\* The step that uploads an object: the run records it, tries again though
\* the object is there, or gives up.
LEMMA UploadKeeps ==
    ASSUME TypeOK', Storage = "s3", S3Inv, NEW p \in Procs, Step(p), Upload(p)
    PROVE  S3Inv'
<1> DEFINE i == run[p]
           o == [body |-> i.sha, sha |-> i.sha]
<1>1. Kept /\ UNCHANGED source
  BY StepKept
<1>2. /\ i.pc = "upload" /\ i.pc \in SourcePcs /\ Key(p) \in Keys
      /\ i.sha # 0
      /\ Key(p) = <<Sources[i.pos], i.hour, i.batch>>
      /\ objects' = [objects EXCEPT ![Key(p)] = o]
      /\ UNCHANGED manifests
  BY UploadWrites DEF SourcePcs
<1>3. objects'[<<Sources[i.pos], i.hour, i.batch>>] = o
  BY <1>2 DEF S3Inv, TypeOK
<1>4. PICK j : j = i
  OBVIOUS
<1>5. Placed(j) /\ S3RunInv(j) /\ S3RunInv(j)'
  BY <1>1, <1>4, AboutS3Run, S3RunKept
<1>6. "SUCCESS" \in Statuses \ {"PENDING"}
  BY DEF Statuses, Stored
<1>7. /\ j.pc \in SourcePcs /\ j.sha # 0
      /\ objects'[<<Sources[j.pos], j.hour, j.batch>>] =
            [body |-> j.sha, sha |-> j.sha]
  BY <1>2, <1>3, <1>4
<1>8. S3RunInv(Recorded(j, "SUCCESS"))'
  BY <1>5, <1>6, <1>7, RecordingStaysSafe DEF RecordingIsSafe
<1>9. S3RunInv(Recorded(j, "FAILED"))'
  <2>1. "FAILED" \in Statuses \ {"PENDING"} /\ "FAILED" \notin Stored
    BY DEF Statuses, Stored
  <2> QED
    BY <1>5, <1>7, <2>1, RecordingStaysSafe DEF RecordingIsSafe
<1>10. S3RunInv([j EXCEPT !.tries = j.tries + 1])'
  BY <1>5, MovingStaysSafe DEF MovingIsSafe
<1>11. \E r : S3RunInv(r)' /\ run' = [run EXCEPT ![p] = r]
  <2>1. \/ run' = [run EXCEPT ![p] = Recorded(j, "SUCCESS")]
        \/ run' = [run EXCEPT ![p] = RetryOr(j, S3Attempts, Recorded(j, "FAILED"))]
    BY <1>4 DEF Upload, Record, Become
  <2> QED
    BY <1>8, <1>9, <1>10, <2>1 DEF RetryOr
<1>12. \A q \in Procs : S3RunInv(run[q])'
  BY <1>1, <1>11, OthersKeepS3
<1>13. ChecksumsAreTrue'
  BY <1>2 DEF S3Inv, ChecksumsAreTrue, TypeOK
<1>14. \A q \in Partitions : ManifestInv(q)'
  BY <1>1, <1>2, ManifestsKept
<1> QED
  BY <1>12, <1>13, <1>14 DEF S3Inv

\* The step that puts a manifest: every source is decided by then, and what
\* this run calls stored is as good as what the overwritten manifest did.
LEMMA PutKeeps ==
    ASSUME TypeOK', Storage = "s3", S3Inv, NEW p \in Procs, Step(p),
           PutManifest(p)
    PROVE  S3Inv'
<1> DEFINE i == run[p]
<1>1. Kept /\ UNCHANGED source
  BY StepKept
<1>2. /\ i.pc = "put" /\ ManifestOf(p) # NoManifest
      /\ manifests' = [manifests EXCEPT ![Partition(p)] = ManifestOf(p)]
      /\ \A k \in Items : i.files[k].status # "PENDING"
      /\ UNCHANGED <<objects, source>>
  BY PutWrites
<1>3. /\ Partition(p) \in Partitions /\ Partition(p) = <<i.hour, i.batch>>
      /\ Placed(i) /\ S3RunInv(i)
  BY AboutS3Run
<1>4. manifests'[Partition(p)] = ManifestOf(p)
  BY <1>2, <1>3 DEF S3Inv, TypeOK
<1>5. PICK j : j = i
  OBVIOUS
<1>6. Placed(j) /\ S3RunInv(j)' /\ manifests'[<<j.hour, j.batch>>] # NoManifest
  BY <1>1, <1>2, <1>3, <1>4, <1>5, S3RunKept
<1>7. /\ S3RunInv([j EXCEPT !.tries = j.tries + 1])'
      /\ S3RunInv([j EXCEPT !.pc = "raised"])'
      /\ S3RunInv([j EXCEPT !.pc = "returned"])'
  BY <1>6, MovingStaysSafe DEF MovingIsSafe
<1>8. \E r : S3RunInv(r)' /\ run' = [run EXCEPT ![p] = r]
  <2>1. \/ run' = [run EXCEPT ![p] = [j EXCEPT !.pc = "returned"]]
        \/ run' = [run EXCEPT ![p] =
                      RetryOr(j, S3Attempts, [j EXCEPT !.pc = "raised"])]
    BY <1>5 DEF PutManifest, Goto, Become
  <2> QED
    BY <1>7, <2>1 DEF RetryOr
<1>9. \A q \in Procs : S3RunInv(run[q])'
  BY <1>1, <1>8, OthersKeepS3
<1>10. ChecksumsAreTrue'
  BY <1>2 DEF S3Inv, ChecksumsAreTrue
<1>11. ASSUME NEW q \in Partitions PROVE ManifestInv(q)'
  <2>1. CASE q = Partition(p)
    <3>1. manifests'[q].files = i.files
      BY <1>4, <2>1 DEF ManifestOf
    <3>2. Consistent(i.files) /\ Describes(i.files, q)
      BY <1>3, <2>1 DEF S3RunInv, Decided
    <3> QED
      BY <1>2, <3>1, <3>2 DEF ManifestInv, Consistent, Describes
  <2>2. CASE q # Partition(p)
    <3>1. manifests'[q] = manifests[q]
      BY <1>2, <2>2 DEF S3Inv, TypeOK
    <3> QED
      BY <1>1, <3>1, ManifestsKept
  <2> QED
    BY <2>1, <2>2
<1> QED
  BY <1>9, <1>10, <1>11 DEF S3Inv

\* A fresh invocation has read nothing.
LEMMA FreshS3Keeps ==
    ASSUME TypeOK', S3Inv, NEW p \in Procs,
           NEW pc \in {"idle", "source"}, NEW id \in Nat, NEW h, NEW b, NEW u,
           pc = "source" => id # 0,
           run' = [run EXCEPT ![p] = NewRun(pc, id, h, b, u)],
           UNCHANGED <<source, objects, manifests>>
    PROVE  S3Inv'
<1>1. Kept
  BY DEF Kept
<1>2. PICK r : r = NewRun(pc, id, h, b, u)
  OBVIOUS
<1>3. /\ r.pc = pc /\ r.id = id /\ r.pos = 1
      /\ r.files = [i \in Items |-> NoEntry]
  BY <1>2 DEF NewRun
<1>4. Consistent(r.files) /\ \A i \in Items : r.files[i].status \notin Stored
  BY <1>3 DEF Consistent, NoEntry, Stored
<1>5. S3RunInv(r)'
  BY <1>3, <1>4
  DEF S3RunInv, Decided, Consistent, ReadAsIs, UploadsSame, Describes,
      ToUpload, SourcePcs, ManifestPcs, EndPcs
<1>6. \A q \in Procs : S3RunInv(run[q])'
  BY <1>1, <1>2, <1>5, OthersKeepS3
<1>7. ChecksumsAreTrue' /\ \A q \in Partitions : ManifestInv(q)'
  BY <1>1, ManifestsKept DEF S3Inv, ChecksumsAreTrue
<1> QED
  BY <1>6, <1>7 DEF S3Inv

\* A step of the environment: a source changes only when every run has ended.
LEMMA WorldS3Keeps ==
    ASSUME TypeOK', S3Inv, UNCHANGED <<run, objects, manifests>>,
           UNCHANGED source \/ \A p \in Procs : run[p].pc \in EndPcs
    PROVE  S3Inv'
<1>1. Kept
  BY DEF Kept
<1>2. ASSUME NEW q \in Procs PROVE S3RunInv(run[q])'
  <2>1. PICK r : r = run[q]
    OBVIOUS
  <2>2. S3RunInv(r)' /\ run'[q] = r
    BY <1>1, <2>1, AboutS3Run, S3RunKept
  <2> QED
    BY <2>2
    DEF S3RunInv, Decided, Consistent, ReadAsIs, UploadsSame, Describes
<1>3. ChecksumsAreTrue' /\ \A q \in Partitions : ManifestInv(q)'
  BY <1>1, ManifestsKept DEF S3Inv, ChecksumsAreTrue
<1> QED
  BY <1>2, <1>3 DEF S3Inv

LEMMA S3InvStep ==
    ASSUME Storage = "s3", Scheduled, S3Inv, [Next]_vars
    PROVE  S3Inv'
<1>1. TypeOK'
  BY TypeStep DEF S3Inv
<1>2. ASSUME NEW p \in Procs, Start(p) PROVE S3Inv'
  <2>1. PICK b \in Batches, u \in ApiUrls :
           run' = [run EXCEPT ![p] = NewRun("source", lastId + 1, hour, b, u)]
    BY <1>2 DEF Start, Become
  <2>2. lastId + 1 \in Nat /\ lastId + 1 # 0
    BY DEF S3Inv, TypeOK
  <2>3. UNCHANGED <<source, objects, manifests>>
    BY <1>2 DEF Start
  <2> QED
    BY <1>1, <2>1, <2>2, <2>3, FreshS3Keeps
<1>3. ASSUME NEW p \in Procs, Crash(p) PROVE S3Inv'
  <2>1. /\ run' = [run EXCEPT ![p] =
                     NewRun("idle", 0, 0, run[p].batch, run[p].url)]
        /\ UNCHANGED <<source, objects, manifests>>
    BY <1>3 DEF Crash, Become
  <2> QED
    BY <1>1, <2>1, FreshS3Keeps
<1>4. ASSUME NEW p \in Procs, Step(p) PROVE S3Inv'
  BY <1>1, <1>4, QuietS3Keeps, UploadKeeps, PutKeeps
<1>5. ASSUME NEW i \in Items, Publish(i) PROVE S3Inv'
  BY <1>1, <1>5, WorldS3Keeps DEF Publish
<1>6. CASE Tick
  BY <1>1, <1>6, WorldS3Keeps DEF Tick
<1>7. CASE UNCHANGED vars
  BY <1>1, <1>7, WorldS3Keeps DEF vars
<1> QED
  BY <1>2, <1>3, <1>4, <1>5, <1>6, <1>7 DEF Next

LEMMA S3InvInit ==
    ASSUME Init
    PROVE  S3Inv
<1>1. TypeOK
  BY TypeInit
<1>2. ChecksumsAreTrue
  BY DEF Init, ChecksumsAreTrue, Absent
<1>3. PICK b \in Batches, u \in ApiUrls :
         run = [p \in Procs |-> NewRun("idle", 0, 0, b, u)]
  BY DEF Init
<1>4. S3RunInv(NewRun("idle", 0, 0, b, u))
  BY DEF NewRun, NoEntry, Stored, S3RunInv, Decided, Consistent, ReadAsIs,
         UploadsSame, Describes, ToUpload, SourcePcs, ManifestPcs, EndPcs
<1>5. \A q \in Partitions : manifests[q] = NoManifest
  BY DEF Init
<1> QED
  BY <1>1, <1>2, <1>3, <1>4, <1>5 DEF S3Inv, ManifestInv
-----------------------------------------------------------------------------
(***************************************************************************)
(* S3: the theorems.  Scheduled is what the DAG gives: generation and      *)
(* ingestion are two tasks of one run, and one run is active at a time.    *)
(***************************************************************************)

\* On S3 the inductive invariant holds while sources change only between
\* runs, however many runs overlap.
THEOREM S3Invariant ==
    ASSUME Storage = "s3", Scheduled
    PROVE  Spec => []S3Inv
<1>1. Init => S3Inv
  BY S3InvInit
<1>2. S3Inv /\ [Next]_vars => S3Inv'
  BY S3InvStep
<1> QED
  BY <1>1, <1>2, PTL DEF Spec

\* An object on S3 is what the sha256 in its metadata says, though the
\* checksum was computed of bytes read before the ones uploaded
\* (S3Storage.write_file).
THEOREM ScheduledChecksumsAreTrue ==
    ASSUME Storage = "s3", Scheduled
    PROVE  Spec => []ChecksumsAreTrue
<1>1. S3Inv => ChecksumsAreTrue
  BY DEF S3Inv
<1> QED
  BY <1>1, S3Invariant, PTL

\* A manifest on S3 decides every source and describes objects that are there,
\* though objects and manifests are uploaded without a condition.
THEOREM ScheduledManifestDescribesStore ==
    ASSUME Storage = "s3", Scheduled
    PROVE  Spec => []ManifestDescribesStore
<1>1. S3Inv => ManifestDescribesStore
  BY DEF S3Inv, ManifestInv, ManifestDescribesStore
<1> QED
  BY <1>1, S3Invariant, PTL

\* A run that ends with SUCCESS leaves every source and a manifest on S3.
THEOREM ScheduledSuccessfulRunIsStored ==
    ASSUME Storage = "s3", Scheduled
    PROVE  Spec => []SuccessfulRunIsStored
<1>1. S3Inv => SuccessfulRunIsStored
  BY DEF S3Inv, S3RunInv, SuccessfulRunIsStored, Partition
<1> QED
  BY <1>1, S3Invariant, PTL

\* Two successful runs of a batch in one hour ingested the same bytes, though
\* on S3 both may have uploaded them.
THEOREM ScheduledSuccessfulRunsAgree ==
    ASSUME Storage = "s3", Scheduled
    PROVE  Spec => []SuccessfulRunsAgree
<1>1. S3Inv => SuccessfulRunsAgree
  BY DescribedRunsAgree DEF S3Inv, S3RunInv, Partition
<1> QED
  BY <1>1, S3Invariant, PTL
-----------------------------------------------------------------------------
(***************************************************************************)
(* S3, one run after the other.  Two runs at once may each find no         *)
(* manifest and both put theirs; the objects they upload are the same.     *)
(***************************************************************************)

\* At most one process ingests: max_active_runs = 1, and no run by hand.
OneRunner == \A p1, p2 \in Procs : p1 = p2

\* A run that puts its manifest found none; one that is there is its own, of
\* an attempt whose acknowledgement was lost.
PutsOwn ==
    \A p \in Procs : run[p].pc = "put" =>
        manifests[Partition(p)] \in {NoManifest, ManifestOf(p)}

LEMMA PutsOwnStep ==
    ASSUME Storage = "s3", OneRunner, S3Inv, PutsOwn, [Next]_vars
    PROVE  PutsOwn'
<1> SUFFICES ASSUME NEW p \in Procs, run'[p].pc = "put"
             PROVE  (manifests[Partition(p)] \in {NoManifest, ManifestOf(p)})'
  BY DEF PutsOwn
<1> DEFINE i == run[p]
           again == [i EXCEPT !.tries = i.tries + 1]
<1>1. run \in [Procs -> Invocations] /\ i \in Invocations
  BY DEF S3Inv, TypeOK
<1>2. CASE UNCHANGED <<run, manifests>>
  BY <1>2 DEF PutsOwn, Partition, ManifestOf
<1>3. ASSUME NEW q \in Procs, Start(q) \/ Crash(q) PROVE FALSE
  <2>1. q = p
    BY DEF OneRunner
  <2> QED
    BY <1>1, <1>3, <2>1 DEF Start, Crash, Become, NewRun
<1>4. ASSUME NEW q \in Procs, Step(q)
      PROVE  (manifests[Partition(p)] \in {NoManifest, ManifestOf(p)})'
  <2>1. q = p
    BY DEF OneRunner
  <2>2. Step(p)
    BY <1>4, <2>1
  <2>3. Placed(i) /\ S3RunInv(i) /\ Partition(p) \in Partitions
    BY AboutS3Run
  <2>4. \A status : Recorded(i, status).pc # "put"
    BY <1>1, RecordedFields
  <2>5. \A pc : run' = [run EXCEPT ![p] = [i EXCEPT !.pc = pc]] => pc = "put"
    BY <1>1 DEF Invocations
  <2>6. CASE HeadManifest(p)
    <3>1. Goto(p, "put") /\ manifests[Partition(p)] = NoManifest
          /\ UNCHANGED manifests
      BY <2>5, <2>6 DEF HeadManifest, Goto, Become
    <3>2. run'[p].hour = i.hour /\ run'[p].batch = i.batch
      BY <1>1, <3>1 DEF Goto, Become, Invocations
    <3> QED
      BY <3>1, <3>2 DEF Partition
  <2>7. ASSUME i.pc = "put", Become(p, again)
        PROVE  Partition(p)' = Partition(p) /\ ManifestOf(p)' = ManifestOf(p)
    <3>1. /\ run'[p].hour = i.hour /\ run'[p].batch = i.batch
          /\ run'[p].id = i.id /\ run'[p].files = i.files
      BY <1>1, <2>7 DEF Become, Invocations
    <3> QED
      BY <3>1 DEF Partition, ManifestOf
  <2>8. CASE PutManifest(p)
    <3>1. /\ i.pc = "put"
          /\ manifests' = [manifests EXCEPT ![Partition(p)] = ManifestOf(p)]
      BY <2>8, PutWrites
    <3>2. manifests'[Partition(p)] = ManifestOf(p)
      BY <2>3, <3>1 DEF S3Inv, TypeOK
    <3>3. Become(p, again)
      BY <2>5, <2>8 DEF PutManifest, RetryOr, Goto, Become
    <3> QED
      BY <2>7, <3>1, <3>2, <3>3
  <2>9. CASE ManifestFails(p)
    <3>1. /\ i.pc = "put" /\ Become(p, again) /\ UNCHANGED manifests
      BY <2>5, <2>9 DEF ManifestFails, RetryOr, Goto, Become, At
    <3> QED
      BY <2>7, <3>1 DEF PutsOwn
  <2>10. ASSUME NEW r, r.pc # "put", Become(p, r) PROVE FALSE
    BY <1>1, <2>10 DEF Become
  <2>11. ASSUME NEW pc \in Pcs \ {"put"}, Goto(p, pc) PROVE FALSE
    BY <2>5, <2>11 DEF Goto, Become
  <2>12. ASSUME NEW status, Record(p, status) PROVE FALSE
    BY <2>4, <2>10, <2>12 DEF Record
  <2>13. ASSUME i.pc # "put", Become(p, again) PROVE FALSE
    BY <1>1, <2>10, <2>13 DEF Invocations
  <2>14. ~ReadFails(p) /\ ~StorageFails(p)
    BY <2>12 DEF ReadFails, StorageFails
  <2>15. ~HashSource(p) /\ ~FetchResponse(p) /\ ~CopyToTemp(p)
    BY <1>1, <2>10, <2>12
    DEF HashSource, FetchResponse, CopyToTemp, Invocations
  <2>16. ~CountSource(p) /\ ~RejectUrl(p) /\ ~CheckManifest(p) /\ ~LinkManifest(p)
    BY <2>11
    DEF CountSource, RejectUrl, CheckManifest, LinkManifest, Pcs, SourcePcs,
        ManifestPcs, EndPcs
  <2>17. ~CheckDestination(p) /\ ~LinkTarget(p)
    BY <2>11, <2>12
    DEF CheckDestination, LinkTarget, Reuse, Pcs, SourcePcs
  <2>18. ~FetchFails(p) /\ ~Upload(p) /\ ~UploadFails(p)
    BY <2>12, <2>13
    DEF FetchFails, Upload, UploadFails, RetryOr, AtApi, At, Record, Become
  <2> QED
    BY <2>2, <2>6, <2>8, <2>9, <2>14, <2>15, <2>16, <2>17, <2>18 DEF Step
<1> QED
  BY <1>2, <1>3, <1>4 DEF Next, Publish, Tick, vars

\* What a step of one runner writes over is what it writes.
LEMMA OneRunnerStep ==
    ASSUME Storage = "s3", S3Inv, PutsOwn, NEW p \in Procs, Step(p)
    PROVE  \/ UNCHANGED <<objects, manifests>>
           \/ Upload(p) /\ objects[Key(p)] = Absent
           \/ PutManifest(p) /\ manifests[Partition(p)] = NoManifest
<1>1. CASE Upload(p) /\ objects[Key(p)] # Absent
  <2>1. objects' = objects /\ UNCHANGED manifests
    BY <1>1, UploadWrites DEF S3Inv, TypeOK
  <2> QED
    BY <2>1
<1>2. CASE PutManifest(p) /\ manifests[Partition(p)] # NoManifest
  <2>1. /\ manifests' = [manifests EXCEPT ![Partition(p)] = ManifestOf(p)]
        /\ manifests[Partition(p)] = ManifestOf(p)
        /\ UNCHANGED objects
    BY <1>2, PutWrites DEF PutsOwn
  <2>2. manifests' = manifests
    BY <2>1, AboutS3Run DEF S3Inv, TypeOK
  <2> QED
    BY <2>1, <2>2
<1> QED
  BY <1>1, <1>2, QuietS3Step

OneRunnerInv == S3Inv /\ PutsOwn

LEMMA OneRunnerInvariant ==
    ASSUME Storage = "s3", Scheduled, OneRunner
    PROVE  Spec => []OneRunnerInv
<1>1. Init => PutsOwn
  BY DEF Init, PutsOwn, NewRun
<1>2. S3Inv /\ PutsOwn /\ [Next]_vars => PutsOwn'
  BY PutsOwnStep
<1> QED
  BY <1>1, <1>2, S3InvInit, S3InvStep, PTL DEF Spec, OneRunnerInv

\* On S3 too, raw objects and manifests are never overwritten or removed when
\* one run follows the other: what a retry sends again is what is there.
THEOREM LoneRunnerNeverOverwrites ==
    ASSUME Storage = "s3", Scheduled, OneRunner
    PROVE  Spec => NeverOverwritten
<1>1. ASSUME OneRunnerInv, [Next]_vars
      PROVE  /\ \A k \in Keys : objects[k] # Absent => objects'[k] = objects[k]
             /\ \A q \in Partitions :
                   manifests[q] # NoManifest => manifests'[q] = manifests[q]
  <2>1. ASSUME NEW p \in Procs, Step(p)
        PROVE  /\ \A k \in Keys : objects[k] # Absent => objects'[k] = objects[k]
               /\ \A q \in Partitions :
                     manifests[q] # NoManifest => manifests'[q] = manifests[q]
    <3>1. CASE Upload(p) /\ objects[Key(p)] = Absent
      BY <1>1, <3>1, UploadWrites DEF OneRunnerInv, S3Inv, TypeOK
    <3>2. CASE PutManifest(p) /\ manifests[Partition(p)] = NoManifest
      BY <1>1, <3>2, PutWrites DEF OneRunnerInv, S3Inv, TypeOK
    <3> QED
      BY <1>1, <2>1, <3>1, <3>2, OneRunnerStep DEF OneRunnerInv
  <2> QED
    BY <1>1, <2>1 DEF Next, Start, Crash, Publish, Tick, vars
<1>2. OneRunnerInv /\ [Next]_vars =>
         [/\ \A k \in Keys : objects[k] # Absent => objects'[k] = objects[k]
          /\ \A q \in Partitions :
                manifests[q] # NoManifest => manifests'[q] = manifests[q]]_vars
  BY <1>1
<1> QED
  BY <1>2, OneRunnerInvariant, PTL DEF Spec, NeverOverwritten

\* With one run after the other S3 implements the write-once store: the
\* upload of a new object is a Put, the put of a new manifest a Commit, and
\* what is sent again is a stutter.
THEOREM LoneRunnerImplementsRawStore ==
    ASSUME Storage = "s3", Scheduled, OneRunner
    PROVE  Spec => ImplementsRawStore
<1>1. Init => Raw!Init
  BY SameNames DEF Init, Raw!Init
<1>2. ASSUME OneRunnerInv, S3Inv', NEW p \in Procs, Upload(p),
             objects[Key(p)] = Absent
      PROVE  Raw!Next
  <2> DEFINE o == [body |-> run[p].sha, sha |-> run[p].sha]
  <2>1. /\ Key(p) \in Keys /\ run[p].sha # 0
        /\ objects' = [objects EXCEPT ![Key(p)] = o]
        /\ UNCHANGED manifests
    BY <1>2, UploadWrites DEF OneRunnerInv
  <2>2. objects'[Key(p)] = o
    BY <1>2, <2>1 DEF OneRunnerInv, S3Inv, TypeOK
  <2>3. objects'[Key(p)].body # 0 /\ objects'[Key(p)].sha = objects'[Key(p)].body
    BY <2>1, <2>2
  <2>4. objects' = [objects EXCEPT ![Key(p)] = objects'[Key(p)]]
    BY <2>1, <2>2
  <2>5. Raw!Put(Key(p))
    BY <1>2, <2>1, <2>3, <2>4, SameNames DEF Raw!Put
  <2> QED
    BY <2>1, <2>5, SameNames DEF Raw!Next
<1>3. ASSUME OneRunnerInv, S3Inv', NEW p \in Procs, PutManifest(p),
             manifests[Partition(p)] = NoManifest
      PROVE  Raw!Next
  <2> DEFINE q == Partition(p)
  <2>1. /\ q \in Partitions /\ ManifestOf(p) # NoManifest
        /\ manifests' = [manifests EXCEPT ![q] = ManifestOf(p)]
        /\ UNCHANGED objects
    BY <1>3, PutWrites, AboutS3Run DEF OneRunnerInv
  <2>2. manifests'[q] = ManifestOf(p)
    BY <1>3, <2>1 DEF OneRunnerInv, S3Inv, TypeOK
  <2>3. manifests'[q].id # 0
    <3>1. run[p].pc = "put" /\ Decided(run[p])
      BY <1>3, PutWrites, AboutS3Run DEF OneRunnerInv, S3RunInv
    <3> QED
      BY <2>2, <3>1 DEF ManifestOf, Decided, EndPcs
  <2>4. PICK c : c = q
    OBVIOUS
  <2>5. ManifestInv(c)'
    BY <1>3, <2>1, <2>4 DEF S3Inv
  <2>6. ASSUME NEW i \in Items
        PROVE  /\ manifests'[q].files[i].status # "PENDING"
               /\ manifests'[q].files[i].status \in Stored =>
                     objects[<<i, q[1], q[2]>>] =
                        [body |-> manifests'[q].files[i].sha,
                         sha |-> manifests'[q].files[i].sha]
    BY <2>1, <2>2, <2>4, <2>5 DEF ManifestInv, Describes
  <2>7. Raw!Commit(q)
    BY <1>3, <2>1, <2>2, <2>3, <2>6, SameNames DEF Raw!Commit
  <2> QED
    BY <2>1, <2>7, SameNames DEF Raw!Next
<1>4. OneRunnerInv /\ OneRunnerInv' /\ [Next]_vars => [Raw!Next]_Raw!vars
  <2> SUFFICES ASSUME OneRunnerInv, S3Inv', [Next]_vars
               PROVE  Raw!Next \/ UNCHANGED <<objects, manifests>>
    BY DEF Raw!vars, OneRunnerInv
  <2>1. ASSUME NEW p \in Procs, Step(p)
        PROVE  Raw!Next \/ UNCHANGED <<objects, manifests>>
    BY <1>2, <1>3, <2>1, OneRunnerStep DEF OneRunnerInv
  <2> QED
    BY <2>1 DEF Next, Start, Crash, Publish, Tick, vars
<1> QED
  BY <1>1, <1>4, OneRunnerInvariant, PTL
  DEF Spec, ImplementsRawStore, Raw!Spec
=============================================================================
