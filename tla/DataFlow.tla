------------------------------ MODULE DataFlow ------------------------------
(***************************************************************************)
(* One batch from the MovieLens tables to the trained models: generation,  *)
(* damage done to the incoming files by the outside world, ingestion with  *)
(* the popularity API, validation, the quality gate, preparation, feature  *)
(* engineering and training.  Each stage is one action over the operators  *)
(* of its own module; a stage that raises ends the batch.                  *)
(***************************************************************************)
EXTENDS Generator, Validation, Preparation, Features, Training

CONSTANTS Sources,        \* source tables
          Offsets,        \* offsets of its ratings drawn for each source
          Quantities,     \* ordered quantities drawn for a batch
          Drifts,         \* changes of a rating drawn for the trend
          Damaged,        \* the sources whose incoming files may be damaged
          MaxDefects,     \* how many defects a batch may get
          StrictModes,    \* settings of the strict quality gate
          Appeals         \* what training may learn of users and items

ASSUME FlowConfiguration ==
    /\ Damaged \subseteq Sources /\ MaxDefects \in Nat
    /\ StrictModes \subseteq BOOLEAN /\ StrictModes # {}

\* read_csv types the source tables; every listed product is given a price.
ASSUME SourceTables ==
    /\ \A src \in Sources :
          /\ src.users \in Seq(Int) /\ src.items \in Seq(Int)
          /\ src.ratings \in Seq([user_id : Int, product_id : Int, rating : Int])
          /\ Loadable(src) => \A k \in DOMAIN src.items : Prices[src.items[k]] \in Nat
    /\ Quantities \subseteq Nat

\* Training gives a number to every listed user and product.
ASSUME LearnedAppeal ==
    \A src \in Sources : Loadable(src) =>
        \A appeal \in Appeals : \A k \in DOMAIN src.users : \A j \in DOMAIN src.items :
            appeal[src.users[k]][src.items[j]] \in Int

VARIABLES phase,      \* the last completed stage, or "stopped"
          reason,     \* why the batch stopped
          origin,     \* the source and the draw of the batch
          defects,    \* number of defects done to the incoming files
          files,      \* the incoming files, then the raw frames
          report,     \* what validation decided for each dataset
          prepared,   \* the prepared artifacts
          features,   \* the feature tables
          models      \* recommendations and metrics

vars == <<phase, reason, origin, defects, files, report, prepared, features, models>>

Nothing == <<>>

Init ==
    /\ phase = "idle" /\ reason = "" /\ origin = Nothing /\ defects = 0
    /\ files = Nothing /\ report = Nothing /\ prepared = Nothing
    /\ features = Nothing /\ models = Nothing

Stop(why) ==
    /\ phase' = "stopped" /\ reason' = why
    /\ UNCHANGED <<origin, defects, files, report, prepared, features, models>>

(* Generation. *)

\* The five files written for a source and a draw.
IncomingFiles(src, draw) ==
    LET products == generate_products(src)
    IN  [users |-> TableOf(generate_users(src)), products |-> TableOf(products),
         clickstream |-> TableOf(generate_clickstream(src, draw)),
         purchasehistory |-> TableOf(generate_purchases(src, draw)),
         popularity |-> TableOf(generate_popularity(products, draw))]

\* What ends a batch before a file of it is written.
GenerationErrors == {"MovieLensDataError", "click window", "purchase delay"}

Load(src) ==
    /\ phase = "idle" /\ ~Loadable(src)
    /\ Stop("MovieLensDataError")

Generate(src, draw) ==
    /\ phase = "idle" /\ Loadable(src)
    /\ IF Available <= 0 THEN Stop("click window")
       ELSE /\ \A i \in DOMAIN src.ratings : draw.offset[i] \in 0..Available
            /\ IF DelaysFit(src, draw)
               THEN /\ \A i \in Bought(src) : DelayDrawn(src, draw, i)
                    /\ phase' = "generated" /\ files' = IncomingFiles(src, draw)
                    /\ origin' = [src |-> src, draw |-> draw]
                    /\ UNCHANGED <<reason, defects, report, prepared, features, models>>
               ELSE Stop("purchase delay")

Draws(src) ==
    {[offset |-> offset, delay |-> delay, quantity |-> q, drift |-> drift] :
        offset \in Offsets[src], delay \in [Bought(src) -> MinDelay..MaxDelay],
        q \in Quantities, drift \in Drifts}

(* Damage to the incoming files: cells that break the contract of a column,  *)
(* lost or extra columns, repeated rows, files without rows or unparsable.   *)

Late == Now + FutureTolerance + 1
BadCells(d, c) ==
    CASE c \in {"product_name", "category", "brand", "occupation", "zipcode"} -> {Blank}
      [] c \in {"user_id", "product_id"} ->
            {Blank, Garbled, 0} \cup (IF d \in {"clickstream", "purchasehistory"}
                                      THEN {99, Fraction} ELSE {})
      [] c = "age" -> {Blank, Garbled, 0, 121}
      [] c = "price" -> {Blank, Garbled, 0}
      [] c = "average_rating" -> {Blank, Garbled, 1, 6 * RatingUnit}
      [] c = "total_ratings" -> {Blank, Garbled, -1}
      [] c = "quantity" -> {Blank, Garbled, Fraction, 0, 101}
      [] c = "amount" -> {Blank, Garbled, 0, 7}
      [] c = "rating" -> {Blank, Garbled, 3, 6}
      [] c = "popularity_score" -> {Blank, Garbled, 10001}
      [] c = "release_date" -> {Garbled, Late}
      [] c \in {"registration_date", "timestamp", "updated_at"} -> {Blank, Garbled, Late}
      [] c = "purchase_timestamp" -> {Blank, Garbled, Late, -1}
      [] OTHER -> {Blank, Garbled}

FileColumns(d) ==
    IF d = "popularity" THEN {"product_id", "popularity_score", "trend", "updated_at"}
    ELSE Columns(d)

MayDamage(d) ==
    /\ phase = "generated" /\ defects < MaxDefects /\ origin.src \in Damaged
    /\ files[d].rows # <<>>
Damage(d, table) ==
    /\ files' = [files EXCEPT ![d] = table]
    /\ defects' = defects + 1
    /\ UNCHANGED <<phase, reason, origin, report, prepared, features, models>>

SpoilCell(d, i, c, v) ==
    /\ MayDamage(d) /\ i \in DOMAIN files[d].rows
    /\ v \in BadCells(d, c) /\ files[d].rows[i][c] # v
    /\ Damage(d, [files[d] EXCEPT !.rows[i][c] = v])
RepeatRow(d, i) ==
    /\ MayDamage(d) /\ i \in DOMAIN files[d].rows
    /\ Damage(d, [files[d] EXCEPT !.rows = Append(files[d].rows, files[d].rows[i])])
LoseColumn(d, c) ==
    /\ MayDamage(d)
    /\ Damage(d, [files[d] EXCEPT !.missing = files[d].missing \cup {c}])
AddColumn(d) ==
    /\ MayDamage(d)
    /\ Damage(d, [files[d] EXCEPT !.extra = 1])
EmptyFile(d) ==
    /\ MayDamage(d)
    /\ Damage(d, [files[d] EXCEPT !.rows = <<>>])
\* Only CSV: ingestion itself parses the JSON files and stores none it cannot.
BreakSyntax(d) ==
    /\ MayDamage(d) /\ d \in {"users", "clickstream", "purchasehistory"}
    /\ Damage(d, Unread(d))

(* Ingestion stores the files and the answer of the popularity API; a failed *)
(* fetch leaves a batch that is not SUCCESS and that validation never takes. *)

\* A JSON array without records has no columns either.
AsRead(d, table) ==
    IF d \in {"products", "popularity"} /\ table.rows = <<>>
    THEN [table EXCEPT !.missing = Columns(d)] ELSE table
RawFrames(incoming) ==
    LET answer == TableOf(list_popularity(incoming["products"], incoming["popularity"]))
    IN  [d \in Datasets |->
            AsRead(d, IF d = "popularity" THEN answer ELSE incoming[d])]

Ingest ==
    /\ phase = "generated"
    /\ IF ServiceRefuses(files["products"], files["popularity"]) THEN Stop("popularity")
       ELSE /\ phase' = "ingested" /\ files' = RawFrames(files)
            /\ UNCHANGED <<reason, origin, defects, report, prepared, features, models>>

(* Validation and the quality gate. *)

ValidateBatch ==
    /\ phase = "ingested"
    /\ IF LookupRaises(files) THEN Stop("duplicate product")
       ELSE LET results == [d \in Datasets |-> validate(d, files, RatingUnit)]
            IN  /\ phase' = "validated"
                /\ report' = [results |-> results, status |-> run_status(files, results),
                              score |-> overall_quality_score(files, results)]
                /\ UNCHANGED <<reason, origin, defects, files, prepared, features, models>>

InvalidRecords == SumOf([d \in Datasets |-> Cardinality(report.results[d].invalid)])

QualityGate(strict) ==
    /\ phase = "validated"
    /\ IF report.status = "FAILED" THEN Stop("validation failed")
       ELSE IF strict /\ (report.status # "SUCCESS" \/ InvalidRecords > 0)
       THEN Stop("strict quality")
       ELSE /\ phase' = "accepted"
            /\ UNCHANGED <<reason, origin, defects, files, report, prepared, features, models>>

(* Preparation, features and training. *)

ValidRows == [d \in Datasets |-> report.results[d].valid]

\* No valid product leaves an empty array, whose required columns are missing.
Prepare ==
    /\ phase = "accepted"
    /\ IF ValidRows["products"] = <<>> THEN Stop("DatasetPreparationError")
       ELSE IF SplitRefuses(Cardinality(build_interactions(ValidRows)))
       THEN Stop("DataSplitError")
       ELSE /\ phase' = "prepared" /\ prepared' = prepare_frames(ValidRows)
            /\ UNCHANGED <<reason, origin, defects, files, report, features, models>>

\* compute_all_features; where the neighbour search may return several sets,
\* any of them.
Engineer ==
    /\ phase = "prepared"
    /\ LET events == select_feature_events(prepared)
           items == {e.product_id : e \in events}
           cooccurrence == compute_cooccurrence(events)
       IN  IF CatalogRaises(events, prepared.products) THEN Stop("KeyError")
           ELSE \E near \in [items -> SUBSET items] :
                  /\ \A i \in items : near[i] \in Neighborhoods(events, i)
                  /\ phase' = "engineered"
                  /\ features' =
                        [events |-> events, reference |-> Reference(events),
                         users |-> compute_user_features(events, prepared.users),
                         items |-> compute_item_features(events, prepared.products),
                         user_items |-> compute_user_item_features(events, prepared.products),
                         cooccurrence |-> cooccurrence,
                         similarity |-> [i \in items |->
                            RankedSimilar(events, prepared.products, cooccurrence, i, near[i])]]
                  /\ UNCHANGED <<reason, origin, defects, files, report, prepared, models>>

Catalog == DOMAIN features.items

Train(appeal) ==
    /\ phase = "engineered"
    /\ LET train == prepared.split.train
           test == prepared.split.test
           own == CollaborativeLists(train, test, appeal)
           content == ContentLists(train, test, Catalog, appeal)
       IN  IF TrainingRaises(train, test, Catalog) THEN Stop("training")
           ELSE /\ phase' = "trained"
                /\ models' = [lists |-> [collaborative |-> own, content_based |-> content],
                              metrics |-> [collaborative |-> ranking_metrics(own, test, Catalog),
                                           content_based |-> ranking_metrics(content, test, Catalog)],
                              winner |-> compare_models(ranking_metrics(own, test, Catalog),
                                                        ranking_metrics(content, test, Catalog))]
                /\ UNCHANGED <<reason, origin, defects, files, report, prepared, features>>

Next ==
    \/ \E src \in Sources : Load(src)
    \/ \E src \in Sources : \E draw \in Draws(src) : Generate(src, draw)
    \/ \E d \in Datasets : \E c \in FileColumns(d) :
          \E i \in 1..9 : \E v \in BadCells(d, c) : SpoilCell(d, i, c, v)
    \/ \E d \in Datasets : \E i \in 1..9 : RepeatRow(d, i)
    \/ \E d \in Datasets : \E c \in FileColumns(d) : LoseColumn(d, c)
    \/ \E d \in Datasets : AddColumn(d) \/ EmptyFile(d) \/ BreakSyntax(d)
    \/ Ingest
    \/ ValidateBatch
    \/ \E strict \in StrictModes : QualityGate(strict)
    \/ Prepare
    \/ Engineer
    \/ \E appeal \in Appeals : Train(appeal)

Spec == Init /\ [][Next]_vars

(***************************************************************************)
(* Properties                                                              *)
(***************************************************************************)

STATUSES == {"SUCCESS", "COMPLETED_WITH_QUALITY_ISSUES", "FAILED"}
RowsOf(table) == {table.rows[k] : k \in DOMAIN table.rows}
IdsOf(rows, c) == {r[c] : r \in rows}

\* The frames of the batch had nothing happened to its files.
Clean == RawFrames(IncomingFiles(origin.src, origin.draw))

ItemIds(src) == {src.items[k] : k \in DOMAIN src.items}

\* What the loader does not check of a source and MovieLens 100k keeps: positive
\* identifiers, and one rating for a user and a product.  The generator gives
\* every product a positive price, a category and a brand.
FitsSource(src) ==
    /\ \A k \in DOMAIN src.users : src.users[k] > 0
    /\ \A p \in ItemIds(src) :
          p > 0 /\ Prices[p] > 0 /\ Categories[p] # Blank /\ Brands[p] # Blank
    /\ \A i, j \in DOMAIN src.ratings :
          /\ src.ratings[i].user_id = src.ratings[j].user_id
          /\ src.ratings[i].product_id = src.ratings[j].product_id
          => i = j

\* The configurations fit together, though no code compares them before it runs:
\* the click window is longer than the shortest delay, validation runs while the
\* reference time of the generator is neither in its future nor too old, it
\* accepts the quantities ordered, and the split leaves something to train on.
Fits ==
    /\ Available > 0
    /\ ReferenceTime <= Now + FutureTolerance /\ Now <= ReferenceTime + MaxAge
    /\ Quantities \subseteq 1..100
    /\ MinimumRecords >= 3 /\ ValidationPercent + TestPercent <= 66
    /\ \A src \in Sources : Loadable(src) => FitsSource(src)

\* Every phase holds the artifacts of the stages before it, and a report
\* gives each dataset a status and scores on the scale.
TypeOK ==
    /\ phase \in {"idle", "generated", "ingested", "validated", "accepted", "prepared",
                  "engineered", "trained", "stopped"}
    /\ (phase = "stopped") = (reason # "")
    /\ defects \in 0..MaxDefects
    /\ phase \in {"generated", "ingested"} =>
          \A d \in Datasets : files[d].missing \subseteq Columns(d)
    /\ report # Nothing =>
          /\ report.status \in STATUSES /\ report.score \in 0..10000
          /\ \A d \in Datasets : /\ report.results[d].score \in 0..10000
                                 /\ report.results[d].invalid \subseteq DOMAIN files[d].rows

\* What the generator writes is what the validator demands: an undamaged
\* batch breaks no rule, not even a warning, and scores 100 everywhere.  Only
\* a source in which nobody gave a 4 or a 5 fails, having no purchase.
CleanBatchPasses ==
    phase = "validated" /\ defects = 0 =>
        /\ report.status = IF Bought(origin.src) = {} THEN "FAILED" ELSE "SUCCESS"
        /\ \A d \in Datasets : /\ ~report.results[d].warned
                               /\ files[d].rows # <<>> => report.results[d].score = 10000

\* No stage raises on an undamaged batch of a click window with room for clicks: the
\* generator always finds room for the delay of a purchase, the API serves it, the gate takes it even when
\* strict, the split has enough records and the features find every product.
CleanBatchFlows ==
    phase = "stopped" /\ defects = 0 /\ reason # "training" =>
        \/ reason = "MovieLensDataError"
        \/ reason = "validation failed" /\ Bought(origin.src) = {}
        \/ reason = "DataSplitError"
              /\ Len(files["clickstream"].rows) + Len(files["purchasehistory"].rows)
                    < MinimumRecords

\* The rules and the generator agree on what a row is: whatever one defect
\* did to the files, a row that passes validation is a row the generator made.
ValidRowsAreTrue ==
    phase = "validated" =>
        \A d \in Datasets : \A k \in DOMAIN report.results[d].valid :
            report.results[d].valid[k] \in RowsOf(Clean[d])

\* The rows of a dataset that were changed, lost or repeated.
Marked(d) ==
    ((RowsOf(files[d]) \cup RowsOf(Clean[d])) \ (RowsOf(files[d]) \cap RowsOf(Clean[d])))
        \cup {r \in RowsOf(files[d]) :
                 Cardinality({i \in DOMAIN files[d].rows : files[d].rows[i] = r}) > 1}
Keys(r) == {<<c, r[c]>> : c \in {"user_id", "product_id", "event_id", "order_id"} \cap DOMAIN r}

\* A defect spreads along the keys only: a quarantined row shares an
\* identifier with a row that was changed, lost or repeated.  Two defects take
\* more with them: a lost column, and text among the identifiers of a CSV
\* file, which types the whole column as text.
ContaminationIsLocal ==
    /\ phase = "validated"
    /\ \A d \in Datasets : \A c \in {"user_id", "product_id"} \cap Columns(d) :
          ~TextColumn(d, files[d], c)
    => \A d \in Datasets : \A i \in report.results[d].invalid :
          \/ files[d].missing # {}
          \/ \E e \in Datasets : \E q \in Marked(e) :
                Keys(q) \cap Keys(files[d].rows[i]) # {}

\* A score is rounded to a hundredth of a point, and one blank cell takes the
\* thirty points of completeness from one row in one column: as many required
\* cells as this hide a failure in the rounding.
HidingSize == 6000

\* The score and the verdict agree: a dataset that failed no ERROR rule of any
\* category scores 100, whichever rows and ratios the categories count, and one
\* that failed does not, unless it is large enough to hide the failure.
ScoreAgreesWithVerdict ==
    phase = "validated" =>
        \A d \in Datasets :
            LET cells == Len(files[d].rows) * Cardinality(required_value_columns(d))
                flawless == report.results[d].score = 10000
            IN  /\ ~report.results[d].failed => flawless
                /\ report.results[d].failed /\ cells < HidingSize => ~flawless

\* Feature engineering stops on a lookup only for a product that validation
\* quarantined while its clicks or purchases, which refer to the raw catalog,
\* stayed valid; never for a product the raw catalog lacks.
LookupFailsForQuarantinedProduct ==
    phase = "stopped" /\ reason = "KeyError" =>
        LET known == IdsOf({ValidRows["products"][k] : k \in DOMAIN ValidRows["products"]},
                           "product_id")
            lacking == IdsOf(select_feature_events(prepared), "product_id") \ known
        IN  lacking # {} /\ lacking \subseteq IdsOf(RowsOf(files["products"]), "product_id")

\* Every copy of a product that the raw catalog lists twice is quarantined.
CopiesAreQuarantined ==
    /\ phase \notin {"idle", "generated", "ingested"}
    /\ reason \notin GenerationErrors \cup {"popularity"}
    => \A i, j \in DOMAIN files["products"].rows :
          i # j /\ files["products"].rows[i].product_id = files["products"].rows[j].product_id
          => report # Nothing /\ {i, j} \subseteq report.results["products"].invalid

HeldOutEvents == prepared.split.validation \cup prepared.split.test

\* No leakage through the events: every interaction that the features and the
\* feature reference time are computed from lies before every held-out one, and
\* the three partitions are all interactions, each in one.  What the features
\* take from the catalog is the subject of CatalogFeaturesSeeOnlyThePast.
EventFeaturesSeeOnlyThePast ==
    phase \in {"engineered", "trained"} =>
        /\ \A h \in HeldOutEvents :
              /\ features.reference <= h.event_timestamp
              /\ \A pair \in DOMAIN features.user_items :
                    features.user_items[pair].last <= h.event_timestamp
        /\ features.events \cap HeldOutEvents = {}
        /\ prepared.split.train \cup HeldOutEvents = prepared.interactions
        /\ Cardinality(prepared.interactions) =
              Cardinality(prepared.split.train) + Cardinality(prepared.split.validation)
                 + Cardinality(prepared.split.test)

\* The popularity the generator would have given the products at a time, from
\* the ratings that were given by then.
PopularityAt(time) ==
    LET ratings == origin.src.ratings
        given == InOrder({i \in DOMAIN ratings : origin.draw.offset[i] <= time},
                         LAMBDA i, j : i < j)
        past == [origin.src EXCEPT !.ratings = [k \in DOMAIN given |-> ratings[given[k]]]]
    IN  generate_popularity(generate_products(past), origin.draw)

\* No leakage through the catalog: the popularity among the features of an item
\* counts no rating that was given after the feature reference time.
CatalogFeaturesSeeOnlyThePast ==
    phase = "engineered" /\ defects = 0 =>
        LET known == PopularityAt(features.reference)
        IN  \A k \in DOMAIN known :
               features.items[known[k].product_id].external_popularity
                  = known[k].popularity_score

\* The three feature tables count the same interactions: the totals of the
\* pairs and of the items are the number of events, and the totals of the
\* users are the events of the users validation kept.
CountsBalance ==
    phase = "engineered" /\ Cardinality(IdsOf(features.events, "product_id")) > 1 =>
        LET Total(table) ==
                SumOf([k \in DOMAIN table |-> table[k].activity.total_interactions])
            kept == {e \in features.events : e.user_id \in DOMAIN features.users}
        IN  /\ Total(features.items) = Cardinality(features.events)
            /\ Total(features.user_items) = Cardinality(features.events)
            /\ Total(features.users) = Cardinality(kept)

\* A co-occurring pair counts the users for which both pair features exist, at
\* least as many as bought both; the similar items of an item are other items,
\* ranked by falling scores on the scale.
PairFeaturesAgree ==
    phase = "engineered" =>
        /\ \A p \in DOMAIN features.cooccurrence :
              LET both == {u \in IdsOf(features.events, "user_id") :
                              {<<u, p[1]>>, <<u, p[2]>>} \subseteq DOMAIN features.user_items}
              IN  /\ features.cooccurrence[p].count = Cardinality(both)
                  /\ features.cooccurrence[p].co_purchases <= Cardinality(both)
        /\ \A i \in DOMAIN features.similarity :
              LET ranked == features.similarity[i]
              IN  \A k \in DOMAIN ranked :
                     /\ ranked[k].product_id # i
                     /\ ranked[k].score \in MinSimilarity..100
                     /\ k > 1 => ranked[k].score <= ranked[k - 1].score

\* The feature tables, each computed on its own from one selection of events,
\* agree with each other.
FeatureTablesAgree == CountsBalance /\ PairFeaturesAgree

\* Nobody is recommended what the model knows he has: rated items for the
\* collaborative model, items touched in any way for the content model; no
\* item comes twice.  Both recommend items of the catalog, except that the
\* collaborative model, which never looks into it, offers a product that
\* validation quarantined when nobody touched any other: the features of one
\* item have no neighbour to look up and let it pass.
RecommendsUnseenOnly ==
    phase = "trained" =>
        \A model \in DOMAIN models.lists : \A u \in DOMAIN models.lists[model] :
            LET shown == {models.lists[model][u][k] : k \in DOMAIN models.lists[model][u]}
                mine == {e \in prepared.split.train : e.user_id = u}
                owned == IF model = "content_based" THEN mine
                         ELSE {e \in mine : e.interaction_type = "Purchase"}
                touched == IdsOf(features.events, "product_id")
            IN  /\ shown \cap IdsOf(owned, "product_id") = {}
                /\ Cardinality(shown) = Len(models.lists[model][u])
                /\ \/ shown \subseteq Catalog
                   \/ model = "collaborative" /\ shown = touched /\ Cardinality(touched) = 1

\* The metrics are shares, and none of those that reward a hit exceeds the
\* share of users that got one.
MetricsAreShares ==
    phase = "trained" =>
        \A model \in DOMAIN models.metrics :
            LET m == models.metrics[model]
            IN  /\ m.hit_rate \in 0..10000 /\ m.coverage \in 0..10000
                /\ {m.precision, m.recall, m.map, m.ndcg} \subseteq 0..m.hit_rate
=============================================================================
