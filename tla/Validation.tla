----------------------------- MODULE Validation -----------------------------
(***************************************************************************)
(* Batch validation: the rules of the five datasets, the split of each     *)
(* dataset into valid and quarantined rows, the quality scores and the     *)
(* status of the run.  A rule is a record naming its category, its         *)
(* severity, the rows that fail it and the number of failures; a rule      *)
(* whose inputs are missing is SKIPPED, which is a rule nothing fails.     *)
(* Parents are the RAW frames validated before, quarantined rows included. *)
(***************************************************************************)
EXTENDS Frames

CONSTANTS Now,              \* the tick at which the validation run starts
          FutureTolerance,  \* ticks a timestamp may lie ahead of it
          MaxAge            \* ticks after which popularity is no longer fresh

ASSUME ValidationConfiguration == {Now, FutureTolerance, MaxAge} \subseteq Nat

Rule(id, category, severity, failed) ==
    [id |-> id, category |-> category, severity |-> severity, failed |-> failed,
     count |-> Cardinality(failed)]
DatasetRule(id, severity, failed, count) ==
    [id |-> id, category |-> "Schema", severity |-> severity, failed |-> failed,
     count |-> count]

\* The rows of f that are bad, unless a column the rule reads is missing.
Failing(f, columns, Bad(_)) ==
    IF columns \cap f.missing # {} THEN {}
    ELSE {i \in DOMAIN f.rows : Bad(f.rows[i])}

(* The rules of every dataset. *)

required_columns(d, f) ==
    DatasetRule(<<"SCHEMA_REQUIRED_COLUMNS">>, "ERROR",
                IF f.missing = {} THEN {} ELSE DOMAIN f.rows, Cardinality(f.missing))
unexpected_columns(f) ==
    DatasetRule(<<"SCHEMA_UNEXPECTED_COLUMNS">>, "WARNING", {}, f.extra)
non_empty(f) ==
    DatasetRule(<<"NON_EMPTY">>, "ERROR", {}, IF f.rows = <<>> THEN 1 ELSE 0)

SameRow(d, f, i, j) ==
    \A c \in Columns(d) \ f.missing : f.rows[i][c] = f.rows[j][c]
duplicate_rows(d, f) ==
    Rule(<<"DUPLICATE_ROWS">>, "Uniqueness", "ERROR",
         {i \in DOMAIN f.rows : \E j \in DOMAIN f.rows \ {i} : SameRow(d, f, i, j)})

required_value(d, f, c) ==
    Rule(<<c, "REQUIRED">>, "Completeness", "ERROR",
         Failing(f, {c}, LAMBDA r : blank(r[c])))

business_key_unique(d, f) ==
    LET c == business_key(d)
    IN  Rule(<<c, "UNIQUE">>, "Uniqueness", "ERROR",
             IF c \in f.missing THEN {}
             ELSE {i \in DOMAIN f.rows :
                      \E j \in DOMAIN f.rows \ {i} : f.rows[i][c] = f.rows[j][c]})

common_rules(d, f) ==
    {required_columns(d, f), unexpected_columns(f), non_empty(f),
     duplicate_rows(d, f), business_key_unique(d, f)}
        \cup {required_value(d, f, c) : c \in required_value_columns(d)}

(* The reusable column rules. *)

positive_integer(f, c) ==
    Rule(<<c, "POSITIVE_INTEGER">>, "Format", "ERROR",
         Failing(f, {c}, LAMBDA r : IF whole(r[c]) THEN r[c] <= 0 ELSE TRUE))

nonnegative_integer(f, c) ==
    Rule(<<c, "NONNEGATIVE">>, "Range", "ERROR",
         Failing(f, {c}, LAMBDA r : IF whole(r[c]) THEN r[c] < 0 ELSE TRUE))

\* A mutant: the upper bound is off by one.
numeric_range_off_by_one(f, c, lo, hi) ==
    Rule(<<c, "RANGE">>, "Range", "ERROR",
         Failing(f, {c}, LAMBDA r : IF whole(r[c]) THEN r[c] < lo \/ r[c] > hi + 1 ELSE TRUE))

\* Range rules read columns that hold whole numbers of their unit; a fraction
\* can only reach the one that requires an integer.
numeric_range(f, c, lo, hi) ==
    Rule(<<c, "RANGE">>, "Range", "ERROR",
         Failing(f, {c}, LAMBDA r : IF whole(r[c]) THEN r[c] < lo \/ r[c] > hi ELSE TRUE))

\* A rated record needs a rating on the scale, an unrated one the value 0.
rating_with_unrated(f, unit) ==
    Rule(<<"AVERAGE_RATING_RANGE">>, "Range", "ERROR",
         Failing(f, {"average_rating", "total_ratings"}, LAMBDA r :
            LET rating == r.average_rating
                count == r.total_ratings
            IN  CASE ~number(count) -> TRUE
                  [] count = Fraction -> ~whole(rating) \/ rating \notin unit..(5 * unit)
                  [] OTHER ->
                        \/ count > 0 /\ (~whole(rating) \/ rating \notin unit..(5 * unit))
                        \/ count = 0 /\ rating # 0))

allowed(f, c, labels) ==
    Rule(<<c, "ALLOWED">>, "Format", "ERROR", Failing(f, {c}, LAMBDA r : r[c] \notin labels))

uuid(f, c) ==
    Rule(<<c, "UUID">>, "Format", "ERROR",
         Failing(f, {c}, LAMBDA r : r[c] \in {Blank, Garbled}))

\* A blank timestamp is the business of the REQUIRED rule alone.
timestamp(f, c) ==
    {Rule(<<c, "FORMAT">>, "Format", "ERROR", Failing(f, {c}, LAMBDA r : r[c] = Garbled)),
     Rule(<<c, "NOT_FUTURE">>, "Range", "ERROR",
          Failing(f, {c}, LAMBDA r : number(r[c]) /\ r[c] > Now + FutureTolerance))}

\* A mutant: the child is looked up in itself instead of in its parent.
foreign_key_to_itself(d, f, c, parent, pf) ==
    Rule(<<c, "REFERENCE">>, "Referential Integrity", "ERROR",
         Failing(f, {c}, LAMBDA r : \A j \in DOMAIN f.rows : f.rows[j][c] # r[c]))

\* The values are compared as they were read: a text column never equals a
\* numeric one, so every row of the child, or of all children, is an orphan.
foreign_key(d, f, c, parent, pf) ==
    Rule(<<c, "REFERENCE">>, "Referential Integrity", "ERROR",
         IF c \in f.missing \cup pf.missing THEN {}
         ELSE {i \in DOMAIN f.rows :
                  \/ TextColumn(d, f, c) # TextColumn(parent, pf, c)
                  \/ \A j \in DOMAIN pf.rows :
                        \/ blank(pf.rows[j][c])
                        \/ pf.rows[j][c] # f.rows[i][c]})

(* The rules of each dataset. *)

users_rules(f) ==
    {positive_integer(f, "user_id"), numeric_range(f, "age", 1, 120),
     allowed(f, "gender", {"M", "F"}),
     allowed(f, "customer_segment", {"Premium", "Gold", "Silver", "Standard"})}
        \cup timestamp(f, "registration_date")

products_rules(f, unit) ==
    {positive_integer(f, "product_id"), rating_with_unrated(f, unit),
     nonnegative_integer(f, "total_ratings"),
     Rule(<<"PRICE_POSITIVE">>, "Range", "ERROR",
          Failing(f, {"price"}, LAMBDA r : IF number(r.price) THEN r.price < 1 ELSE TRUE))}
        \cup {Rule(<<c, "NOT_BLANK">>, "Completeness", "ERROR",
                   Failing(f, {c}, LAMBDA r : blank(r[c]))) :
                c \in {"product_name", "category", "brand"}}
        \cup timestamp(f, "release_date")

\* Within a session an event is out of order when the one before it in the
\* file is later; a user meets a product in a session by viewing it.
session_chronology(f) ==
    Rule(<<"SESSION_CHRONOLOGY">>, "Consistency", "WARNING",
         IF {"session_id", "timestamp"} \cap f.missing # {} THEN {}
         ELSE {i \in DOMAIN f.rows :
                 LET same == {j \in 1..(i - 1) : f.rows[j].session_id = f.rows[i].session_id}
                 IN  /\ same # {} /\ ~blank(f.rows[i].session_id)
                     /\ number(f.rows[i].timestamp) /\ number(f.rows[Max(same)].timestamp)
                     /\ f.rows[i].timestamp < f.rows[Max(same)].timestamp})
session_sequence(f) ==
    LET columns == {"session_id", "product_id", "event_type"}
        Group(i) == {j \in DOMAIN f.rows :
                        /\ f.rows[j].session_id = f.rows[i].session_id
                        /\ f.rows[j].product_id = f.rows[i].product_id
                        /\ ~blank(f.rows[j].session_id) /\ ~blank(f.rows[j].product_id)}
        First(i) == LET typed == {j \in Group(i) : ~blank(f.rows[j].event_type)}
                    IN  IF typed = {} THEN Blank ELSE f.rows[Min(typed)].event_type
    IN  Rule(<<"SESSION_SEQUENCE">>, "Business Rules", "WARNING",
             IF columns \cap f.missing # {} THEN {}
             ELSE {i \in DOMAIN f.rows : First(i) # "View"})

clickstream_rules(f, users, products) ==
    {uuid(f, "event_id"), uuid(f, "session_id"), positive_integer(f, "user_id"),
     positive_integer(f, "product_id"),
     allowed(f, "event_type", {"View", "Wishlist", "AddToCart"}),
     foreign_key("clickstream", f, "user_id", "users", users),
     foreign_key("clickstream", f, "product_id", "products", products),
     session_chronology(f), session_sequence(f)}
        \cup timestamp(f, "timestamp")

\* The amount of an order is its quantity times the price in the raw catalog;
\* an unknown price or an unreadable number leaves nothing to compare.
amount_consistency(f, products) ==
    LET Known(r) == {j \in DOMAIN products.rows :
                        /\ products.rows[j].product_id = r.product_id
                        /\ number(products.rows[j].price)}
        Mismatch(r) ==
            /\ number(r.quantity) /\ number(r.amount) /\ Known(r) # {}
            /\ \A j \in Known(r) :
                  IF r.quantity = Fraction THEN TRUE
                  ELSE LET expected == r.quantity * products.rows[j].price
                       IN  r.amount \notin (expected - 1)..(expected + 1)
    IN  Rule(<<"AMOUNT_CONSISTENCY">>, "Consistency", "ERROR",
             IF \/ {"product_id", "price"} \cap products.missing # {}
                \/ TextColumn("purchasehistory", f, "product_id")
             THEN {} ELSE Failing(f, {"product_id", "quantity", "amount"}, Mismatch))

\* A mutant: the clicks of every user on the product.
MatchingClicksOfAnyone(f, clicks, r) ==
    {j \in DOMAIN clicks.rows : clicks.rows[j].product_id = r.product_id
                                /\ number(clicks.rows[j].timestamp)}

\* The clicks of the same user on the same product, as far as they were read
\* with the same types.
MatchingClicks(f, clicks, r) ==
    IF \E c \in {"user_id", "product_id"} :
          TextColumn("purchasehistory", f, c) # TextColumn("clickstream", clicks, c)
    THEN {}
    ELSE {j \in DOMAIN clicks.rows :
             /\ clicks.rows[j].user_id = r.user_id
             /\ clicks.rows[j].product_id = r.product_id
             /\ number(clicks.rows[j].timestamp)}

purchase_click_consistency(f, clicks) ==
    LET columns == {"user_id", "product_id", "purchase_timestamp"}
        skipped == {"user_id", "product_id", "timestamp"} \cap clicks.missing # {}
        Latest(r) == Max({clicks.rows[j].timestamp : j \in MatchingClicks(f, clicks, r)})
        Early(r) == /\ MatchingClicks(f, clicks, r) # {} /\ number(r.purchase_timestamp)
                    /\ r.purchase_timestamp < Latest(r)
    IN  {Rule(<<"CLICK_CHRONOLOGY">>, "Consistency", "ERROR",
              IF skipped THEN {} ELSE Failing(f, columns, Early)),
         Rule(<<"CLICK_CORRELATION">>, "Consistency", "WARNING",
              IF skipped THEN {}
              ELSE Failing(f, columns, LAMBDA r : MatchingClicks(f, clicks, r) = {}))}

purchase_rules(f, users, products, clicks) ==
    {uuid(f, "order_id"), positive_integer(f, "user_id"),
     positive_integer(f, "product_id"), numeric_range(f, "quantity", 1, 100),
     numeric_range(f, "rating", 1, 5),
     Rule(<<"AMOUNT_POSITIVE">>, "Range", "ERROR",
          Failing(f, {"amount"}, LAMBDA r : IF number(r.amount) THEN r.amount < 1 ELSE TRUE)),
     Rule(<<"MINIMUM_RATING">>, "Business Rules", "ERROR",
          Failing(f, {"rating"}, LAMBDA r : number(r.rating) /\ r.rating < 4)),
     foreign_key("purchasehistory", f, "user_id", "users", users),
     foreign_key("purchasehistory", f, "product_id", "products", products),
     amount_consistency(f, products)}
        \cup timestamp(f, "purchase_timestamp")
        \cup purchase_click_consistency(f, clicks)

\* Statistics may differ from the catalog's by a hundredth of a rating and by
\* no count.
product_statistics(f, products, unit) ==
    LET columns == {"product_id", "average_rating", "total_ratings"}
        tolerance == unit \div 100
        Differ(a, b, t) == number(a) /\ number(b) /\ a \notin (b - t)..(b + t)
        Mismatch(r) ==
            \E j \in DOMAIN products.rows :
               LET p == products.rows[j]
               IN  /\ p.product_id = r.product_id /\ ~blank(p.average_rating)
                   /\ \/ Differ(r.average_rating, p.average_rating, tolerance)
                      \/ Differ(r.total_ratings, p.total_ratings, 0)
    IN  Rule(<<"PRODUCT_STATISTICS">>, "Consistency", "ERROR",
             IF columns \cap products.missing # {} THEN {} ELSE Failing(f, columns, Mismatch))

popularity_rules(f, products, unit) ==
    {positive_integer(f, "product_id"), rating_with_unrated(f, unit),
     nonnegative_integer(f, "total_ratings"), numeric_range(f, "popularity_score", 0, 10000),
     allowed(f, "trend", {"UP", "DOWN"}),
     Rule(<<"FRESHNESS">>, "Range", "WARNING",
          Failing(f, {"updated_at"},
                  LAMBDA r : number(r.updated_at) /\ r.updated_at + MaxAge < Now)),
     foreign_key("popularity", f, "product_id", "products", products),
     product_statistics(f, products, unit)}
        \cup timestamp(f, "updated_at")

\* frames maps the datasets to what was read; a dataset sees its parents raw.
RulesOf(d, frames, unit) ==
    LET f == frames[d]
    IN  common_rules(d, f) \cup
        CASE d = "users" -> users_rules(f)
          [] d = "products" -> products_rules(f, unit)
          [] d = "clickstream" -> clickstream_rules(f, frames["users"], frames["products"])
          [] d = "purchasehistory" ->
                purchase_rules(f, frames["users"], frames["products"], frames["clickstream"])
          [] d = "popularity" -> popularity_rules(f, frames["products"], unit)

\* Looking a price up in a catalog that lists a product twice raises, and so
\* does joining its statistics: no rule reports it and the run ends.
LookupRaises(frames) ==
    LET products == frames["products"]
        purchases == frames["purchasehistory"]
        popularity == frames["popularity"]
        repeated == {p.product_id : p \in {products.rows[i] : i \in
                        {j \in DOMAIN products.rows : \E k \in DOMAIN products.rows \ {j} :
                            products.rows[k].product_id = products.rows[j].product_id}}}
    IN  /\ "product_id" \notin products.missing /\ repeated # {}
        /\ \/ /\ "price" \notin products.missing /\ purchases.rows # <<>>
              /\ {"product_id", "quantity", "amount"} \cap purchases.missing = {}
           \/ /\ {"average_rating", "total_ratings"} \cap products.missing = {}
              /\ {"product_id", "average_rating", "total_ratings"} \cap popularity.missing = {}
              /\ \E k \in DOMAIN popularity.rows : popularity.rows[k].product_id \in repeated

(* The split and the scores. *)

Errors(rules) == {r \in rules : r.severity = "ERROR"}
Quarantined(rules) == UNION {r.failed : r \in Errors(rules)}

KeepRows(rows, kept) ==
    LET order == InOrder(kept, LAMBDA i, j : i < j)
    IN  [k \in DOMAIN order |-> rows[order[k]]]

\* A mutant: a row counts against the category when it fails all its rules.
category_score_of_rows_failing_all(rules, categories, n) ==
    LET mine == {r \in Errors(rules) : r.category \in categories}
    IN  n - Cardinality({i \in 1..n : \A r \in mine : i \in r.failed})

\* The rows of n that no ERROR rule of the categories fails; a failed rule
\* that names no row takes them all.
category_score(rules, categories, n) ==
    LET mine == {r \in Errors(rules) : r.category \in categories}
    IN  IF \E r \in mine : r.count > 0 /\ r.failed = {} THEN 0
        ELSE n - Cardinality(UNION {r.failed : r \in mine})

\* The weighted score in hundredths of a point, 10000 for a flawless dataset.
calculate_quality_score(d, f, rules) ==
    LET n == Len(f.rows)
        columns == Cardinality(required_value_columns(d))
        Empty(c) == IF c \in f.missing THEN n
                    ELSE Cardinality({i \in DOMAIN f.rows : blank(f.rows[i][c])})
        filled == n * columns - SumOf([c \in required_value_columns(d) |-> Empty(c)])
        unique == category_score(rules, {"Uniqueness"}, n)
        valid == category_score(rules, {"Schema", "Range", "Format", "Business Rules"}, n)
        consistent == category_score(rules, {"Referential Integrity", "Consistency"}, n)
        weighted == 30 * filled + columns * (20 * unique + 30 * valid + 20 * consistent)
    IN  IF n = 0 THEN 0
        ELSE (200 * weighted + n * columns) \div (2 * n * columns)

validate(d, frames, unit) ==
    LET f == frames[d]
        rules == RulesOf(d, frames, unit)
        invalid == Quarantined(rules)
    IN  [valid |-> KeepRows(f.rows, DOMAIN f.rows \ invalid),
         invalid |-> invalid,
         failed |-> \E r \in Errors(rules) : r.count > 0,
         warned |-> \E r \in rules \ Errors(rules) : r.count > 0,
         score |-> calculate_quality_score(d, f, rules),
         critical |-> f.missing # {} \/ f.rows = <<>>]

\* results maps the datasets to what validate returned.
run_status(frames, results) ==
    IF \E d \in Datasets : ~frames[d].readable \/ results[d].critical THEN "FAILED"
    ELSE IF \E d \in Datasets : results[d].invalid # {} \/ results[d].failed
    THEN "COMPLETED_WITH_QUALITY_ISSUES" ELSE "SUCCESS"

\* A mutant: the weighted points are shared among the datasets.
overall_quality_score_per_dataset(frames, results) ==
    SumOf([d \in Datasets |-> results[d].score * Len(frames[d].rows)])
        \div Cardinality(Datasets)

overall_quality_score(frames, results) ==
    LET n == SumOf([d \in Datasets |-> Len(frames[d].rows)])
        points == SumOf([d \in Datasets |-> results[d].score * Len(frames[d].rows)])
    IN  IF n = 0 THEN 0 ELSE (2 * points + n) \div (2 * n)
=============================================================================
