------------------------ MODULE DataFlowOutputProofs ------------------------
(***************************************************************************)
(* What the batch leaves for others to use: recommendations of products    *)
(* the user has not seen, metrics that are shares of what they measure,    *)
(* and feature tables that agree with each other and with the prepared     *)
(* interactions.                                                           *)
(*                                                                         *)
(* The rows that validation kept satisfy every rule, so the tables name    *)
(* users and products of one source; the rest is about ordered lists, sums *)
(* and roots.                                                              *)
(***************************************************************************)
EXTENDS DataFlowResultProofs, SequenceTheorems

-----------------------------------------------------------------------------
(***************************************************************************)
(* The rows that validation kept.                                          *)
(***************************************************************************)

\* Further rules that a kept row passes.
LEMMA MoreRulesApply ==
    ASSUME NEW f, NEW d \in EventData, NEW i, i \notin Quarantined(RulesOf(d, f, RatingUnit))
    PROVE  /\ i \notin positive_integer(f[d], "user_id").failed
           /\ i \notin positive_integer(f[d], "product_id").failed
           /\ i \notin foreign_key(d, f[d], "user_id", "users", f["users"]).failed
           /\ d = "clickstream" =>
                i \notin allowed(f[d], "event_type", {"View", "Wishlist", "AddToCart"}).failed
           /\ d = "purchasehistory" => i \notin numeric_range(f[d], "rating", 1, 5).failed
<1> DEFINE rules == RulesOf(d, f, RatingUnit)
           r1 == positive_integer(f[d], "user_id")
           r2 == positive_integer(f[d], "product_id")
           r3 == foreign_key(d, f[d], "user_id", "users", f["users"])
           r4 == allowed(f[d], "event_type", {"View", "Wishlist", "AddToCart"})
           r5 == numeric_range(f[d], "rating", 1, 5)
<1>1. /\ r1 \in rules /\ r2 \in rules /\ r3 \in rules
      /\ (d = "clickstream" => r4 \in rules) /\ (d = "purchasehistory" => r5 \in rules)
  <2>1. CASE d = "clickstream"
    <3> DEFINE own == clickstream_rules(f[d], f["users"], f["products"])
    <3>1. own \subseteq rules
      BY <2>1 DEF RulesOf
    <3>2. {r1, r2, r3, r4} \subseteq own
      BY <2>1 DEF clickstream_rules
    <3> QED
      BY <2>1, <3>1, <3>2
  <2>2. CASE d = "purchasehistory"
    <3> DEFINE own == purchase_rules(f[d], f["users"], f["products"], f["clickstream"])
    <3>1. own \subseteq rules
      BY <2>2 DEF RulesOf
    <3>2. {r1, r2, r3, r5} \subseteq own
      BY <2>2 DEF purchase_rules
    <3> QED
      BY <2>2, <3>1, <3>2
  <2> QED
    BY <2>1, <2>2 DEF EventData
<1>2. /\ r1.severity = "ERROR" /\ r2.severity = "ERROR" /\ r3.severity = "ERROR"
      /\ r4.severity = "ERROR" /\ r5.severity = "ERROR"
  BY DEF Rule, positive_integer, foreign_key, allowed, numeric_range
<1> HIDE DEF rules, r1, r2, r3, r4, r5
<1>3. /\ r1.failed \subseteq Quarantined(rules) /\ r2.failed \subseteq Quarantined(rules)
      /\ r3.failed \subseteq Quarantined(rules)
      /\ (d = "clickstream" => r4.failed \subseteq Quarantined(rules))
      /\ (d = "purchasehistory" => r5.failed \subseteq Quarantined(rules))
  BY <1>1, <1>2, ErrorsQuarantine
<1>4. i \notin Quarantined(rules)
  BY DEF rules
<1> QED
  BY <1>3, <1>4 DEF r1, r2, r3, r4, r5

\* The rules that a kept product passes.
LEMMA ProductRulesApply ==
    ASSUME NEW f, NEW i, i \notin Quarantined(RulesOf("products", f, RatingUnit))
    PROVE  LET p == f["products"]
           IN  /\ i \notin positive_integer(p, "product_id").failed
               /\ i \notin rating_with_unrated(p, RatingUnit).failed
               /\ i \notin nonnegative_integer(p, "total_ratings").failed
               /\ i \notin Failing(p, {"price"}, LAMBDA r : IF number(r.price) THEN r.price < 1
                                                            ELSE TRUE)
<1> DEFINE p == f["products"]
           rules == RulesOf("products", f, RatingUnit)
           r1 == positive_integer(p, "product_id")
           r2 == rating_with_unrated(p, RatingUnit)
           r3 == nonnegative_integer(p, "total_ratings")
           r4 == Rule(<<"PRICE_POSITIVE">>, "Range", "ERROR",
                      Failing(p, {"price"}, LAMBDA r : IF number(r.price) THEN r.price < 1
                                                       ELSE TRUE))
<1>1. {r1, r2, r3, r4} \subseteq rules
  <2>1. products_rules(p, RatingUnit) \subseteq rules
    BY DEF RulesOf
  <2>2. {r1, r2, r3, r4} \subseteq products_rules(p, RatingUnit)
    BY DEF products_rules
  <2> QED
    BY <2>1, <2>2
<1>2. /\ r1.severity = "ERROR" /\ r2.severity = "ERROR" /\ r3.severity = "ERROR"
      /\ r4.severity = "ERROR"
      /\ r4.failed = Failing(p, {"price"}, LAMBDA r : IF number(r.price) THEN r.price < 1
                                                      ELSE TRUE)
  BY DEF Rule, positive_integer, rating_with_unrated, nonnegative_integer
<1> HIDE DEF rules, r1, r2, r3, r4
<1>3. /\ r1.failed \subseteq Quarantined(rules) /\ r2.failed \subseteq Quarantined(rules)
      /\ r3.failed \subseteq Quarantined(rules) /\ r4.failed \subseteq Quarantined(rules)
  BY <1>1, <1>2, ErrorsQuarantine
<1>4. i \notin Quarantined(rules)
  BY DEF rules
<1> QED
  BY <1>2, <1>3, <1>4 DEF r1, r2, r3

\* A kept event is one of a user and a product of the source.
LEMMA KeptEventOfSource ==
    ASSUME NEW src, NEW f, TablesOf(f, src), NEW d \in EventData,
           \A e \in Datasets : f[e].missing = {},
           NEW i \in DOMAIN f[d].rows, i \notin Quarantined(RulesOf(d, f, RatingUnit))
    PROVE  LET r == f[d].rows[i]
           IN  /\ r \in Rows(d)
               /\ r.user_id \in UserIds(src) /\ r.product_id \in ItemIds(src)
               /\ d = "clickstream" => r.event_type \in {"View", "Wishlist", "AddToCart"}
               /\ d = "purchasehistory" => r.rating \in 1..5 /\ r.rating # Blank
<1> DEFINE r == f[d].rows[i]
<1>1. f[d].missing = {} /\ f["users"].missing = {} /\ f["products"].missing = {}
  BY DEF EventData, Datasets
<1>2. /\ r \in Rows(d)
      /\ \E j \in DOMAIN f["products"].rows : f["products"].rows[j].product_id = r.product_id
  BY <1>1, KeptEvent DEF TablesOf
<1>3. whole(r.user_id) /\ ~(r.user_id <= 0) /\ whole(r.product_id) /\ ~(r.product_id <= 0)
  <2>1. /\ i \notin positive_integer(f[d], "user_id").failed
        /\ i \notin positive_integer(f[d], "product_id").failed
    BY MoreRulesApply
  <2>2. /\ positive_integer(f[d], "user_id").failed =
             {k \in DOMAIN f[d].rows : IF whole(f[d].rows[k]["user_id"])
                                       THEN f[d].rows[k]["user_id"] <= 0 ELSE TRUE}
        /\ positive_integer(f[d], "product_id").failed =
             {k \in DOMAIN f[d].rows : IF whole(f[d].rows[k]["product_id"])
                                       THEN f[d].rows[k]["product_id"] <= 0 ELSE TRUE}
    BY <1>1 DEF positive_integer, Rule, Failing
  <2> QED
    BY <2>1, <2>2
<1>4. \E j \in DOMAIN f["users"].rows : f["users"].rows[j].user_id = r.user_id
  <2> DEFINE Orphan(k) ==
               \/ TextColumn(d, f[d], "user_id") # TextColumn("users", f["users"], "user_id")
               \/ \A j \in DOMAIN f["users"].rows :
                     \/ blank(f["users"].rows[j]["user_id"])
                     \/ f["users"].rows[j]["user_id"] # f[d].rows[k]["user_id"]
  <2>1. foreign_key(d, f[d], "user_id", "users", f["users"]).failed
          = {k \in DOMAIN f[d].rows : Orphan(k)}
    BY <1>1 DEF foreign_key, Rule
  <2>2. i \notin {k \in DOMAIN f[d].rows : Orphan(k)}
    BY <2>1, MoreRulesApply
  <2>3. ~Orphan(i)
    BY <2>2
  <2> QED
    BY <2>3
<1>5. r.user_id \in UserIds(src)
  <2>1. PICK j \in DOMAIN f["users"].rows : f["users"].rows[j].user_id = r.user_id
    BY <1>4
  <2>2. f["users"].rows \in Seq(UserRows(src))
    BY DEF TablesOf
  <2> DEFINE rows == f["users"].rows
  <2>3. rows \in Seq(UserRows(src)) /\ j \in DOMAIN rows
    BY <2>2
  <2> HIDE DEF rows
  <2>4. rows[j] \in UserRows(src)
    BY <2>3
  <2>5. rows[j].user_id \in UserIds(src) \cup Odd \cup {0}
    BY <2>4 DEF UserRows
  <2>6. r.user_id \in UserIds(src) \cup Odd \cup {0}
    BY <2>1, <2>5 DEF rows
  <2>7. r.user_id \notin Odd /\ r.user_id # 0
    BY <1>3 DEF whole, Odd
  <2> QED
    BY <2>6, <2>7
<1>6. r.product_id \in ItemIds(src)
  <2>1. PICK j \in DOMAIN f["products"].rows : f["products"].rows[j].product_id = r.product_id
    BY <1>2
  <2>2. f["products"].rows \in Seq(ProductRows(src))
    BY DEF TablesOf
  <2> DEFINE rows == f["products"].rows
  <2>3. rows \in Seq(ProductRows(src)) /\ j \in DOMAIN rows
    BY <2>2
  <2> HIDE DEF rows
  <2>4. rows[j] \in ProductRows(src)
    BY <2>3
  <2>5. rows[j].product_id \in ItemIds(src) \cup Odd \cup {0}
    BY <2>4 DEF ProductRows
  <2>6. r.product_id \in ItemIds(src) \cup Odd \cup {0}
    BY <2>1, <2>5 DEF rows
  <2>7. r.product_id \notin Odd /\ r.product_id # 0
    BY <1>3 DEF whole, Odd
  <2> QED
    BY <2>6, <2>7
<1>7. ASSUME d = "clickstream" PROVE r.event_type \in {"View", "Wishlist", "AddToCart"}
  <2>1. i \notin allowed(f[d], "event_type", {"View", "Wishlist", "AddToCart"}).failed
    BY <1>7, MoreRulesApply
  <2> QED
    BY <1>1, <2>1 DEF allowed, Rule, Failing
<1>8. ASSUME d = "purchasehistory" PROVE r.rating \in 1..5 /\ r.rating # Blank
  <2>1. i \notin numeric_range(f[d], "rating", 1, 5).failed
    BY <1>8, MoreRulesApply
  <2>2. whole(r.rating) /\ ~(r.rating < 1) /\ ~(r.rating > 5)
    BY <1>1, <2>1 DEF numeric_range, Rule, Failing
  <2>3. r.rating \in Numbers
    BY <1>2, <1>8 DEF Rows, Orders
  <2>4. r.rating \in Int
    BY <2>2, <2>3 DEF whole, Numbers
  <2>5. r.rating # Blank
    BY <2>2 DEF whole
  <2> QED
    BY <2>2, <2>4, <2>5
<1> QED
  BY <1>2, <1>5, <1>6, <1>7, <1>8

\* A kept product is one of the source, with a price and a rating.
LEMMA KeptProduct ==
    ASSUME NEW src, NEW f, TablesOf(f, src), \A e \in Datasets : f[e].missing = {},
           NEW i \in DOMAIN f["products"].rows,
           i \notin Quarantined(RulesOf("products", f, RatingUnit))
    PROVE  LET p == f["products"].rows[i]
           IN  /\ p.product_id \in ItemIds(src) /\ p.price \in Nat
               /\ p.average_rating \in Int
<1> DEFINE rows == f["products"].rows
           p == f["products"].rows[i]
<1>1. f["products"].missing = {} /\ rows \in Seq(ProductRows(src)) /\ i \in DOMAIN rows
  BY DEF TablesOf, Datasets
<1>2. p \in ProductRows(src)
  <2> HIDE DEF rows
  <2>1. rows[i] \in ProductRows(src)
    BY <1>1
  <2> QED
    BY <2>1 DEF rows
<1>3. /\ p.product_id \in ItemIds(src) \cup Odd \cup {0} /\ p.price \in Times
      /\ p.average_rating \in Times /\ p.total_ratings \in Times
  BY <1>2 DEF ProductRows
<1>4. whole(p.product_id) /\ ~(p.product_id <= 0)
  <2>1. i \notin positive_integer(f["products"], "product_id").failed
    BY ProductRulesApply
  <2> QED
    BY <1>1, <2>1 DEF positive_integer, Rule, Failing
<1>5. number(p.price) /\ ~(p.price < 1)
  <2>1. i \notin Failing(f["products"], {"price"}, LAMBDA r : IF number(r.price) THEN r.price < 1
                                                              ELSE TRUE)
    BY ProductRulesApply
  <2> QED
    BY <1>1, <2>1 DEF Failing
<1>6. whole(p.total_ratings) /\ ~(p.total_ratings < 0)
  <2>1. i \notin nonnegative_integer(f["products"], "total_ratings").failed
    BY ProductRulesApply
  <2> QED
    BY <1>1, <2>1 DEF nonnegative_integer, Rule, Failing
<1>7. \/ whole(p.average_rating)
      \/ p.total_ratings = 0 /\ p.average_rating = 0
  <2> DEFINE Unfit(r) ==
               LET rating == r.average_rating
                   count == r.total_ratings
               IN  CASE ~number(count) -> TRUE
                     [] count = Fraction ->
                           ~whole(rating) \/ rating \notin RatingUnit..(5 * RatingUnit)
                     [] OTHER ->
                           \/ count > 0
                              /\ (~whole(rating) \/ rating \notin RatingUnit..(5 * RatingUnit))
                           \/ count = 0 /\ rating # 0
  <2>1. i \notin rating_with_unrated(f["products"], RatingUnit).failed
    BY ProductRulesApply
  <2>2. rating_with_unrated(f["products"], RatingUnit).failed = {k \in DOMAIN rows : Unfit(rows[k])}
    BY <1>1 DEF rating_with_unrated, Rule, Failing
  <2>3. ~Unfit(p)
    BY <1>1, <2>1, <2>2
  <2>4. number(p.total_ratings) /\ p.total_ratings # Fraction /\ p.total_ratings \in Int
    BY <1>3, <1>6 DEF whole, number, Times, Odd
  <2>5. ~(p.total_ratings > 0 /\ ~whole(p.average_rating))
        /\ ~(p.total_ratings = 0 /\ p.average_rating # 0)
    BY <2>3, <2>4
  <2>6. p.total_ratings > 0 \/ p.total_ratings = 0
    BY <1>6, <2>4
  <2> QED
    BY <2>5, <2>6
<1>8. p.price \in Nat
  <2>1. p.price \in Int
    BY <1>3, <1>5 DEF Times, Odd, number
  <2> QED
    BY <1>5, <2>1
<1>9. p.average_rating \in Int
  <2>1. whole(p.average_rating) => p.average_rating \in Int
    BY <1>3 DEF Times, Odd, whole
  <2> QED
    BY <1>7, <2>1
<1>10. p.product_id \in ItemIds(src)
  BY <1>3, <1>4 DEF whole, Odd
<1> QED
  BY <1>8, <1>9, <1>10

\* What validation keeps of a dataset are rows of it that fail no ERROR rule.
LEMMA ValidRowsOfFile ==
    ASSUME NEW src, NEW f, TablesOf(f, src), NEW rep, ReportsOn(rep, f),
           rep.status # "FAILED", NEW d \in Datasets
    PROVE  LET v == ValidOf(rep)[d]
           IN  /\ \A e \in Datasets : f[e].missing = {}
               /\ IsFiniteSet(DOMAIN v)
               /\ \A k \in DOMAIN v :
                     \E i \in DOMAIN f[d].rows :
                        i \notin Quarantined(RulesOf(d, f, RatingUnit)) /\ v[k] = f[d].rows[i]
<1> DEFINE v == ValidOf(rep)[d]
           rows == f[d].rows
           invalid == Quarantined(RulesOf(d, f, RatingUnit))
           kept == DOMAIN rows \ invalid
<1>1. ASSUME NEW e \in Datasets
      PROVE  f[e].missing = {}
  <2>1. ~rep.results[e].critical
    BY DEF ReportsOn, run_status
  <2>2. rep.results[e].critical = (f[e].missing # {} \/ f[e].rows = <<>>)
    BY DEF ReportsOn, validate
  <2> QED
    BY <2>1, <2>2
<1>2. v = KeepRows(rows, kept)
  BY DEF ValidOf, ReportsOn, validate
<1>3. PICK X : rows \in Seq(X)
  <2>1. ReadTable(d, f[d])
    BY TablesRead
  <2> QED
    BY <2>1 DEF ReadTable
<1>4. kept \in SUBSET DOMAIN rows
  OBVIOUS
<1>5. PICK o : /\ DOMAIN KeepRows(rows, kept) = 1..Cardinality(kept)
               /\ IsFiniteSet(kept)
               /\ \A k \in 1..Cardinality(kept) :
                     o[k] \in kept /\ KeepRows(rows, kept)[k] = rows[o[k]]
  <2> HIDE DEF rows, kept
  <2> QED
    BY <1>3, <1>4, KeptRows
<1>6. IsFiniteSet(1..Cardinality(kept))
  <2> HIDE DEF kept
  <2>1. Cardinality(kept) \in Int
    BY <1>5, FS_CardinalityType
  <2> QED
    BY <2>1, FirstNumbers
<1>7. IsFiniteSet(DOMAIN v)
  <2> HIDE DEF kept, v
  <2> QED
    BY <1>2, <1>5, <1>6
<1>8. ASSUME NEW k \in DOMAIN v
      PROVE  \E i \in DOMAIN rows : i \notin invalid /\ v[k] = rows[i]
  <2>1. k \in 1..Cardinality(kept)
    BY <1>2, <1>5
  <2>2. o[k] \in kept /\ v[k] = rows[o[k]]
    BY <1>2, <1>5, <2>1
  <2> QED
    BY <2>2
<1> QED
  BY <1>1, <1>7, <1>8

-----------------------------------------------------------------------------
(***************************************************************************)
(* The prepared tables and their source.                                   *)
(***************************************************************************)

\* An interaction of a user and a product of the source; those with a rating
\* are the purchases.
OfSource(e, src) ==
    /\ e.user_id \in UserIds(src) /\ e.product_id \in ItemIds(src)
    /\ e.interaction_type \in {"View", "Wishlist", "AddToCart", "Purchase"}
    /\ e.interaction_weight \in 1..5
    /\ e.interaction_type = "Purchase" => e.explicit_rating \in 1..5 /\ e.explicit_rating # Blank
    /\ e.interaction_type # "Purchase" => e.explicit_rating = Blank

\* The interactions of a batch are of its source.
LEMMA InteractionsOfSource ==
    ASSUME NEW src, NEW f, TablesOf(f, src), NEW rep, ReportsOn(rep, f),
           rep.status # "FAILED"
    PROVE  \A e \in build_interactions(ValidOf(rep)) : OfSource(e, src)
<1> DEFINE valid == ValidOf(rep)
           v == valid["clickstream"]
           w == valid["purchasehistory"]
<1>1. ASSUME NEW k \in DOMAIN v
      PROVE  OfSource(Click(v[k]), src)
  <2>1. PICK i \in DOMAIN f["clickstream"].rows :
           /\ i \notin Quarantined(RulesOf("clickstream", f, RatingUnit))
           /\ v[k] = f["clickstream"].rows[i]
    BY ValidRowsOfFile DEF Datasets
  <2>2. \A e \in Datasets : f[e].missing = {}
    BY ValidRowsOfFile
  <2>3. /\ v[k].user_id \in UserIds(src) /\ v[k].product_id \in ItemIds(src)
        /\ v[k].event_type \in {"View", "Wishlist", "AddToCart"}
    BY <2>1, <2>2, KeptEventOfSource DEF EventData
  <2> HIDE DEF v
  <2> QED
    BY <2>3 DEF OfSource, Click, Weights
<1>2. ASSUME NEW k \in DOMAIN w
      PROVE  OfSource(Order(w[k]), src)
  <2>1. PICK i \in DOMAIN f["purchasehistory"].rows :
           /\ i \notin Quarantined(RulesOf("purchasehistory", f, RatingUnit))
           /\ w[k] = f["purchasehistory"].rows[i]
    BY ValidRowsOfFile DEF Datasets
  <2>2. \A e \in Datasets : f[e].missing = {}
    BY ValidRowsOfFile
  <2>3. /\ w[k].user_id \in UserIds(src) /\ w[k].product_id \in ItemIds(src)
        /\ w[k].rating \in 1..5 /\ w[k].rating # Blank
    BY <2>1, <2>2, KeptEventOfSource DEF EventData
  <2> HIDE DEF w
  <2> QED
    BY <2>3 DEF OfSource, Order, Weights
<1> HIDE DEF valid
<1>3. build_interactions(valid) = {Click(v[k]) : k \in DOMAIN v} \cup {Order(w[k]) : k \in DOMAIN w}
  BY DEF build_interactions
<1> QED
  BY <1>1, <1>2, <1>3 DEF valid

\* So are the prepared products.
LEMMA CatalogOfSource ==
    ASSUME NEW src, NEW f, TablesOf(f, src), NEW rep, ReportsOn(rep, f),
           rep.status # "FAILED"
    PROVE  LET P == clean_products(ValidOf(rep))
           IN  /\ IsFiniteSet(P)
               /\ \A p \in P : /\ p.product_id \in ItemIds(src)
                               /\ p.price \in Nat /\ p.average_rating \in Int
<1> DEFINE valid == ValidOf(rep)
           v == valid["products"]
           Scores(id) == {valid["popularity"][k].popularity_score :
                             k \in {j \in DOMAIN valid["popularity"] :
                                       valid["popularity"][j].product_id = id}}
           Prepared(p) ==
               [product_id |-> p.product_id, category |-> p.category, brand |-> p.brand,
                price |-> p.price, average_rating |-> p.average_rating,
                popularity_score |-> IF Scores(p.product_id) = {} THEN Blank
                                     ELSE CHOOSE s \in Scores(p.product_id) : TRUE]
           g == [k \in DOMAIN v |-> Prepared(v[k])]
           P == clean_products(valid)
<1>1. P = {g[k] : k \in DOMAIN g}
  <2>1. P = {Prepared(p) : p \in {v[k] : k \in DOMAIN v}}
    BY DEF clean_products
  <2>2. \A k \in DOMAIN v : g[k] = Prepared(v[k])
    OBVIOUS
  <2>3. DOMAIN g = DOMAIN v
    OBVIOUS
  <2> HIDE DEF P, Prepared, v, g, Scores
  <2> QED
    BY <2>1, <2>2, <2>3
<1>2. IsFiniteSet(DOMAIN v)
  BY ValidRowsOfFile DEF Datasets
<1>3. ASSUME NEW k \in DOMAIN v
      PROVE  /\ g[k].product_id \in ItemIds(src)
             /\ g[k].price \in Nat /\ g[k].average_rating \in Int
  <2>1. PICK i \in DOMAIN f["products"].rows :
           /\ i \notin Quarantined(RulesOf("products", f, RatingUnit))
           /\ v[k] = f["products"].rows[i]
    BY ValidRowsOfFile DEF Datasets
  <2>2. \A e \in Datasets : f[e].missing = {}
    BY ValidRowsOfFile
  <2>3. v[k].product_id \in ItemIds(src) /\ v[k].price \in Nat /\ v[k].average_rating \in Int
    BY <2>1, <2>2, KeptProduct
  <2>4. /\ g[k].product_id = v[k].product_id
        /\ g[k].price = v[k].price /\ g[k].average_rating = v[k].average_rating
    OBVIOUS
  <2> QED
    BY <2>3, <2>4
<1>4. DOMAIN g = DOMAIN v
  OBVIOUS
<1> HIDE DEF g, v, P
<1>5. IsFiniteSet(P)
  BY <1>1, <1>2, <1>4, ImageIsFinite
<1>6. \A p \in P : /\ p.product_id \in ItemIds(src)
                   /\ p.price \in Nat /\ p.average_rating \in Int
  BY <1>1, <1>3, <1>4
<1> QED
  BY <1>5, <1>6 DEF P, valid

\* Where the batch stands when its features exist: a source whose users and
\* products all its interactions and its catalog name.
Grounded(src) ==
    LET S == prepared.interactions
        P == prepared.products
    IN  /\ src \in Sources /\ Loadable(src)
        /\ UserIds(src) \subseteq Int /\ ItemIds(src) \subseteq Int
        /\ IsFiniteSet(S) /\ IsFiniteSet(P)
        /\ prepared.split.train \subseteq S /\ prepared.split.test \subseteq S
        /\ select_feature_events(prepared) \subseteq S
        /\ prepared.split.train \subseteq select_feature_events(prepared)
        /\ \A e \in S : OfSource(e, src)
        /\ \A p \in P : p.product_id \in ItemIds(src) /\ p.price \in Nat /\ p.average_rating \in Int

\* Every trained or engineered batch stands there.
LEMMA FeaturesAreGrounded ==
    ASSUME FlowInv, ResultInv, phase \in {"engineered", "trained"}
    PROVE  Grounded(origin.src)
<1> DEFINE src == origin.src
           S == build_interactions(ValidOf(report))
<1>1. HasPrepared /\ HasFiles /\ HasReport /\ PassedGate
  <2>1. reason = ""
    BY DEF FlowInv
  <2> QED
    BY <2>1 DEF HasPrepared, HasFiles, GenerationErrors, HasReport, PassedGate
<1>2. src \in Sources /\ Loadable(src) /\ TablesOf(files, src)
  BY <1>1 DEF ResultInv
<1>3. ReportsOn(report, files) /\ report.status # "FAILED"
  BY <1>1 DEF FlowInv
<1>4. /\ IsFiniteSet(S) /\ Sortable(S) /\ ~SplitRefuses(Cardinality(S))
      /\ prepared.interactions = S /\ prepared.split = chronological_split(S)
      /\ prepared.products = clean_products(ValidOf(report))
  BY <1>1, PreparedBatch
<1>5. \A e \in S : OfSource(e, src)
  BY <1>2, <1>3, InteractionsOfSource
<1>6. /\ IsFiniteSet(prepared.products)
      /\ \A p \in prepared.products :
            p.product_id \in ItemIds(src) /\ p.price \in Nat /\ p.average_rating \in Int
  BY <1>2, <1>3, <1>4, CatalogOfSource
<1>7. prepared.split.train \subseteq S /\ prepared.split.test \subseteq S
  <2>1. SplitIsChronological(S, prepared.split)
    BY <1>4, SplitFollowsTime
  <2> QED
    BY <2>1 DEF SplitIsChronological
<1>8. /\ select_feature_events(prepared) \subseteq S
      /\ prepared.split.train \subseteq select_feature_events(prepared)
  BY <1>4, <1>7 DEF select_feature_events
<1>9. UserIds(src) \subseteq Int /\ ItemIds(src) \subseteq Int
  <2>1. src.users \in Seq(Int) /\ src.items \in Seq(Int)
    BY <1>2, SourceTables
  <2> QED
    BY <2>1 DEF UserIds, ItemIds
<1> HIDE DEF src, S
<1>10. Grounded(src)
  BY <1>2, <1>4, <1>5, <1>6, <1>7, <1>8, <1>9 DEF Grounded
<1> QED
  BY <1>10 DEF src

-----------------------------------------------------------------------------
(***************************************************************************)
(* Ordered lists and their first elements.                                 *)
(***************************************************************************)

\* y comes before x when it scores more, or as much with a smaller number.
Ahead(g, y, x) == g[y] > g[x] \/ (g[y] = g[x] /\ y < x)
Falling(S, g) == {p \in S \X S : Ahead(g, p[1], p[2])}

\* Scores order a set of numbers strictly.
LEMMA FallingIsStrict ==
    ASSUME NEW S, NEW g, \A i \in S : i \in Int /\ g[i] \in Int
    PROVE  StrictOrder(S, Falling(S, g))
<1>1. ASSUME NEW x \in S, NEW y \in S
      PROVE  <<x, y>> \in Falling(S, g) <=> Ahead(g, x, y)
  BY DEF Falling
<1>2. \A x \in S : ~Ahead(g, x, x)
  BY DEF Ahead
<1>3. \A x, y, z \in S : Ahead(g, x, y) /\ Ahead(g, y, z) => Ahead(g, x, z)
  BY DEF Ahead
<1>4. \A x, y \in S : x = y \/ Ahead(g, x, y) \/ Ahead(g, y, x)
  BY DEF Ahead
<1> QED
  BY <1>1, <1>2, <1>3, <1>4 DEF StrictOrder

\* InOrder lists a set by falling scores.
LEMMA ScoresInOrder ==
    ASSUME NEW S, IsFiniteSet(S), NEW g, \A i \in S : i \in Int /\ g[i] \in Int,
           NEW o, DOMAIN o = 1..Cardinality(S),
           \A k \in 1..Cardinality(S) :
              (\E x \in S : Cardinality({y \in S : Ahead(g, y, x)}) = k - 1)
              => /\ o[k] \in S
                 /\ Cardinality({y \in S : Ahead(g, y, o[k])}) = k - 1
    PROVE  Lists(o, S, Falling(S, g))
<1> DEFINE R == Falling(S, g)
<1>1. StrictOrder(S, R)
  BY FallingIsStrict
<1>2. ASSUME NEW x \in S
      PROVE  {y \in S : Ahead(g, y, x)} = Below(S, R, x)
  BY DEF Below, Falling
<1>3. ASSUME NEW k \in 1..Cardinality(S)
      PROVE  o[k] \in S /\ Rank(S, R, o[k]) = k - 1
  <2>1. PICK x \in S : Rank(S, R, x) = k - 1
    BY <1>1, RankTaken
  <2>2. Cardinality({y \in S : Ahead(g, y, x)}) = k - 1
    BY <2>1, <1>2 DEF Rank
  <2>3. o[k] \in S /\ Cardinality({y \in S : Ahead(g, y, o[k])}) = k - 1
    BY <2>2
  <2> QED
    BY <2>3, <1>2 DEF Rank
<1> QED
  BY <1>3 DEF Lists

\* A list of at most TopK different elements of S.
ShortList(l, S) ==
    /\ Len(l) \in Nat /\ Len(l) <= TopK /\ DOMAIN l = 1..Len(l)
    /\ \A k \in 1..Len(l) : l[k] \in S
    /\ \A j, k \in 1..Len(l) : l[j] = l[k] => j = k

\* The beginning of a listing is one.
LEMMA FirstAreShort ==
    ASSUME NEW S, IsFiniteSet(S), NEW R, StrictOrder(S, R), NEW o, Lists(o, S, R),
           o = [k \in DOMAIN o |-> o[k]]
    PROVE  ShortList(FirstOf(o, TopK), S)
<1> DEFINE n == IF TopK < Len(o) THEN TopK ELSE Len(o)
           l == SubSeq(o, 1, n)
<1>1. o \in Seq(S) /\ Len(o) = Cardinality(S) /\ Cardinality(S) \in Nat
  BY ListingIsSequence, FS_CardinalityType
<1>2. TopK \in Nat
  BY ModelingConfiguration
<1>3. n \in Nat /\ n <= TopK /\ n <= Cardinality(S)
  BY <1>1, <1>2
<1> HIDE DEF n
<1>4. \A i \in 1..n : o[i] \in S
  BY <1>1, <1>3
<1>5. /\ l \in Seq(S) /\ Len(l) = n
      /\ \A i \in 1..n : l[i] = o[i]
  <2>1. /\ SubSeq(o, 1, n) \in Seq(S)
        /\ Len(SubSeq(o, 1, n)) = IF 1 <= n THEN n - 1 + 1 ELSE 0
        /\ \A i \in 1..(n - 1 + 1) : SubSeq(o, 1, n)[i] = o[1 + i - 1]
    BY <1>3, <1>4, SubSeqProperties
  <2> QED
    BY <2>1, <1>3
<1>6. \A i, j \in 1..Cardinality(S) : o[i] = o[j] => i = j
  BY ListingIsSorted
<1>7. DOMAIN l = 1..n
  <2> HIDE DEF l
  <2> QED
    BY <1>5
<1>8. \A j, k \in 1..n : l[j] = l[k] => j = k
  <2> HIDE DEF l
  <2> QED
    BY <1>1, <1>3, <1>5, <1>6
<1>9. FirstOf(o, TopK) = l
  BY DEF FirstOf, n
<1>10. ShortList(l, S)
  <2> HIDE DEF l
  <2> QED
    BY <1>3, <1>4, <1>5, <1>7, <1>8 DEF ShortList
<1> QED
  BY <1>9, <1>10

\* It shows as many elements as it is long.
LEMMA ShortListShows ==
    ASSUME NEW l, NEW S, ShortList(l, S)
    PROVE  /\ {l[k] : k \in DOMAIN l} \subseteq S
           /\ IsFiniteSet({l[k] : k \in DOMAIN l})
           /\ Cardinality({l[k] : k \in DOMAIN l}) = Len(l)
<1> DEFINE T == {l[k] : k \in DOMAIN l}
           D == 1..Len(l)
           h == [k \in D |-> l[k]]
<1>1. DOMAIN l = D /\ Len(l) \in Nat
  BY DEF ShortList
<1>2. h \in Surjection(D, T)
  BY <1>1 DEF Surjection
<1>3. h \in Injection(D, T)
  <2>1. \A j, k \in D : h[j] = h[k] => j = k
    BY DEF ShortList
  <2> QED
    BY <1>2, <2>1 DEF Surjection, Injection, IsInjective
<1>4. IsFiniteSet(D) /\ Cardinality(D) = Len(l)
  <2>1. /\ IsFiniteSet(1..Len(l))
        /\ Cardinality(1..Len(l)) = IF 1 > Len(l) THEN 0 ELSE Len(l) - 1 + 1
    BY <1>1, FS_Interval
  <2> QED
    BY <1>1, <2>1
<1> HIDE DEF h, T, D
<1>5. IsFiniteSet(T) /\ Cardinality(T) = Len(l)
  BY <1>2, <1>3, <1>4, FS_Surjection
<1>6. T \subseteq S
  BY <1>1 DEF ShortList, T, D
<1> QED
  BY <1>5, <1>6 DEF T

-----------------------------------------------------------------------------
(***************************************************************************)
(* The recommended lists.                                                  *)
(***************************************************************************)

\* What training learns of the users and products of a source is a number.
LEMMA AppealTyped ==
    ASSUME NEW src, Grounded(src), NEW appeal \in Appeals,
           NEW u \in UserIds(src), NEW i \in ItemIds(src)
    PROVE  appeal[u][i] \in Int
<1>1. PICK k \in DOMAIN src.users : u = src.users[k]
  BY DEF UserIds
<1>2. PICK j \in DOMAIN src.items : i = src.items[j]
  BY DEF ItemIds
<1> QED
  BY <1>1, <1>2, LearnedAppeal DEF Grounded

\* The rated interactions are of the source, and their mean is a number.
LEMMA RatedTrain ==
    ASSUME NEW src, Grounded(src), Rated(prepared.split.train) # {}
    PROVE  LET train == prepared.split.train
           IN  /\ IsFiniteSet(train) /\ IsFiniteSet(ItemsOf(train))
               /\ ItemsOf(train) \subseteq ItemIds(src)
               /\ IsFiniteSet(Rated(train)) /\ IsFiniteSet(ItemsOf(Rated(train)))
               /\ ItemsOf(Rated(train)) \subseteq ItemsOf(train)
               /\ global_mean(train) \in Int
<1> DEFINE train == prepared.split.train
           R == Rated(train)
           f == [e \in R |-> e.explicit_rating]
           g == [e \in R |-> e.product_id]
           h == [e \in train |-> e.product_id]
<1>1. /\ IsFiniteSet(train) /\ R \subseteq train
      /\ \A e \in train : OfSource(e, src)
  BY FS_Subset DEF Grounded, Rated
<1>2. IsFiniteSet(R)
  BY <1>1, FS_Subset
<1>3. \A e \in R : e.explicit_rating \in Int
  <2>1. \A e \in R : e.explicit_rating # Blank
    BY DEF Rated
  <2> HIDE DEF R, train
  <2> QED
    BY <1>1, <2>1 DEF OfSource
<1>4. ItemsOf(R) = {g[e] : e \in R} /\ ItemsOf(train) = {h[e] : e \in train}
  BY DEF ItemsOf
<1>5. IsFiniteSet(ItemsOf(R)) /\ IsFiniteSet(ItemsOf(train))
  <2>1. DOMAIN g = R /\ DOMAIN h = train
    OBVIOUS
  <2> HIDE DEF g, h, R, train
  <2>2. IsFiniteSet({g[e] : e \in R})
    BY <1>2, <2>1, ImageIsFinite
  <2>3. IsFiniteSet({h[e] : e \in train})
    BY <1>1, <2>1, ImageIsFinite
  <2> QED
    BY <1>4, <2>2, <2>3
<1>6. ItemsOf(R) \subseteq ItemsOf(train) /\ ItemsOf(train) \subseteq ItemIds(src)
  <2> HIDE DEF R, train
  <2> QED
    BY <1>1 DEF ItemsOf, OfSource
<1>7. global_mean(train) \in Int
  <2>1. SumOf(f) = Total(R, f)
    <3>1. DOMAIN f = R
      OBVIOUS
    <3> HIDE DEF f, R
    <3> QED
      BY <1>2, <3>1, SumIsTotal
  <2>2. Total(R, f) \in Int
    <3>1. \A e \in R : f[e] \in Int
      BY <1>3
    <3> HIDE DEF f, R
    <3> QED
      BY <1>2, <3>1, TotalInt
  <2>3. Cardinality(R) \in Nat /\ Cardinality(R) # 0
    BY <1>2, FS_CardinalityType, FS_EmptySet
  <2>4. global_mean(train) = SumOf(f) \div Cardinality(R)
    BY DEF global_mean
  <2> HIDE DEF f, R
  <2> QED
    BY <2>1, <2>2, <2>3, <2>4, Quotient
<1> QED
  BY <1>1, <1>2, <1>5, <1>6, <1>7

\* The collaborative list of a user: a few of the rated items he has not rated.
LEMMA CollaborativeList ==
    ASSUME NEW src, Grounded(src), NEW appeal \in Appeals,
           Rated(prepared.split.train) # {}, NEW u \in UserIds(src)
    PROVE  LET train == prepared.split.train
           IN  ShortList(recommend(train, appeal, u), ItemsOf(Rated(train)) \ Seen(train, u))
<1> DEFINE train == prepared.split.train
           S == ItemsOf(Rated(train)) \ Seen(train, u)
           Score(i) == predict(train, appeal, u, i)
           Better(i, j) == \/ Score(i) > Score(j)
                           \/ Score(i) = Score(j) /\ i < j
           g == [i \in S |-> Score(i)]
           o == InOrder(S, Better)
<1>1. /\ IsFiniteSet(ItemsOf(Rated(train))) /\ global_mean(train) \in Int
      /\ ItemsOf(Rated(train)) \subseteq ItemIds(src)
  BY RatedTrain
<1>2. IsFiniteSet(S) /\ S \subseteq ItemIds(src)
  BY <1>1, FS_Subset
<1>3. ASSUME NEW i \in S
      PROVE  i \in Int /\ g[i] \in Int
  <2>1. i \in ItemIds(src) /\ appeal[u][i] \in Int
    BY <1>2, AppealTyped
  <2>2. Score(i) \in Int
    <3> HIDE DEF S, train
    <3> QED
      BY <1>1, <2>1 DEF predict
  <2>3. i \in Int
    BY <2>1 DEF Grounded
  <2> QED
    BY <2>2, <2>3
<1>4. ASSUME NEW x \in S
      PROVE  {y \in S : Better(y, x)} = {y \in S : Ahead(g, y, x)}
  <2>1. \A y \in S : g[y] = Score(y)
    OBVIOUS
  <2> HIDE DEF S, Score, g
  <2> QED
    BY <2>1 DEF Ahead
<1>5. DOMAIN o = 1..Cardinality(S) /\ o = [k \in DOMAIN o |-> o[k]]
  BY SMTT(30) DEF InOrder
<1>6. ASSUME NEW k \in 1..Cardinality(S),
             \E x \in S : Cardinality({y \in S : Ahead(g, y, x)}) = k - 1
      PROVE  o[k] \in S /\ Cardinality({y \in S : Ahead(g, y, o[k])}) = k - 1
  <2>1. o[k] = CHOOSE x \in S : Cardinality({y \in S : Better(y, x)}) = k - 1
    BY DEF InOrder
  <2>2. \E x \in S : Cardinality({y \in S : Better(y, x)}) = k - 1
    <3> HIDE DEF Better, g, S
    <3> QED
      BY <1>4, <1>6
  <2>3. o[k] \in S /\ Cardinality({y \in S : Better(y, o[k])}) = k - 1
    <3> HIDE DEF Better, S, o
    <3> QED
      BY <2>1, <2>2
  <2> HIDE DEF Better, g, S, o
  <2> QED
    BY <1>4, <2>3
<1>7. recommend(train, appeal, u) = FirstOf(o, TopK)
  BY DEF recommend
<1>8. ShortList(FirstOf(o, TopK), S)
  <2> HIDE DEF S, g, o
  <2>1. Lists(o, S, Falling(S, g))
    BY <1>2, <1>3, <1>5, <1>6, ScoresInOrder
  <2>2. StrictOrder(S, Falling(S, g))
    BY <1>3, FallingIsStrict
  <2> QED
    BY <1>2, <1>5, <2>1, <2>2, FirstAreShort
<1> QED
  BY <1>7, <1>8

\* The catalog of the features: the items of the prepared products.
LEMMA CatalogIsPrepared ==
    ASSUME NEW src, Grounded(src), TablesFrom(prepared, features)
    PROVE  /\ Catalog = {p.product_id : p \in prepared.products}
           /\ IsFiniteSet(Catalog) /\ Catalog \subseteq ItemIds(src)
<1> DEFINE P == prepared.products
           g == [p \in P |-> p.product_id]
<1>1. Catalog = {p.product_id : p \in P}
  BY DEF TablesFrom, Catalog, compute_item_features
<1>2. IsFiniteSet(P) /\ \A p \in P : p.product_id \in ItemIds(src)
  BY DEF Grounded
<1>3. DOMAIN g = P /\ Catalog = {g[p] : p \in P}
  BY <1>1
<1> HIDE DEF g, P
<1>4. IsFiniteSet(Catalog)
  BY <1>2, <1>3, ImageIsFinite
<1> QED
  BY <1>1, <1>2, <1>4 DEF P

\* The content list of a user: a few items of the catalog he has not touched.
LEMMA ContentList ==
    ASSUME NEW src, Grounded(src), TablesFrom(prepared, features), NEW appeal \in Appeals,
           NEW u \in UserIds(src)
    PROVE  LET train == prepared.split.train
           IN  ShortList(recommend_for_user(train, Catalog, appeal, u),
                         Catalog \ History(train, u))
<1> DEFINE train == prepared.split.train
           S == Catalog \ History(train, u)
           Better(i, j) == \/ appeal[u][i] > appeal[u][j]
                           \/ appeal[u][i] = appeal[u][j] /\ i < j
           g == [i \in S |-> appeal[u][i]]
           o == InOrder(S, Better)
<1>1. IsFiniteSet(Catalog) /\ Catalog \subseteq ItemIds(src)
  BY CatalogIsPrepared
<1>2. IsFiniteSet(S) /\ S \subseteq ItemIds(src)
  BY <1>1, FS_Subset
<1>3. ASSUME NEW i \in S
      PROVE  i \in Int /\ g[i] \in Int
  <2>1. i \in ItemIds(src) /\ appeal[u][i] \in Int
    BY <1>2, AppealTyped
  <2>2. i \in Int
    BY <2>1 DEF Grounded
  <2> QED
    BY <2>1, <2>2
<1>4. ASSUME NEW x \in S
      PROVE  {y \in S : Better(y, x)} = {y \in S : Ahead(g, y, x)}
  <2>1. \A y \in S : g[y] = appeal[u][y]
    OBVIOUS
  <2> HIDE DEF S, g
  <2> QED
    BY <2>1 DEF Ahead
<1>5. DOMAIN o = 1..Cardinality(S) /\ o = [k \in DOMAIN o |-> o[k]]
  <2> DEFINE At(k) == CHOOSE x \in S : Cardinality({y \in S : Better(y, x)}) = k - 1
  <2>1. o = [k \in 1..Cardinality(S) |-> At(k)]
    BY DEF InOrder
  <2> HIDE DEF At, S, o
  <2> QED
    BY <2>1
<1>6. ASSUME NEW k \in 1..Cardinality(S),
             \E x \in S : Cardinality({y \in S : Ahead(g, y, x)}) = k - 1
      PROVE  o[k] \in S /\ Cardinality({y \in S : Ahead(g, y, o[k])}) = k - 1
  <2>1. o[k] = CHOOSE x \in S : Cardinality({y \in S : Better(y, x)}) = k - 1
    BY DEF InOrder
  <2>2. \E x \in S : Cardinality({y \in S : Better(y, x)}) = k - 1
    <3> HIDE DEF Better, g, S
    <3> QED
      BY <1>4, <1>6
  <2>3. o[k] \in S /\ Cardinality({y \in S : Better(y, o[k])}) = k - 1
    <3> HIDE DEF Better, S, o
    <3> QED
      BY <2>1, <2>2
  <2> HIDE DEF Better, g, S, o
  <2> QED
    BY <1>4, <2>3
<1>7. ShortList(FirstOf(o, TopK), S)
  <2> HIDE DEF S, g, o
  <2>1. Lists(o, S, Falling(S, g))
    BY <1>2, <1>3, <1>5, <1>6, ScoresInOrder
  <2>2. StrictOrder(S, Falling(S, g))
    BY <1>3, FallingIsStrict
  <2> QED
    BY <1>2, <1>5, <2>1, <2>2, FirstAreShort
<1>8. CASE History(train, u) \cap Catalog = {}
  <2>1. recommend_for_user(train, Catalog, appeal, u) = <<>>
    BY <1>8 DEF recommend_for_user
  <2>2. TopK \in Nat
    BY ModelingConfiguration
  <2>3. ShortList(<<>>, S)
    BY <2>2 DEF ShortList
  <2> QED
    BY <2>1, <2>3
<1>9. CASE History(train, u) \cap Catalog # {}
  <2>1. recommend_for_user(train, Catalog, appeal, u) = FirstOf(o, TopK)
    BY <1>9 DEF recommend_for_user
  <2> QED
    BY <1>7, <2>1
<1> QED
  BY <1>8, <1>9

\* The users of a test partition are of the source.
LEMMA TestUsersKnown ==
    ASSUME NEW src, Grounded(src), NEW u \in UsersIn(RelevantEvents(prepared.split.test))
    PROVE  u \in UserIds(src)
<1>1. PICK e \in RelevantEvents(prepared.split.test) : u = e.user_id
  BY DEF UsersIn
<1>2. e \in prepared.interactions
  BY DEF RelevantEvents, Rated, Grounded
<1> QED
  BY <1>1, <1>2 DEF Grounded, OfSource

\* The lookups passed: every touched item is in the catalog, or it is alone.
LEMMA TouchedInCatalog ==
    ASSUME NEW src, Grounded(src), TablesFrom(prepared, features)
    PROVE  LET touched == ItemsOf(select_feature_events(prepared))
           IN  /\ IsFiniteSet(touched)
               /\ touched \subseteq Catalog \/ Cardinality(touched) <= 1
<1> DEFINE E == select_feature_events(prepared)
           touched == ItemsOf(E)
           g == [e \in E |-> e.product_id]
<1>1. IsFiniteSet(E)
  BY FS_Subset DEF Grounded
<1>2. DOMAIN g = E /\ touched = {g[e] : e \in E}
  BY DEF ItemsOf
<1>3. IsFiniteSet(touched)
  <2> HIDE DEF g, E, touched
  <2> QED
    BY <1>1, <1>2, ImageIsFinite
<1>4. Cardinality(touched) \in Int
  BY <1>3, FS_CardinalityType
<1>5. \/ ~(Cardinality(touched) > 1)
      \/ \A i \in touched : \E p \in prepared.products : p.product_id = i
  BY DEF TablesFrom, Lacks, CatalogRaises, ItemsOf
<1>6. Catalog = {p.product_id : p \in prepared.products}
  BY CatalogIsPrepared
<1> HIDE DEF touched
<1>7. CASE \A i \in touched : \E p \in prepared.products : p.product_id = i
  BY <1>3, <1>6, <1>7 DEF touched
<1>8. CASE ~(Cardinality(touched) > 1)
  BY <1>3, <1>4, <1>8 DEF touched
<1> QED
  BY <1>5, <1>7, <1>8

\* What training keeps of a batch: two short lists for every user with a
\* relevant item, the one from the rated, the other from the catalog.
LEMMA TrainedLists ==
    ASSUME FlowInv, ResultInv, phase = "trained"
    PROVE  LET train == prepared.split.train
               test == prepared.split.test
               users == UsersIn(RelevantEvents(test))
           IN  \E appeal \in Appeals :
                 LET own == CollaborativeLists(train, test, appeal)
                     content == ContentLists(train, test, Catalog, appeal)
                 IN  /\ models.lists = [collaborative |-> own, content_based |-> content]
                     /\ models.metrics =
                           [collaborative |-> ranking_metrics(own, test, Catalog),
                            content_based |-> ranking_metrics(content, test, Catalog)]
                     /\ DOMAIN own = users /\ DOMAIN content = users
                     /\ \A u \in users :
                           /\ ShortList(own[u], ItemsOf(Rated(train)) \ Seen(train, u))
                           /\ ShortList(content[u], Catalog \ History(train, u))
                     /\ RelevantEvents(test) # {} /\ Rated(train) # {}
<1> DEFINE train == prepared.split.train
           test == prepared.split.test
           users == UsersIn(RelevantEvents(test))
           src == origin.src
<1>1. Grounded(src)
  BY FeaturesAreGrounded
<1>2. TablesFrom(prepared, features) /\ TrainedOn(prepared, Catalog, models)
  BY DEF ResultInv, HasFeatures, Catalog
<1>3. PICK appeal \in Appeals :
        LET own == CollaborativeLists(train, test, appeal)
            content == ContentLists(train, test, Catalog, appeal)
        IN  /\ ~TrainingRaises(train, test, Catalog)
            /\ models.lists = [collaborative |-> own, content_based |-> content]
            /\ models.metrics = [collaborative |-> ranking_metrics(own, test, Catalog),
                                 content_based |-> ranking_metrics(content, test, Catalog)]
  BY <1>2 DEF TrainedOn
<1> DEFINE own == CollaborativeLists(train, test, appeal)
           content == ContentLists(train, test, Catalog, appeal)
<1>4. RelevantEvents(test) # {} /\ Rated(train) # {}
  BY <1>3 DEF TrainingRaises
<1>5. /\ own = [u \in users |-> recommend(train, appeal, u)]
      /\ content = [u \in users |-> recommend_for_user(train, Catalog, appeal, u)]
  BY DEF CollaborativeLists, ContentLists
<1>6. ASSUME NEW u \in users
      PROVE  /\ ShortList(own[u], ItemsOf(Rated(train)) \ Seen(train, u))
             /\ ShortList(content[u], Catalog \ History(train, u))
  <2>1. u \in UserIds(src)
    BY <1>1, TestUsersKnown
  <2>2. ShortList(recommend(train, appeal, u), ItemsOf(Rated(train)) \ Seen(train, u))
    BY <1>1, <1>4, <2>1, CollaborativeList
  <2>3. ShortList(recommend_for_user(train, Catalog, appeal, u), Catalog \ History(train, u))
    BY <1>1, <1>2, <2>1, ContentList
  <2> HIDE DEF own, content, users
  <2> QED
    BY <1>5, <2>2, <2>3
<1>7. DOMAIN own = users /\ DOMAIN content = users
  BY <1>5
<1>8. /\ models.lists = [collaborative |-> own, content_based |-> content]
      /\ models.metrics = [collaborative |-> ranking_metrics(own, test, Catalog),
                           content_based |-> ranking_metrics(content, test, Catalog)]
  BY <1>3
<1> HIDE DEF own, content, users, train, test
<1>9. /\ models.lists = [collaborative |-> own, content_based |-> content]
      /\ models.metrics = [collaborative |-> ranking_metrics(own, test, Catalog),
                           content_based |-> ranking_metrics(content, test, Catalog)]
      /\ DOMAIN own = users /\ DOMAIN content = users
      /\ \A u \in users :
            /\ ShortList(own[u], ItemsOf(Rated(train)) \ Seen(train, u))
            /\ ShortList(content[u], Catalog \ History(train, u))
      /\ RelevantEvents(test) # {} /\ Rated(train) # {}
  BY <1>4, <1>6, <1>7, <1>8
<1> QED
  BY <1>9 DEF own, content, users, train, test

\* Both recommenders leave out what they know a user has, whatever training
\* learned and whatever was done to the files; no item comes twice, and the
\* collaborative model, which never looks into the catalog, leaves it for a
\* single product only.
THEOREM RecommendationsAreUnseen == Spec => []RecommendsUnseenOnly
<1>1. ASSUME FlowInv, ResultInv, phase = "trained",
             NEW model \in DOMAIN models.lists, NEW u \in DOMAIN models.lists[model]
      PROVE  LET shown == {models.lists[model][u][k] : k \in DOMAIN models.lists[model][u]}
                 mine == {e \in prepared.split.train : e.user_id = u}
                 owned == IF model = "content_based" THEN mine
                          ELSE {e \in mine : e.interaction_type = "Purchase"}
                 touched == IdsOf(features.events, "product_id")
             IN  /\ shown \cap IdsOf(owned, "product_id") = {}
                 /\ Cardinality(shown) = Len(models.lists[model][u])
                 /\ \/ shown \subseteq Catalog
                    \/ model = "collaborative" /\ shown = touched /\ Cardinality(touched) = 1
  <2> DEFINE train == prepared.split.train
             test == prepared.split.test
             users == UsersIn(RelevantEvents(test))
             list == models.lists[model][u]
             shown == {list[k] : k \in DOMAIN list}
             mine == {e \in train : e.user_id = u}
             owned == IF model = "content_based" THEN mine
                      ELSE {e \in mine : e.interaction_type = "Purchase"}
             touched == IdsOf(features.events, "product_id")
  <2>1. Grounded(origin.src) /\ TablesFrom(prepared, features)
    BY <1>1, FeaturesAreGrounded DEF ResultInv, HasFeatures
  <2>2. PICK own, content :
           /\ models.lists = [collaborative |-> own, content_based |-> content]
           /\ DOMAIN own = users /\ DOMAIN content = users
           /\ \A w \in users :
                 /\ ShortList(own[w], ItemsOf(Rated(train)) \ Seen(train, w))
                 /\ ShortList(content[w], Catalog \ History(train, w))
    BY <1>1, TrainedLists
  <2>3. model \in {"collaborative", "content_based"}
    BY <1>1, <2>2
  <2>4. touched = ItemsOf(select_feature_events(prepared))
    BY <1>1 DEF FlowInv, HasFeatures, ComputedFrom, IdsOf, ItemsOf
  <2>5. /\ IsFiniteSet(touched)
        /\ touched \subseteq Catalog \/ Cardinality(touched) <= 1
    <3> HIDE DEF touched
    <3> QED
      BY <2>1, <2>4, TouchedInCatalog
  <2>6. CASE model = "content_based"
    <3>1. list = content[u] /\ u \in users
      BY <1>1, <2>2, <2>6
    <3>2. ShortList(list, Catalog \ History(train, u))
      BY <2>2, <3>1
    <3> HIDE DEF list
    <3>3. shown \subseteq Catalog \ History(train, u) /\ Cardinality(shown) = Len(list)
      BY <3>2, ShortListShows
    <3>4. IdsOf(owned, "product_id") = History(train, u)
      BY <2>6 DEF IdsOf, History, ItemsOf, OfUser
    <3> HIDE DEF shown, owned, touched
    <3>5. /\ shown \cap IdsOf(owned, "product_id") = {}
          /\ Cardinality(shown) = Len(list)
          /\ shown \subseteq Catalog
      BY <3>3, <3>4
    <3> QED
      BY <3>5 DEF shown, owned, list
  <2>7. CASE model = "collaborative"
    <3>1. list = own[u] /\ u \in users
      BY <1>1, <2>2, <2>7
    <3>2. ShortList(list, ItemsOf(Rated(train)) \ Seen(train, u))
      BY <2>2, <3>1
    <3> HIDE DEF list
    <3>3. /\ shown \subseteq ItemsOf(Rated(train)) \ Seen(train, u)
          /\ Cardinality(shown) = Len(list)
      BY <3>2, ShortListShows
    <3>4. IdsOf(owned, "product_id") \subseteq Seen(train, u)
      <4>1. owned = {e \in mine : e.interaction_type = "Purchase"}
        BY <2>7
      <4>2. ASSUME NEW e \in owned
            PROVE  e \in OfUser(Rated(train), u)
        <5>1. e \in train /\ e.user_id = u /\ e.interaction_type = "Purchase"
          BY <4>1, <4>2
        <5>2. OfSource(e, origin.src)
          BY <2>1, <5>1 DEF Grounded
        <5> QED
          BY <5>1, <5>2 DEF OfSource, OfUser, Rated
      <4> HIDE DEF owned
      <4> QED
        BY <4>2 DEF IdsOf, Seen, ItemsOf
    <3>5. ItemsOf(Rated(train)) \subseteq touched
      <4>1. train \subseteq select_feature_events(prepared)
        BY <2>1 DEF Grounded
      <4> HIDE DEF touched, train
      <4> QED
        BY <2>4, <4>1 DEF ItemsOf, Rated
    <3> HIDE DEF shown, owned, touched
    <3>6. shown \subseteq Catalog \/ (shown = touched /\ Cardinality(touched) = 1)
      <4> SUFFICES ASSUME ~(shown \subseteq Catalog)
                   PROVE  shown = touched /\ Cardinality(touched) = 1
        OBVIOUS
      <4>1. PICK x \in shown : x \notin Catalog
        OBVIOUS
      <4>2. x \in touched /\ Cardinality(touched) <= 1
        BY <2>5, <3>3, <3>5, <4>1
      <4>3. Cardinality({x}) = 1 /\ {x} \in SUBSET touched /\ Cardinality(touched) \in Nat
        BY <2>5, <4>2, FS_Singleton, FS_CardinalityType
      <4>4. Cardinality({x}) <= Cardinality(touched)
        BY <2>5, <4>3, FS_Subset
      <4>5. Cardinality({x}) = Cardinality(touched)
        BY <4>2, <4>3, <4>4
      <4>6. {x} = touched
        BY <2>5, <4>3, <4>5, FS_Subset
      <4> QED
        BY <3>3, <3>5, <4>1, <4>3, <4>5, <4>6
    <3>7. shown \cap IdsOf(owned, "product_id") = {}
      BY <3>3, <3>4
    <3> QED
      BY <2>7, <3>3, <3>6, <3>7 DEF shown, owned, list, touched
  <2> QED
    BY <2>3, <2>6, <2>7
<1>2. ASSUME FlowInv, ResultInv
      PROVE  RecommendsUnseenOnly
  BY <1>1, <1>2 DEF RecommendsUnseenOnly
<1> QED
  BY <1>2, FlowInvariant, ResultInvariant, PTL

-----------------------------------------------------------------------------
(***************************************************************************)
(* The metrics of a list, of a user and of a model.                        *)
(***************************************************************************)

\* A discount falls with the rank and is positive.
LEMMA DiscountFalls ==
    /\ \A k \in 1..5 : Discount[k] \in Nat \ {0}
    /\ \A j, k \in 1..5 : j <= k => Discount[k] <= Discount[j]
<1>1. /\ Discount[1] = 10000 /\ Discount[2] = 6309 /\ Discount[3] = 5000
      /\ Discount[4] = 4307 /\ Discount[5] = 3869
  BY DEF Discount
<1>2. \A k \in 1..5 : k = 1 \/ k = 2 \/ k = 3 \/ k = 4 \/ k = 5
  OBVIOUS
<1> QED
  BY <1>1, <1>2

\* The discounts of the first ranks make the greatest sum.
LEMMA FirstRanksAreBest ==
    ASSUME NEW H \in SUBSET (1..5)
    PROVE  /\ IsFiniteSet(H) /\ Cardinality(H) \in 0..5
           /\ Total(H, Discount) <= Total(1..Cardinality(H), Discount)
<1> DEFINE Bad == {T \in SUBSET (1..5) :
                      ~(Total(T, Discount) <= Total(1..Cardinality(T), Discount))}
<1>1. ASSUME NEW T \in SUBSET (1..5)
      PROVE  IsFiniteSet(T) /\ Cardinality(T) \in 0..5
  <2>1. IsFiniteSet(1..5) /\ Cardinality(1..5) = 5
    <3> DEFINE five == 5
    <3>1. five \in Int /\ five >= 0
      OBVIOUS
    <3> HIDE DEF five
    <3>2. IsFiniteSet(1..five) /\ Cardinality(1..five) = five
      BY <3>1, FirstNumbers
    <3> QED
      BY <3>2 DEF five
  <2>2. IsFiniteSet(T) /\ Cardinality(T) <= Cardinality(1..5) /\ Cardinality(T) \in Nat
    BY <2>1, FS_Subset, FS_CardinalityType
  <2> QED
    BY <2>1, <2>2
<1>2. ASSUME NEW n \in Nat, n <= 5
      PROVE  /\ IsFiniteSet(1..n) /\ 1..n \in SUBSET (1..5)
             /\ \A k \in 1..n : Discount[k] \in Int
  <2>1. IsFiniteSet(1..n)
    BY FirstNumbers
  <2>2. \A k \in 1..5 : Discount[k] \in Int
    BY DiscountFalls
  <2> QED
    BY <1>2, <2>1, <2>2
<1>3. Bad = {}
  <2> SUFFICES ASSUME Bad # {} PROVE FALSE
    OBVIOUS
  <2>1. PICK T \in Bad : \A U \in SUBSET T : U # T => U \notin Bad
    <3>1. Bad \in SUBSET (SUBSET (1..5)) /\ IsFiniteSet(1..5)
      BY <1>1
    <3> HIDE DEF Bad
    <3> QED
      BY ZenonT(60), <3>1, LeastSubset
  <2> DEFINE n == Cardinality(T)
  <2>2. T \in SUBSET (1..5) /\ ~(Total(T, Discount) <= Total(1..n, Discount))
    OBVIOUS
  <2>3. IsFiniteSet(T) /\ n \in 0..5
    BY <1>1, <2>2
  <2>4. T # {}
    <3>1. Total({}, Discount) = 0 /\ Cardinality({}) = 0
      BY FS_EmptySet, TotalOfSome
    <3>2. 1..0 = {}
      OBVIOUS
    <3> HIDE DEF Bad
    <3> QED
      BY <2>2, <3>1, <3>2
  <2>5. PICK m \in T : \A x \in T : x <= m
    <3> DEFINE R == {p \in T \X T : p[1] < p[2]}
    <3>1. StrictOrder(T, R)
      BY <2>2 DEF StrictOrder
    <3>2. \E m \in T : \A x \in T : x = m \/ <<x, m>> \in R
      <4> HIDE DEF R
      <4> QED
        BY <2>3, <2>4, <3>1, LastExists
    <3> QED
      BY <2>2, <3>2
  <2> DEFINE U == T \ {m}
  <2>6. IsFiniteSet(U) /\ Cardinality(U) = n - 1
    BY <2>3, FS_RemoveElement
  <2>7. n >= 1 /\ m \in 1..5 /\ n <= m
    <3>1. n # 0
      BY <2>3, <2>4, FS_EmptySet
    <3>2. T \in SUBSET (1..m) /\ m \in 1..5
      BY <2>2, <2>5
    <3>3. IsFiniteSet(1..m) /\ Cardinality(1..m) = m
      BY <3>2, FS_Interval
    <3>4. n <= m
      BY ZenonT(60), <3>2, <3>3, FS_Subset
    <3> QED
      BY <2>3, <3>1, <3>2, <3>4
  <2>8. Total(U, Discount) <= Total(1..(n - 1), Discount)
    <3>1. U \notin Bad /\ U \in SUBSET (1..5)
      BY <2>1, <2>2
    <3> QED
      BY <2>6, <3>1
  <2>9. Total(T, Discount) = Discount[m] + Total(U, Discount) /\ Total(U, Discount) \in Int
    <3>1. \A k \in T : Discount[k] \in Int
      BY <2>2, DiscountFalls
    <3> QED
      BY <2>3, <3>1, TotalStep
  <2>10. /\ Total(1..n, Discount) = Discount[n] + Total(1..(n - 1), Discount)
         /\ Total(1..(n - 1), Discount) \in Int
    <3>1. IsFiniteSet(1..n) /\ \A k \in 1..n : Discount[k] \in Int
      BY <1>2, <2>3
    <3>2. n \in 1..n /\ (1..n) \ {n} = 1..(n - 1)
      BY <2>3, <2>7
    <3> HIDE DEF n
    <3> DEFINE A == 1..n
    <3>3. Total(A, Discount) = Discount[n] + Total(A \ {n}, Discount)
          /\ Total(A \ {n}, Discount) \in Int
      <4>1. IsFiniteSet(A) /\ n \in A /\ \A k \in A : Discount[k] \in Int
        BY <3>1, <3>2
      <4> HIDE DEF A
      <4> QED
        BY <4>1, TotalStep
    <3> QED
      BY <3>2, <3>3
  <2>11. Discount[m] <= Discount[n] /\ Discount[m] \in Int /\ Discount[n] \in Int
    BY <2>3, <2>7, DiscountFalls
  <2> HIDE DEF Bad, U, n
  <2> QED
    BY <2>2, <2>8, <2>9, <2>10, <2>11
<1> QED
  BY <1>1, <1>3

\* The ideal is at least what any hits earn.
LEMMA IdealIsBest ==
    ASSUME NEW H \in SUBSET (1..5), NEW b \in 1..5, Cardinality(H) <= b
    PROVE  /\ Total(H, Discount) \in Nat /\ Total(1..b, Discount) \in Nat \ {0}
           /\ Total(H, Discount) <= Total(1..b, Discount)
<1> DEFINE n == Cardinality(H)
<1>1. IsFiniteSet(H) /\ n \in 0..5 /\ Total(H, Discount) <= Total(1..n, Discount)
  BY FirstRanksAreBest
<1>2. IsFiniteSet(1..b) /\ 1..n \in SUBSET (1..b) /\ 1..b \in SUBSET (1..5)
  <2>1. IsFiniteSet(1..b)
    BY FirstNumbers
  <2> QED
    BY <1>1, <2>1
<1>3. \A k \in 1..5 : Discount[k] \in Nat /\ Discount[k] # 0
  BY DiscountFalls
<1>4. Total(1..n, Discount) <= Total(1..b, Discount) /\ Total(1..n, Discount) \in Nat
      /\ Total(1..b, Discount) \in Nat
  <2>1. \A k \in 1..b : Discount[k] \in Nat
    BY <1>2, <1>3
  <2> HIDE DEF n
  <2> QED
    BY <1>2, <2>1, TotalOfPart
<1>5. Total(H, Discount) \in Nat
  <2>1. \A k \in H : Discount[k] \in Nat
    BY <1>3
  <2> QED
    BY <1>1, <2>1, TotalOfPart
<1>6. Total(1..b, Discount) # 0
  <2>1. 1 \in 1..b /\ \A k \in 1..b : Discount[k] \in Int
    BY <1>3
  <2>2. /\ Total(1..b, Discount) = Discount[1] + Total((1..b) \ {1}, Discount)
    BY <1>2, <2>1, TotalStep
  <2>3. Total((1..b) \ {1}, Discount) \in Nat
    <3>1. (1..b) \ {1} \in SUBSET (1..b) /\ \A k \in 1..b : Discount[k] \in Nat
      BY <1>3
    <3> QED
      BY <1>2, <3>1, TotalOfPart
  <2>4. Discount[1] \in Nat \ {0}
    BY <1>3
  <2> QED
    BY <2>2, <2>3, <2>4
<1> HIDE DEF n
<1> QED
  BY <1>1, <1>4, <1>5, <1>6

\* On a list without repetitions there are at most as many hits as places, as
\* relevant items, and as hits the ideal list would have.
LEMMA HitsAreFew ==
    ASSUME NEW list, NEW S, ShortList(list, S), NEW truth, IsFiniteSet(truth), truth # {}
    PROVE  LET hits == {k \in DOMAIN list : list[k] \in truth}
               best == Smaller(Cardinality(truth), TopK)
           IN  /\ hits \in SUBSET (1..5) /\ IsFiniteSet(hits) /\ Cardinality(hits) \in Nat
               /\ Cardinality(truth) \in Nat \ {0} /\ TopK \in 1..5 /\ best \in 1..5
               /\ Cardinality(hits) <= TopK /\ Cardinality(hits) <= Cardinality(truth)
               /\ Cardinality(hits) <= best
<1> DEFINE n == Len(list)
           hits == {k \in DOMAIN list : list[k] \in truth}
           h == [k \in hits |-> list[k]]
           t == Cardinality(truth)
           best == Smaller(t, TopK)
<1>1. n \in Nat /\ n <= TopK /\ DOMAIN list = 1..n
  BY DEF ShortList
<1>2. TopK \in 1..5
  BY ModelingConfiguration
<1>3. IsFiniteSet(1..n) /\ Cardinality(1..n) = n
  BY <1>1, FirstNumbers
<1>4. hits \in SUBSET (1..n) /\ hits \in SUBSET (1..5)
  BY <1>1, <1>2
<1>5. IsFiniteSet(hits) /\ Cardinality(hits) \in Nat /\ Cardinality(hits) <= n
  <2> HIDE DEF hits, n
  <2> QED
    BY <1>3, <1>4, FS_Subset, FS_CardinalityType
<1>6. h \in Injection(hits, truth)
  <2>1. h \in [hits -> truth]
    OBVIOUS
  <2>2. \A j, k \in hits : h[j] = h[k] => j = k
    BY <1>4 DEF ShortList
  <2> QED
    BY <2>1, <2>2 DEF Injection, IsInjective
<1>7. Cardinality(hits) <= t
  <2> HIDE DEF h, hits
  <2> QED
    BY <1>6, FS_Injection
<1>8. t \in Nat /\ t # 0
  BY FS_CardinalityType, FS_EmptySet
<1> HIDE DEF hits, t, n
<1>9. best \in 1..5 /\ Cardinality(hits) <= best
  BY <1>1, <1>2, <1>5, <1>7, <1>8 DEF Smaller
<1>10. /\ hits \in SUBSET (1..5) /\ IsFiniteSet(hits) /\ Cardinality(hits) \in Nat
       /\ t \in Nat \ {0} /\ TopK \in 1..5 /\ best \in 1..5
       /\ Cardinality(hits) <= TopK /\ Cardinality(hits) <= t /\ Cardinality(hits) <= best
  BY <1>1, <1>2, <1>4, <1>5, <1>7, <1>8, <1>9
<1> QED
  BY <1>10 DEF hits, t

\* Every metric of a user is a share, and nothing without a hit.
LEMMA UserShares ==
    ASSUME NEW list, NEW S, ShortList(list, S), NEW truth, IsFiniteSet(truth), truth # {}
    PROVE  LET m == UserMetrics(list, truth)
           IN  /\ m.hit \in 0..Flawless
               /\ {m.precision, m.recall, m.average_precision, m.ndcg} \subseteq 0..m.hit
<1> DEFINE hits == {k \in DOMAIN list : list[k] \in truth}
           n == Cardinality(hits)
           t == Cardinality(truth)
           best == Smaller(t, TopK)
           Upto(k) == Cardinality({h \in hits : h <= k})
           gain == [k \in hits |-> (Flawless * Upto(k)) \div k]
           earned == [k \in hits |-> Discount[k]]
           ideal == [k \in 1..best |-> Discount[k]]
           m == UserMetrics(list, truth)
<1>1. /\ hits \in SUBSET (1..5) /\ IsFiniteSet(hits) /\ n \in Nat
      /\ t \in Nat \ {0} /\ TopK \in 1..5 /\ best \in 1..5
      /\ n <= TopK /\ n <= t /\ n <= best
  BY HitsAreFew
<1>2. Flawless \in Nat
  BY DEF Flawless
<1>3. /\ m.precision = (Flawless * n) \div TopK /\ m.recall = (Flawless * n) \div t
      /\ m.average_precision = SumOf(gain) \div best
      /\ m.ndcg = (Flawless * SumOf(earned)) \div SumOf(ideal)
      /\ m.hit = IF hits = {} THEN 0 ELSE Flawless
  BY DEF UserMetrics, Flawless
<1> HIDE DEF m, best
<1>4. ASSUME NEW k \in hits
      PROVE  gain[k] \in Nat /\ gain[k] <= Flawless
  <2>1. k \in 1..5
    BY <1>1
  <2>2. Upto(k) \in Nat /\ Upto(k) <= k
    <3> DEFINE A == {h \in hits : h <= k}
    <3>1. A \in SUBSET (1..k)
      BY <1>1, <2>1
    <3>2. IsFiniteSet(1..k) /\ Cardinality(1..k) = k
      BY <2>1, FirstNumbers
    <3> HIDE DEF A
    <3>3. Cardinality(A) \in Nat /\ Cardinality(A) <= k
      BY <3>1, <3>2, FS_Subset, FS_CardinalityType
    <3> QED
      BY <3>3 DEF A
  <2>3. gain[k] = (Flawless * Upto(k)) \div k
    OBVIOUS
  <2> HIDE DEF gain, Upto
  <2>4. Flawless * Upto(k) \in Nat /\ Flawless * Upto(k) <= Flawless * k
    BY <1>2, <2>1, <2>2, ProductGrows
  <2> QED
    BY <1>2, <2>1, <2>3, <2>4, ShareOnTheScale
<1>5. SumOf(gain) = Total(hits, gain)
  <2>1. DOMAIN gain = hits
    OBVIOUS
  <2> HIDE DEF gain, hits
  <2> QED
    BY <1>1, <2>1, SumIsTotal
<1>6. SumOf(earned) = Total(hits, Discount) /\ SumOf(ideal) = Total(1..best, Discount)
  <2>1. DOMAIN earned = hits /\ DOMAIN ideal = 1..best
    OBVIOUS
  <2>2. \A k \in hits : Discount[k] \in Int /\ earned[k] = Discount[k]
    BY <1>1, DiscountFalls
  <2>3. \A k \in 1..best : Discount[k] \in Int /\ ideal[k] = Discount[k]
    BY <1>1, DiscountFalls
  <2>4. IsFiniteSet(1..best)
    BY <1>1, FirstNumbers
  <2> HIDE DEF earned, ideal, hits
  <2>5. SumOf(earned) = Total(hits, earned)
    BY <1>1, <2>1, SumIsTotal
  <2>6. Total(hits, Discount) = Total(hits, earned)
    BY <1>1, <2>2, TotalAgrees
  <2>7. SumOf(ideal) = Total(1..best, ideal)
    BY <2>1, <2>4, SumIsTotal
  <2>8. Total(1..best, Discount) = Total(1..best, ideal)
    BY <2>3, <2>4, TotalAgrees
  <2> QED
    BY <2>5, <2>6, <2>7, <2>8
<1>7. CASE hits = {}
  <2>1. n = 0 /\ m.hit = 0
    BY <1>3, <1>7, FS_EmptySet
  <2>2. Total(hits, gain) = 0 /\ Total(hits, Discount) = 0
    <3> HIDE DEF gain, hits
    <3> QED
      BY <1>1, <1>7, TotalOfSome
  <2>3. Total(1..best, Discount) \in Nat \ {0}
    <3> HIDE DEF hits
    <3> QED
      BY <1>1, IdealIsBest
  <2>4. Flawless * 0 = 0
    BY <1>2
  <2> HIDE DEF gain, earned, ideal, hits, n, t
  <2>5. ASSUME NEW x \in Nat \ {0} PROVE 0 \div x = 0
    <3>1. 0 <= 0 * x /\ 0 \div x \in Nat /\ 0 \div x <= 0
      BY <2>5, ShareOnTheScale
    <3> QED
      BY <3>1
  <2>6. TopK \in Nat \ {0} /\ best \in Nat \ {0} /\ t \in Nat \ {0}
    BY <1>1
  <2>7. 0 \div TopK = 0 /\ 0 \div t = 0 /\ 0 \div best = 0
    BY <2>5, <2>6
  <2>8. 0 \div Total(1..best, Discount) = 0
    BY <2>3, <2>5
  <2>9. m.precision = 0 /\ m.recall = 0 /\ m.average_precision = 0 /\ m.ndcg = 0
    BY <1>3, <1>5, <1>6, <2>1, <2>2, <2>4, <2>7, <2>8
  <2>10. /\ m.hit \in 0..Flawless
         /\ {m.precision, m.recall, m.average_precision, m.ndcg} \subseteq 0..m.hit
    BY <1>2, <2>1, <2>9
  <2> QED
    BY <2>10 DEF m
<1>8. CASE hits # {}
  <2>1. m.hit = Flawless
    BY <1>3, <1>8
  <2> DEFINE f == Flawless
  <2>2. f * n \in Nat /\ f * n <= f * TopK /\ f * n <= f * t /\ f * n <= f * best
    <3> HIDE DEF n, t, f, hits
    <3>1. f \in Nat /\ TopK \in Nat /\ t \in Nat /\ best \in Nat
      BY <1>1, <1>2 DEF f
    <3>2. f * n \in Nat /\ f * n <= f * TopK
      BY <1>1, <3>1, ProductGrows
    <3>3. f * n <= f * t
      BY <1>1, <3>1, ProductGrows
    <3>4. f * n <= f * best
      BY <1>1, <3>1, ProductGrows
    <3> QED
      BY <3>2, <3>3, <3>4
  <2>3. Total(hits, gain) \in Nat /\ Total(hits, gain) <= f * n
    <3>1. ASSUME NEW lo \in Int, NEW hi \in Int,
                 \A x \in hits : gain[x] \in Int /\ lo <= gain[x] /\ gain[x] <= hi
          PROVE  /\ Total(hits, gain) \in Int
                 /\ lo * Cardinality(hits) <= Total(hits, gain)
                 /\ Total(hits, gain) <= hi * Cardinality(hits)
      <4> HIDE DEF gain, hits
      <4> QED
        BY <1>1, <3>1, TotalBounded
    <3> HIDE DEF gain, hits, n
    <3>2. \A x \in hits : gain[x] \in Int /\ 0 <= gain[x] /\ gain[x] <= f
      BY <1>4
    <3> HIDE DEF f
    <3>3. f \in Int
      BY <1>2 DEF f
    <3> DEFINE zero == 0
    <3>4. zero \in Int /\ \A x \in hits : gain[x] \in Int /\ zero <= gain[x] /\ gain[x] <= f
      BY <3>2
    <3>5. zero * Cardinality(hits) = 0
      BY <1>1 DEF n
    <3> HIDE DEF zero
    <3>6. Total(hits, gain) \in Int /\ zero * Cardinality(hits) <= Total(hits, gain)
          /\ Total(hits, gain) <= f * Cardinality(hits)
      BY <3>1, <3>3, <3>4
    <3> QED
      BY <3>5, <3>6 DEF n
  <2>4. /\ Total(hits, Discount) \in Nat /\ Total(1..best, Discount) \in Nat \ {0}
        /\ Total(hits, Discount) <= Total(1..best, Discount)
    <3> HIDE DEF hits
    <3> QED
      BY <1>1, IdealIsBest DEF n
  <2>5. /\ f * Total(hits, Discount) \in Nat
        /\ f * Total(hits, Discount) <= f * Total(1..best, Discount)
    <3> DEFINE a == Total(hits, Discount)
               b == Total(1..best, Discount)
    <3>1. a \in Nat /\ b \in Nat /\ a <= b /\ f \in Nat
      BY <1>2, <2>4
    <3> HIDE DEF a, b, f
    <3>2. f * a \in Nat /\ f * a <= f * b
      BY <3>1, ProductGrows
    <3> QED
      BY <3>2 DEF a, b
  <2> HIDE DEF gain, earned, ideal, hits, n, t
  <2>6. m.precision \in Nat /\ m.precision <= f
    <3>1. TopK \in Nat /\ TopK # 0 /\ f \in Nat /\ m.precision = (f * n) \div TopK
      BY <1>1, <1>2, <1>3
    <3> HIDE DEF f
    <3> QED
      BY <2>2, <3>1, ShareOnTheScale
  <2>7. m.recall \in Nat /\ m.recall <= f
    BY <1>1, <1>2, <1>3, <2>2, ShareOnTheScale
  <2>8. m.average_precision \in Nat /\ m.average_precision <= f
    <3>1. Total(hits, gain) \in Nat /\ best \in Nat /\ best # 0 /\ f \in Nat
          /\ Total(hits, gain) <= f * best
      <4> DEFINE x == f * n
                 y == f * best
      <4>1. x \in Int /\ x <= y /\ y \in Int
        <5>1. f \in Int /\ best \in Int
          BY <1>1, <1>2
        <5> HIDE DEF f
        <5> QED
          BY <2>2, <5>1
      <4>2. Total(hits, gain) <= x
        BY <2>3
      <4> HIDE DEF x, y
      <4>3. Total(hits, gain) <= y
        BY <2>3, <4>1, <4>2
      <4> QED
        BY <1>1, <1>2, <2>3, <4>3 DEF y
    <3>2. m.average_precision = Total(hits, gain) \div best
      BY <1>3, <1>5
    <3> HIDE DEF f
    <3> QED
      BY <3>1, <3>2, ShareOnTheScale
  <2>9. m.ndcg \in Nat /\ m.ndcg <= f
    <3> DEFINE x == f * Total(hits, Discount)
               b == Total(1..best, Discount)
    <3>1. x \in Nat /\ x <= f * b /\ b \in Nat /\ b # 0 /\ f \in Nat
      BY <1>2, <2>4, <2>5
    <3>2. m.ndcg = x \div b
      BY <1>3, <1>6
    <3> HIDE DEF x, b, f
    <3> QED
      BY <3>1, <3>2, ShareOnTheScale
  <2>10. m.hit \in 0..f /\ {m.precision, m.recall, m.average_precision, m.ndcg} \subseteq 0..m.hit
    <3>1. m.hit = f /\ f \in Nat
      BY <1>2, <2>1
    <3> HIDE DEF f
    <3> QED
      BY <2>6, <2>7, <2>8, <2>9, <3>1
  <2> QED
    BY <2>10 DEF m
<1> QED
  BY <1>7, <1>8

\* The metrics of short lists are shares below the share of users with a hit;
\* the coverage is one when the lists show no more than the catalog has, or
\* one product.
LEMMA MetricsOnTheScale ==
    ASSUME NEW lists, NEW test, NEW catalog,
           IsFiniteSet(test), RelevantEvents(test) # {}, IsFiniteSet(catalog),
           DOMAIN lists = UsersIn(RelevantEvents(test)),
           NEW T, IsFiniteSet(T), T \subseteq catalog \/ Cardinality(T) <= 1,
           \A u \in DOMAIN lists : \E S \in SUBSET T : ShortList(lists[u], S)
    PROVE  LET m == ranking_metrics(lists, test, catalog)
           IN  /\ m.hit_rate \in 0..Flawless /\ m.coverage \in 0..Flawless
               /\ {m.precision, m.recall, m.map, m.ndcg} \subseteq 0..m.hit_rate
<1> DEFINE users == DOMAIN lists
           each == [u \in users |-> UserMetrics(lists[u], Truth(test, u))]
           column(c) == [u \in users |-> each[u][c]]
           Mean(c) == SumOf(column(c)) \div Cardinality(users)
           shown == UNION {{lists[u][k] : k \in DOMAIN lists[u]} : u \in users}
           m == ranking_metrics(lists, test, catalog)
           top == [u \in users |-> Flawless]
<1>1. Flawless \in Nat
  BY DEF Flawless
<1>2. IsFiniteSet(users) /\ users # {}
  <2> DEFINE R == RelevantEvents(test)
             g == [e \in R |-> e.user_id]
  <2>1. R \subseteq test
    BY DEF RelevantEvents, Rated
  <2>2. IsFiniteSet(R) /\ R # {}
    <3> HIDE DEF R
    <3> QED
      BY <2>1, FS_Subset DEF R
  <2>3. DOMAIN g = R /\ users = {g[e] : e \in R}
    BY DEF UsersIn
  <2> HIDE DEF g, R
  <2> QED
    BY <2>2, <2>3, ImageIsFinite
<1>3. ASSUME NEW u \in users
      PROVE  /\ each[u].hit \in 0..Flawless
             /\ {each[u].precision, each[u].recall, each[u].average_precision, each[u].ndcg}
                   \subseteq 0..each[u].hit
  <2> DEFINE R == OfUser(RelevantEvents(test), u)
             g == [e \in R |-> e.product_id]
             truth == Truth(test, u)
  <2>1. R \in SUBSET test
    BY DEF OfUser, RelevantEvents, Rated
  <2>2. R # {}
    BY DEF UsersIn, OfUser
  <2>3. DOMAIN g = R /\ truth = {g[e] : e \in R}
    BY DEF Truth, ItemsOf
  <2>4. IsFiniteSet(truth) /\ truth # {}
    <3> HIDE DEF g, R, truth
    <3>1. IsFiniteSet(R)
      BY <2>1, FS_Subset
    <3>2. IsFiniteSet({g[e] : e \in R})
      BY <2>3, <3>1, ImageIsFinite
    <3> QED
      BY <2>2, <2>3, <3>2
  <2>5. PICK S \in SUBSET T : ShortList(lists[u], S)
    OBVIOUS
  <2>6. each[u] = UserMetrics(lists[u], truth)
    OBVIOUS
  <2> HIDE DEF each, truth
  <2> QED
    BY <2>4, <2>5, <2>6, UserShares
<1>4. /\ m.precision = Mean("precision") /\ m.recall = Mean("recall")
      /\ m.map = Mean("average_precision") /\ m.ndcg = Mean("ndcg")
      /\ m.hit_rate = Mean("hit")
      /\ m.coverage = (Flawless * Cardinality(shown)) \div Max({1, Cardinality(catalog)})
  BY DEF ranking_metrics, Flawless
<1> HIDE DEF m, each
<1>5. ASSUME NEW c \in {"precision", "recall", "average_precision", "ndcg"}
      PROVE  Mean(c) \in Nat /\ Mean(c) <= Mean("hit")
  <2>1. ASSUME NEW u \in users
        PROVE  column(c)[u] \in Nat /\ column("hit")[u] \in Nat /\ column(c)[u] <= column("hit")[u]
    <3>1. each[u].hit \in Nat
      BY <1>1, <1>3
    <3>2. each[u][c] \in 0..each[u].hit
      BY <1>3
    <3> QED
      BY <3>1, <3>2
  <2>2. DOMAIN column(c) = users /\ DOMAIN column("hit") = users
    OBVIOUS
  <2> HIDE DEF column
  <2> QED
    BY <1>2, <2>1, <2>2, MeansKeepOrder
<1>6. Mean("hit") \in Nat /\ Mean("hit") <= Flawless
  <2>1. ASSUME NEW u \in users
        PROVE  column("hit")[u] \in Nat /\ top[u] \in Nat /\ column("hit")[u] <= top[u]
    BY <1>1, <1>3
  <2>2. DOMAIN top = users /\ DOMAIN column("hit") = users /\ \A u \in users : top[u] = Flawless
    OBVIOUS
  <2> HIDE DEF column, top
  <2>3. Mean("hit") \in Nat /\ Mean("hit") <= SumOf(top) \div Cardinality(users)
    BY <1>2, <2>1, <2>2, MeansKeepOrder
  <2>4. SumOf(top) = Flawless * Cardinality(users)
    <3>1. SumOf(top) = Total(users, top)
      BY <1>2, <2>2, SumIsTotal
    <3> DEFINE f == Flawless
    <3>2. f \in Int /\ \A u \in users : top[u] = f
      BY <1>1, <2>2
    <3> HIDE DEF f
    <3>3. Total(users, top) = f * Cardinality(users)
      BY <1>2, <3>2, TotalConstant
    <3> QED
      BY <3>1, <3>3 DEF f
  <2>5. (Flawless * Cardinality(users)) \div Cardinality(users) <= Flawless
    <3> DEFINE n == Cardinality(users)
               x == Flawless * n
    <3>1. n \in Nat /\ n # 0
      BY <1>2, FS_CardinalityType, FS_EmptySet
    <3> HIDE DEF n
    <3>2. x \in Nat /\ x <= Flawless * n
      BY <1>1, <3>1
    <3> HIDE DEF x
    <3>3. x \div n <= Flawless
      BY <1>1, <3>1, <3>2, ShareOnTheScale
    <3> QED
      BY <3>3 DEF n, x
  <2>6. SumOf(top) \div Cardinality(users) <= Flawless /\ SumOf(top) \div Cardinality(users) \in Nat
    <3>1. SumOf(top) \div Cardinality(users) <= Flawless
      BY <2>4, <2>5
    <3>2. SumOf(top) \div Cardinality(users) \in Nat
      BY <1>2, <2>1, <2>2, MeansKeepOrder
    <3> QED
      BY <3>1, <3>2
  <2> DEFINE q == SumOf(top) \div Cardinality(users)
             p == Mean("hit")
  <2>7. p \in Nat /\ p <= q /\ q \in Nat /\ q <= Flawless
    BY <2>3, <2>6
  <2> HIDE DEF p, q
  <2>8. p \in Nat /\ p <= Flawless
    BY <1>1, <2>7
  <2> QED
    BY <2>8 DEF p
<1>7. m.coverage \in 0..Flawless
  <2> DEFINE c == Cardinality(catalog)
             s == Cardinality(shown)
             x == Max({1, c})
  <2>1. shown \in SUBSET T
    <3>1. ASSUME NEW u \in users
          PROVE  {lists[u][k] : k \in DOMAIN lists[u]} \in SUBSET T
      <4>1. PICK S \in SUBSET T : ShortList(lists[u], S)
        OBVIOUS
      <4> QED
        BY <4>1, ShortListShows
    <3> QED
      BY <3>1
  <2>2. s \in Nat /\ c \in Nat
    <3> HIDE DEF shown
    <3> QED
      BY <2>1, FS_Subset, FS_CardinalityType
  <2>3. x \in Int /\ 1 <= x /\ c <= x
    <3> HIDE DEF c
    <3> QED
      BY <2>2, MaxOfTwo
  <2>4. s <= x
    <3> HIDE DEF shown, x
    <3>1. CASE T \subseteq catalog
      <4>1. shown \in SUBSET catalog
        BY <2>1, <3>1
      <4>2. s <= c
        BY <4>1, FS_Subset
      <4> HIDE DEF s, c
      <4> QED
        BY <2>2, <2>3, <4>2
    <3>2. CASE Cardinality(T) <= 1
      <4>1. s <= Cardinality(T) /\ Cardinality(T) \in Nat
        BY <2>1, FS_Subset, FS_CardinalityType
      <4> HIDE DEF s, c
      <4> QED
        BY <2>2, <2>3, <3>2, <4>1
    <3> QED
      BY <3>1, <3>2
  <2> HIDE DEF s, x
  <2>5. x \in Nat /\ x # 0
    BY <2>3
  <2>6. Flawless * s \in Nat /\ Flawless * s <= Flawless * x
    BY <1>1, <2>2, <2>4, <2>5, ProductGrows
  <2>7. (Flawless * s) \div x \in Nat /\ (Flawless * s) \div x <= Flawless
    BY <1>1, <2>5, <2>6, ShareOnTheScale
  <2>8. m.coverage = (Flawless * s) \div x
    BY <1>4 DEF s, x
  <2> QED
    BY <1>1, <2>7, <2>8
<1>8. m.hit_rate \in 0..Flawless /\ {m.precision, m.recall, m.map, m.ndcg} \subseteq 0..m.hit_rate
  <2>1. /\ Mean("precision") \in Nat /\ Mean("precision") <= Mean("hit")
        /\ Mean("recall") \in Nat /\ Mean("recall") <= Mean("hit")
        /\ Mean("average_precision") \in Nat /\ Mean("average_precision") <= Mean("hit")
        /\ Mean("ndcg") \in Nat /\ Mean("ndcg") <= Mean("hit")
    BY <1>5
  <2> HIDE DEF Mean
  <2> QED
    BY <1>1, <1>4, <1>6, <2>1
<1> QED
  BY <1>7, <1>8 DEF m

\* Every metric a training reports is a share, and none that rewards a hit
\* exceeds the share of users that got one: the lists repeat no item and show
\* no more products than the catalog has, or a single one.
THEOREM MetricsStayShares == Spec => []MetricsAreShares
<1>1. ASSUME FlowInv, ResultInv, phase = "trained"
      PROVE  \A model \in DOMAIN models.metrics :
                LET m == models.metrics[model]
                IN  /\ m.hit_rate \in 0..Flawless /\ m.coverage \in 0..Flawless
                    /\ {m.precision, m.recall, m.map, m.ndcg} \subseteq 0..m.hit_rate
  <2> DEFINE train == prepared.split.train
             test == prepared.split.test
             users == UsersIn(RelevantEvents(test))
             touched == ItemsOf(select_feature_events(prepared))
             Sound(m) == /\ m.hit_rate \in 0..Flawless /\ m.coverage \in 0..Flawless
                         /\ {m.precision, m.recall, m.map, m.ndcg} \subseteq 0..m.hit_rate
  <2>1. Grounded(origin.src) /\ TablesFrom(prepared, features)
    BY <1>1, FeaturesAreGrounded DEF ResultInv, HasFeatures
  <2>2. PICK own, content :
           /\ models.metrics = [collaborative |-> ranking_metrics(own, test, Catalog),
                                content_based |-> ranking_metrics(content, test, Catalog)]
           /\ DOMAIN own = users /\ DOMAIN content = users
           /\ \A w \in users :
                 /\ ShortList(own[w], ItemsOf(Rated(train)) \ Seen(train, w))
                 /\ ShortList(content[w], Catalog \ History(train, w))
           /\ RelevantEvents(test) # {}
    BY <1>1, TrainedLists
  <2>3. IsFiniteSet(test) /\ IsFiniteSet(Catalog)
    BY <2>1, CatalogIsPrepared, FS_Subset DEF Grounded
  <2>4. IsFiniteSet(touched) /\ (touched \subseteq Catalog \/ Cardinality(touched) <= 1)
    BY <2>1, TouchedInCatalog
  <2>5. ItemsOf(Rated(train)) \subseteq touched
    <3>1. train \subseteq select_feature_events(prepared)
      BY <2>1 DEF Grounded
    <3> HIDE DEF train
    <3> QED
      BY <3>1 DEF ItemsOf, Rated
  <2> HIDE DEF train, test, touched, Sound
  <2>6. Sound(ranking_metrics(own, test, Catalog))
    <3>1. \A w \in DOMAIN own : \E S \in SUBSET touched : ShortList(own[w], S)
      <4> SUFFICES ASSUME NEW w \in DOMAIN own
                   PROVE  \E S \in SUBSET touched : ShortList(own[w], S)
        OBVIOUS
      <4>1. ItemsOf(Rated(train)) \ Seen(train, w) \in SUBSET touched
        BY <2>5
      <4> QED
        BY <2>2, <4>1
    <3> QED
      BY <2>2, <2>3, <2>4, <3>1, MetricsOnTheScale DEF Sound
  <2>7. Sound(ranking_metrics(content, test, Catalog))
    <3>1. \A w \in DOMAIN content : \E S \in SUBSET Catalog : ShortList(content[w], S)
      <4> SUFFICES ASSUME NEW w \in DOMAIN content
                   PROVE  \E S \in SUBSET Catalog : ShortList(content[w], S)
        OBVIOUS
      <4>1. Catalog \ History(train, w) \in SUBSET Catalog
        OBVIOUS
      <4> QED
        BY <2>2, <4>1
    <3>2. Catalog \subseteq Catalog \/ Cardinality(Catalog) <= 1
      OBVIOUS
    <3> QED
      BY <2>2, <2>3, <3>1, <3>2, MetricsOnTheScale DEF Sound
  <2>8. \A model \in DOMAIN models.metrics : Sound(models.metrics[model])
    BY <2>2, <2>6, <2>7
  <2> QED
    BY <2>8 DEF Sound
<1>2. ASSUME FlowInv, ResultInv
      PROVE  MetricsAreShares
  <2> DEFINE Sound(m) == /\ m.hit_rate \in 0..Flawless /\ m.coverage \in 0..Flawless
                         /\ {m.precision, m.recall, m.map, m.ndcg} \subseteq 0..m.hit_rate
             AllSound == \A model \in DOMAIN models.metrics : Sound(models.metrics[model])
  <2>1. phase = "trained" => AllSound
    BY <1>1, <1>2
  <2>2. (phase = "trained" => AllSound) <=> MetricsAreShares
    BY DEF MetricsAreShares, Flawless
  <2> HIDE DEF AllSound
  <2> QED
    BY <2>1, <2>2
<1> QED
  BY <1>2, FlowInvariant, ResultInvariant, PTL

-----------------------------------------------------------------------------
(***************************************************************************)
(* The feature tables: totals, pairs and similarities.                     *)
(***************************************************************************)

\* The users that preparation kept are finitely many.
LEMMA PreparedUsers ==
    ASSUME FlowInv, ResultInv, phase \in {"engineered", "trained"}
    PROVE  IsFiniteSet(prepared.users)
<1>1. HasPrepared /\ HasFiles /\ HasReport /\ PassedGate
  <2>1. reason = ""
    BY DEF FlowInv
  <2> QED
    BY <2>1 DEF HasPrepared, HasFiles, GenerationErrors, HasReport, PassedGate
<1>2. TablesOf(files, origin.src) /\ ReportsOn(report, files) /\ report.status # "FAILED"
  BY <1>1 DEF ResultInv, FlowInv
<1>3. prepared.users = clean_users(ValidOf(report))
  BY <1>1, PreparedBatch DEF prepare_frames
<1> DEFINE v == ValidOf(report)["users"]
<1>4. prepared.users = {v[k] : k \in DOMAIN v}
  BY <1>3 DEF clean_users
<1>5. IsFiniteSet(DOMAIN v)
  BY <1>2, ValidRowsOfFile DEF Datasets
<1> HIDE DEF v
<1> QED
  BY <1>4, <1>5, ImageIsFinite

\* The three tables count one selection of events.
LEMMA TotalsBalance ==
    ASSUME FlowInv, ResultInv, phase = "engineered",
           Cardinality(IdsOf(features.events, "product_id")) > 1
    PROVE  LET Sum(table) ==
                  SumOf([k \in DOMAIN table |-> table[k].activity.total_interactions])
               kept == {e \in features.events : e.user_id \in DOMAIN features.users}
           IN  /\ Sum(features.items) = Cardinality(features.events)
               /\ Sum(features.user_items) = Cardinality(features.events)
               /\ Sum(features.users) = Cardinality(kept)
<1> DEFINE E == features.events
           Sum(table) == SumOf([k \in DOMAIN table |-> table[k].activity.total_interactions])
           product == [e \in E |-> e.product_id]
           user == [e \in E |-> e.user_id]
           both == [e \in E |-> <<e.user_id, e.product_id>>]
           known == {u.user_id : u \in prepared.users}
           ids == {p.product_id : p \in prepared.products}
           touched == {e.product_id : e \in E}
<1>1. Grounded(origin.src) /\ TablesFrom(prepared, features)
  BY FeaturesAreGrounded DEF ResultInv, HasFeatures
<1>2. /\ E = select_feature_events(prepared)
      /\ features.user_items = compute_user_item_features(E, prepared.products)
      /\ features.items = compute_item_features(E, prepared.products)
      /\ features.users = compute_user_features(E, prepared.users)
  BY <1>1 DEF FlowInv, HasFeatures, ComputedFrom, TablesFrom
<1>3. IsFiniteSet(E)
  BY <1>1, <1>2, FS_Subset DEF Grounded
<1>30. ASSUME NEW key, NEW table, IsFiniteSet(DOMAIN table),
              \A k \in DOMAIN table :
                 table[k].activity.total_interactions = Cardinality({e \in E : key[e] = k})
       PROVE  Sum(table) = Cardinality({e \in E : key[e] \in DOMAIN table})
  <2> DEFINE f == [k \in DOMAIN table |-> table[k].activity.total_interactions]
  <2>1. DOMAIN f = DOMAIN table /\ \A k \in DOMAIN f : f[k] = Cardinality({e \in E : key[e] = k})
    BY <1>30
  <2>2. IsFiniteSet(DOMAIN f)
    BY <1>30
  <2> HIDE DEF E, f
  <2>3. SumOf(f) = Cardinality({e \in E : key[e] \in DOMAIN f})
    BY <1>3, <2>1, <2>2, CountsAddUp
  <2> QED
    BY <2>1, <2>3 DEF f
<1>4. Sum(features.items) = Cardinality(E)
  <2>1. DOMAIN features.items = ids
    BY <1>2 DEF compute_item_features
  <2>2. \A i \in ids : features.items[i].activity.total_interactions
                          = Cardinality({e \in E : e.product_id = i})
    BY <1>2 DEF compute_item_features, Activity
  <2>3. \A i : {e \in E : e.product_id = i} = {e \in E : product[e] = i}
    OBVIOUS
  <2>4. IsFiniteSet(ids)
    BY <1>1, <2>1, CatalogIsPrepared DEF Catalog
  <2> HIDE DEF product, ids, E, Sum
  <2>45. IsFiniteSet(DOMAIN features.items)
    BY <2>1, <2>4
  <2>5. \A i \in DOMAIN features.items :
           features.items[i].activity.total_interactions = Cardinality({e \in E : product[e] = i})
    BY <2>1, <2>2, <2>3
  <2>6. Sum(features.items) = Cardinality({e \in E : product[e] \in DOMAIN features.items})
    BY <1>30, <2>45, <2>5
  <2>7. {e \in E : product[e] \in DOMAIN features.items} = E
    <3>1. touched \subseteq Catalog \/ Cardinality(touched) <= 1
      BY <1>1, <1>2, TouchedInCatalog DEF ItemsOf
    <3>2. Cardinality(touched) > 1 /\ Cardinality(touched) \in Int
      <4>1. touched = IdsOf(E, "product_id")
        BY DEF IdsOf
      <4>2. touched = ItemsOf(select_feature_events(prepared))
        BY <1>2 DEF ItemsOf
      <4>3. Cardinality(touched) \in Int
        <5> HIDE DEF touched
        <5> QED
          BY <1>1, <4>2, TouchedInCatalog, FS_CardinalityType
      <4> QED
        BY <4>1, <4>3 DEF E
    <3>3. touched \subseteq Catalog
      <4> HIDE DEF touched
      <4> QED
        BY <3>1, <3>2
    <3> QED
      BY <3>3 DEF product, Catalog
  <2> QED
    BY <2>6, <2>7
<1>5. Sum(features.user_items) = Cardinality(E)
  <2> DEFINE pairs == {<<e.user_id, e.product_id>> : e \in E}
  <2>1. DOMAIN features.user_items = pairs
    BY <1>2 DEF compute_user_item_features
  <2>2. \A p \in pairs : features.user_items[p].activity.total_interactions
                          = Cardinality({e \in E : <<e.user_id, e.product_id>> = p})
    BY <1>2 DEF compute_user_item_features, Activity
  <2>3. \A p : {e \in E : <<e.user_id, e.product_id>> = p} = {e \in E : both[e] = p}
    OBVIOUS
  <2>4. pairs = {both[e] : e \in E} /\ DOMAIN both = E
    OBVIOUS
  <2> HIDE DEF both, pairs, E, Sum
  <2>5. IsFiniteSet(pairs)
    BY <1>3, <2>4, ImageIsFinite
  <2>55. IsFiniteSet(DOMAIN features.user_items)
    BY <2>1, <2>5
  <2>6. \A p \in DOMAIN features.user_items :
           features.user_items[p].activity.total_interactions = Cardinality({e \in E : both[e] = p})
    BY <2>1, <2>2, <2>3
  <2>7. Sum(features.user_items) = Cardinality({e \in E : both[e] \in DOMAIN features.user_items})
    BY <1>30, <2>55, <2>6
  <2>8. {e \in E : both[e] \in DOMAIN features.user_items} = E
    BY <2>1, <2>4
  <2> QED
    BY <2>7, <2>8
<1>6. Sum(features.users) = Cardinality({e \in E : e.user_id \in DOMAIN features.users})
  <2>1. DOMAIN features.users = known
    BY <1>2 DEF compute_user_features
  <2>2. \A u \in known : features.users[u].activity.total_interactions
                          = Cardinality({e \in E : e.user_id = u})
    BY <1>2 DEF compute_user_features, Activity
  <2>3. \A u : {e \in E : e.user_id = u} = {e \in E : user[e] = u}
    OBVIOUS
  <2>4. IsFiniteSet(known)
    <3> DEFINE g == [u \in prepared.users |-> u.user_id]
    <3>1. known = {g[u] : u \in prepared.users} /\ DOMAIN g = prepared.users
      OBVIOUS
    <3> HIDE DEF g, known
    <3>2. IsFiniteSet(prepared.users)
      BY PreparedUsers
    <3> QED
      BY <3>1, <3>2, ImageIsFinite
  <2>5. {e \in E : user[e] \in DOMAIN features.users}
          = {e \in E : e.user_id \in DOMAIN features.users}
    OBVIOUS
  <2> HIDE DEF user, known, E, Sum
  <2>45. IsFiniteSet(DOMAIN features.users)
    BY <2>1, <2>4
  <2>6. \A u \in DOMAIN features.users :
           features.users[u].activity.total_interactions = Cardinality({e \in E : user[e] = u})
    BY <2>1, <2>2, <2>3
  <2>7. Sum(features.users) = Cardinality({e \in E : user[e] \in DOMAIN features.users})
    BY <1>30, <2>45, <2>6
  <2> QED
    BY <2>5, <2>7
<1> QED
  BY <1>4, <1>5, <1>6

\* A pair counts the users of whom both pair features exist.
LEMMA PairsCountUsers ==
    ASSUME FlowInv, ResultInv, phase = "engineered", NEW p \in DOMAIN features.cooccurrence
    PROVE  LET both == {u \in IdsOf(features.events, "user_id") :
                          {<<u, p[1]>>, <<u, p[2]>>} \subseteq DOMAIN features.user_items}
           IN  /\ features.cooccurrence[p].count = Cardinality(both)
               /\ features.cooccurrence[p].co_purchases <= Cardinality(both)
<1> DEFINE E == features.events
           both == {u \in IdsOf(E, "user_id") :
                       {<<u, p[1]>>, <<u, p[2]>>} \subseteq DOMAIN features.user_items}
           common == UsersOf(E, p[1]) \cap UsersOf(E, p[2])
           bought == OfType(E, "Purchase")
           buyers == UsersOf(bought, p[1]) \cap UsersOf(bought, p[2])
<1>1. Grounded(origin.src) /\ TablesFrom(prepared, features)
  BY FeaturesAreGrounded DEF ResultInv, HasFeatures
<1>2. /\ E = select_feature_events(prepared)
      /\ features.user_items = compute_user_item_features(E, prepared.products)
      /\ features.cooccurrence = compute_cooccurrence(E)
  BY <1>1 DEF FlowInv, HasFeatures, ComputedFrom, TablesFrom
<1>3. IsFiniteSet(E)
  BY <1>1, <1>2, FS_Subset DEF Grounded
<1> HIDE DEF E
<1>4. p \in Cooccurring(E)
  BY <1>2 DEF compute_cooccurrence, limit_pair_neighbors
<1>5. /\ features.cooccurrence[p].count = Cardinality(common)
      /\ features.cooccurrence[p].co_purchases = Cardinality(buyers)
  BY <1>2, <1>4 DEF compute_cooccurrence
<1>6. DOMAIN features.user_items = {<<e.user_id, e.product_id>> : e \in E}
  BY <1>2 DEF compute_user_item_features
<1>7. \A i : \A u : <<u, i>> \in DOMAIN features.user_items <=> u \in UsersOf(E, i)
  BY <1>6 DEF UsersOf
<1>8. both = common
  <2>1. \A i : UsersOf(E, i) \subseteq IdsOf(E, "user_id")
    BY DEF UsersOf, IdsOf
  <2> QED
    BY <1>7, <2>1
<1>9. buyers \in SUBSET common
  BY DEF UsersOf, OfType
<1>10. IsFiniteSet(common)
  <2> DEFINE users == IdsOf(E, "user_id")
             g == [e \in E |-> e.user_id]
  <2>1. users = {g[e] : e \in E} /\ DOMAIN g = E
    BY DEF IdsOf
  <2>2. common \in SUBSET users
    BY DEF UsersOf, IdsOf
  <2> HIDE DEF g, users, common
  <2>3. IsFiniteSet(users)
    BY <1>3, <2>1, ImageIsFinite
  <2> QED
    BY <2>2, <2>3, FS_Subset
<1> HIDE DEF both, common, buyers
<1>11. /\ features.cooccurrence[p].count = Cardinality(both)
       /\ features.cooccurrence[p].co_purchases <= Cardinality(both)
  BY <1>5, <1>8, <1>9, <1>10, FS_Subset
<1> QED
  BY <1>11 DEF both, E

\* The whole root of a number.
LEMMA RootOf ==
    ASSUME NEW n \in Nat
    PROVE  Root(n) \in 0..n /\ Root(n) * Root(n) <= n /\ (Root(n) + 1) * (Root(n) + 1) > n
<1> DEFINE S == {r \in 0..n : r * r <= n}
           R == {p \in S \X S : p[1] < p[2]}
<1>1. S \in SUBSET (0..n) /\ IsFiniteSet(0..n)
  BY FS_Interval
<1>2. IsFiniteSet(S)
  <2> HIDE DEF S
  <2> QED
    BY <1>1, FS_Subset
<1>3. S # {}
  <2>1. 0 \in S
    OBVIOUS
  <2> QED
    BY <2>1
<1>4. StrictOrder(S, R)
  BY DEF StrictOrder
<1>5. PICK m \in S : \A x \in S : x = m \/ <<x, m>> \in R
  <2> HIDE DEF S, R
  <2> QED
    BY <1>2, <1>3, <1>4, LastExists
<1>6. \A x \in S : x <= m
  <2>1. \A x \in S : x \in Int
    OBVIOUS
  <2> HIDE DEF S
  <2>2. \A x \in S : <<x, m>> \in R => x < m
    OBVIOUS
  <2> HIDE DEF R
  <2>3. m \in Int
    BY <2>1
  <2> SUFFICES ASSUME NEW x \in S PROVE x <= m
    OBVIOUS
  <2>4. x = m \/ x < m
    BY <1>5, <2>2
  <2> QED
    BY <2>1, <2>3, <2>4
<1>7. m \in 0..n /\ m * m <= n
  OBVIOUS
<1>8. (m + 1) * (m + 1) > n
  <2>1. CASE m + 1 <= n
    <3>1. m + 1 \notin S /\ m + 1 \in 0..n
      BY <1>6, <2>1
    <3> QED
      BY <3>1
  <2>2. CASE m + 1 > n
    <3>1. m + 1 >= 1 /\ m + 1 \in Int
      BY <1>7
    <3>2. (m + 1) * (m + 1) >= m + 1
      BY <3>1
    <3>3. (m + 1) * (m + 1) \in Int
      BY <3>1
    <3> QED
      BY <2>2, <3>1, <3>2, <3>3
  <2> QED
    BY <2>1, <2>2, <1>7
<1>9. \E r \in 0..n : r * r <= n /\ (r + 1) * (r + 1) > n
  BY <1>7, <1>8
<1> QED
  BY <1>9 DEF Root

\* An item of the events has a vector of numbers that is not zero.
LEMMA VectorOfItem ==
    ASSUME NEW E, IsFiniteSet(E), \A e \in E : e.interaction_weight \in 1..5,
           NEW i \in ItemsOf(E)
    PROVE  LET U == {e.user_id : e \in E}
               v == Vector(E, i)
           IN  /\ DOMAIN v = U /\ IsFiniteSet(U)
               /\ \A u \in U : v[u] \in Nat
               /\ \E u \in U : v[u] # 0
<1> DEFINE U == {e.user_id : e \in E}
           Mine(u) == {f \in E : f.product_id = i /\ f.user_id = u}
           weights(u) == [e \in Mine(u) |-> e.interaction_weight]
           v == Vector(E, i)
           name == [e \in E |-> e.user_id]
<1>1. DOMAIN v = U /\ \A u \in U : v[u] = SumOf(weights(u))
  BY DEF Vector
<1>2. IsFiniteSet(U)
  <2>1. U = {name[e] : e \in E} /\ DOMAIN name = E
    OBVIOUS
  <2> HIDE DEF U, name
  <2> QED
    BY <2>1, ImageIsFinite
<1>3. ASSUME NEW u \in U
      PROVE  /\ IsFiniteSet(Mine(u)) /\ v[u] = Total(Mine(u), weights(u))
             /\ \A e \in Mine(u) : weights(u)[e] \in Nat /\ weights(u)[e] # 0
  <2>1. Mine(u) \in SUBSET E
    OBVIOUS
  <2>2. IsFiniteSet(Mine(u))
    <3> HIDE DEF Mine
    <3> QED
      BY <2>1, FS_Subset
  <2>3. \A e \in Mine(u) : weights(u)[e] = e.interaction_weight /\ e.interaction_weight \in 1..5
    OBVIOUS
  <2>4. DOMAIN weights(u) = Mine(u)
    OBVIOUS
  <2> HIDE DEF weights, Mine, v
  <2>5. SumOf(weights(u)) = Total(Mine(u), weights(u))
    BY <2>2, <2>4, SumIsTotal
  <2> QED
    BY <1>1, <2>2, <2>3, <2>5
<1>4. \A u \in U : v[u] \in Nat
  <2> SUFFICES ASSUME NEW u \in U PROVE v[u] \in Nat
    OBVIOUS
  <2>1. Mine(u) \in SUBSET Mine(u)
    OBVIOUS
  <2> HIDE DEF Mine, weights, v, U
  <2>2. Total(Mine(u), weights(u)) \in Nat
    BY <1>3, <2>1, TotalOfPart
  <2> QED
    BY <1>3, <2>2
<1>5. \E u \in U : v[u] # 0
  <2>1. PICK e \in E : e.product_id = i
    BY DEF ItemsOf
  <2> DEFINE u == e.user_id
  <2>2. u \in U /\ e \in Mine(u)
    BY <2>1
  <2> HIDE DEF Mine, weights, v, U, u
  <2>3. Total(Mine(u), weights(u)) # 0
    BY <1>3, <2>2, TotalPositive
  <2> QED
    BY <1>3, <2>2, <2>3
<1> QED
  BY <1>1, <1>2, <1>4, <1>5

\* The cosine of two items is on the scale.
LEMMA CosineOnTheScale ==
    ASSUME NEW E, IsFiniteSet(E), \A e \in E : e.interaction_weight \in 1..5,
           NEW i \in ItemsOf(E), NEW j \in ItemsOf(E)
    PROVE  cosine_similarity(E, i, j) \in 0..100
<1> DEFINE U == {e.user_id : e \in E}
           v == Vector(E, i)
           w == Vector(E, j)
           A == [u \in U |-> v[u] * v[u]]
           B == [u \in U |-> w[u] * w[u]]
           C == [u \in U |-> v[u] * w[u]]
           a == Total(U, A)
           b == Total(U, B)
           c == Total(U, C)
           r == Root(a * b)
<1>1. /\ DOMAIN v = U /\ IsFiniteSet(U)
      /\ \A u \in U : v[u] \in Nat
      /\ \E u \in U : v[u] # 0
  BY VectorOfItem
<1>2. /\ DOMAIN w = U
      /\ \A u \in U : w[u] \in Nat
      /\ \E u \in U : w[u] # 0
  BY VectorOfItem
<1>3. Dot(v, v) = SumOf(A) /\ Dot(w, w) = SumOf(B) /\ Dot(v, w) = SumOf(C)
  BY <1>1, <1>2 DEF Dot
<1> HIDE DEF v, w, U
<1>4. SumOf(A) = a /\ SumOf(B) = b /\ SumOf(C) = c
  <2>1. DOMAIN A = U /\ DOMAIN B = U /\ DOMAIN C = U
    OBVIOUS
  <2> HIDE DEF A, B, C
  <2>2. SumOf(A) = Total(U, A)
    BY <1>1, <2>1, SumIsTotal
  <2>3. SumOf(B) = Total(U, B)
    BY <1>1, <2>1, SumIsTotal
  <2>4. SumOf(C) = Total(U, C)
    BY <1>1, <2>1, SumIsTotal
  <2> QED
    BY <2>2, <2>3, <2>4
<1>5. a \in Nat /\ b \in Nat /\ c \in Nat /\ c * c <= a * b
  <2>1. /\ \A u \in U : v[u] \in Nat /\ w[u] \in Nat
        /\ \A u \in U : A[u] = v[u] * v[u]
        /\ \A u \in U : B[u] = w[u] * w[u]
        /\ \A u \in U : C[u] = v[u] * w[u]
    BY <1>1, <1>2
  <2> HIDE DEF A, B, C
  <2> QED
    BY SMTT(30), <1>1, <2>1, CauchySchwarz
<1>6. a # 0
  <2>1. PICK u \in U : v[u] # 0
    BY <1>1
  <2>2. A[u] # 0 /\ \A x \in U : A[x] \in Nat
    <3>1. v[u] \in Nat \ {0}
      BY <1>1, <2>1
    <3>2. v[u] * v[u] # 0
      BY <3>1
    <3> QED
      BY <1>1, <3>2
  <2> HIDE DEF A
  <2> QED
    BY <1>1, <2>2, TotalPositive
<1>7. b # 0
  <2>1. PICK u \in U : w[u] # 0
    BY <1>2
  <2>2. B[u] # 0 /\ \A x \in U : B[x] \in Nat
    <3>1. w[u] \in Nat \ {0}
      BY <1>2, <2>1
    <3>2. w[u] * w[u] # 0
      BY <3>1
    <3> QED
      BY <1>2, <3>2
  <2> HIDE DEF B
  <2> QED
    BY <1>1, <2>2, TotalPositive
<1> HIDE DEF a, b, c
<1>8. cosine_similarity(E, i, j) = (100 * c) \div r
  BY <1>3, <1>4 DEF cosine_similarity, v, w
<1>9. a * b \in Nat /\ a * b >= 1
  BY <1>5, <1>6, <1>7
<1> DEFINE d == a * b
<1>10. d \in Nat /\ d >= 1 /\ c * c <= d /\ r = Root(d)
  BY <1>5, <1>9
<1> HIDE DEF d
<1>11. r \in 0..d /\ r * r <= d /\ (r + 1) * (r + 1) > d
  <2>1. Root(d) \in 0..d /\ Root(d) * Root(d) <= d /\ (Root(d) + 1) * (Root(d) + 1) > d
    BY <1>10, RootOf
  <2> QED
    BY <1>10, <2>1
<1> HIDE DEF r
<1>12. r \in Nat /\ r # 0
  BY <1>10, <1>11
<1>13. c <= r
  <2>1. c * c \in Int /\ (r + 1) * (r + 1) \in Int
    BY <1>5, <1>12
  <2>2. c * c < (r + 1) * (r + 1)
    BY <1>10, <1>11, <2>1
  <2> QED
    BY <1>5, <1>12, <2>2, SquaresKeepOrder
<1>14. 100 * c \in Nat /\ 100 * c <= 100 * r
  BY <1>5, <1>12, <1>13
<1> DEFINE x == 100 * c
           n == 100
<1>15. x \in Nat /\ x <= n * r /\ n \in Nat
  BY <1>14
<1> HIDE DEF x, n
<1>16. x \div r \in Nat /\ x \div r <= n
  BY <1>12, <1>15, ShareOnTheScale
<1> QED
  BY <1>8, <1>16 DEF x, n

\* Whoever touched an item, in the events.
LEMMA UsersFinite ==
    ASSUME NEW E, IsFiniteSet(E), NEW i
    PROVE  IsFiniteSet(UsersOf(E, i)) /\ Cardinality(UsersOf(E, i)) \in Nat
<1> DEFINE F == {f \in E : f.product_id = i}
           g == [e \in F |-> e.user_id]
<1>1. F \in SUBSET E /\ DOMAIN g = F /\ UsersOf(E, i) = {g[e] : e \in F}
  BY DEF UsersOf
<1> HIDE DEF F, g
<1>2. IsFiniteSet(F)
  BY <1>1, FS_Subset
<1>3. IsFiniteSet(UsersOf(E, i))
  BY <1>1, <1>2, ImageIsFinite
<1> QED
  BY <1>3, FS_CardinalityType

\* So is their Jaccard similarity, with the pairs that were kept.
LEMMA JaccardOnTheScale ==
    ASSUME NEW E, IsFiniteSet(E), NEW i, NEW j
    PROVE  jaccard_similarity(E, compute_cooccurrence(E), i, j) \in 0..100
<1> DEFINE kept == compute_cooccurrence(E)
           key == IF i < j THEN <<i, j>> ELSE <<j, i>>
           common == IF key \in DOMAIN kept THEN kept[key].count ELSE 0
           a == Cardinality(UsersOf(E, i))
           b == Cardinality(UsersOf(E, j))
           both == UsersOf(E, i) \cap UsersOf(E, j)
           union == a + b - common
<1>1. a \in Nat /\ b \in Nat /\ IsFiniteSet(UsersOf(E, i)) /\ IsFiniteSet(UsersOf(E, j))
  BY UsersFinite
<1>2. Cardinality(both) \in Nat /\ Cardinality(both) <= a /\ Cardinality(both) <= b
  <2>1. both \in SUBSET UsersOf(E, i) /\ both \in SUBSET UsersOf(E, j)
    OBVIOUS
  <2> HIDE DEF both
  <2>2. IsFiniteSet(both) /\ Cardinality(both) <= a
    BY <1>1, <2>1, FS_Subset
  <2>3. Cardinality(both) <= b
    BY <1>1, <2>1, FS_Subset
  <2> QED
    BY <2>2, <2>3, FS_CardinalityType
<1>3. \A p \in DOMAIN kept : kept[p].count = Cardinality(UsersOf(E, p[1]) \cap UsersOf(E, p[2]))
  BY DEF compute_cooccurrence, limit_pair_neighbors
<1>4. UsersOf(E, key[1]) \cap UsersOf(E, key[2]) = both
  <2>1. key = <<i, j>> \/ key = <<j, i>>
    OBVIOUS
  <2> QED
    BY <2>1
<1>5. common \in Nat /\ common <= a /\ common <= b
  <2> HIDE DEF kept, key, a, b, both
  <2>1. common = Cardinality(both) \/ common = 0
    BY <1>3, <1>4
  <2> QED
    BY <1>1, <1>2, <2>1
<1>6. jaccard_similarity(E, kept, i, j) = IF union = 0 THEN 0 ELSE (100 * common) \div union
  BY DEF jaccard_similarity
<1> HIDE DEF kept, key, a, b, common
<1>7. union \in Nat /\ common <= union
  BY <1>1, <1>5
<1> HIDE DEF union
<1>8. CASE union = 0
  BY <1>6, <1>8 DEF kept
<1>9. CASE union # 0
  <2> DEFINE x == 100 * common
             n == 100
  <2>1. x \in Nat /\ x <= n * union /\ n \in Nat
    BY <1>5, <1>7
  <2> HIDE DEF x, n
  <2>2. x \div union \in Nat /\ x \div union <= n
    BY <1>7, <1>9, <2>1, ShareOnTheScale
  <2>3. jaccard_similarity(E, kept, i, j) = x \div union
    BY <1>6, <1>9 DEF x
  <2> QED
    BY <2>2, <2>3 DEF n, kept
<1> QED
  BY <1>8, <1>9

\* The spread of the prices is a number of at least a hundredth.
LEMMA SpreadIsWide ==
    ASSUME NEW P, IsFiniteSet(P), \A p \in P : p.price \in Nat
    PROVE  PriceSpread(P) \in Int /\ PriceSpread(P) >= 100
<1> DEFINE n == Cardinality(P)
           prices == [p \in P |-> p.price]
           total == SumOf(prices)
           far == [p \in P |-> Distance(n * p.price, total) * Distance(n * p.price, total)]
           squares == SumOf(far)
           spread == Root(squares \div (n * n * (n - 1)))
<1>1. n \in Nat
  BY FS_CardinalityType
<1>2. PriceSpread(P) = IF n < 2 THEN 100 ELSE Max({100, spread})
  BY DEF PriceSpread
<1>3. total \in Nat
  <2>1. DOMAIN prices = P /\ P \in SUBSET P /\ \A p \in P : prices[p] \in Nat
    OBVIOUS
  <2> HIDE DEF prices
  <2>2. total = Total(P, prices)
    BY <2>1, SumIsTotal
  <2>3. Total(P, prices) \in Nat
    BY <2>1, TotalOfPart
  <2> QED
    BY <2>2, <2>3
<1> HIDE DEF total, n
<1>4. squares \in Nat
  <2>1. ASSUME NEW p \in P PROVE far[p] \in Nat
    <3> DEFINE x == n * p.price
               d == Distance(x, total)
    <3>1. x \in Nat
      BY <1>1
    <3> HIDE DEF x
    <3>2. d \in Nat
      BY <1>3, <3>1 DEF Distance
    <3> HIDE DEF d
    <3>3. d * d \in Nat
      BY <3>2
    <3> QED
      BY <3>3 DEF d, x
  <2>2. DOMAIN far = P /\ P \in SUBSET P
    OBVIOUS
  <2> HIDE DEF far
  <2>3. squares = Total(P, far)
    BY <2>2, SumIsTotal
  <2>4. Total(P, far) \in Nat
    BY <2>1, <2>2, TotalOfPart
  <2> QED
    BY <2>3, <2>4
<1> HIDE DEF squares
<1>5. CASE n < 2
  BY <1>2, <1>5
<1>6. CASE ~(n < 2)
  <2> DEFINE d == n * n * (n - 1)
             q == squares \div d
  <2>1. d \in Int /\ d > 0
    <3>1. n * n > 0 /\ n * n \in Int /\ n - 1 > 0 /\ n - 1 \in Int
      BY <1>1, <1>6
    <3> QED
      BY <3>1
  <2> HIDE DEF d
  <2>2. q \in Nat
    <3> DEFINE zero == 0
    <3>1. zero \in Int /\ zero * d <= squares /\ squares \in Int
      BY <1>4, <2>1
    <3> HIDE DEF zero
    <3>2. q \in Int
      BY <2>1, <3>1, Quotient
    <3>3. zero <= q
      BY <2>1, <3>1, QuotientAtMost
    <3> QED
      BY <3>2, <3>3 DEF zero
  <2> HIDE DEF q
  <2>3. Root(q) \in 0..q
    BY <2>2, RootOf
  <2>4. spread \in Int
    BY <2>2, <2>3 DEF q, d
  <2> HIDE DEF spread
  <2> DEFINE least == 100
  <2>5. least \in Int /\ PriceSpread(P) = Max({least, spread})
    BY <1>2, <1>6
  <2> HIDE DEF least
  <2>6. Max({least, spread}) \in Int /\ least <= Max({least, spread})
    BY <2>4, <2>5, MaxOfTwo
  <2> QED
    BY <2>5, <2>6 DEF least
<1> QED
  BY <1>5, <1>6

\* A similarity of two items of the catalog is on the scale, whatever the
\* prices and the ratings.
LEMMA SimilarityOnTheScale ==
    ASSUME NEW E, IsFiniteSet(E), \A e \in E : e.interaction_weight \in 1..5,
           NEW P, IsFiniteSet(P), \A p \in P : p.price \in Nat /\ p.average_rating \in Int,
           NEW i \in ItemsOf(E), NEW j \in ItemsOf(E),
           \E p \in P : p.product_id = i, \E p \in P : p.product_id = j
    PROVE  combined_similarity_score(E, P, compute_cooccurrence(E), i, j) \in 0..100
<1> DEFINE left == CHOOSE p \in P : p.product_id = i
           right == CHOOSE p \in P : p.product_id = j
           spread == PriceSpread(P)
           Same(x, y) == IF x = y THEN 100 ELSE 0
           a == cosine_similarity(E, i, j)
           b == jaccard_similarity(E, compute_cooccurrence(E), i, j)
           c == Same(left.category, right.category)
           d == Same(left.brand, right.brand)
           e == (100 * spread) \div (spread + Distance(left.price, right.price))
           f == 1000000 \div (10000 + Distance(left.average_rating, right.average_rating))
           n == 100
<1>1. a \in 0..n
  BY CosineOnTheScale
<1>2. b \in 0..n
  BY JaccardOnTheScale
<1>3. c \in 0..n /\ d \in 0..n
  OBVIOUS
<1>4. /\ left.price \in Nat /\ left.average_rating \in Int
      /\ right.price \in Nat /\ right.average_rating \in Int
  <2>1. left \in P /\ right \in P
    OBVIOUS
  <2> HIDE DEF left, right
  <2> QED
    BY <2>1
<1>5. spread \in Int /\ spread >= 100
  BY SpreadIsWide
<1>6. e \in 0..n
  <2> DEFINE x == 100 * spread
             g == Distance(left.price, right.price)
             y == spread + g
  <2>1. g \in Nat
    <3> HIDE DEF left, right
    <3> QED
      BY <1>4 DEF Distance
  <2> HIDE DEF g, spread
  <2>2. x \in Nat /\ y \in Nat /\ y # 0 /\ x <= n * y /\ n \in Nat
    BY <1>5, <2>1
  <2>3. e = x \div y
    BY DEF g
  <2> HIDE DEF x, y, n
  <2>4. x \div y \in Nat /\ x \div y <= n
    BY <2>2, ShareOnTheScale
  <2> HIDE DEF e
  <2> QED
    BY <2>2, <2>3, <2>4
<1>7. f \in 0..n
  <2> DEFINE x == 1000000
             g == Distance(left.average_rating, right.average_rating)
             y == 10000 + g
  <2>1. g \in Nat
    <3> HIDE DEF left, right
    <3> QED
      BY <1>4 DEF Distance
  <2> HIDE DEF g
  <2>2. x \in Nat /\ y \in Nat /\ y # 0 /\ x <= n * y /\ n \in Nat
    BY <2>1
  <2>3. f = x \div y
    BY DEF g
  <2> HIDE DEF x, y, n
  <2>4. x \div y \in Nat /\ x \div y <= n
    BY <2>2, ShareOnTheScale
  <2> HIDE DEF f
  <2> QED
    BY <2>2, <2>3, <2>4
<1> DEFINE z == 45 * a + 20 * b + 15 * c + 5 * d + 10 * e + 5 * f
<1>8. combined_similarity_score(E, P, compute_cooccurrence(E), i, j) = z \div 100
  BY DEF combined_similarity_score, SimilarityWeights
<1> HIDE DEF a, b, c, d, e, f
<1>9. z \in Nat /\ z <= n * n /\ n \in Nat /\ n # 0
  BY <1>1, <1>2, <1>3, <1>6, <1>7
<1>10. z \div 100 = z \div n
  OBVIOUS
<1> HIDE DEF z, n
<1>11. z \div n \in Nat /\ z \div n <= n
  BY <1>9, ShareOnTheScale
<1> QED
  BY <1>8, <1>10, <1>11 DEF n

\* The similar items of an item: other items, by falling scores on the scale.
LEMMA RankedByScore ==
    ASSUME NEW E, NEW P, NEW i, NEW near, IsFiniteSet(near), near \subseteq Int,
           \A j \in near \ {i} :
              combined_similarity_score(E, P, compute_cooccurrence(E), i, j) \in 0..100
    PROVE  LET ranked == RankedSimilar(E, P, compute_cooccurrence(E), i, near)
           IN  \A k \in DOMAIN ranked :
                 /\ ranked[k].product_id # i
                 /\ ranked[k].score \in MinSimilarity..100
                 /\ k > 1 => ranked[k].score <= ranked[k - 1].score
<1> DEFINE cooc == compute_cooccurrence(E)
           Score(j) == combined_similarity_score(E, P, cooc, i, j)
           S == {j \in near \ {i} : Score(j) >= MinSimilarity}
           Before(j, k) == Score(j) > Score(k) \/ (Score(j) = Score(k) /\ j < k)
           o == InOrder(S, Before)
           g == [j \in S |-> Score(j)]
           kept == IF SimilarTopK < Len(o) THEN SimilarTopK ELSE Len(o)
           ranked == RankedSimilar(E, P, cooc, i, near)
<1>1. IsFiniteSet(S) /\ S \subseteq near \ {i}
  <2>1. S \in SUBSET near /\ S \subseteq near \ {i}
    OBVIOUS
  <2> HIDE DEF S
  <2> QED
    BY <2>1, FS_Subset
<1>2. MinSimilarity \in Nat /\ SimilarTopK \in Nat
  BY FeatureConfiguration
<1>3. ASSUME NEW j \in S
      PROVE  j \in Int /\ g[j] \in Int /\ g[j] \in MinSimilarity..100 /\ g[j] = Score(j) /\ j # i
  <2>1. g[j] = Score(j) /\ Score(j) >= MinSimilarity /\ j \in near \ {i}
    OBVIOUS
  <2>2. Score(j) \in 0..100
    BY <2>1
  <2> HIDE DEF g, S, Score
  <2> QED
    BY <1>2, <2>1, <2>2
<1>4. ASSUME NEW x \in S
      PROVE  {y \in S : Before(y, x)} = {y \in S : Ahead(g, y, x)}
  <2>1. \A y \in S : g[y] = Score(y)
    OBVIOUS
  <2> HIDE DEF S, g, Score
  <2> QED
    BY <2>1 DEF Ahead
<1>5. DOMAIN o = 1..Cardinality(S) /\ o = [k \in DOMAIN o |-> o[k]]
  <2> DEFINE At(k) == CHOOSE x \in S : Cardinality({y \in S : Before(y, x)}) = k - 1
  <2>1. o = [k \in 1..Cardinality(S) |-> At(k)]
    BY DEF InOrder
  <2> HIDE DEF At, S, o
  <2> QED
    BY <2>1
<1>6. ASSUME NEW k \in 1..Cardinality(S),
             \E x \in S : Cardinality({y \in S : Ahead(g, y, x)}) = k - 1
      PROVE  o[k] \in S /\ Cardinality({y \in S : Ahead(g, y, o[k])}) = k - 1
  <2>1. o[k] = CHOOSE x \in S : Cardinality({y \in S : Before(y, x)}) = k - 1
    BY DEF InOrder
  <2>2. \E x \in S : Cardinality({y \in S : Before(y, x)}) = k - 1
    <3> HIDE DEF Before, g, S
    <3> QED
      BY <1>4, <1>6
  <2>3. o[k] \in S /\ Cardinality({y \in S : Before(y, o[k])}) = k - 1
    <3> HIDE DEF Before, S, o
    <3> QED
      BY <2>1, <2>2
  <2> HIDE DEF Before, g, S, o
  <2> QED
    BY <1>4, <2>3
<1>7. ranked = [rank \in 1..kept |-> [product_id |-> o[rank], score |-> Score(o[rank])]]
  BY DEF RankedSimilar
<1> DEFINE n == Cardinality(S)
<1>8. /\ Lists(o, S, Falling(S, g)) /\ StrictOrder(S, Falling(S, g))
      /\ Len(o) = n /\ n \in Nat
  <2> HIDE DEF S, g, o
  <2>1. Lists(o, S, Falling(S, g))
    BY <1>1, <1>3, <1>5, <1>6, ScoresInOrder
  <2>2. StrictOrder(S, Falling(S, g))
    BY <1>3, FallingIsStrict
  <2>3. Len(o) = Cardinality(S)
    BY <1>1, <1>5, <2>1, ListingIsSequence
  <2> QED
    BY <1>1, <2>1, <2>2, <2>3, FS_CardinalityType
<1> HIDE DEF S, g, o, Score, ranked
<1>9. kept \in Nat /\ kept <= n
  BY <1>2, <1>8
<1>10. \A a, b \in 1..n : a < b => <<o[a], o[b]>> \in Falling(S, g)
  BY <1>1, <1>8, ListingIsSorted
<1>11. \A a \in 1..n : o[a] \in S
  BY <1>8 DEF Lists
<1> HIDE DEF kept, n
<1>12. DOMAIN ranked = 1..kept /\ \A k \in 1..kept : k \in 1..n
  BY <1>7, <1>8, <1>9
<1>13. ASSUME NEW k \in 1..kept
       PROVE  /\ ranked[k].product_id # i
              /\ ranked[k].score \in MinSimilarity..100
              /\ ranked[k].score = g[o[k]]
  <2>1. o[k] \in S
    BY <1>11, <1>12
  <2>2. ranked[k].product_id = o[k] /\ ranked[k].score = Score(o[k])
    BY <1>7
  <2> QED
    BY <1>3, <2>1, <2>2
<1>14. ASSUME NEW k \in 1..kept, k > 1
       PROVE  ranked[k].score <= ranked[k - 1].score
  <2>1. k - 1 \in 1..kept /\ k - 1 < k
    BY <1>9, <1>14
  <2>2. <<o[k - 1], o[k]>> \in Falling(S, g)
    BY <1>10, <1>12, <2>1
  <2>3. g[o[k - 1]] >= g[o[k]]
    <3>1. o[k - 1] \in S /\ o[k] \in S
      BY <1>11, <1>12, <2>1
    <3>2. g[o[k - 1]] \in Int /\ g[o[k]] \in Int
      BY <1>3, <3>1
    <3>3. Ahead(g, o[k - 1], o[k])
      BY <2>2 DEF Falling
    <3> QED
      BY <3>2, <3>3 DEF Ahead
  <2>4. ranked[k].score = g[o[k]] /\ ranked[k - 1].score = g[o[k - 1]]
    BY <1>13, <2>1
  <2>5. g[o[k]] \in Int /\ g[o[k - 1]] \in Int
    BY <1>3, <1>11, <1>12, <2>1
  <2> QED
    BY <2>3, <2>4, <2>5
<1>15. \A k \in DOMAIN ranked :
          /\ ranked[k].product_id # i
          /\ ranked[k].score \in MinSimilarity..100
          /\ k > 1 => ranked[k].score <= ranked[k - 1].score
  BY <1>12, <1>13, <1>14
<1> QED
  BY <1>15 DEF ranked

\* The similar items of every touched item, also of one that stands alone.
LEMMA SimilarItems ==
    ASSUME FlowInv, ResultInv, phase = "engineered", NEW i \in DOMAIN features.similarity
    PROVE  LET ranked == features.similarity[i]
           IN  \A k \in DOMAIN ranked :
                 /\ ranked[k].product_id # i
                 /\ ranked[k].score \in MinSimilarity..100
                 /\ k > 1 => ranked[k].score <= ranked[k - 1].score
<1> DEFINE E == select_feature_events(prepared)
           P == prepared.products
           touched == ItemsOf(E)
<1>1. Grounded(origin.src) /\ TablesFrom(prepared, features)
  BY FeaturesAreGrounded DEF ResultInv, HasFeatures
<1>2. /\ features.cooccurrence = compute_cooccurrence(E)
      /\ i \in touched
  BY <1>1 DEF TablesFrom, ItemsOf
<1>3. PICK near \in SUBSET touched :
        features.similarity[i] = RankedSimilar(E, P, compute_cooccurrence(E), i, near)
  BY <1>1, <1>2 DEF TablesFrom, ItemsOf
<1>4. /\ IsFiniteSet(E) /\ IsFiniteSet(P)
      /\ \A e \in E : e.interaction_weight \in 1..5
      /\ \A p \in P : p.price \in Nat /\ p.average_rating \in Int
      /\ touched \subseteq Int
  <2>1. /\ E \in SUBSET prepared.interactions
        /\ \A e \in prepared.interactions : OfSource(e, origin.src)
        /\ ItemIds(origin.src) \subseteq Int
    BY <1>1 DEF Grounded
  <2>2. IsFiniteSet(E) /\ IsFiniteSet(P)
        /\ \A p \in P : p.price \in Nat /\ p.average_rating \in Int
    BY <1>1, <2>1, FS_Subset DEF Grounded
  <2> HIDE DEF E, P
  <2> QED
    BY <2>1, <2>2 DEF OfSource, ItemsOf
<1>5. IsFiniteSet(touched) /\ (touched \subseteq Catalog \/ Cardinality(touched) <= 1)
  BY <1>1, TouchedInCatalog
<1>6. Catalog = {p.product_id : p \in P}
  BY <1>1, CatalogIsPrepared
<1> HIDE DEF E, P
<1>7. IsFiniteSet(near) /\ near \subseteq Int
  <2> HIDE DEF touched
  <2> QED
    BY <1>4, <1>5, FS_Subset
<1>8. ASSUME NEW j \in near \ {i}
      PROVE  combined_similarity_score(E, P, compute_cooccurrence(E), i, j) \in 0..100
  <2>1. j \in touched /\ i \in touched /\ j # i
    BY <1>2
  <2>2. touched \subseteq Catalog
    <3> SUFFICES ASSUME Cardinality(touched) <= 1 PROVE FALSE
      BY <1>5
    <3>1. {i, j} \in SUBSET touched /\ Cardinality({i, j}) = 2 /\ Cardinality(touched) \in Nat
      <4>1. IsFiniteSet({i}) /\ Cardinality({i}) = 1
        BY FS_Singleton
      <4>2. Cardinality({i} \cup {j}) = Cardinality({i}) + 1
        BY <2>1, <4>1, FS_AddElement
      <4>3. {i} \cup {j} = {i, j}
        OBVIOUS
      <4>4. {i, j} \in SUBSET touched
        BY <2>1
      <4>5. Cardinality(touched) \in Nat
        BY <1>5, FS_CardinalityType
      <4> HIDE DEF touched
      <4> QED
        BY <4>1, <4>2, <4>3, <4>4, <4>5
    <3> HIDE DEF touched
    <3>2. Cardinality({i, j}) <= Cardinality(touched)
      BY <1>5, <3>1, FS_Subset
    <3> QED
      BY <3>1, <3>2
  <2>3. (\E p \in P : p.product_id = i) /\ (\E p \in P : p.product_id = j)
    <3> HIDE DEF touched
    <3> QED
      BY <1>6, <2>1, <2>2
  <2> QED
    BY <1>4, <2>1, <2>3, SimilarityOnTheScale
<1>9. LET ranked == RankedSimilar(E, P, compute_cooccurrence(E), i, near)
      IN  \A k \in DOMAIN ranked :
            /\ ranked[k].product_id # i
            /\ ranked[k].score \in MinSimilarity..100
            /\ k > 1 => ranked[k].score <= ranked[k - 1].score
  BY <1>7, <1>8, RankedByScore
<1> QED
  BY <1>3, <1>9

\* The feature tables count the same events, a co-occurring pair the users of
\* whom both pair features exist, and similarity is ranked on its scale: the
\* cosine by the inequality of Cauchy and Schwarz, the rest because products
\* that validation kept have prices and ratings that are numbers.
THEOREM FeatureTablesAlwaysAgree == Spec => []FeatureTablesAgree
<1>1. ASSUME FlowInv, ResultInv
      PROVE  CountsBalance
  BY <1>1, TotalsBalance DEF CountsBalance
<1>2. ASSUME FlowInv, ResultInv
      PROVE  PairFeaturesAgree
  <2> SUFFICES ASSUME phase = "engineered" PROVE PairFeaturesAgree
    BY DEF PairFeaturesAgree
  <2>1. ASSUME NEW p \in DOMAIN features.cooccurrence
        PROVE  LET both == {u \in IdsOf(features.events, "user_id") :
                              {<<u, p[1]>>, <<u, p[2]>>} \subseteq DOMAIN features.user_items}
               IN  /\ features.cooccurrence[p].count = Cardinality(both)
                   /\ features.cooccurrence[p].co_purchases <= Cardinality(both)
    BY <1>2, PairsCountUsers
  <2>2. ASSUME NEW i \in DOMAIN features.similarity
        PROVE  LET ranked == features.similarity[i]
               IN  \A k \in DOMAIN ranked :
                     /\ ranked[k].product_id # i
                     /\ ranked[k].score \in MinSimilarity..100
                     /\ k > 1 => ranked[k].score <= ranked[k - 1].score
    BY <1>2, SimilarItems
  <2> QED
    BY <2>1, <2>2 DEF PairFeaturesAgree
<1> QED
  BY <1>1, <1>2, FlowInvariant, ResultInvariant, PTL DEF FeatureTablesAgree
=============================================================================
