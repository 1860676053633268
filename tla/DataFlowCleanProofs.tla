------------------------- MODULE DataFlowCleanProofs --------------------------
(***************************************************************************)
(* A batch nothing happens to: the generator writes what the API serves,   *)
(* what every rule of validation demands and what every later stage can    *)
(* work with, for any source and draw that fit the configuration.          *)
(*                                                                         *)
(* Each rule is shown to pass on what the generator writes for it; the     *)
(* invariant then carries the frames of the draw through the stages.       *)
(***************************************************************************)
EXTENDS DataFlowResultProofs

-----------------------------------------------------------------------------
(***************************************************************************)
(* Rules that rows of the right kind pass.                                 *)
(***************************************************************************)

\* The first two markers are two.
LEMMA OddsDiffer == Blank # Garbled
<1> SUFFICES ASSUME Blank = Garbled PROVE FALSE
  OBVIOUS
<1>1. {Blank, Garbled, Fraction} = {Blank} \cup {Fraction}
  OBVIOUS
<1>2. IsFiniteSet({Blank}) /\ Cardinality({Blank}) = 1
  BY FS_Singleton
<1>3. \/ Cardinality({Blank} \cup {Fraction}) = 1
      \/ Cardinality({Blank} \cup {Fraction}) = 2
  <2>1. Cardinality({Blank} \cup {Fraction}) =
           IF Fraction \in {Blank} THEN Cardinality({Blank}) ELSE Cardinality({Blank}) + 1
    BY <1>2, FS_AddElement
  <2> QED
    BY <1>2, <2>1
<1> QED
  BY <1>1, <1>3, CellsDiffer

\* A rule that no row breaks.
LEMMA NoneFails ==
    ASSUME NEW id, NEW category, NEW severity
    PROVE  Rule(id, category, severity, {}).count = 0
BY FS_EmptySet DEF Rule

\* A number is no marker.
LEMMA NumbersAreWhole ==
    ASSUME NEW v \in Int
    PROVE  whole(v) /\ number(v) /\ ~blank(v) /\ v # Garbled
BY MarkersApart DEF whole, number, blank

\* A column of positive numbers.
LEMMA PositivesPass ==
    ASSUME NEW f, NEW c, \A i \in DOMAIN f.rows : f.rows[i][c] \in Int /\ f.rows[i][c] > 0
    PROVE  positive_integer(f, c).count = 0
<1> DEFINE bad == Failing(f, {c}, LAMBDA r : IF whole(r[c]) THEN r[c] <= 0 ELSE TRUE)
<1>1. bad = {}
  BY NumbersAreWhole DEF Failing
<1> HIDE DEF bad
<1>2. Rule(<<c, "POSITIVE_INTEGER">>, "Format", "ERROR", bad).count = 0
  BY <1>1, NoneFails
<1> QED
  BY <1>2 DEF positive_integer, bad

\* A column of counts.
LEMMA CountsPass ==
    ASSUME NEW f, NEW c, \A i \in DOMAIN f.rows : f.rows[i][c] \in Nat
    PROVE  nonnegative_integer(f, c).count = 0
<1> DEFINE bad == Failing(f, {c}, LAMBDA r : IF whole(r[c]) THEN r[c] < 0 ELSE TRUE)
<1>1. bad = {}
  BY NumbersAreWhole DEF Failing
<1> HIDE DEF bad
<1>2. Rule(<<c, "NONNEGATIVE">>, "Range", "ERROR", bad).count = 0
  BY <1>1, NoneFails
<1> QED
  BY <1>2 DEF nonnegative_integer, bad

\* A column of numbers within bounds.
LEMMA RangesPass ==
    ASSUME NEW f, NEW c, NEW lo \in Int, NEW hi \in Int,
           \A i \in DOMAIN f.rows : f.rows[i][c] \in lo..hi
    PROVE  numeric_range(f, c, lo, hi).count = 0
<1> DEFINE bad == Failing(f, {c}, LAMBDA r : IF whole(r[c]) THEN r[c] < lo \/ r[c] > hi ELSE TRUE)
<1>1. \A i \in DOMAIN f.rows :
        whole(f.rows[i][c]) /\ ~(f.rows[i][c] < lo) /\ ~(f.rows[i][c] > hi)
  BY NumbersAreWhole
<1>2. bad = {}
  BY <1>1 DEF Failing
<1> HIDE DEF bad
<1>3. Rule(<<c, "RANGE">>, "Range", "ERROR", bad).count = 0
  BY <1>2, NoneFails
<1> QED
  BY <1>3 DEF numeric_range, bad

\* A column of labels.
LEMMA LabelsPass ==
    ASSUME NEW f, NEW c, NEW labels, \A i \in DOMAIN f.rows : f.rows[i][c] \in labels
    PROVE  allowed(f, c, labels).count = 0
<1> DEFINE bad == Failing(f, {c}, LAMBDA r : r[c] \notin labels)
<1>1. bad = {}
  BY DEF Failing
<1> HIDE DEF bad
<1>2. Rule(<<c, "ALLOWED">>, "Format", "ERROR", bad).count = 0
  BY <1>1, NoneFails
<1> QED
  BY <1>2 DEF allowed, bad

\* A column of identifiers.
LEMMA IdentifiersPass ==
    ASSUME NEW f, NEW c, \A i \in DOMAIN f.rows : f.rows[i][c] \in Int \X Int
    PROVE  uuid(f, c).count = 0
<1> DEFINE bad == Failing(f, {c}, LAMBDA r : r[c] \in {Blank, Garbled})
<1>1. bad = {}
  BY MarkersApart DEF Failing
<1> HIDE DEF bad
<1>2. Rule(<<c, "UUID">>, "Format", "ERROR", bad).count = 0
  BY <1>1, NoneFails
<1> QED
  BY <1>2 DEF uuid, bad

\* A column of times that are not in the future, or blank.
LEMMA TimesPass ==
    ASSUME NEW f, NEW c,
           \A i \in DOMAIN f.rows :
              \/ f.rows[i][c] \in Int /\ f.rows[i][c] <= Now + FutureTolerance
              \/ f.rows[i][c] = Blank
    PROVE  \A r \in timestamp(f, c) : r.count = 0
<1> DEFINE odd == Failing(f, {c}, LAMBDA r : r[c] = Garbled)
           late == Failing(f, {c}, LAMBDA r : number(r[c]) /\ r[c] > Now + FutureTolerance)
<1>1. Blank # Garbled
  BY OddsDiffer
<1>2. Now + FutureTolerance \in Int
  BY ValidationConfiguration
<1>3. \A i \in DOMAIN f.rows :
        /\ f.rows[i][c] # Garbled
        /\ ~(number(f.rows[i][c]) /\ f.rows[i][c] > Now + FutureTolerance)
  BY <1>1, <1>2, NumbersAreWhole DEF number
<1>4. odd = {} /\ late = {}
  BY <1>3 DEF Failing
<1> HIDE DEF odd, late
<1>5. Rule(<<c, "FORMAT">>, "Format", "ERROR", odd).count = 0
  BY <1>4, NoneFails
<1>6. Rule(<<c, "NOT_FUTURE">>, "Range", "ERROR", late).count = 0
  BY <1>4, NoneFails
<1> QED
  BY <1>5, <1>6 DEF timestamp, odd, late

\* A column of keys that the parent has, on both sides numbers.
LEMMA KeysPass ==
    ASSUME NEW d, NEW f, NEW c, NEW parent, NEW pf,
           \A i \in DOMAIN f.rows : f.rows[i][c] \in Int,
           \A j \in DOMAIN pf.rows : pf.rows[j][c] \in Int,
           \A i \in DOMAIN f.rows : \E j \in DOMAIN pf.rows : pf.rows[j][c] = f.rows[i][c]
    PROVE  foreign_key(d, f, c, parent, pf).count = 0
<1>1. TextColumn(d, f, c) = FALSE /\ TextColumn(parent, pf, c) = FALSE
  BY NumbersAreWhole DEF TextColumn
<1> DEFINE orphans == IF c \in f.missing \cup pf.missing THEN {}
                      ELSE {i \in DOMAIN f.rows :
                              \/ TextColumn(d, f, c) # TextColumn(parent, pf, c)
                              \/ \A j \in DOMAIN pf.rows :
                                    \/ blank(pf.rows[j][c])
                                    \/ pf.rows[j][c] # f.rows[i][c]}
<1>2. \A i \in DOMAIN f.rows : \E j \in DOMAIN pf.rows :
         ~blank(pf.rows[j][c]) /\ pf.rows[j][c] = f.rows[i][c]
  BY NumbersAreWhole
<1>3. orphans = {}
  <2> DEFINE Orphan(i) == \/ TextColumn(d, f, c) # TextColumn(parent, pf, c)
                         \/ \A j \in DOMAIN pf.rows :
                               \/ blank(pf.rows[j][c])
                               \/ pf.rows[j][c] # f.rows[i][c]
  <2>1. \A i \in DOMAIN f.rows : ~Orphan(i)
    BY <1>1, <1>2
  <2>2. orphans \subseteq {i \in DOMAIN f.rows : Orphan(i)}
    BY Zenon
  <2> QED
    BY <2>1, <2>2
<1> HIDE DEF orphans
<1>4. Rule(<<c, "REFERENCE">>, "Referential Integrity", "ERROR", orphans).count = 0
  BY <1>3, NoneFails
<1> QED
  BY <1>4 DEF foreign_key, orphans

\* A rating of the catalog: on the scale, or 0 when nobody rated.
LEMMA MeansPass ==
    ASSUME NEW f, NEW unit \in Int,
           \A i \in DOMAIN f.rows :
              LET rating == f.rows[i].average_rating
                  count == f.rows[i].total_ratings
              IN  /\ rating \in Int /\ count \in Nat
                  /\ count = 0 => rating = 0
                  /\ count > 0 => rating \in unit..(5 * unit)
    PROVE  rating_with_unrated(f, unit).count = 0
<1> DEFINE Bad(r) ==
             LET rating == r.average_rating
                 count == r.total_ratings
             IN  CASE ~number(count) -> TRUE
                   [] count = Fraction -> ~whole(rating) \/ rating \notin unit..(5 * unit)
                   [] OTHER ->
                         \/ count > 0 /\ (~whole(rating) \/ rating \notin unit..(5 * unit))
                         \/ count = 0 /\ rating # 0
           bad == Failing(f, {"average_rating", "total_ratings"}, Bad)
<1>1. ASSUME NEW i \in DOMAIN f.rows
      PROVE  ~Bad(f.rows[i])
  <2> DEFINE rating == f.rows[i].average_rating
             count == f.rows[i].total_ratings
  <2>1. /\ rating \in Int /\ count \in Nat /\ (count = 0 => rating = 0)
        /\ (count > 0 => rating \in unit..(5 * unit))
    OBVIOUS
  <2> HIDE DEF rating, count
  <2>2. number(count) /\ count # Fraction /\ whole(rating)
    BY <2>1, NumbersAreWhole DEF whole
  <2>3. ~(CASE ~number(count) -> TRUE
            [] count = Fraction -> ~whole(rating) \/ rating \notin unit..(5 * unit)
            [] OTHER ->
                  \/ count > 0 /\ (~whole(rating) \/ rating \notin unit..(5 * unit))
                  \/ count = 0 /\ rating # 0)
    BY <2>1, <2>2
  <2> QED
    BY <2>3 DEF rating, count
<1> HIDE DEF Bad
<1>2. bad = {}
  BY <1>1 DEF Failing
<1> HIDE DEF bad
<1>3. Rule(<<"AVERAGE_RATING_RANGE">>, "Range", "ERROR", bad).count = 0
  BY <1>2, NoneFails
<1>4. rating_with_unrated(f, unit) = Rule(<<"AVERAGE_RATING_RANGE">>, "Range", "ERROR", bad)
  BY DEF rating_with_unrated, bad, Bad
<1> QED
  BY <1>3, <1>4

\* A full table passes the rules of every dataset, but for its being empty.
LEMMA CommonRulesPass ==
    ASSUME NEW d \in Datasets, NEW f, f.missing = {}, f.extra = 0,
           \A i \in DOMAIN f.rows : \A c \in required_value_columns(d) : ~blank(f.rows[i][c]),
           \A i, j \in DOMAIN f.rows :
              f.rows[i][business_key(d)] = f.rows[j][business_key(d)] => i = j
    PROVE  \A r \in common_rules(d, f) : r.count = 0 \/ (f.rows = <<>> /\ r = non_empty(f))
<1>1. required_columns(d, f).count = 0
  BY FS_EmptySet DEF required_columns, DatasetRule
<1>2. unexpected_columns(f).count = 0
  BY DEF unexpected_columns, DatasetRule
<1>3. f.rows # <<>> => non_empty(f).count = 0
  BY DEF non_empty, DatasetRule
<1>4. business_key(d) \in Columns(d)
  BY DEF business_key, Columns, Datasets
<1>5. duplicate_rows(d, f).count = 0
  <2> DEFINE bad == {i \in DOMAIN f.rows : \E j \in DOMAIN f.rows \ {i} : SameRow(d, f, i, j)}
  <2>1. bad = {}
    BY <1>4 DEF SameRow
  <2> HIDE DEF bad
  <2>2. Rule(<<"DUPLICATE_ROWS">>, "Uniqueness", "ERROR", bad).count = 0
    BY <2>1, NoneFails
  <2> QED
    BY <2>2 DEF duplicate_rows, bad
<1>6. business_key_unique(d, f).count = 0
  <2> DEFINE c == business_key(d)
             bad == IF c \in f.missing THEN {}
                    ELSE {i \in DOMAIN f.rows :
                            \E j \in DOMAIN f.rows \ {i} : f.rows[i][c] = f.rows[j][c]}
  <2>1. bad = {}
    OBVIOUS
  <2> HIDE DEF bad
  <2>2. Rule(<<c, "UNIQUE">>, "Uniqueness", "ERROR", bad).count = 0
    BY <2>1, NoneFails
  <2> QED
    BY <2>2 DEF business_key_unique, bad
<1>7. ASSUME NEW c \in required_value_columns(d)
      PROVE  required_value(d, f, c).count = 0
  <2> DEFINE bad == Failing(f, {c}, LAMBDA r : blank(r[c]))
  <2>1. bad = {}
    BY DEF Failing
  <2> HIDE DEF bad
  <2>2. Rule(<<c, "REQUIRED">>, "Completeness", "ERROR", bad).count = 0
    BY <2>1, NoneFails
  <2> QED
    BY <2>2 DEF required_value, bad
<1> QED
  BY <1>1, <1>2, <1>3, <1>5, <1>6, <1>7 DEF common_rules

-----------------------------------------------------------------------------
(***************************************************************************)
(* The source and the draw of a batch, and its users.                      *)
(***************************************************************************)

\* A source and a draw the generator may work with.
Drawn(src, draw) ==
    /\ src \in Sources /\ Loadable(src) /\ FitsSource(src)
    /\ draw.quantity \in Quantities /\ Quantities \subseteq 1..100
    /\ ReferenceTime <= Now + FutureTolerance /\ Now <= ReferenceTime + MaxAge
    /\ \A i \in DOMAIN src.ratings : draw.offset[i] \in 0..Available
    /\ \A i \in Bought(src) : DelayDrawn(src, draw, i)

Intact(f) == f.missing = {} /\ f.extra = 0 /\ f.readable = TRUE

\* The types of a drawn source.
LEMMA DrawnTypes ==
    ASSUME NEW src, NEW draw, Drawn(src, draw)
    PROVE  /\ src.users \in Seq(Int) /\ src.items \in Seq(Int) /\ src.ratings \in Seq(Ratings)
           /\ \A p \in ItemIds(src) : Prices[p] \in Nat
           /\ \A k \in DOMAIN src.items : Prices[src.items[k]] \in Nat
           /\ draw.quantity \in 1..100 /\ Available \in Int /\ ReferenceTime \in Nat
           /\ Available + MinDelay + 2 = ReferenceTime /\ MinDelay \in Nat /\ MaxDelay \in Nat
           /\ src.users # <<>> /\ src.items # <<>>
           /\ src \in Sources /\ Loadable(src) /\ FitsSource(src)
           /\ ReferenceTime <= Now + FutureTolerance /\ Now <= ReferenceTime + MaxAge
<1>1. src.users \in Seq(Int) /\ src.items \in Seq(Int) /\ src.ratings \in Seq(Ratings)
  BY SourceTables DEF Drawn, Ratings
<1>2. \A k \in DOMAIN src.items : Prices[src.items[k]] \in Nat
  BY SourceTables DEF Drawn
<1>3. draw.quantity \in 1..100 /\ src.users # <<>> /\ src.items # <<>>
  BY DEF Drawn, Loadable
<1>4. /\ Available \in Int /\ ReferenceTime \in Nat
      /\ Available + MinDelay + 2 = ReferenceTime /\ MinDelay \in Nat /\ MaxDelay \in Nat
  BY GeneratorConfiguration DEF Available, ReferenceTime, Minute
<1>5. /\ src \in Sources /\ Loadable(src) /\ FitsSource(src)
      /\ ReferenceTime <= Now + FutureTolerance /\ Now <= ReferenceTime + MaxAge
  BY DEF Drawn
<1> QED
  BY <1>1, <1>2, <1>3, <1>4, <1>5 DEF ItemIds

\* The frames of a batch nothing happened to.
LEMMA CleanFrames ==
    ASSUME NEW src, NEW draw, Drawn(src, draw)
    PROVE  LET fr == RawFrames(IncomingFiles(src, draw))
               products == generate_products(src)
           IN  /\ \A d \in Datasets : Intact(fr[d])
               /\ fr["users"].rows = generate_users(src)
               /\ fr["products"].rows = products
               /\ fr["clickstream"].rows = generate_clickstream(src, draw)
               /\ fr["purchasehistory"].rows = generate_purchases(src, draw)
               /\ fr["popularity"].rows =
                     list_popularity(TableOf(products), TableOf(generate_popularity(products, draw)))
               /\ products # <<>>
<1> DEFINE f == IncomingFiles(src, draw)
           products == generate_products(src)
           popularity == generate_popularity(products, draw)
           list == list_popularity(TableOf(products), TableOf(popularity))
           fr == RawFrames(f)
<1>1. /\ f["users"] = TableOf(generate_users(src)) /\ f["products"] = TableOf(products)
      /\ f["clickstream"] = TableOf(generate_clickstream(src, draw))
      /\ f["purchasehistory"] = TableOf(generate_purchases(src, draw))
      /\ f["popularity"] = TableOf(popularity)
  BY DEF IncomingFiles
<1>2. products # <<>>
  <2>1. src.items[1] \in ItemIds(src)
    BY DrawnTypes DEF ItemIds
  <2>2. \E n \in DOMAIN products : products[n] = ProductOf(src, src.items[1])
    BY <2>1, DrawnTypes, GeneratedProducts
  <2> QED
    BY <2>2
<1>3. list # <<>>
  <2>1. products \in Seq(ProductRows(src))
    BY DrawnTypes, GeneratedProducts
  <2>2. DOMAIN products = 1..Len(products) /\ Len(products) \in Nat /\ Len(products) # 0
    BY <1>2, <2>1
  <2>3. DOMAIN popularity = DOMAIN products
    BY DEF generate_popularity
  <2>4. TableOf(popularity).rows = popularity
    BY DEF TableOf
  <2>5. DOMAIN list = 1..Cardinality(DOMAIN popularity)
    <3> HIDE DEF popularity
    <3> QED
      BY <2>4 DEF list_popularity, InOrder
  <2>6. Cardinality(DOMAIN popularity) = Len(products)
    BY <2>2, <2>3, FirstNumbers
  <2> QED
    BY <2>2, <2>5, <2>6
<1> HIDE DEF f, products, popularity, list
<1>4. fr = [d \in Datasets |->
              AsRead(d, IF d = "popularity" THEN TableOf(list) ELSE f[d])]
  <2>1. list_popularity(f["products"], f["popularity"]) = list
    BY <1>1 DEF list
  <2> QED
    BY <2>1 DEF RawFrames
<1> HIDE DEF fr
<1>5. /\ fr["users"] = TableOf(generate_users(src)) /\ fr["products"] = TableOf(products)
      /\ fr["clickstream"] = TableOf(generate_clickstream(src, draw))
      /\ fr["purchasehistory"] = TableOf(generate_purchases(src, draw))
      /\ fr["popularity"] = TableOf(list)
  BY <1>1, <1>2, <1>3, <1>4 DEF Datasets, AsRead, TableOf
<1>6. \A rows : Intact(TableOf(rows)) /\ TableOf(rows).rows = rows
  BY DEF Intact, TableOf
<1>7. \A d \in Datasets : Intact(fr[d])
  BY <1>5, <1>6 DEF Datasets
<1>8. /\ fr["users"].rows = generate_users(src) /\ fr["products"].rows = products
      /\ fr["clickstream"].rows = generate_clickstream(src, draw)
      /\ fr["purchasehistory"].rows = generate_purchases(src, draw)
      /\ fr["popularity"].rows = list
  BY <1>5, <1>6
<1> QED
  BY <1>2, <1>7, <1>8 DEF fr, f, list, popularity, products

\* The users pass.
LEMMA UsersPass ==
    ASSUME NEW src, NEW draw, Drawn(src, draw), NEW f, Intact(f), f.rows = generate_users(src)
    PROVE  \A r \in common_rules("users", f) \cup users_rules(f) : r.count = 0
<1>1. DOMAIN f.rows = DOMAIN src.users /\ f.rows # <<>>
  <2>1. DOMAIN f.rows = DOMAIN src.users
    BY DEF generate_users
  <2> QED
    BY <2>1, DrawnTypes
<1>2. ASSUME NEW i \in DOMAIN f.rows
      PROVE  /\ f.rows[i].user_id \in Int /\ f.rows[i].user_id > 0
             /\ f.rows[i].user_id = src.users[i]
             /\ f.rows[i].age \in 1..120 /\ f.rows[i].gender = "F"
             /\ f.rows[i].occupation = "artist" /\ f.rows[i].zipcode = "10001"
             /\ f.rows[i].registration_date = ReferenceTime
             /\ f.rows[i].customer_segment = "Gold"
  <2>1. src.users[i] \in Int /\ src.users[i] > 0
    BY <1>1, DrawnTypes DEF FitsSource
  <2> QED
    BY <1>1, <2>1 DEF generate_users
<1>3. ReferenceTime \in Int /\ ReferenceTime <= Now + FutureTolerance
  BY DrawnTypes
<1>4. \A i, j \in DOMAIN f.rows : f.rows[i].user_id = f.rows[j].user_id => i = j
  BY <1>1, <1>2, DrawnTypes DEF Loadable
<1>5. \A i \in DOMAIN f.rows : \A c \in required_value_columns("users") : ~blank(f.rows[i][c])
  BY <1>2, <1>3, MarkersApart DEF required_value_columns, Columns, blank
<1>6. \A r \in common_rules("users", f) : r.count = 0
  <2>1. business_key("users") = "user_id" /\ "users" \in Datasets
    BY DEF business_key, Datasets
  <2> QED
    BY <1>1, <1>4, <1>5, <2>1, CommonRulesPass DEF Intact
<1>7. positive_integer(f, "user_id").count = 0
  BY <1>2, PositivesPass
<1>8. numeric_range(f, "age", 1, 120).count = 0
  BY <1>2, RangesPass
<1>9. allowed(f, "gender", {"M", "F"}).count = 0
  BY <1>2, LabelsPass
<1>10. allowed(f, "customer_segment", {"Premium", "Gold", "Silver", "Standard"}).count = 0
  BY <1>2, LabelsPass
<1>11. \A r \in timestamp(f, "registration_date") : r.count = 0
  BY <1>2, <1>3, TimesPass
<1> QED
  BY <1>6, <1>7, <1>8, <1>9, <1>10, <1>11 DEF users_rules

-----------------------------------------------------------------------------
(***************************************************************************)
(* The products.                                                           *)
(***************************************************************************)

\* A rounded quotient is between the bounds of the exact one.
LEMMA RoundDivBetween ==
    ASSUME NEW a \in Int, NEW n \in Int, n > 0, NEW lo \in Int, NEW hi \in Int,
           lo * n <= a, a <= hi * n
    PROVE  RoundDiv(a, n) \in lo..hi
<1> DEFINE x == 2 * a + n
           y == 2 * n
           l == lo * n
           h == hi * n
<1>1. x \in Int /\ y \in Int /\ y > 0 /\ l \in Int /\ h \in Int
  OBVIOUS
<1>2. lo * y = 2 * l /\ y * (hi + 1) = 2 * h + 2 * n
  OBVIOUS
<1>3. lo * y <= x /\ x < y * (hi + 1)
  <2>1. l <= a /\ a <= h
    OBVIOUS
  <2> HIDE DEF l, h
  <2> QED
    BY <1>1, <1>2, <2>1
<1>4. RoundDiv(a, n) = x \div y
  BY DEF RoundDiv
<1> HIDE DEF x, y
<1>5. x \div y \in Int
  BY <1>1, Quotient
<1>6. x \div y <= hi
  BY <1>1, <1>3, QuotientAtMost
<1>7. lo <= x \div y
  BY <1>1, <1>3, QuotientAtMost
<1> QED
  BY <1>4, <1>5, <1>6, <1>7

\* The mean rating of a product is on the scale, or 0 when nobody rated it.
LEMMA MeanRatingOnScale ==
    ASSUME NEW src, src.ratings \in Seq(Ratings), Loadable(src), NEW p
    PROVE  LET mean == AverageRating(src, p)
               count == Cardinality(RatingsOf(src, p))
           IN  /\ mean \in Int /\ count \in Nat
               /\ count = 0 => mean = 0
               /\ count > 0 => mean \in RatingUnit..(5 * RatingUnit)
<1> DEFINE rated == RatingsOf(src, p)
           f == [i \in rated |-> src.ratings[i].rating]
           n == Cardinality(rated)
           s == SumOf(f)
           unit == RatingUnit
<1>1. IsFiniteSet(rated) /\ n \in Nat /\ (rated # {} <=> n # 0)
  <2>1. Len(src.ratings) \in Int /\ rated \subseteq 1..Len(src.ratings)
    BY DEF RatingsOf
  <2>2. IsFiniteSet(1..Len(src.ratings))
    BY <2>1, FS_Interval
  <2> QED
    BY <2>1, <2>2, FS_Subset, FS_CardinalityType, FS_EmptySet
<1>2. s \in Int /\ n <= s /\ s <= 5 * n
  <2>1. DOMAIN f = rated /\ \A i \in rated : f[i] \in Int /\ 1 <= f[i] /\ f[i] <= 5
    <3>1. \A i \in DOMAIN src.ratings : src.ratings[i].rating \in 1..5
      BY DEF Loadable
    <3> QED
      BY <3>1 DEF RatingsOf
  <2> HIDE DEF f, rated
  <2>2. s = Total(rated, f)
    BY <1>1, <2>1, SumIsTotal
  <2> DEFINE lo == 1
             hi == 5
             t == Total(rated, f)
  <2>3. lo \in Int /\ hi \in Int /\ \A i \in rated : f[i] \in Int /\ lo <= f[i] /\ f[i] <= hi
    BY <2>1
  <2> HIDE DEF lo, hi
  <2>4. t \in Int /\ lo * n <= t /\ t <= hi * n
    BY <1>1, <2>3, TotalBounded
  <2> HIDE DEF n, t
  <2>5. lo * n = n /\ hi * n = 5 * n
    BY <1>1 DEF lo, hi
  <2>6. s = t
    BY <2>2 DEF t
  <2> QED
    BY <2>4, <2>5, <2>6
<1>3. CASE rated = {}
  BY <1>1, <1>3 DEF AverageRating
<1>4. CASE rated # {}
  <2>1. AverageRating(src, p) = RoundDiv(unit * s, n)
    BY <1>4 DEF AverageRating
  <2>2. unit \in Nat
    BY DEF RatingUnit
  <2> HIDE DEF s, n, rated, unit
  <2>3. unit * n \in Nat /\ unit * s \in Int /\ unit * n <= unit * s /\ unit * s <= 5 * (unit * n)
    <3>1. s \in Nat /\ 5 * n \in Nat
      BY <1>1, <1>2
    <3>2. unit * n \in Nat /\ unit * s \in Nat /\ unit * n <= unit * s
      BY <1>1, <1>2, <2>2, <3>1, ProductGrows
    <3>3. unit * s <= unit * (5 * n)
      BY <1>1, <1>2, <2>2, <3>1, ProductGrows
    <3>4. unit * (5 * n) = 5 * (unit * n)
      BY <1>1, <2>2
    <3> QED
      BY <3>2, <3>3, <3>4
  <2>4. unit * n <= unit * s /\ unit * s <= (5 * unit) * n /\ 5 * unit \in Int
    BY <1>1, <2>2, <2>3
  <2>5. n > 0 /\ n \in Int
    BY <1>1, <1>4
  <2> DEFINE a == unit * s
             hi == 5 * unit
  <2>6. /\ a \in Int /\ n \in Int /\ n > 0 /\ unit \in Int /\ hi \in Int
        /\ unit * n <= a /\ a <= hi * n
    BY <2>2, <2>3, <2>4, <2>5
  <2> HIDE DEF a, hi
  <2>7. RoundDiv(a, n) \in unit..hi
    BY <2>6, RoundDivBetween
  <2> QED
    BY <1>1, <1>4, <2>1, <2>2, <2>7 DEF n, rated, unit, a, hi
<1> QED
  BY <1>3, <1>4

\* The products pass.
LEMMA ProductsPass ==
    ASSUME NEW src, NEW draw, Drawn(src, draw), NEW f, Intact(f),
           f.rows = generate_products(src), f.rows # <<>>
    PROVE  \A r \in common_rules("products", f) \cup products_rules(f, RatingUnit) : r.count = 0
<1>1. /\ \A n \in DOMAIN f.rows : \E p \in ItemIds(src) : f.rows[n] = ProductOf(src, p)
      /\ \A m, n \in DOMAIN f.rows : f.rows[m].product_id = f.rows[n].product_id => m = n
  BY DrawnTypes, GeneratedProducts
<1>2. ASSUME NEW i \in DOMAIN f.rows
      PROVE  /\ f.rows[i].product_id \in Int /\ f.rows[i].product_id > 0
             /\ f.rows[i].product_name = "film" /\ f.rows[i].category # Blank
             /\ f.rows[i].brand # Blank /\ f.rows[i].release_date = Blank
             /\ f.rows[i].price \in Int /\ f.rows[i].price > 0
             /\ f.rows[i].average_rating \in Int /\ f.rows[i].total_ratings \in Nat
             /\ f.rows[i].total_ratings = 0 => f.rows[i].average_rating = 0
             /\ f.rows[i].total_ratings > 0 =>
                   f.rows[i].average_rating \in RatingUnit..(5 * RatingUnit)
  <2>1. PICK p \in ItemIds(src) : f.rows[i] = ProductOf(src, p)
    BY <1>1
  <2>2. /\ f.rows[i].product_id = p /\ f.rows[i].product_name = "film"
        /\ f.rows[i].category = Categories[p] /\ f.rows[i].brand = Brands[p]
        /\ f.rows[i].release_date = Blank /\ f.rows[i].price = Prices[p]
        /\ f.rows[i].average_rating = AverageRating(src, p)
        /\ f.rows[i].total_ratings = Cardinality(RatingsOf(src, p))
    BY <2>1 DEF ProductOf
  <2>3. p \in Int /\ p > 0 /\ Prices[p] \in Int /\ Prices[p] > 0
        /\ Categories[p] # Blank /\ Brands[p] # Blank
    BY DrawnTypes, ItemIdsFinite DEF FitsSource
  <2>4. /\ AverageRating(src, p) \in Int /\ Cardinality(RatingsOf(src, p)) \in Nat
        /\ Cardinality(RatingsOf(src, p)) = 0 => AverageRating(src, p) = 0
        /\ Cardinality(RatingsOf(src, p)) > 0 =>
              AverageRating(src, p) \in RatingUnit..(5 * RatingUnit)
    BY DrawnTypes, MeanRatingOnScale
  <2> QED
    BY <2>2, <2>3, <2>4
<1>3. \A i \in DOMAIN f.rows : \A c \in required_value_columns("products") : ~blank(f.rows[i][c])
  BY <1>2, MarkersApart DEF required_value_columns, Columns, blank
<1>4. \A r \in common_rules("products", f) : r.count = 0
  <2>1. business_key("products") = "product_id" /\ "products" \in Datasets
    BY DEF business_key, Datasets
  <2> QED
    BY <1>1, <1>3, <2>1, CommonRulesPass DEF Intact
<1>5. positive_integer(f, "product_id").count = 0
  BY <1>2, PositivesPass
<1>6. nonnegative_integer(f, "total_ratings").count = 0
  BY <1>2, CountsPass
<1>7. rating_with_unrated(f, RatingUnit).count = 0
  <2>1. RatingUnit \in Int
    BY DEF RatingUnit
  <2> QED
    BY <1>2, <2>1, MeansPass
<1>8. \A r \in timestamp(f, "release_date") : r.count = 0
  BY <1>2, TimesPass
<1> DEFINE cheap == Failing(f, {"price"},
                            LAMBDA r : IF number(r.price) THEN r.price < 1 ELSE TRUE)
           empty(c) == Failing(f, {c}, LAMBDA r : blank(r[c]))
<1>9. cheap = {} /\ \A c \in {"product_name", "category", "brand"} : empty(c) = {}
  <2>1. \A i \in DOMAIN f.rows : number(f.rows[i].price) /\ ~(f.rows[i].price < 1)
    BY <1>2, NumbersAreWhole
  <2>2. \A i \in DOMAIN f.rows : \A c \in {"product_name", "category", "brand"} :
           ~blank(f.rows[i][c])
    BY <1>3 DEF required_value_columns, Columns
  <2>3. cheap = {}
    BY <2>1 DEF Failing
  <2> QED
    BY <2>2, <2>3 DEF Failing
<1> HIDE DEF cheap, empty
<1>10. Rule(<<"PRICE_POSITIVE">>, "Range", "ERROR", cheap).count = 0
  BY <1>9, NoneFails
<1>11. \A c \in {"product_name", "category", "brand"} :
          Rule(<<c, "NOT_BLANK">>, "Completeness", "ERROR", empty(c)).count = 0
  BY <1>9, NoneFails
<1> QED
  BY <1>4, <1>5, <1>6, <1>7, <1>8, <1>10, <1>11 DEF products_rules, cheap, empty

-----------------------------------------------------------------------------
(***************************************************************************)
(* The clicks.                                                             *)
(***************************************************************************)

\* A finite set of numbers has a greatest and a least one.
LEMMA ExtremesExist ==
    ASSUME NEW S, IsFiniteSet(S), S # {}, \A x \in S : x \in Int
    PROVE  /\ Max(S) \in S /\ \A x \in S : x <= Max(S)
           /\ Min(S) \in S /\ \A x \in S : Min(S) <= x
<1> DEFINE U == {p \in S \X S : p[1] < p[2]}
           D == {p \in S \X S : p[2] < p[1]}
<1>1. \A x, y \in S : (<<x, y>> \in U <=> x < y) /\ (<<x, y>> \in D <=> y < x)
  OBVIOUS
<1>2. StrictOrder(S, U) /\ StrictOrder(S, D)
  <2> HIDE DEF U, D
  <2> QED
    BY <1>1 DEF StrictOrder
<1> HIDE DEF U, D
<1>3. PICK top \in S : \A x \in S : x = top \/ <<x, top>> \in U
  BY <1>2, LastExists
<1>4. PICK bottom \in S : \A x \in S : x = bottom \/ <<x, bottom>> \in D
  BY <1>2, LastExists
<1>5. ASSUME NEW x \in S
      PROVE  top >= x /\ bottom <= x
  <2>1. x = top \/ x < top
    BY <1>1, <1>3
  <2>2. x = bottom \/ bottom < x
    BY <1>1, <1>4
  <2>3. x \in Int /\ top \in Int /\ bottom \in Int
    OBVIOUS
  <2> QED
    BY <2>1, <2>2, <2>3
<1>6. Max(S) \in S /\ \A x \in S : Max(S) >= x
  BY <1>5 DEF Max
<1>7. Min(S) \in S /\ \A x \in S : Min(S) <= x
  BY <1>5 DEF Min
<1> QED
  BY <1>6, <1>7

\* The rating of a row names a user and an item of the source.
LEMMA RatingRefers ==
    ASSUME NEW src, NEW draw, Drawn(src, draw), NEW i \in DOMAIN src.ratings
    PROVE  /\ \E k \in DOMAIN src.users : src.users[k] = src.ratings[i].user_id
           /\ src.ratings[i].product_id \in ItemIds(src)
           /\ src.ratings[i].user_id \in Int /\ src.ratings[i].user_id > 0
           /\ src.ratings[i].product_id \in Int /\ src.ratings[i].product_id > 0
           /\ src.ratings[i].rating \in 1..5 /\ i \in Int
<1>1. /\ \E k \in DOMAIN src.users : src.users[k] = src.ratings[i].user_id
      /\ \E k \in DOMAIN src.items : src.items[k] = src.ratings[i].product_id
      /\ src.ratings[i].rating \in 1..5
  BY DrawnTypes DEF Loadable
<1>2. src.ratings[i].product_id \in ItemIds(src)
  BY <1>1 DEF ItemIds
<1>3. /\ src.ratings[i].user_id \in Int /\ src.ratings[i].product_id \in Int /\ i \in Int
  BY DrawnTypes, RatingTyped
<1>4. src.ratings[i].user_id > 0 /\ src.ratings[i].product_id > 0
  BY <1>1, <1>2, DrawnTypes DEF FitsSource
<1> QED
  BY <1>1, <1>2, <1>3, <1>4

\* What EVENT_MAPPING begins with, and no event but the first opens it.
LEMMA MappingBegins ==
    ASSUME NEW r \in 1..5, NEW k \in DOMAIN EVENT_MAPPING[r]
    PROVE  /\ k = 1 => EVENT_MAPPING[r][k] = "View"
           /\ k # 1 => k - 1 \in DOMAIN EVENT_MAPPING[r]
<1>1. CASE r \in {1, 2, 3}
  BY <1>1 DEF EVENT_MAPPING
<1>2. CASE r = 4
  BY <1>2 DEF EVENT_MAPPING
<1>3. CASE r = 5
  BY <1>3 DEF EVENT_MAPPING
<1> QED
  BY <1>1, <1>2, <1>3

\* A click of a rating.
LEMMA ClickFacts ==
    ASSUME NEW src, NEW draw, Drawn(src, draw), NEW i \in DOMAIN src.ratings,
           NEW k \in DOMAIN EVENT_MAPPING[src.ratings[i].rating]
    PROVE  LET e == ClickOf(src, draw, i, k)
           IN  /\ e.event_id = <<i, k>> /\ e.event_id \in Int \X Int
               /\ e.user_id = src.ratings[i].user_id /\ e.product_id = src.ratings[i].product_id
               /\ e.event_type = EVENT_MAPPING[src.ratings[i].rating][k]
               /\ e.event_type \in {"View", "Wishlist", "AddToCart"}
               /\ e.timestamp = draw.offset[i] + k - 1 /\ e.timestamp \in Int
               /\ e.timestamp <= ReferenceTime
               /\ e.session_id = SessionOf(src, draw, i) /\ e.session_id \in Int \X Int
               /\ k \in 1..3 /\ draw.offset[i] \in 0..Available
<1>1. src.ratings[i].rating \in 1..5 /\ i \in Int
  BY RatingRefers
<1>2. k \in 1..3 /\ EVENT_MAPPING[src.ratings[i].rating][k] \in {"View", "Wishlist", "AddToCart"}
  BY <1>1, MappedEvents
<1>3. SessionOf(src, draw, i) \in Int \X Int
  BY DrawnTypes, SessionTyped
<1>4. draw.offset[i] \in 0..Available
  BY DEF Drawn
<1>5. /\ draw.offset[i] + k - 1 \in Int /\ draw.offset[i] + k - 1 <= ReferenceTime
  <2> DEFINE offset == draw.offset[i]
  <2>1. /\ Available \in Int /\ ReferenceTime \in Nat /\ MinDelay \in Nat
        /\ Available + MinDelay + 2 = ReferenceTime
    BY DrawnTypes
  <2>2. offset \in 0..Available
    BY <1>4
  <2> HIDE DEF offset
  <2>3. offset + k - 1 \in Int /\ offset + k - 1 <= ReferenceTime
    BY <1>2, <2>1, <2>2
  <2> QED
    BY <2>3 DEF offset
<1>6. <<i, k>> \in Int \X Int
  BY <1>1, <1>2
<1> QED
  BY <1>2, <1>3, <1>4, <1>5, <1>6, SMTT(30) DEF ClickOf

\* The clickstream nothing happened to.
LEMMA CleanClicks ==
    ASSUME NEW src, NEW draw, Drawn(src, draw)
    PROVE  LET rows == generate_clickstream(src, draw)
           IN  /\ \A n \in DOMAIN rows : \E i \in DOMAIN src.ratings :
                     \E k \in DOMAIN EVENT_MAPPING[src.ratings[i].rating] :
                        rows[n] = ClickOf(src, draw, i, k)
               /\ \A i \in DOMAIN src.ratings :
                     \A k \in DOMAIN EVENT_MAPPING[src.ratings[i].rating] :
                        \E n \in DOMAIN rows : rows[n] = ClickOf(src, draw, i, k)
               /\ \A m, n \in DOMAIN rows : m < n => rows[m].timestamp <= rows[n].timestamp
               /\ \A m, n \in DOMAIN rows : rows[m].event_id = rows[n].event_id => m = n
               /\ DOMAIN rows = 1..Len(rows) /\ Len(rows) \in Nat /\ rows # <<>>
<1> DEFINE rows == generate_clickstream(src, draw)
<1>1. \A i \in DOMAIN src.ratings : draw.offset[i] \in 0..Available
  BY DEF Drawn
<1>2. /\ rows \in Seq(Clicks)
      /\ \A n \in DOMAIN rows : \E i \in DOMAIN src.ratings :
            \E k \in DOMAIN EVENT_MAPPING[src.ratings[i].rating] :
               rows[n] = ClickOf(src, draw, i, k)
      /\ \A i \in DOMAIN src.ratings :
            \A k \in DOMAIN EVENT_MAPPING[src.ratings[i].rating] :
               \E n \in DOMAIN rows : rows[n] = ClickOf(src, draw, i, k)
      /\ \A m, n \in DOMAIN rows : m < n => rows[m].timestamp <= rows[n].timestamp
      /\ \A m, n \in DOMAIN rows : rows[m] = rows[n] => m = n
  BY <1>1, DrawnTypes, GeneratedClicks
<1> HIDE DEF rows
<1>3. ASSUME NEW m \in DOMAIN rows, NEW n \in DOMAIN rows, rows[m].event_id = rows[n].event_id
      PROVE  m = n
  <2>1. PICK i \in DOMAIN src.ratings : \E k \in DOMAIN EVENT_MAPPING[src.ratings[i].rating] :
           rows[m] = ClickOf(src, draw, i, k)
    BY <1>2
  <2>2. PICK k \in DOMAIN EVENT_MAPPING[src.ratings[i].rating] : rows[m] = ClickOf(src, draw, i, k)
    BY <2>1
  <2>3. PICK j \in DOMAIN src.ratings : \E l \in DOMAIN EVENT_MAPPING[src.ratings[j].rating] :
           rows[n] = ClickOf(src, draw, j, l)
    BY <1>2
  <2>4. PICK l \in DOMAIN EVENT_MAPPING[src.ratings[j].rating] : rows[n] = ClickOf(src, draw, j, l)
    BY <2>3
  <2>5. rows[m].event_id = <<i, k>>
    BY <2>2, ClickFacts
  <2>6. rows[n].event_id = <<j, l>>
    BY <2>4, ClickFacts
  <2>7. <<i, k>> = <<j, l>>
    BY <1>3, <2>5, <2>6
  <2>8. i = j /\ k = l
    BY <2>7
  <2>9. rows[m] = rows[n]
    BY <2>2, <2>4, <2>8
  <2> QED
    BY <1>2, <2>9
<1>4. rows # <<>>
  <2>1. src.ratings \in Seq(Ratings) /\ src.ratings # <<>>
    BY DrawnTypes DEF Loadable
  <2>2. 1 \in DOMAIN src.ratings
    BY <2>1
  <2> DEFINE r == src.ratings[1].rating
  <2>3. r \in 1..5
    BY <2>2, RatingRefers
  <2> HIDE DEF r
  <2>4. 1 \in DOMAIN EVENT_MAPPING[r]
    BY <2>3 DEF EVENT_MAPPING
  <2>5. \E n \in DOMAIN rows : rows[n] = ClickOf(src, draw, 1, 1)
    BY <1>2, <2>2, <2>4 DEF r
  <2>6. DOMAIN rows # {}
    BY <2>5
  <2> QED
    BY <2>6
<1>5. DOMAIN rows = 1..Len(rows) /\ Len(rows) \in Nat
  BY <1>2
<1> QED
  BY <1>2, <1>3, <1>4, <1>5 DEF rows

\* The keys that the users and the products offer.
LEMMA KeysOffered ==
    ASSUME NEW src, NEW draw, Drawn(src, draw)
    PROVE  /\ \A j \in DOMAIN generate_users(src) : generate_users(src)[j].user_id \in Int
           /\ \A j \in DOMAIN generate_products(src) : generate_products(src)[j].product_id \in Int
           /\ \A i \in DOMAIN src.ratings : \E j \in DOMAIN generate_users(src) :
                 generate_users(src)[j].user_id = src.ratings[i].user_id
           /\ \A p \in ItemIds(src) : \E j \in DOMAIN generate_products(src) :
                 generate_products(src)[j].product_id = p
<1>1. /\ DOMAIN generate_users(src) = DOMAIN src.users
      /\ \A j \in DOMAIN src.users : generate_users(src)[j].user_id = src.users[j]
  BY DEF generate_users
<1>2. \A j \in DOMAIN src.users : src.users[j] \in Int
  BY DrawnTypes
<1>3. /\ \A n \in DOMAIN generate_products(src) :
            \E p \in ItemIds(src) : generate_products(src)[n] = ProductOf(src, p)
      /\ \A p \in ItemIds(src) :
            \E n \in DOMAIN generate_products(src) : generate_products(src)[n] = ProductOf(src, p)
  BY DrawnTypes, GeneratedProducts
<1>4. \A p \in ItemIds(src) : ProductOf(src, p).product_id = p /\ p \in Int
  BY DrawnTypes, ItemIdsFinite DEF ProductOf
<1>5. \A i \in DOMAIN src.ratings :
         \E k \in DOMAIN src.users : src.users[k] = src.ratings[i].user_id
  BY RatingRefers
<1> QED
  BY <1>1, <1>2, <1>3, <1>4, <1>5

\* The events of a session come in the order of time.
LEMMA SessionsInOrder ==
    ASSUME NEW src, NEW draw, Drawn(src, draw), NEW f, Intact(f),
           f.rows = generate_clickstream(src, draw)
    PROVE  session_chronology(f).count = 0
<1> DEFINE Same(i) == {j \in 1..(i - 1) : f.rows[j].session_id = f.rows[i].session_id}
           Backward(i) == LET same == Same(i)
                      IN  /\ same # {} /\ ~blank(f.rows[i].session_id)
                          /\ number(f.rows[i].timestamp) /\ number(f.rows[Max(same)].timestamp)
                          /\ f.rows[i].timestamp < f.rows[Max(same)].timestamp
           bad == IF {"session_id", "timestamp"} \cap f.missing # {} THEN {}
                  ELSE {i \in DOMAIN f.rows : Backward(i)}
<1>1. /\ \A m, n \in DOMAIN f.rows : m < n => f.rows[m].timestamp <= f.rows[n].timestamp
      /\ DOMAIN f.rows = 1..Len(f.rows) /\ Len(f.rows) \in Nat
  BY CleanClicks
<1>2. ASSUME NEW i \in DOMAIN f.rows
      PROVE  f.rows[i].timestamp \in Int
  BY CleanClicks, ClickFacts
<1>3. ASSUME NEW i \in DOMAIN f.rows
      PROVE  ~Backward(i)
  <2>1. CASE Same(i) = {}
    BY <2>1
  <2>2. CASE Same(i) # {}
    <3>1. i \in Int /\ Same(i) \subseteq 1..(i - 1) /\ \A x \in Same(i) : x \in Int
      BY <1>1
    <3>2. IsFiniteSet(1..(i - 1))
      BY <3>1, FirstNumbers
    <3> DEFINE S == Same(i)
    <3>3. S # {} /\ IsFiniteSet(S) /\ \A x \in S : x \in Int
      BY <2>2, <3>1, <3>2, FS_Subset
    <3> HIDE DEF S
    <3>4. Max(S) \in S
      BY <3>3, ExtremesExist
    <3>5. Max(S) \in DOMAIN f.rows /\ Max(S) < i
      BY <1>1, <3>1, <3>4 DEF S
    <3>6. f.rows[Max(S)].timestamp <= f.rows[i].timestamp
      BY <1>1, <3>5
    <3>7. f.rows[Max(S)].timestamp \in Int /\ f.rows[i].timestamp \in Int
      BY <1>2, <3>5
    <3>8. ~(f.rows[i].timestamp < f.rows[Max(S)].timestamp)
      BY <3>6, <3>7
    <3> QED
      BY <3>8 DEF S
  <2> QED
    BY <2>1, <2>2
<1> HIDE DEF Backward
<1>4. bad = {}
  BY <1>3
<1> HIDE DEF bad
<1>5. Rule(<<"SESSION_CHRONOLOGY">>, "Consistency", "WARNING", bad).count = 0
  BY <1>4, NoneFails
<1> QED
  BY <1>5 DEF session_chronology, bad, Backward, Same

\* A user meets a product in a session by viewing it.
LEMMA SessionsBeginWithView ==
    ASSUME NEW src, NEW draw, Drawn(src, draw), NEW f, Intact(f),
           f.rows = generate_clickstream(src, draw)
    PROVE  session_sequence(f).count = 0
<1> DEFINE columns == {"session_id", "product_id", "event_type"}
           Group(i) == {j \in DOMAIN f.rows :
                           /\ f.rows[j].session_id = f.rows[i].session_id
                           /\ f.rows[j].product_id = f.rows[i].product_id
                           /\ ~blank(f.rows[j].session_id) /\ ~blank(f.rows[j].product_id)}
           Typed(i) == {j \in Group(i) : ~blank(f.rows[j].event_type)}
           First(i) == IF Typed(i) = {} THEN Blank ELSE f.rows[Min(Typed(i))].event_type
           bad == IF columns \cap f.missing # {} THEN {}
                  ELSE {i \in DOMAIN f.rows : First(i) # "View"}
<1>1. /\ \A m, n \in DOMAIN f.rows : m < n => f.rows[m].timestamp <= f.rows[n].timestamp
      /\ DOMAIN f.rows = 1..Len(f.rows) /\ Len(f.rows) \in Nat
      /\ \A m, n \in DOMAIN f.rows : f.rows[m].event_id = f.rows[n].event_id => m = n
  BY CleanClicks
<1>2. ASSUME NEW n \in DOMAIN f.rows
      PROVE  \E i \in DOMAIN src.ratings :
                \E k \in DOMAIN EVENT_MAPPING[src.ratings[i].rating] :
                   f.rows[n] = ClickOf(src, draw, i, k)
  BY CleanClicks
<1>3. ASSUME NEW i \in DOMAIN src.ratings,
             NEW k \in DOMAIN EVENT_MAPPING[src.ratings[i].rating]
      PROVE  \E n \in DOMAIN f.rows : f.rows[n] = ClickOf(src, draw, i, k)
  BY CleanClicks
<1>4. ASSUME NEW n \in DOMAIN f.rows
      PROVE  /\ f.rows[n].timestamp \in Int
             /\ ~blank(f.rows[n].session_id) /\ ~blank(f.rows[n].product_id)
             /\ ~blank(f.rows[n].event_type)
  <2>1. PICK i \in DOMAIN src.ratings :
           \E k \in DOMAIN EVENT_MAPPING[src.ratings[i].rating] :
              f.rows[n] = ClickOf(src, draw, i, k)
    BY <1>2
  <2>2. PICK k \in DOMAIN EVENT_MAPPING[src.ratings[i].rating] :
           f.rows[n] = ClickOf(src, draw, i, k)
    BY <2>1
  <2>3. /\ f.rows[n].timestamp \in Int /\ f.rows[n].session_id \in Int \X Int
        /\ f.rows[n].event_type \in {"View", "Wishlist", "AddToCart"}
        /\ f.rows[n].product_id = src.ratings[i].product_id
    BY <2>2, ClickFacts
  <2>4. f.rows[n].product_id \in Int
    BY <2>3, RatingRefers
  <2> QED
    BY <2>3, <2>4, MarkersApart DEF blank
<1>5. ASSUME NEW i \in DOMAIN f.rows
      PROVE  First(i) = "View"
  <2> DEFINE S == Typed(i)
             m == Min(S)
  <2>1. S = {j \in DOMAIN f.rows : /\ f.rows[j].session_id = f.rows[i].session_id
                                   /\ f.rows[j].product_id = f.rows[i].product_id}
    BY <1>4
  <2>2. i \in S /\ S \subseteq DOMAIN f.rows
    BY <2>1
  <2>3. IsFiniteSet(S) /\ S # {} /\ \A x \in S : x \in Int
    <3>1. IsFiniteSet(DOMAIN f.rows)
      BY <1>1, FirstNumbers
    <3> HIDE DEF S
    <3> QED
      BY <1>1, <2>2, <3>1, FS_Subset
  <2> HIDE DEF S
  <2>4. m \in S /\ \A x \in S : m <= x
    BY <2>3, ExtremesExist
  <2> HIDE DEF m
  <2>5. m \in DOMAIN f.rows
    BY <2>2, <2>4
  <2>6. PICK a \in DOMAIN src.ratings :
           \E k \in DOMAIN EVENT_MAPPING[src.ratings[a].rating] :
              f.rows[m] = ClickOf(src, draw, a, k)
    BY <1>2, <2>5
  <2>7. PICK k \in DOMAIN EVENT_MAPPING[src.ratings[a].rating] :
           f.rows[m] = ClickOf(src, draw, a, k)
    BY <2>6
  <2> DEFINE r == src.ratings[a].rating
  <2>8. r \in 1..5
    BY RatingRefers
  <2>9. k = 1
    <3> SUFFICES ASSUME k # 1 PROVE FALSE
      OBVIOUS
    <3>1. k - 1 \in DOMAIN EVENT_MAPPING[src.ratings[a].rating]
      <4> HIDE DEF r
      <4>1. k \in DOMAIN EVENT_MAPPING[r]
        BY DEF r
      <4>2. k - 1 \in DOMAIN EVENT_MAPPING[r]
        BY <2>8, <4>1, MappingBegins
      <4> QED
        BY <4>2 DEF r
    <3>2. PICK n \in DOMAIN f.rows : f.rows[n] = ClickOf(src, draw, a, k - 1)
      BY <1>3, <3>1
    <3>3. /\ f.rows[n].session_id = f.rows[m].session_id
          /\ f.rows[n].product_id = f.rows[m].product_id
          /\ f.rows[n].event_id = <<a, k - 1>> /\ f.rows[m].event_id = <<a, k>>
          /\ f.rows[n].timestamp = draw.offset[a] + (k - 1) - 1
          /\ f.rows[m].timestamp = draw.offset[a] + k - 1
      BY <2>7, <3>2 DEF ClickOf
    <3>4. draw.offset[a] \in Int /\ k \in Int
      BY ClickFacts, DrawnTypes
    <3>5. n \in S
      BY <2>1, <2>4, <3>3
    <3>6. m <= n /\ m \in Int /\ n \in Int
      BY <2>3, <2>4, <3>5
    <3>7. f.rows[n].timestamp < f.rows[m].timestamp
      BY <3>3, <3>4
    <3>8. m # n
      BY <3>3, <3>4, <3>7
    <3>9. f.rows[m].timestamp <= f.rows[n].timestamp
      BY <1>1, <2>5, <3>6, <3>8
    <3> QED
      BY <3>3, <3>4, <3>7, <3>9
  <2>10. f.rows[m].event_type = "View"
    <3>1. f.rows[m].event_type = EVENT_MAPPING[r][k]
      BY <2>7 DEF ClickOf
    <3>2. k \in DOMAIN EVENT_MAPPING[r]
      OBVIOUS
    <3> HIDE DEF r
    <3>3. EVENT_MAPPING[r][k] = "View"
      BY <2>8, <2>9, <3>2, MappingBegins
    <3> QED
      BY <3>1, <3>3
  <2> QED
    BY <2>3, <2>10 DEF S, m
<1> HIDE DEF First
<1>6. bad = {}
  BY <1>5
<1> HIDE DEF bad
<1>7. Rule(<<"SESSION_SEQUENCE">>, "Business Rules", "WARNING", bad).count = 0
  BY <1>6, NoneFails
<1>8. session_sequence(f) = Rule(<<"SESSION_SEQUENCE">>, "Business Rules", "WARNING", bad)
  BY DEF session_sequence, bad, First, Typed, Group, columns
<1> QED
  BY <1>7, <1>8

\* The columns of the clickstream.
LEMMA ClickColumns ==
    ASSUME NEW src, NEW draw, Drawn(src, draw), NEW n \in DOMAIN generate_clickstream(src, draw)
    PROVE  LET e == generate_clickstream(src, draw)[n]
           IN  /\ e.event_id \in Int \X Int /\ e.session_id \in Int \X Int
               /\ e.user_id \in Int /\ e.user_id > 0 /\ e.product_id \in Int /\ e.product_id > 0
               /\ e.event_type \in {"View", "Wishlist", "AddToCart"}
               /\ e.timestamp \in Int /\ e.timestamp <= ReferenceTime
               /\ \E i \in DOMAIN src.ratings : e.user_id = src.ratings[i].user_id
               /\ e.product_id \in ItemIds(src)
<1> DEFINE e == generate_clickstream(src, draw)[n]
<1>1. \E i \in DOMAIN src.ratings : \E k \in DOMAIN EVENT_MAPPING[src.ratings[i].rating] :
         e = ClickOf(src, draw, i, k)
  BY CleanClicks
<1> HIDE DEF e
<1>2. PICK i \in DOMAIN src.ratings : \E k \in DOMAIN EVENT_MAPPING[src.ratings[i].rating] :
         e = ClickOf(src, draw, i, k)
  BY <1>1
<1>3. PICK k \in DOMAIN EVENT_MAPPING[src.ratings[i].rating] : e = ClickOf(src, draw, i, k)
  BY <1>2
<1>4. /\ e.event_id \in Int \X Int /\ e.session_id \in Int \X Int
      /\ e.user_id = src.ratings[i].user_id /\ e.product_id = src.ratings[i].product_id
      /\ e.event_type \in {"View", "Wishlist", "AddToCart"}
      /\ e.timestamp \in Int /\ e.timestamp <= ReferenceTime
  BY <1>3, ClickFacts
<1>5. /\ src.ratings[i].product_id \in ItemIds(src)
      /\ src.ratings[i].user_id \in Int /\ src.ratings[i].user_id > 0
      /\ src.ratings[i].product_id \in Int /\ src.ratings[i].product_id > 0
  BY RatingRefers
<1> QED
  BY <1>4, <1>5 DEF e

\* The clickstream passes.
LEMMA ClicksPass ==
    ASSUME NEW src, NEW draw, Drawn(src, draw), NEW f, Intact(f),
           f.rows = generate_clickstream(src, draw),
           NEW users, users.rows = generate_users(src),
           NEW products, products.rows = generate_products(src)
    PROVE  \A r \in common_rules("clickstream", f) \cup clickstream_rules(f, users, products) :
              r.count = 0
<1>1. ASSUME NEW n \in DOMAIN f.rows
      PROVE  /\ f.rows[n].event_id \in Int \X Int /\ f.rows[n].session_id \in Int \X Int
             /\ f.rows[n].user_id \in Int /\ f.rows[n].user_id > 0
             /\ f.rows[n].product_id \in Int /\ f.rows[n].product_id > 0
             /\ f.rows[n].event_type \in {"View", "Wishlist", "AddToCart"}
             /\ f.rows[n].timestamp \in Int /\ f.rows[n].timestamp <= ReferenceTime
             /\ \E i \in DOMAIN src.ratings : f.rows[n].user_id = src.ratings[i].user_id
             /\ f.rows[n].product_id \in ItemIds(src)
  BY ClickColumns
<1>2. /\ \A m, n \in DOMAIN f.rows : f.rows[m].event_id = f.rows[n].event_id => m = n
      /\ f.rows # <<>>
  BY CleanClicks
<1>3. \A i \in DOMAIN f.rows : \A c \in required_value_columns("clickstream") :
         ~blank(f.rows[i][c])
  BY <1>1, MarkersApart DEF required_value_columns, Columns, blank
<1>4. \A r \in common_rules("clickstream", f) : r.count = 0
  <2>1. business_key("clickstream") = "event_id" /\ "clickstream" \in Datasets
    BY DEF business_key, Datasets
  <2> QED
    BY <1>2, <1>3, <2>1, CommonRulesPass DEF Intact
<1>5. uuid(f, "event_id").count = 0
  BY <1>1, IdentifiersPass
<1>6. uuid(f, "session_id").count = 0
  BY <1>1, IdentifiersPass
<1>7. positive_integer(f, "user_id").count = 0
  BY <1>1, PositivesPass
<1>8. positive_integer(f, "product_id").count = 0
  BY <1>1, PositivesPass
<1>9. allowed(f, "event_type", {"View", "Wishlist", "AddToCart"}).count = 0
  BY <1>1, LabelsPass
<1>10. foreign_key("clickstream", f, "user_id", "users", users).count = 0
  <2>1. \A j \in DOMAIN users.rows : users.rows[j].user_id \in Int
    BY KeysOffered
  <2>2. \A i \in DOMAIN f.rows : \E j \in DOMAIN users.rows :
           users.rows[j].user_id = f.rows[i].user_id
    BY <1>1, KeysOffered
  <2> QED
    BY <1>1, <2>1, <2>2, KeysPass
<1>11. foreign_key("clickstream", f, "product_id", "products", products).count = 0
  <2>1. \A j \in DOMAIN products.rows : products.rows[j].product_id \in Int
    BY KeysOffered
  <2>2. \A i \in DOMAIN f.rows : \E j \in DOMAIN products.rows :
           products.rows[j].product_id = f.rows[i].product_id
    BY <1>1, KeysOffered
  <2> QED
    BY <1>1, <2>1, <2>2, KeysPass
<1>12. session_chronology(f).count = 0 /\ session_sequence(f).count = 0
  BY SessionsInOrder, SessionsBeginWithView
<1>13. \A r \in timestamp(f, "timestamp") : r.count = 0
  <2>1. \A i \in DOMAIN f.rows :
           f.rows[i].timestamp \in Int /\ f.rows[i].timestamp <= Now + FutureTolerance
    BY <1>1, DrawnTypes, ValidationConfiguration
  <2> QED
    BY <2>1, TimesPass
<1> QED
  BY <1>4, <1>5, <1>6, <1>7, <1>8, <1>9, <1>10, <1>11, <1>12, <1>13 DEF clickstream_rules

\* A purchase of a rating, and the time it takes place.
LEMMA OrderFacts ==
    ASSUME NEW src, NEW draw, Drawn(src, draw), NEW i \in Bought(src)
    PROVE  LET o == OrderOf(src, draw, i)
           IN  /\ i \in DOMAIN src.ratings
               /\ o.order_id = <<i, 0>> /\ o.order_id \in Int \X Int
               /\ o.user_id = src.ratings[i].user_id /\ o.product_id = src.ratings[i].product_id
               /\ o.quantity = draw.quantity /\ o.quantity \in 1..100
               /\ o.amount = o.quantity * Prices[o.product_id] /\ o.amount \in Int /\ o.amount > 0
               /\ o.rating \in 4..5
               /\ o.purchase_timestamp = FinalClick(src, draw, i) + draw.delay[i]
               /\ o.purchase_timestamp \in Int /\ o.purchase_timestamp <= ReferenceTime
               /\ FinalClick(src, draw, i) \in Int
               /\ FinalClick(src, draw, i) <= o.purchase_timestamp
               /\ draw.delay[i] \in Nat
               /\ FinalClick(src, draw, i) <= Available + 2
<1>1. /\ i \in DOMAIN src.ratings /\ src.ratings[i].rating >= 4
  BY DEF Bought
<1>2. /\ src.ratings[i].product_id \in ItemIds(src) /\ src.ratings[i].rating \in 1..5 /\ i \in Int
  BY <1>1, RatingRefers
<1>3. src.ratings[i].rating \in 4..5
  BY <1>1, <1>2
<1> DEFINE price == Prices[src.ratings[i].product_id]
           q == draw.quantity
           final == FinalClick(src, draw, i)
           delay == draw.delay[i]
<1>4. price \in Nat /\ price > 0 /\ q \in 1..100
  BY <1>2, DrawnTypes DEF FitsSource
<1>5. q * price \in Int /\ q * price > 0
  <2> HIDE DEF q, price
  <2> QED
    BY <1>4
<1>6. final \in Int /\ final <= Available + 2
  <2> DEFINE n == Len(EVENT_MAPPING[src.ratings[i].rating])
  <2>1. n \in 1..3
    <3> DEFINE r == src.ratings[i].rating
    <3>1. r = 4 \/ r = 5
      BY <1>3
    <3> HIDE DEF r
    <3>2. Len(EVENT_MAPPING[r]) \in 1..3
      BY <3>1 DEF EVENT_MAPPING
    <3> QED
      BY <3>2 DEF r
  <2>2. draw.offset[i] \in 0..Available
    BY <1>1 DEF Drawn
  <2>3. final = draw.offset[i] + n - 1
    BY DEF FinalClick
  <2> HIDE DEF n, final
  <2> QED
    BY <2>1, <2>2, <2>3, DrawnTypes
<1>7. delay \in Nat /\ final + delay <= ReferenceTime
  <2> DEFINE m == maximum_delay(src, draw, i)
  <2>1. delay \in MinDelay..m
    BY DEF Drawn, DelayDrawn
  <2>2. m = IF MaxDelay < ReferenceTime - final THEN MaxDelay ELSE ReferenceTime - final
    BY DEF maximum_delay
  <2> HIDE DEF m, delay, final
  <2>3. m \in Int /\ m <= ReferenceTime - final
    BY <1>6, <2>2, DrawnTypes
  <2> QED
    BY <1>6, <2>1, <2>3, DrawnTypes
<1>8. final + delay \in Int /\ final <= final + delay
  <2> HIDE DEF final, delay
  <2> QED
    BY <1>6, <1>7
<1> QED
  BY <1>1, <1>2, <1>3, <1>4, <1>5, <1>6, <1>7, <1>8 DEF OrderOf

-----------------------------------------------------------------------------
(***************************************************************************)
(* The purchases.                                                          *)
(***************************************************************************)

\* The orders of a batch.
LEMMA CleanOrders ==
    ASSUME NEW src, NEW draw, Drawn(src, draw)
    PROVE  LET rows == generate_purchases(src, draw)
           IN  /\ \A n \in DOMAIN rows : \E i \in Bought(src) : rows[n] = OrderOf(src, draw, i)
               /\ \A i \in Bought(src) : \E n \in DOMAIN rows : rows[n] = OrderOf(src, draw, i)
               /\ \A m, n \in DOMAIN rows : rows[m].order_id = rows[n].order_id => m = n
               /\ DOMAIN rows = 1..Len(rows) /\ Len(rows) \in Nat
               /\ rows = <<>> <=> Bought(src) = {}
<1> DEFINE rows == generate_purchases(src, draw)
<1>1. \A i \in DOMAIN src.ratings : draw.offset[i] \in 0..Available
  BY DEF Drawn
<1>2. \A i \in Bought(src) : draw.delay[i] \in Int
  BY OrderFacts
<1>3. draw.quantity \in Nat
  <2>1. draw.quantity \in 1..100
    BY DrawnTypes
  <2> QED
    BY <2>1
<1>4. /\ rows \in Seq(Orders)
      /\ \A n \in DOMAIN rows : \E i \in Bought(src) : rows[n] = OrderOf(src, draw, i)
      /\ \A i \in Bought(src) : \E n \in DOMAIN rows : rows[n] = OrderOf(src, draw, i)
      /\ \A m, n \in DOMAIN rows : rows[m] = rows[n] => m = n
  BY <1>1, <1>2, <1>3, DrawnTypes, GeneratedPurchases
<1> HIDE DEF rows
<1>5. ASSUME NEW m \in DOMAIN rows, NEW n \in DOMAIN rows, rows[m].order_id = rows[n].order_id
      PROVE  m = n
  <2>1. PICK i \in Bought(src) : rows[m] = OrderOf(src, draw, i)
    BY <1>4
  <2>2. PICK j \in Bought(src) : rows[n] = OrderOf(src, draw, j)
    BY <1>4
  <2>3. rows[m].order_id = <<i, 0>> /\ rows[n].order_id = <<j, 0>>
    BY <2>1, <2>2 DEF OrderOf
  <2>4. <<i, 0>> = <<j, 0>>
    BY <1>5, <2>3
  <2>5. i = j
    BY <2>4
  <2>6. rows[m] = rows[n]
    BY <2>1, <2>2, <2>5
  <2> QED
    BY <1>4, <2>6
<1>6. DOMAIN rows = 1..Len(rows) /\ Len(rows) \in Nat /\ (rows = <<>> <=> DOMAIN rows = {})
  BY <1>4
<1>7. DOMAIN rows = {} <=> Bought(src) = {}
  BY <1>4
<1> QED
  BY <1>4, <1>5, <1>6, <1>7 DEF rows

\* The columns of the purchases.
LEMMA OrderColumns ==
    ASSUME NEW src, NEW draw, Drawn(src, draw), NEW n \in DOMAIN generate_purchases(src, draw)
    PROVE  LET o == generate_purchases(src, draw)[n]
           IN  /\ o.order_id \in Int \X Int
               /\ o.user_id \in Int /\ o.user_id > 0 /\ o.product_id \in Int /\ o.product_id > 0
               /\ o.quantity \in 1..100 /\ o.amount \in Int /\ o.amount > 0
               /\ o.amount = o.quantity * Prices[o.product_id]
               /\ o.rating \in 4..5
               /\ o.purchase_timestamp \in Int /\ o.purchase_timestamp <= ReferenceTime
               /\ \E i \in DOMAIN src.ratings : o.user_id = src.ratings[i].user_id
               /\ o.product_id \in ItemIds(src)
<1> DEFINE o == generate_purchases(src, draw)[n]
<1>1. \E i \in Bought(src) : o = OrderOf(src, draw, i)
  BY CleanOrders
<1> HIDE DEF o
<1>2. PICK i \in Bought(src) : o = OrderOf(src, draw, i)
  BY <1>1
<1>3. /\ i \in DOMAIN src.ratings /\ o.order_id \in Int \X Int
      /\ o.user_id = src.ratings[i].user_id /\ o.product_id = src.ratings[i].product_id
      /\ o.quantity \in 1..100 /\ o.amount \in Int /\ o.amount > 0
      /\ o.amount = o.quantity * Prices[o.product_id]
      /\ o.rating \in 4..5
      /\ o.purchase_timestamp \in Int /\ o.purchase_timestamp <= ReferenceTime
  BY <1>2, OrderFacts
<1>4. /\ src.ratings[i].product_id \in ItemIds(src)
      /\ src.ratings[i].user_id \in Int /\ src.ratings[i].user_id > 0
      /\ src.ratings[i].product_id \in Int /\ src.ratings[i].product_id > 0
  BY <1>3, RatingRefers
<1> QED
  BY <1>3, <1>4 DEF o

\* A purchase comes after every click of its user on its product, and there is
\* such a click.
LEMMA PurchaseFollowsClicks ==
    ASSUME NEW src, NEW draw, Drawn(src, draw),
           NEW f, f.rows = generate_purchases(src, draw),
           NEW clicks, clicks.rows = generate_clickstream(src, draw), NEW n \in DOMAIN f.rows
    PROVE  LET r == f.rows[n]
               matching == MatchingClicks(f, clicks, r)
           IN  /\ matching # {}
               /\ ~(r.purchase_timestamp < Max({clicks.rows[j].timestamp : j \in matching}))
<1> DEFINE r == f.rows[n]
           matching == MatchingClicks(f, clicks, r)
           times == {clicks.rows[j].timestamp : j \in matching}
<1>1. \A c \in {"user_id", "product_id"} :
         TextColumn("purchasehistory", f, c) = FALSE /\ TextColumn("clickstream", clicks, c) = FALSE
  <2>1. \A i \in DOMAIN f.rows : f.rows[i].user_id \in Int /\ f.rows[i].product_id \in Int
    BY OrderColumns
  <2>2. \A i \in DOMAIN clicks.rows :
           clicks.rows[i].user_id \in Int /\ clicks.rows[i].product_id \in Int
    BY ClickColumns
  <2> QED
    BY <2>1, <2>2, NumbersAreWhole DEF TextColumn
<1>2. matching = {j \in DOMAIN clicks.rows : /\ clicks.rows[j].user_id = r.user_id
                                             /\ clicks.rows[j].product_id = r.product_id}
  <2>1. \A j \in DOMAIN clicks.rows : number(clicks.rows[j].timestamp)
    BY ClickColumns, NumbersAreWhole
  <2> HIDE DEF r
  <2> QED
    BY <1>1, <2>1 DEF MatchingClicks
<1>3. \E i \in Bought(src) : r = OrderOf(src, draw, i)
  BY CleanOrders
<1> HIDE DEF r, matching
<1>4. PICK i \in Bought(src) : r = OrderOf(src, draw, i)
  BY <1>3
<1>5. /\ i \in DOMAIN src.ratings
      /\ r.user_id = src.ratings[i].user_id /\ r.product_id = src.ratings[i].product_id
      /\ r.purchase_timestamp \in Int
      /\ FinalClick(src, draw, i) \in Int /\ FinalClick(src, draw, i) <= r.purchase_timestamp
  BY <1>4, OrderFacts
<1> DEFINE rating == src.ratings[i].rating
<1>6. rating \in 1..5
  BY <1>5, RatingRefers
<1>7. matching # {}
  <2>1. 1 \in DOMAIN EVENT_MAPPING[rating]
    <3> HIDE DEF rating
    <3> QED
      BY <1>6 DEF EVENT_MAPPING
  <2>2. PICK j \in DOMAIN clicks.rows : clicks.rows[j] = ClickOf(src, draw, i, 1)
    BY <1>5, <2>1, CleanClicks
  <2>3. clicks.rows[j].user_id = r.user_id /\ clicks.rows[j].product_id = r.product_id
    BY <1>5, <2>2 DEF ClickOf
  <2> QED
    BY <1>2, <2>2, <2>3
<1>8. ASSUME NEW j \in matching
      PROVE  /\ clicks.rows[j].timestamp \in Int
             /\ clicks.rows[j].timestamp <= FinalClick(src, draw, i)
  <2>1. /\ j \in DOMAIN clicks.rows /\ clicks.rows[j].user_id = r.user_id
        /\ clicks.rows[j].product_id = r.product_id
    BY <1>2
  <2>2. PICK a \in DOMAIN src.ratings :
           \E k \in DOMAIN EVENT_MAPPING[src.ratings[a].rating] :
              clicks.rows[j] = ClickOf(src, draw, a, k)
    BY <2>1, CleanClicks
  <2>3. PICK k \in DOMAIN EVENT_MAPPING[src.ratings[a].rating] :
           clicks.rows[j] = ClickOf(src, draw, a, k)
    BY <2>2
  <2>4. /\ clicks.rows[j].user_id = src.ratings[a].user_id
        /\ clicks.rows[j].product_id = src.ratings[a].product_id
        /\ clicks.rows[j].timestamp = draw.offset[a] + k - 1
        /\ clicks.rows[j].timestamp \in Int /\ draw.offset[a] \in 0..Available /\ k \in 1..3
    BY <2>3, ClickFacts
  <2>5. a = i
    BY <1>5, <2>1, <2>4, DrawnTypes DEF FitsSource
  <2>6. k <= Len(EVENT_MAPPING[rating])
    <3>1. k \in DOMAIN EVENT_MAPPING[rating]
      BY <2>5
    <3> HIDE DEF rating
    <3>2. CASE rating \in {1, 2, 3}
      BY <3>1, <3>2 DEF EVENT_MAPPING
    <3>3. CASE rating = 4
      BY <3>1, <3>3 DEF EVENT_MAPPING
    <3>4. CASE rating = 5
      BY <3>1, <3>4 DEF EVENT_MAPPING
    <3> QED
      BY <1>6, <3>2, <3>3, <3>4
  <2>7. Len(EVENT_MAPPING[rating]) \in Int
    BY <1>6, MappedLength
  <2>8. FinalClick(src, draw, i) = draw.offset[i] + Len(EVENT_MAPPING[rating]) - 1
    BY DEF FinalClick
  <2>9. draw.offset[i] \in Int
    BY <2>4, <2>5, DrawnTypes
  <2> QED
    BY <2>4, <2>5, <2>6, <2>7, <2>8, <2>9, SMTT(30)
<1>9. IsFiniteSet(matching)
  <2>1. DOMAIN clicks.rows = 1..Len(clicks.rows) /\ Len(clicks.rows) \in Nat
    BY CleanClicks
  <2>2. IsFiniteSet(1..Len(clicks.rows))
    BY <2>1, FirstNumbers
  <2> QED
    BY <1>2, <2>1, <2>2, FS_Subset
<1>10. IsFiniteSet(times) /\ times # {} /\ \A t \in times : t \in Int
  <2> DEFINE g == [j \in matching |-> clicks.rows[j].timestamp]
  <2>1. IsFiniteSet({g[j] : j \in matching})
    <3>1. DOMAIN g = matching
      OBVIOUS
    <3> HIDE DEF g
    <3> QED
      BY <1>9, <3>1, ImageIsFinite
  <2>2. times = {g[j] : j \in matching}
    OBVIOUS
  <2> QED
    BY <1>7, <1>8, <2>1, <2>2
<1> HIDE DEF times
<1>11. Max(times) \in times
  BY <1>10, ExtremesExist
<1>12. Max(times) \in Int /\ Max(times) <= FinalClick(src, draw, i)
  BY <1>8, <1>11 DEF times
<1>13. ~(r.purchase_timestamp < Max(times))
  BY <1>5, <1>12
<1> QED
  BY <1>7, <1>13 DEF r, times, matching

\* The amount of a purchase is what the catalog says.
LEMMA AmountsAgree ==
    ASSUME NEW src, NEW draw, Drawn(src, draw), NEW f, f.rows = generate_purchases(src, draw),
           NEW products, products.rows = generate_products(src)
    PROVE  amount_consistency(f, products).count = 0
<1> DEFINE Known(r) == {j \in DOMAIN products.rows :
                          /\ products.rows[j].product_id = r.product_id
                          /\ number(products.rows[j].price)}
           Mismatch(r) ==
              /\ number(r.quantity) /\ number(r.amount) /\ Known(r) # {}
              /\ \A j \in Known(r) :
                    IF r.quantity = Fraction THEN TRUE
                    ELSE LET expected == r.quantity * products.rows[j].price
                         IN  r.amount \notin (expected - 1)..(expected + 1)
           bad == IF \/ {"product_id", "price"} \cap products.missing # {}
                     \/ TextColumn("purchasehistory", f, "product_id")
                  THEN {} ELSE Failing(f, {"product_id", "quantity", "amount"}, Mismatch)
<1>1. ASSUME NEW i \in DOMAIN f.rows, Mismatch(f.rows[i])
      PROVE  FALSE
  <2> DEFINE r == f.rows[i]
  <2>1. /\ r.quantity \in 1..100 /\ r.amount \in Int
        /\ r.amount = r.quantity * Prices[r.product_id]
        /\ r.product_id \in ItemIds(src)
    BY OrderColumns
  <2>2. Known(r) # {} /\ \A j \in Known(r) :
           IF r.quantity = Fraction THEN TRUE
           ELSE LET expected == r.quantity * products.rows[j].price
                IN  r.amount \notin (expected - 1)..(expected + 1)
    BY <1>1
  <2>3. PICK j \in DOMAIN products.rows :
           products.rows[j].product_id = r.product_id /\ j \in Known(r)
    BY <2>2
  <2>4. PICK p \in ItemIds(src) : products.rows[j] = ProductOf(src, p)
    <3>1. \A n \in DOMAIN generate_products(src) : \E p \in ItemIds(src) :
             generate_products(src)[n] = ProductOf(src, p)
      BY DrawnTypes, GeneratedProducts
    <3> QED
      BY <3>1
  <2>5. products.rows[j].price = Prices[r.product_id]
    BY <2>3, <2>4 DEF ProductOf
  <2>6. r.quantity \in Int /\ r.quantity # Fraction
    BY <2>1, MarkersApart
  <2>7. r.amount \notin (r.amount - 1)..(r.amount + 1)
    BY <2>1, <2>2, <2>3, <2>5, <2>6
  <2> HIDE DEF r
  <2> QED
    BY <2>1, <2>7
<1> HIDE DEF Mismatch
<1>2. bad = {}
  BY <1>1 DEF Failing
<1> HIDE DEF bad
<1>3. Rule(<<"AMOUNT_CONSISTENCY">>, "Consistency", "ERROR", bad).count = 0
  BY <1>2, NoneFails
<1>4. amount_consistency(f, products) = Rule(<<"AMOUNT_CONSISTENCY">>, "Consistency", "ERROR", bad)
  BY DEF amount_consistency, bad, Mismatch, Known
<1> QED
  BY <1>3, <1>4

\* Every purchase is preceded by the clicks of its user on its product.
LEMMA ClicksPrecede ==
    ASSUME NEW src, NEW draw, Drawn(src, draw), NEW f, f.rows = generate_purchases(src, draw),
           NEW clicks, clicks.rows = generate_clickstream(src, draw)
    PROVE  \A r \in purchase_click_consistency(f, clicks) : r.count = 0
<1> DEFINE columns == {"user_id", "product_id", "purchase_timestamp"}
           skipped == {"user_id", "product_id", "timestamp"} \cap clicks.missing # {}
           Latest(r) == Max({clicks.rows[j].timestamp : j \in MatchingClicks(f, clicks, r)})
           Early(r) == /\ MatchingClicks(f, clicks, r) # {} /\ number(r.purchase_timestamp)
                       /\ r.purchase_timestamp < Latest(r)
           early == IF skipped THEN {} ELSE Failing(f, columns, Early)
           alone == IF skipped THEN {}
                    ELSE Failing(f, columns, LAMBDA r : MatchingClicks(f, clicks, r) = {})
<1>1. ASSUME NEW n \in DOMAIN f.rows
      PROVE  /\ MatchingClicks(f, clicks, f.rows[n]) # {}
             /\ ~Early(f.rows[n])
  <2>1. /\ MatchingClicks(f, clicks, f.rows[n]) # {}
        /\ ~(f.rows[n].purchase_timestamp < Latest(f.rows[n]))
    BY PurchaseFollowsClicks
  <2> QED
    BY <2>1
<1> HIDE DEF Early
<1>2. early = {}
  BY <1>1 DEF Failing
<1>3. alone = {}
  BY <1>1 DEF Failing
<1> HIDE DEF early, alone
<1>4. Rule(<<"CLICK_CHRONOLOGY">>, "Consistency", "ERROR", early).count = 0
  BY <1>2, NoneFails
<1>5. Rule(<<"CLICK_CORRELATION">>, "Consistency", "WARNING", alone).count = 0
  BY <1>3, NoneFails
<1>6. purchase_click_consistency(f, clicks) =
        {Rule(<<"CLICK_CHRONOLOGY">>, "Consistency", "ERROR", early),
         Rule(<<"CLICK_CORRELATION">>, "Consistency", "WARNING", alone)}
  BY DEF purchase_click_consistency, early, alone, Early, Latest, columns, skipped
<1> QED
  BY <1>4, <1>5, <1>6

\* The purchases pass, but for there being none.
LEMMA PurchasesPass ==
    ASSUME NEW src, NEW draw, Drawn(src, draw), NEW f, Intact(f),
           f.rows = generate_purchases(src, draw),
           NEW users, users.rows = generate_users(src),
           NEW products, products.rows = generate_products(src),
           NEW clicks, clicks.rows = generate_clickstream(src, draw)
    PROVE  \A r \in common_rules("purchasehistory", f)
                       \cup purchase_rules(f, users, products, clicks) :
              r.count = 0 \/ (f.rows = <<>> /\ r = non_empty(f))
<1>1. ASSUME NEW n \in DOMAIN f.rows
      PROVE  /\ f.rows[n].order_id \in Int \X Int
             /\ f.rows[n].user_id \in Int /\ f.rows[n].user_id > 0
             /\ f.rows[n].product_id \in Int /\ f.rows[n].product_id > 0
             /\ f.rows[n].quantity \in 1..100
             /\ f.rows[n].amount \in Int /\ f.rows[n].amount > 0
             /\ f.rows[n].rating \in 4..5
             /\ f.rows[n].purchase_timestamp \in Int
             /\ f.rows[n].purchase_timestamp <= ReferenceTime
             /\ \E i \in DOMAIN src.ratings : f.rows[n].user_id = src.ratings[i].user_id
             /\ f.rows[n].product_id \in ItemIds(src)
  BY OrderColumns
<1>2. \A m, n \in DOMAIN f.rows : f.rows[m].order_id = f.rows[n].order_id => m = n
  BY CleanOrders
<1>3. \A i \in DOMAIN f.rows : \A c \in required_value_columns("purchasehistory") :
         ~blank(f.rows[i][c])
  <2>1. \A i \in DOMAIN f.rows : f.rows[i].quantity \in Int /\ f.rows[i].rating \in Int
    BY <1>1
  <2> QED
    BY <1>1, <2>1, MarkersApart DEF required_value_columns, Columns, blank
<1>4. \A r \in common_rules("purchasehistory", f) :
         r.count = 0 \/ (f.rows = <<>> /\ r = non_empty(f))
  <2>1. business_key("purchasehistory") = "order_id" /\ "purchasehistory" \in Datasets
    BY DEF business_key, Datasets
  <2> QED
    BY <1>2, <1>3, <2>1, CommonRulesPass DEF Intact
<1>5. uuid(f, "order_id").count = 0
  BY <1>1, IdentifiersPass
<1>6. positive_integer(f, "user_id").count = 0
  BY <1>1, PositivesPass
<1>7. positive_integer(f, "product_id").count = 0
  BY <1>1, PositivesPass
<1>8. numeric_range(f, "quantity", 1, 100).count = 0
  BY <1>1, RangesPass
<1>9. numeric_range(f, "rating", 1, 5).count = 0
  <2>1. \A i \in DOMAIN f.rows : f.rows[i].rating \in 1..5
    BY <1>1
  <2> QED
    BY <2>1, RangesPass
<1> DEFINE free == Failing(f, {"amount"},
                           LAMBDA r : IF number(r.amount) THEN r.amount < 1 ELSE TRUE)
           low == Failing(f, {"rating"}, LAMBDA r : number(r.rating) /\ r.rating < 4)
<1>10. free = {} /\ low = {}
  <2>1. \A i \in DOMAIN f.rows :
           /\ number(f.rows[i].amount) /\ ~(f.rows[i].amount < 1)
           /\ ~(f.rows[i].rating < 4)
    BY <1>1, NumbersAreWhole
  <2> QED
    BY <2>1 DEF Failing
<1> HIDE DEF free, low
<1>11. Rule(<<"AMOUNT_POSITIVE">>, "Range", "ERROR", free).count = 0
  BY <1>10, NoneFails
<1>12. Rule(<<"MINIMUM_RATING">>, "Business Rules", "ERROR", low).count = 0
  BY <1>10, NoneFails
<1>13. foreign_key("purchasehistory", f, "user_id", "users", users).count = 0
  <2>1. \A j \in DOMAIN users.rows : users.rows[j].user_id \in Int
    BY KeysOffered
  <2>2. \A i \in DOMAIN f.rows : \E j \in DOMAIN users.rows :
           users.rows[j].user_id = f.rows[i].user_id
    BY <1>1, KeysOffered
  <2> QED
    BY <1>1, <2>1, <2>2, KeysPass
<1>14. foreign_key("purchasehistory", f, "product_id", "products", products).count = 0
  <2>1. \A j \in DOMAIN products.rows : products.rows[j].product_id \in Int
    BY KeysOffered
  <2>2. \A i \in DOMAIN f.rows : \E j \in DOMAIN products.rows :
           products.rows[j].product_id = f.rows[i].product_id
    BY <1>1, KeysOffered
  <2> QED
    BY <1>1, <2>1, <2>2, KeysPass
<1>15. \A r \in timestamp(f, "purchase_timestamp") : r.count = 0
  <2>1. \A i \in DOMAIN f.rows : /\ f.rows[i].purchase_timestamp \in Int
                                 /\ f.rows[i].purchase_timestamp <= Now + FutureTolerance
    BY <1>1, DrawnTypes, ValidationConfiguration
  <2> QED
    BY <2>1, TimesPass
<1>16. amount_consistency(f, products).count = 0
  BY AmountsAgree
<1>17. \A r \in purchase_click_consistency(f, clicks) : r.count = 0
  BY ClicksPrecede
<1> QED
  BY <1>4, <1>5, <1>6, <1>7, <1>8, <1>9, <1>11, <1>12, <1>13, <1>14, <1>15, <1>16, <1>17
  DEF purchase_rules, free, low

-----------------------------------------------------------------------------
(***************************************************************************)
(* The popularity of the products.                                         *)
(***************************************************************************)

\* The rows of the catalog of a batch.
LEMMA CleanCatalog ==
    ASSUME NEW src, NEW draw, Drawn(src, draw)
    PROVE  LET rows == generate_products(src)
           IN  /\ DOMAIN rows = 1..Len(rows) /\ Len(rows) \in Nat /\ rows # <<>>
               /\ \A m, n \in DOMAIN rows : rows[m].product_id = rows[n].product_id => m = n
               /\ \A n \in DOMAIN rows :
                     /\ rows[n].product_id \in ItemIds(src)
                     /\ rows[n].product_id \in Int /\ rows[n].product_id > 0
                     /\ rows[n].average_rating \in Int /\ rows[n].total_ratings \in Nat
                     /\ rows[n].total_ratings = 0 => rows[n].average_rating = 0
                     /\ rows[n].total_ratings > 0 =>
                           rows[n].average_rating \in RatingUnit..(5 * RatingUnit)
<1> DEFINE rows == generate_products(src)
<1>1. /\ rows \in Seq(ProductRows(src))
      /\ \A n \in DOMAIN rows : \E p \in ItemIds(src) : rows[n] = ProductOf(src, p)
      /\ \A m, n \in DOMAIN rows : rows[m].product_id = rows[n].product_id => m = n
  BY DrawnTypes, GeneratedProducts
<1>2. rows # <<>>
  BY CleanFrames
<1> HIDE DEF rows
<1>3. DOMAIN rows = 1..Len(rows) /\ Len(rows) \in Nat
  BY <1>1
<1>4. ASSUME NEW n \in DOMAIN rows
      PROVE  /\ rows[n].product_id \in ItemIds(src)
             /\ rows[n].product_id \in Int /\ rows[n].product_id > 0
             /\ rows[n].average_rating \in Int /\ rows[n].total_ratings \in Nat
             /\ rows[n].total_ratings = 0 => rows[n].average_rating = 0
             /\ rows[n].total_ratings > 0 =>
                   rows[n].average_rating \in RatingUnit..(5 * RatingUnit)
  <2>1. PICK p \in ItemIds(src) : rows[n] = ProductOf(src, p)
    BY <1>1
  <2>2. /\ rows[n].product_id = p /\ rows[n].average_rating = AverageRating(src, p)
        /\ rows[n].total_ratings = Cardinality(RatingsOf(src, p))
    BY <2>1 DEF ProductOf
  <2>3. p \in Int /\ p > 0
    BY DrawnTypes, ItemIdsFinite DEF FitsSource
  <2>4. /\ AverageRating(src, p) \in Int /\ Cardinality(RatingsOf(src, p)) \in Nat
        /\ Cardinality(RatingsOf(src, p)) = 0 => AverageRating(src, p) = 0
        /\ Cardinality(RatingsOf(src, p)) > 0 =>
              AverageRating(src, p) \in RatingUnit..(5 * RatingUnit)
    BY DrawnTypes, MeanRatingOnScale
  <2> QED
    BY <2>2, <2>3, <2>4
<1> QED
  BY <1>1, <1>2, <1>3, <1>4 DEF rows

\* A rounded quotient is a number.
LEMMA RoundDivTyped ==
    ASSUME NEW a \in Int, NEW b \in Int, b > 0
    PROVE  RoundDiv(a, b) \in Int
<1> DEFINE x == 2 * a + b
           y == 2 * b
<1>1. x \in Int /\ y \in Int /\ y > 0
  OBVIOUS
<1>2. RoundDiv(a, b) = x \div y
  BY DEF RoundDiv
<1> HIDE DEF x, y
<1> QED
  BY <1>1, <1>2, Quotient

\* The popularity of the products: a score on the scale, a trend, the day.
LEMMA PopularityRecords ==
    ASSUME NEW src, NEW draw, Drawn(src, draw), NEW products, products = generate_products(src)
    PROVE  LET rows == generate_popularity(products, draw)
           IN  /\ DOMAIN rows = DOMAIN products
               /\ \A k \in DOMAIN products :
                     /\ rows[k].product_id = products[k].product_id
                     /\ rows[k].popularity_score \in 0..Flawless
                     /\ rows[k].trend \in {"UP", "DOWN"}
                     /\ rows[k].updated_at = ReferenceTime
<1> DEFINE rows == generate_popularity(products, draw)
           totals == {products[k].total_ratings : k \in DOMAIN products}
           spread == Max(totals) - Min(totals)
           RatingScore(p) == Clamp(0, (p.average_rating - RatingUnit) \div 4, Flawless)
           CountScore(p) ==
              IF spread = 0 THEN 0
              ELSE RoundDiv(Flawless * (p.total_ratings - Min(totals)), spread)
           Previous(p) == Clamp(RatingUnit, p.average_rating + draw.drift, 5 * RatingUnit)
           Score(p) == Clamp(0, RoundDiv(60 * RatingScore(p) + 40 * CountScore(p), 100), Flawless)
           Record(p) ==
              [product_id |-> p.product_id, popularity_score |-> Score(p),
               trend |-> IF p.average_rating >= Previous(p) THEN "UP" ELSE "DOWN",
               updated_at |-> ReferenceTime]
<1>1. rows = [k \in DOMAIN products |-> Record(products[k])]
  BY DEF generate_popularity, Flawless
<1>2. /\ DOMAIN products = 1..Len(products) /\ Len(products) \in Nat /\ products # <<>>
      /\ \A k \in DOMAIN products : products[k].average_rating \in Int
                                    /\ products[k].total_ratings \in Nat
  BY CleanCatalog
<1>3. /\ Max(totals) \in Int /\ Min(totals) \in Int /\ Min(totals) <= Max(totals)
  <2> DEFINE D == DOMAIN products
             g == [k \in D |-> products[k].total_ratings]
  <2>1. IsFiniteSet(D) /\ D # {} /\ DOMAIN g = D
    BY <1>2, FirstNumbers
  <2>2. totals = {g[k] : k \in D}
    OBVIOUS
  <2>3. IsFiniteSet({g[k] : k \in D})
    <3> HIDE DEF g
    <3> QED
      BY <2>1, ImageIsFinite
  <2>4. totals # {} /\ \A x \in totals : x \in Int
    BY <1>2, <2>1
  <2> HIDE DEF totals
  <2> QED
    BY <2>2, <2>3, <2>4, ExtremesExist
<1> HIDE DEF totals
<1>4. ASSUME NEW k \in DOMAIN products
      PROVE  Score(products[k]) \in 0..Flawless
  <2> DEFINE p == products[k]
             R == RatingScore(p)
             C == CountScore(p)
             v == RoundDiv(60 * R + 40 * C, 100)
  <2>1. p.average_rating \in Int /\ p.total_ratings \in Int /\ Flawless \in Int /\ 0 <= Flawless
    BY <1>2, PointsAreNatural
  <2> HIDE DEF p
  <2>2. R \in Int
    <3> DEFINE a == p.average_rating - RatingUnit
               q == a \div 4
    <3>1. a \in Int
      BY <2>1 DEF RatingUnit
    <3> HIDE DEF a
    <3>2. q \in Int
      BY <3>1
    <3> HIDE DEF q
    <3>3. Clamp(0, q, Flawless) \in 0..Flawless
      BY <2>1, <3>2 DEF Clamp
    <3>4. Clamp(0, q, Flawless) \in Int
      BY <2>1, <3>3
    <3> QED
      BY <3>4 DEF q, a
  <2>3. C \in Int
    <3>1. CASE spread = 0
      BY <3>1
    <3>2. CASE spread # 0
      <4> DEFINE a == Flawless * (p.total_ratings - Min(totals))
      <4>1. a \in Int /\ spread \in Int /\ spread > 0
        BY <1>3, <2>1, <3>2
      <4>2. C = RoundDiv(a, spread)
        BY <3>2
      <4> HIDE DEF a, spread, C
      <4> QED
        BY <4>1, <4>2, RoundDivTyped
    <3> QED
      BY <3>1, <3>2
  <2> HIDE DEF R, C
  <2>4. v \in Int
    <3> DEFINE a == 60 * R + 40 * C
    <3>1. a \in Int
      BY <2>2, <2>3
    <3> HIDE DEF a
    <3>2. RoundDiv(a, 100) \in Int
      BY <3>1, RoundDivTyped
    <3> QED
      BY <3>2 DEF a
  <2>5. Score(p) = Clamp(0, v, Flawless)
    BY DEF v, R, C
  <2> HIDE DEF v, Score
  <2>6. Clamp(0, v, Flawless) \in 0..Flawless
    BY <2>1, <2>4 DEF Clamp
  <2> QED
    BY <2>5, <2>6 DEF p
<1> HIDE DEF Score, Previous
<1>5. ASSUME NEW k \in DOMAIN products
      PROVE  /\ rows[k].product_id = products[k].product_id
             /\ rows[k].popularity_score \in 0..Flawless
             /\ rows[k].trend \in {"UP", "DOWN"}
             /\ rows[k].updated_at = ReferenceTime
  <2>1. rows[k] = Record(products[k])
    BY <1>1
  <2> HIDE DEF rows
  <2> QED
    BY <1>4, <2>1
<1>6. DOMAIN rows = DOMAIN products
  BY <1>1
<1> HIDE DEF rows
<1> QED
  BY <1>5, <1>6 DEF rows

\* What the API answers: every product once, with its own statistics.
LEMMA ListedPopularity ==
    ASSUME NEW src, NEW draw, Drawn(src, draw),
           NEW products, products.rows = generate_products(src),
           NEW popularity, popularity.rows = generate_popularity(products.rows, draw)
    PROVE  LET rows == list_popularity(products, popularity)
           IN  /\ rows # <<>>
               /\ \A m, n \in DOMAIN rows : rows[m].product_id = rows[n].product_id => m = n
               /\ \A n \in DOMAIN rows :
                     /\ \E k \in DOMAIN products.rows :
                           /\ rows[n].product_id = products.rows[k].product_id
                           /\ rows[n].average_rating = products.rows[k].average_rating
                           /\ rows[n].total_ratings = products.rows[k].total_ratings
                     /\ rows[n].popularity_score \in 0..Flawless
                     /\ rows[n].trend \in {"UP", "DOWN"}
                     /\ rows[n].updated_at = ReferenceTime
<1> DEFINE rows == list_popularity(products, popularity)
           D == DOMAIN popularity.rows
           Source(id) == products.rows[Max({j \in DOMAIN products.rows :
                                               products.rows[j].product_id = id})]
           Record(r) ==
              [product_id |-> r.product_id,
               average_rating |-> Source(r.product_id).average_rating,
               total_ratings |-> Source(r.product_id).total_ratings,
               popularity_score |-> r.popularity_score,
               trend |-> r.trend,
               updated_at |-> r.updated_at]
           RanksBefore(i, j) ==
              \/ popularity.rows[i].product_id < popularity.rows[j].product_id
              \/ popularity.rows[i].product_id = popularity.rows[j].product_id /\ i < j
           order == InOrder(D, RanksBefore)
           S == {p \in D \X D : RanksBefore(p[1], p[2])}
<1>1. rows = [k \in DOMAIN order |-> Record(popularity.rows[order[k]])]
  BY DEF list_popularity
<1>2. /\ DOMAIN products.rows = 1..Len(products.rows) /\ Len(products.rows) \in Nat
      /\ products.rows # <<>>
      /\ \A m, n \in DOMAIN products.rows :
            products.rows[m].product_id = products.rows[n].product_id => m = n
      /\ \A n \in DOMAIN products.rows : products.rows[n].product_id \in Int
  BY CleanCatalog
<1>3. /\ D = DOMAIN products.rows
      /\ \A k \in DOMAIN products.rows :
            /\ popularity.rows[k].product_id = products.rows[k].product_id
            /\ popularity.rows[k].popularity_score \in 0..Flawless
            /\ popularity.rows[k].trend \in {"UP", "DOWN"}
            /\ popularity.rows[k].updated_at = ReferenceTime
  BY PopularityRecords
<1> HIDE DEF rows
<1>4. /\ IsFiniteSet(D) /\ Cardinality(D) \in Nat /\ Cardinality(D) # 0
      /\ \A k \in D : k \in Int /\ popularity.rows[k].product_id \in Int
  <2>1. D = 1..Len(products.rows) /\ Len(products.rows) \in Nat /\ Len(products.rows) # 0
    BY <1>2, <1>3
  <2> QED
    BY <1>2, <1>3, <2>1, FirstNumbers
<1> HIDE DEF D
<1>5. StrictOrder(D, S)
  BY <1>4 DEF StrictOrder
<1>6. Lists(order, D, S)
  <2>1. ASSUME NEW x \in D
        PROVE  {y \in D : RanksBefore(y, x)} = Below(D, S, x)
    BY DEF Below
  <2> HIDE DEF S, RanksBefore
  <2>2. ASSUME NEW k \in 1..Cardinality(D)
        PROVE  order[k] \in D /\ Rank(D, S, order[k]) = k - 1
    <3>1. PICK x \in D : Rank(D, S, x) = k - 1
      BY <1>4, <1>5, RankTaken
    <3>2. Cardinality({y \in D : RanksBefore(y, x)}) = k - 1
      BY <3>1, <2>1 DEF Rank
    <3>3. order[k] = CHOOSE z \in D : Cardinality({y \in D : RanksBefore(y, z)}) = k - 1
      BY DEF InOrder
    <3>4. order[k] \in D /\ Cardinality({y \in D : RanksBefore(y, order[k])}) = k - 1
      BY <3>2, <3>3
    <3> QED
      BY <3>4, <2>1 DEF Rank
  <2>3. DOMAIN order = 1..Cardinality(D)
    BY DEF InOrder
  <2> QED
    BY <2>2, <2>3 DEF Lists
<1> HIDE DEF order, S, RanksBefore
<1>7. DOMAIN order = 1..Cardinality(D) /\ \A k \in DOMAIN order : order[k] \in D
  BY <1>6 DEF Lists
<1>14. \A i, j \in 1..Cardinality(D) : order[i] = order[j] => i = j
  BY <1>4, <1>5, <1>6, ListingIsSorted
<1>8. DOMAIN rows = DOMAIN order
      /\ \A n \in DOMAIN rows : rows[n] = Record(popularity.rows[order[n]])
  BY <1>1
<1>9. rows # <<>>
  <2>1. 1 \in DOMAIN rows
    BY <1>4, <1>7, <1>8
  <2> QED
    BY <2>1
<1>10. ASSUME NEW k \in DOMAIN products.rows
       PROVE  Source(products.rows[k].product_id) = products.rows[k]
  <2> DEFINE same == {j \in DOMAIN products.rows :
                        products.rows[j].product_id = products.rows[k].product_id}
  <2>1. same = {k}
    BY <1>2
  <2>2. k \in Int
    BY <1>2
  <2>3. IsFiniteSet({k})
    BY FS_Singleton
  <2>4. Max({k}) \in {k}
    BY <2>2, <2>3, ExtremesExist
  <2> QED
    BY <2>1, <2>4
<1> HIDE DEF Source
<1>11. \A r : /\ Record(r).product_id = r.product_id
              /\ Record(r).average_rating = Source(r.product_id).average_rating
              /\ Record(r).total_ratings = Source(r.product_id).total_ratings
              /\ Record(r).popularity_score = r.popularity_score
              /\ Record(r).trend = r.trend
              /\ Record(r).updated_at = r.updated_at
  OBVIOUS
<1> HIDE DEF Record
<1>12. ASSUME NEW n \in DOMAIN rows
       PROVE  /\ order[n] \in DOMAIN products.rows
              /\ rows[n].product_id = products.rows[order[n]].product_id
              /\ rows[n].average_rating = products.rows[order[n]].average_rating
              /\ rows[n].total_ratings = products.rows[order[n]].total_ratings
              /\ rows[n].popularity_score \in 0..Flawless
              /\ rows[n].trend \in {"UP", "DOWN"}
              /\ rows[n].updated_at = ReferenceTime
  <2> DEFINE k == order[n]
             r == popularity.rows[k]
  <2>1. k \in DOMAIN products.rows
    BY <1>3, <1>7, <1>8
  <2>2. rows[n] = Record(r)
    BY <1>8
  <2> HIDE DEF k
  <2>3. /\ r.product_id = products.rows[k].product_id /\ r.popularity_score \in 0..Flawless
        /\ r.trend \in {"UP", "DOWN"} /\ r.updated_at = ReferenceTime
    BY <1>3, <2>1
  <2>4. Source(r.product_id) = products.rows[k]
    BY <1>10, <2>1, <2>3
  <2> HIDE DEF r
  <2>5. /\ rows[n].product_id = products.rows[k].product_id
        /\ rows[n].average_rating = products.rows[k].average_rating
        /\ rows[n].total_ratings = products.rows[k].total_ratings
        /\ rows[n].popularity_score \in 0..Flawless
        /\ rows[n].trend \in {"UP", "DOWN"} /\ rows[n].updated_at = ReferenceTime
    BY <1>11, <2>2, <2>3, <2>4
  <2> QED
    BY <2>1, <2>5 DEF k
<1>13. ASSUME NEW m \in DOMAIN rows, NEW n \in DOMAIN rows,
              rows[m].product_id = rows[n].product_id
       PROVE  m = n
  <2>1. order[m] = order[n]
    BY <1>2, <1>12, <1>13
  <2> QED
    BY <1>7, <1>8, <1>14, <2>1
<1> QED
  BY <1>9, <1>12, <1>13 DEF rows

\* The popularity file and the answer of the API pass.
LEMMA PopularityPasses ==
    ASSUME NEW src, NEW draw, Drawn(src, draw),
           NEW products, products.rows = generate_products(src),
           NEW own, own.rows = generate_products(src),
           NEW popularity, popularity.rows = generate_popularity(own.rows, draw),
           NEW f, Intact(f), f.rows = list_popularity(own, popularity)
    PROVE  \A r \in common_rules("popularity", f) \cup popularity_rules(f, products, RatingUnit) :
              r.count = 0
<1>1. /\ f.rows # <<>>
      /\ \A m, n \in DOMAIN f.rows : f.rows[m].product_id = f.rows[n].product_id => m = n
      /\ \A n \in DOMAIN f.rows :
            /\ \E k \in DOMAIN products.rows :
                  /\ f.rows[n].product_id = products.rows[k].product_id
                  /\ f.rows[n].average_rating = products.rows[k].average_rating
                  /\ f.rows[n].total_ratings = products.rows[k].total_ratings
            /\ f.rows[n].popularity_score \in 0..Flawless
            /\ f.rows[n].trend \in {"UP", "DOWN"}
            /\ f.rows[n].updated_at = ReferenceTime
  BY ListedPopularity
<1>2. /\ \A m, n \in DOMAIN products.rows :
            products.rows[m].product_id = products.rows[n].product_id => m = n
      /\ \A n \in DOMAIN products.rows :
            /\ products.rows[n].product_id \in Int /\ products.rows[n].product_id > 0
            /\ products.rows[n].average_rating \in Int /\ products.rows[n].total_ratings \in Nat
            /\ products.rows[n].total_ratings = 0 => products.rows[n].average_rating = 0
            /\ products.rows[n].total_ratings > 0 =>
                  products.rows[n].average_rating \in RatingUnit..(5 * RatingUnit)
  BY CleanCatalog
<1>3. ASSUME NEW n \in DOMAIN f.rows
      PROVE  /\ f.rows[n].product_id \in Int /\ f.rows[n].product_id > 0
             /\ f.rows[n].average_rating \in Int /\ f.rows[n].total_ratings \in Nat
             /\ f.rows[n].total_ratings = 0 => f.rows[n].average_rating = 0
             /\ f.rows[n].total_ratings > 0 =>
                   f.rows[n].average_rating \in RatingUnit..(5 * RatingUnit)
             /\ f.rows[n].popularity_score \in 0..Flawless
             /\ f.rows[n].trend \in {"UP", "DOWN"}
             /\ f.rows[n].updated_at = ReferenceTime
  <2>1. PICK k \in DOMAIN products.rows :
           /\ f.rows[n].product_id = products.rows[k].product_id
           /\ f.rows[n].average_rating = products.rows[k].average_rating
           /\ f.rows[n].total_ratings = products.rows[k].total_ratings
    BY <1>1
  <2> QED
    BY <1>1, <1>2, <2>1
<1>4. /\ ReferenceTime \in Int /\ ReferenceTime <= Now + FutureTolerance
      /\ ~(ReferenceTime + MaxAge < Now) /\ Flawless \in Int
  <2>1. MaxAge \in Nat /\ Now \in Nat
    BY ValidationConfiguration
  <2> QED
    BY <2>1, DrawnTypes, PointsAreNatural
<1>5. \A i \in DOMAIN f.rows : \A c \in required_value_columns("popularity") : ~blank(f.rows[i][c])
  <2>1. \A i \in DOMAIN f.rows : f.rows[i].popularity_score \in Int
    BY <1>3, <1>4
  <2> QED
    BY <1>3, <1>4, <2>1, MarkersApart DEF required_value_columns, Columns, blank
<1>6. \A r \in common_rules("popularity", f) : r.count = 0
  <2>1. business_key("popularity") = "product_id" /\ "popularity" \in Datasets
    BY DEF business_key, Datasets
  <2> QED
    BY <1>1, <1>5, <2>1, CommonRulesPass DEF Intact
<1>7. positive_integer(f, "product_id").count = 0
  BY <1>3, PositivesPass
<1>8. nonnegative_integer(f, "total_ratings").count = 0
  BY <1>3, CountsPass
<1>9. rating_with_unrated(f, RatingUnit).count = 0
  <2>1. RatingUnit \in Int
    BY DEF RatingUnit
  <2> QED
    BY <1>3, <2>1, MeansPass
<1>10. numeric_range(f, "popularity_score", 0, Flawless).count = 0
  BY <1>3, <1>4, RangesPass
<1>11. allowed(f, "trend", {"UP", "DOWN"}).count = 0
  BY <1>3, LabelsPass
<1>12. foreign_key("popularity", f, "product_id", "products", products).count = 0
  <2>1. \A i \in DOMAIN f.rows : \E j \in DOMAIN products.rows :
           products.rows[j].product_id = f.rows[i].product_id
    BY <1>1
  <2> QED
    BY <1>2, <1>3, <2>1, KeysPass
<1>13. \A r \in timestamp(f, "updated_at") : r.count = 0
  BY <1>3, <1>4, TimesPass
<1> DEFINE old == Failing(f, {"updated_at"},
                          LAMBDA r : number(r.updated_at) /\ r.updated_at + MaxAge < Now)
<1>14. old = {}
  <2>1. \A i \in DOMAIN f.rows : ~(f.rows[i].updated_at + MaxAge < Now)
    BY <1>3, <1>4
  <2> QED
    BY <2>1 DEF Failing
<1> HIDE DEF old
<1>15. Rule(<<"FRESHNESS">>, "Range", "WARNING", old).count = 0
  BY <1>14, NoneFails
<1>16. product_statistics(f, products, RatingUnit).count = 0
  <2> DEFINE columns == {"product_id", "average_rating", "total_ratings"}
             tolerance == RatingUnit \div 100
             Differ(a, b, t) == number(a) /\ number(b) /\ a \notin (b - t)..(b + t)
             Mismatch(r) ==
                \E j \in DOMAIN products.rows :
                   LET p == products.rows[j]
                   IN  /\ p.product_id = r.product_id /\ ~blank(p.average_rating)
                       /\ \/ Differ(r.average_rating, p.average_rating, tolerance)
                          \/ Differ(r.total_ratings, p.total_ratings, 0)
             bad == IF columns \cap products.missing # {} THEN {} ELSE Failing(f, columns, Mismatch)
  <2>1. tolerance \in Nat
    BY DEF RatingUnit
  <2> HIDE DEF tolerance
  <2>2. \A a \in Int : ~Differ(a, a, tolerance) /\ ~Differ(a, a, 0)
    BY <2>1
  <2>3. ASSUME NEW n \in DOMAIN f.rows
        PROVE  ~Mismatch(f.rows[n])
    <3>1. PICK k \in DOMAIN products.rows :
             /\ f.rows[n].product_id = products.rows[k].product_id
             /\ f.rows[n].average_rating = products.rows[k].average_rating
             /\ f.rows[n].total_ratings = products.rows[k].total_ratings
      BY <1>1
    <3>2. \A j \in DOMAIN products.rows :
             products.rows[j].product_id = f.rows[n].product_id => j = k
      BY <1>2, <3>1
    <3>3. /\ ~Differ(f.rows[n].average_rating, products.rows[k].average_rating, tolerance)
          /\ ~Differ(f.rows[n].total_ratings, products.rows[k].total_ratings, 0)
      BY <1>3, <2>2, <3>1
    <3> HIDE DEF Differ
    <3> QED
      BY <3>2, <3>3
  <2> HIDE DEF Mismatch
  <2>4. bad = {}
    BY <2>3 DEF Failing
  <2> HIDE DEF bad
  <2>5. Rule(<<"PRODUCT_STATISTICS">>, "Consistency", "ERROR", bad).count = 0
    BY <2>4, NoneFails
  <2>6. product_statistics(f, products, RatingUnit) =
           Rule(<<"PRODUCT_STATISTICS">>, "Consistency", "ERROR", bad)
    BY DEF product_statistics, bad, Mismatch, Differ, tolerance, columns
  <2> QED
    BY <2>5, <2>6
<1> QED
  BY <1>6, <1>7, <1>8, <1>9, <1>10, <1>11, <1>12, <1>13, <1>15, <1>16
  DEF popularity_rules, old, Flawless

\* The API serves the files of the generator.
LEMMA ServiceAnswers ==
    ASSUME NEW src, NEW draw, Drawn(src, draw)
    PROVE  LET f == IncomingFiles(src, draw)
           IN  ~ServiceRefuses(f["products"], f["popularity"])
<1> DEFINE products == TableOf(generate_products(src))
           popularity == TableOf(generate_popularity(generate_products(src), draw))
           f == IncomingFiles(src, draw)
<1>1. f["products"] = products /\ f["popularity"] = popularity
  BY DEF IncomingFiles
<1>2. /\ products.rows = generate_products(src) /\ products.missing = {}
      /\ popularity.rows = generate_popularity(products.rows, draw) /\ popularity.missing = {}
  BY DEF TableOf
<1> HIDE DEF products, popularity
<1>3. \A n \in DOMAIN products.rows :
         /\ products.rows[n].product_id \in Int /\ products.rows[n].average_rating \in Int
         /\ products.rows[n].total_ratings \in Int
  BY <1>2, CleanCatalog
<1>4. DOMAIN popularity.rows = DOMAIN products.rows
      /\ \A k \in DOMAIN products.rows :
            /\ popularity.rows[k].product_id = products.rows[k].product_id
            /\ popularity.rows[k].popularity_score \in 0..Flawless
            /\ popularity.rows[k].updated_at = ReferenceTime
  BY <1>2, PopularityRecords
<1>5. \A k \in DOMAIN popularity.rows :
         /\ popularity.rows[k].product_id \in Int /\ popularity.rows[k].popularity_score \in Int
         /\ popularity.rows[k].updated_at \in Int
         /\ \E j \in DOMAIN products.rows :
               products.rows[j].product_id = popularity.rows[k].product_id
  BY <1>3, <1>4, DrawnTypes, PointsAreNatural, SMTT(30)
<1>6. ~ServiceRefuses(products, popularity)
  <2>1. \A n \in DOMAIN products.rows :
           /\ whole(products.rows[n].product_id) /\ number(products.rows[n].average_rating)
           /\ number(products.rows[n].total_ratings)
    BY <1>3, NumbersAreWhole
  <2>2. \A k \in DOMAIN popularity.rows :
           /\ whole(popularity.rows[k].product_id) /\ number(popularity.rows[k].popularity_score)
           /\ number(popularity.rows[k].updated_at)
    BY <1>5, NumbersAreWhole
  <2> DEFINE answer == list_popularity(products, popularity)
  <2>3. ASSUME NEW n \in DOMAIN answer
        PROVE  PopularityResponse(answer[n])
    <3>1. PICK k \in DOMAIN products.rows :
             /\ answer[n].average_rating = products.rows[k].average_rating
             /\ answer[n].total_ratings = products.rows[k].total_ratings
      BY <1>2, ListedPopularity
    <3>2. answer[n].popularity_score \in 0..Flawless /\ answer[n].trend \in {"UP", "DOWN"}
      BY <1>2, ListedPopularity
    <3>3. /\ products.rows[k].average_rating \in Int /\ products.rows[k].total_ratings \in Nat
          /\ products.rows[k].total_ratings = 0 => products.rows[k].average_rating = 0
          /\ products.rows[k].total_ratings > 0 =>
                products.rows[k].average_rating \in RatingUnit..(5 * RatingUnit)
      BY <1>2, CleanCatalog
    <3> HIDE DEF answer
    <3>4. answer[n].average_rating \in 0..(5 * RatingUnit) /\ answer[n].total_ratings >= 0
      <4> DEFINE p == products.rows[k]
      <4>1. p.average_rating \in Int /\ p.total_ratings \in Nat
        BY <3>3
      <4>2. p.average_rating = 0 \/ p.average_rating \in RatingUnit..(5 * RatingUnit)
        BY <3>3
      <4> HIDE DEF p
      <4>3. RatingUnit \in Nat
        BY DEF RatingUnit
      <4>4. p.average_rating \in 0..(5 * RatingUnit) /\ p.total_ratings >= 0
        BY <4>1, <4>2, <4>3
      <4> QED
        BY <3>1, <4>4 DEF p
    <3> QED
      BY <3>2, <3>4 DEF PopularityResponse, Flawless
  <2> HIDE DEF answer
  <2> QED
    BY <1>2, <1>5, <2>1, <2>2, <2>3, SMTT(60) DEF ServiceRefuses, answer
<1> QED
  BY <1>1, <1>6

\* No product of the generator is listed twice.
LEMMA LookupsSucceed ==
    ASSUME NEW src, NEW draw, Drawn(src, draw), NEW frames,
           frames["products"].rows = generate_products(src)
    PROVE  ~LookupRaises(frames)
<1> DEFINE products == frames["products"]
           twice == {j \in DOMAIN products.rows : \E k \in DOMAIN products.rows \ {j} :
                        products.rows[k].product_id = products.rows[j].product_id}
<1>1. \A m, n \in DOMAIN products.rows :
         products.rows[m].product_id = products.rows[n].product_id => m = n
  BY CleanCatalog
<1>2. twice = {}
  BY <1>1
<1>3. {p.product_id : p \in {products.rows[i] : i \in twice}} = {}
  BY <1>2
<1> HIDE DEF twice, products
<1> QED
  BY <1>3 DEF LookupRaises, twice, products

-----------------------------------------------------------------------------
(***************************************************************************)
(* What validation says of the batch.                                      *)
(***************************************************************************)

\* When nothing is quarantined, every row is kept, and only rows.
LEMMA AllRowsKept ==
    ASSUME NEW rows, NEW X, rows \in Seq(X)
    PROVE  \E o : /\ DOMAIN KeepRows(rows, DOMAIN rows) = DOMAIN rows
                  /\ \A k \in DOMAIN rows :
                        o[k] \in DOMAIN rows /\ KeepRows(rows, DOMAIN rows)[k] = rows[o[k]]
                  /\ \A k, l \in DOMAIN rows : o[k] = o[l] => k = l
                  /\ \A i \in DOMAIN rows : \E k \in DOMAIN rows : o[k] = i
<1> DEFINE D == DOMAIN rows
           R == {p \in D \X D : p[1] < p[2]}
           o == InOrder(D, LAMBDA i, j : i < j)
<1>1. D = 1..Len(rows) /\ Len(rows) \in Nat /\ \A i \in D : i \in Int
  OBVIOUS
<1>2. IsFiniteSet(D) /\ Cardinality(D) = Len(rows)
  BY <1>1, FirstNumbers
<1> HIDE DEF D
<1>3. Lists(o, D, R)
  BY <1>1, <1>2, NumbersInOrder
<1>4. StrictOrder(D, R)
  BY <1>1 DEF StrictOrder
<1>5. KeepRows(rows, D) = [k \in DOMAIN o |-> rows[o[k]]]
  BY DEF KeepRows
<1> HIDE DEF o, R
<1>6. DOMAIN o = D /\ \A k \in D : o[k] \in D
  BY <1>1, <1>2, <1>3 DEF Lists
<1>7. /\ \A k, l \in D : o[k] = o[l] => k = l
      /\ \A i \in D : \E k \in D : o[k] = i
  <2>1. /\ \A k, l \in 1..Cardinality(D) : o[k] = o[l] => k = l
        /\ \A i \in D : \E k \in 1..Cardinality(D) : o[k] = i
    BY <1>2, <1>3, <1>4, ListingIsSorted
  <2>2. 1..Cardinality(D) = D
    BY <1>1, <1>2
  <2> QED
    BY <2>1, <2>2
<1>8. DOMAIN KeepRows(rows, D) = D /\ \A k \in D : KeepRows(rows, D)[k] = rows[o[k]]
  BY <1>5, <1>6
<1>9. \E q : /\ DOMAIN KeepRows(rows, D) = D
             /\ \A k \in D : q[k] \in D /\ KeepRows(rows, D)[k] = rows[q[k]]
             /\ \A k, l \in D : q[k] = q[l] => k = l
             /\ \A i \in D : \E k \in D : q[k] = i
  BY <1>6, <1>7, <1>8
<1> QED
  BY <1>9 DEF D

\* No rule fails on a batch nothing happened to, but for there being no purchase.
LEMMA CleanRules ==
    ASSUME NEW src, NEW draw, Drawn(src, draw), NEW d \in Datasets
    PROVE  LET frames == RawFrames(IncomingFiles(src, draw))
           IN  /\ \A r \in RulesOf(d, frames, RatingUnit) :
                     r.count = 0 \/ (frames[d].rows = <<>> /\ r = non_empty(frames[d]))
               /\ frames[d].missing = {} /\ frames[d].readable = TRUE
               /\ frames[d].rows = <<>> <=> d = "purchasehistory" /\ Bought(src) = {}
<1> DEFINE frames == RawFrames(IncomingFiles(src, draw))
           products == generate_products(src)
           own == TableOf(products)
           popularity == TableOf(generate_popularity(products, draw))
<1>1. /\ \A e \in Datasets : Intact(frames[e])
      /\ frames["users"].rows = generate_users(src)
      /\ frames["products"].rows = products
      /\ frames["clickstream"].rows = generate_clickstream(src, draw)
      /\ frames["purchasehistory"].rows = generate_purchases(src, draw)
      /\ frames["popularity"].rows = list_popularity(own, popularity)
      /\ products # <<>>
  BY CleanFrames
<1>2. own.rows = products /\ popularity.rows = generate_popularity(own.rows, draw)
  BY DEF TableOf
<1> HIDE DEF frames, own, popularity
<1>3. frames[d].missing = {} /\ frames[d].readable = TRUE /\ Intact(frames[d])
  BY <1>1 DEF Intact
<1>4. CASE d = "users"
  <2>1. \A r \in common_rules("users", frames["users"]) \cup users_rules(frames["users"]) :
           r.count = 0
    BY <1>1, <1>3, <1>4, UsersPass
  <2>2. RulesOf(d, frames, RatingUnit) =
           common_rules("users", frames["users"]) \cup users_rules(frames["users"])
    BY <1>4 DEF RulesOf
  <2>3. generate_users(src) # <<>>
    <3>1. DOMAIN generate_users(src) = DOMAIN src.users
      BY DEF generate_users
    <3> QED
      BY <3>1, DrawnTypes
  <2> QED
    BY <1>1, <1>3, <1>4, <2>1, <2>2, <2>3 DEF frames
<1>5. CASE d = "products"
  <2>1. \A r \in common_rules("products", frames["products"])
                    \cup products_rules(frames["products"], RatingUnit) : r.count = 0
    BY <1>1, <1>3, <1>5, ProductsPass
  <2>2. RulesOf(d, frames, RatingUnit) =
           common_rules("products", frames["products"])
              \cup products_rules(frames["products"], RatingUnit)
    BY <1>5 DEF RulesOf
  <2> QED
    BY <1>1, <1>3, <1>5, <2>1, <2>2 DEF frames
<1>6. CASE d = "clickstream"
  <2>1. \A r \in common_rules("clickstream", frames["clickstream"])
                    \cup clickstream_rules(frames["clickstream"], frames["users"],
                                           frames["products"]) : r.count = 0
    BY <1>1, <1>3, <1>6, ClicksPass
  <2>2. RulesOf(d, frames, RatingUnit) =
           common_rules("clickstream", frames["clickstream"])
              \cup clickstream_rules(frames["clickstream"], frames["users"], frames["products"])
    BY <1>6 DEF RulesOf
  <2>3. generate_clickstream(src, draw) # <<>>
    BY CleanClicks
  <2> QED
    BY <1>1, <1>3, <1>6, <2>1, <2>2, <2>3 DEF frames
<1>7. CASE d = "purchasehistory"
  <2> DEFINE f == frames["purchasehistory"]
  <2>1. \A r \in common_rules("purchasehistory", f)
                    \cup purchase_rules(f, frames["users"], frames["products"],
                                        frames["clickstream"]) :
           r.count = 0 \/ (f.rows = <<>> /\ r = non_empty(f))
    BY <1>1, <1>3, <1>7, PurchasesPass
  <2>2. RulesOf(d, frames, RatingUnit) =
           common_rules("purchasehistory", f)
              \cup purchase_rules(f, frames["users"], frames["products"], frames["clickstream"])
    BY <1>7 DEF RulesOf
  <2>3. generate_purchases(src, draw) = <<>> <=> Bought(src) = {}
    BY CleanOrders
  <2> QED
    BY <1>1, <1>3, <1>7, <2>1, <2>2, <2>3 DEF frames
<1>8. CASE d = "popularity"
  <2>1. \A r \in common_rules("popularity", frames["popularity"])
                    \cup popularity_rules(frames["popularity"], frames["products"], RatingUnit) :
           r.count = 0
    BY <1>1, <1>2, <1>3, <1>8, PopularityPasses
  <2>2. RulesOf(d, frames, RatingUnit) =
           common_rules("popularity", frames["popularity"])
              \cup popularity_rules(frames["popularity"], frames["products"], RatingUnit)
    BY <1>8 DEF RulesOf
  <2>3. list_popularity(own, popularity) # <<>>
    BY <1>2, ListedPopularity
  <2> QED
    BY <1>1, <1>3, <1>8, <2>1, <2>2, <2>3 DEF frames
<1> QED
  BY <1>4, <1>5, <1>6, <1>7, <1>8 DEF Datasets

\* What validation says of a dataset of such a batch.
LEMMA CleanResult ==
    ASSUME NEW src, NEW draw, Drawn(src, draw),
           NEW frames, frames = RawFrames(IncomingFiles(src, draw)), TablesOf(frames, src),
           NEW d \in Datasets
    PROVE  LET v == validate(d, frames, RatingUnit)
           IN  /\ v.invalid = {} /\ ~v.warned
               /\ v.valid = KeepRows(frames[d].rows, DOMAIN frames[d].rows)
               /\ v.critical <=> d = "purchasehistory" /\ Bought(src) = {}
               /\ frames[d].rows # <<>> => ~v.failed /\ v.score = Flawless
<1> DEFINE f == frames[d]
           rules == RulesOf(d, frames, RatingUnit)
           v == validate(d, frames, RatingUnit)
           failed == \E r \in Errors(rules) : r.count > 0
           score == calculate_quality_score(d, f, rules)
           rows == f.rows
<1>1. /\ \A r \in rules : r.count = 0 \/ (rows = <<>> /\ r = non_empty(f))
      /\ f.missing = {} /\ (rows = <<>> <=> d = "purchasehistory" /\ Bought(src) = {})
  BY CleanRules
<1>2. ReadTable(d, f)
  BY TablesRead
<1>3. \A r \in rules : SoundRule(r, Len(rows))
  BY <1>2, RulesAreSound
<1>4. ~failed => score = Flawless
  BY <1>2, QualityScore
<1>5. /\ v.invalid = Quarantined(rules) /\ v.valid = KeepRows(rows, DOMAIN rows \ Quarantined(rules))
      /\ v.failed = failed /\ v.score = score
      /\ v.warned = (\E r \in rules \ Errors(rules) : r.count > 0)
      /\ v.critical = (f.missing # {} \/ rows = <<>>)
  BY DEF validate
<1> HIDE DEF rules, v, score
<1>6. non_empty(f).severity = "ERROR" /\ non_empty(f).failed = {}
  BY DEF non_empty, DatasetRule
<1>7. \A r \in rules : r.failed = {} /\ (r.count = 0 \/ r.severity = "ERROR")
  BY <1>1, <1>3, <1>6 DEF SoundRule
<1>8. Quarantined(rules) = {}
  BY <1>7 DEF Quarantined, Errors
<1>9. ~(\E r \in rules \ Errors(rules) : r.count > 0)
  <2>1. ASSUME NEW r \in rules \ Errors(rules)
        PROVE  r.count = 0
    BY <1>7 DEF Errors
  <2> QED
    BY <2>1
<1>10. rows # <<>> => ~failed
  BY <1>1 DEF Errors
<1> HIDE DEF failed
<1>11. DOMAIN rows \ {} = DOMAIN rows
  OBVIOUS
<1>12. v.valid = KeepRows(rows, DOMAIN rows)
  BY <1>5, <1>8, <1>11
<1> HIDE DEF rows
<1>13. v.invalid = {} /\ ~v.warned /\ (v.critical <=> d = "purchasehistory" /\ Bought(src) = {})
  BY <1>1, <1>5, <1>8, <1>9 DEF rows
<1>14. rows # <<>> => ~v.failed /\ v.score = Flawless
  BY <1>4, <1>5, <1>10
<1> QED
  BY <1>12, <1>13, <1>14 DEF v, rows, f

-----------------------------------------------------------------------------
(***************************************************************************)
(* What preparation makes of it.                                           *)
(***************************************************************************)

\* The split leaves something to train on.
LEMMA TrainingRemains ==
    ASSUME NEW n \in Nat, MinimumRecords >= 3, ValidationPercent + TestPercent <= 66,
           n >= MinimumRecords
    PROVE  ~SplitRefuses(n)
<1> DEFINE a == n * ValidationPercent
           b == n * TestPercent
           p == a \div 100
           q == b \div 100
<1>1. /\ ValidationPercent \in Nat /\ TestPercent \in Nat /\ MinimumRecords \in Nat
  BY PreparationConfiguration
<1>2. a \in Nat /\ b \in Nat /\ a + b <= 66 * n
  <2>1. a \in Nat /\ b \in Nat
    BY <1>1
  <2>2. 66 - (ValidationPercent + TestPercent) \in Nat
    BY <1>1
  <2>3. n * (66 - (ValidationPercent + TestPercent)) \in Nat
    BY <2>2
  <2>4. n * (66 - (ValidationPercent + TestPercent)) = 66 * n - (a + b)
    BY <1>1
  <2> QED
    BY <2>1, <2>3, <2>4
<1>3. /\ validation_size(n) = IF p < 1 THEN 1 ELSE p
      /\ test_size(n) = IF q < 1 THEN 1 ELSE q
  BY DEF validation_size, test_size, HeldOut
<1> HIDE DEF a, b
<1>4. p \in Int /\ q \in Int /\ 100 * p <= a /\ 100 * q <= b
  BY <1>2
<1> HIDE DEF p, q
<1>5. n \in Nat /\ n >= 3
  BY <1>1
<1>6. train_end(n) = n - validation_size(n) - test_size(n)
  BY DEF train_end
<1>7. train_end(n) >= 1 /\ train_end(n) \in Int
  BY <1>2, <1>3, <1>4, <1>5, <1>6
<1> QED
  BY <1>1, <1>7 DEF SplitRefuses

\* A purchase always finds room for its delay.
LEMMA DelaysAlwaysFit ==
    ASSUME NEW src \in Sources, Loadable(src), NEW draw,
           \A i \in DOMAIN src.ratings : draw.offset[i] \in 0..Available
    PROVE  DelaysFit(src, draw)
<1>1. /\ Available \in Int /\ ReferenceTime \in Nat
      /\ Available + MinDelay + 2 = ReferenceTime /\ MinDelay \in Nat /\ MaxDelay \in Nat
      /\ MinDelay <= MaxDelay
  BY GeneratorConfiguration DEF Available, ReferenceTime, Minute
<1>2. ASSUME NEW i \in Bought(src)
      PROVE  maximum_delay(src, draw, i) >= MinDelay
  <2> DEFINE final == FinalClick(src, draw, i)
             r == src.ratings[i].rating
             n == Len(EVENT_MAPPING[r])
  <2>1. r \in 1..5 /\ draw.offset[i] \in 0..Available
    BY DEF Bought, Loadable
  <2>2. n \in 1..3
    <3> HIDE DEF r
    <3>1. CASE r \in {1, 2, 3}
      BY <3>1 DEF EVENT_MAPPING
    <3>2. CASE r = 4
      BY <3>2 DEF EVENT_MAPPING
    <3>3. CASE r = 5
      BY <3>3 DEF EVENT_MAPPING
    <3> QED
      BY <2>1, <3>1, <3>2, <3>3
  <2>3. final = draw.offset[i] + n - 1
    BY DEF FinalClick
  <2>4. maximum_delay(src, draw, i) =
           IF MaxDelay < ReferenceTime - final THEN MaxDelay ELSE ReferenceTime - final
    BY DEF maximum_delay
  <2> HIDE DEF final, n, r
  <2>5. final \in Int /\ final <= Available + 2
    BY <1>1, <2>1, <2>2, <2>3
  <2> QED
    BY <1>1, <2>4, <2>5
<1> QED
  BY <1>2 DEF DelaysFit

\* As many things as an injection from the first numbers lists.
LEMMA ListedOnce ==
    ASSUME NEW n \in Nat, NEW h, NEW T, \A k, l \in 1..n : h[k] = h[l] => k = l,
           \A k \in 1..n : h[k] \in T, \A t \in T : \E k \in 1..n : h[k] = t
    PROVE  IsFiniteSet(T) /\ Cardinality(T) = n
<1> DEFINE D == 1..n
           g == [k \in D |-> h[k]]
<1>1. IsFiniteSet(D) /\ Cardinality(D) = n
  BY FirstNumbers
<1>2. g \in [D -> T] /\ DOMAIN g = D /\ (\A k, l \in D : g[k] = g[l] => k = l)
      /\ \A t \in T : \E k \in D : g[k] = t
  OBVIOUS
<1> HIDE DEF g, D
<1>3. g \in Surjection(D, T) /\ g \in Injection(D, T)
  BY <1>2 DEF Surjection, Injection, IsInjective
<1> QED
  BY <1>1, <1>3, FS_Surjection

\* Every click and every purchase of such a batch becomes an interaction.
LEMMA CleanInteractions ==
    ASSUME NEW src, NEW draw, Drawn(src, draw), NEW valid,
           valid["clickstream"] = KeepRows(generate_clickstream(src, draw),
                                           DOMAIN generate_clickstream(src, draw)),
           valid["purchasehistory"] = KeepRows(generate_purchases(src, draw),
                                               DOMAIN generate_purchases(src, draw)),
           NEW X, generate_clickstream(src, draw) \in Seq(X),
           NEW Y, generate_purchases(src, draw) \in Seq(Y)
    PROVE  Cardinality(build_interactions(valid)) =
              Len(generate_clickstream(src, draw)) + Len(generate_purchases(src, draw))
<1> DEFINE v == valid["clickstream"]
           w == valid["purchasehistory"]
           rows == generate_clickstream(src, draw)
           bought == generate_purchases(src, draw)
           m == Len(rows)
           n == Len(bought)
           clicks == {Click(v[k]) : k \in DOMAIN v}
           orders == {Order(w[k]) : k \in DOMAIN w}
<1>1. m \in Nat /\ DOMAIN rows = 1..m /\ n \in Nat /\ DOMAIN bought = 1..n
  BY CleanClicks, CleanOrders
<1>2. /\ DOMAIN v = 1..m
      /\ \A k \in 1..m : \E i \in DOMAIN src.ratings :
            \E e \in DOMAIN EVENT_MAPPING[src.ratings[i].rating] :
               v[k] = ClickOf(src, draw, i, e)
      /\ \A k, l \in 1..m : v[k].event_id = v[l].event_id => k = l
  <2>1. /\ \A k, l \in DOMAIN rows : rows[k].event_id = rows[l].event_id => k = l
        /\ \A k \in DOMAIN rows : \E i \in DOMAIN src.ratings :
              \E e \in DOMAIN EVENT_MAPPING[src.ratings[i].rating] :
                 rows[k] = ClickOf(src, draw, i, e)
    BY CleanClicks
  <2> HIDE DEF rows, v, m
  <2>2. v = KeepRows(rows, DOMAIN rows)
    BY DEF v, rows
  <2>3. rows \in Seq(X)
    BY DEF rows
  <2>4. PICK o :
           /\ DOMAIN KeepRows(rows, DOMAIN rows) = DOMAIN rows
           /\ \A k \in DOMAIN rows :
                 o[k] \in DOMAIN rows /\ KeepRows(rows, DOMAIN rows)[k] = rows[o[k]]
           /\ \A k, l \in DOMAIN rows : o[k] = o[l] => k = l
    BY <2>3, AllRowsKept
  <2>5. /\ DOMAIN v = DOMAIN rows
        /\ \A k \in DOMAIN rows : o[k] \in DOMAIN rows /\ v[k] = rows[o[k]]
    BY <2>2, <2>4
  <2>6. \A k, l \in DOMAIN rows : v[k].event_id = v[l].event_id => k = l
    BY <2>1, <2>4, <2>5
  <2>7. DOMAIN rows = 1..m
    BY <1>1
  <2> QED
    BY <2>1, <2>5, <2>6, <2>7
<1>3. /\ DOMAIN w = 1..n
      /\ \A k \in 1..n : \E i \in Bought(src) : w[k] = OrderOf(src, draw, i)
      /\ \A k, l \in 1..n : w[k].order_id = w[l].order_id => k = l
  <2>1. /\ \A k, l \in DOMAIN bought : bought[k].order_id = bought[l].order_id => k = l
        /\ \A k \in DOMAIN bought : \E i \in Bought(src) : bought[k] = OrderOf(src, draw, i)
    BY CleanOrders
  <2> HIDE DEF bought, w, n
  <2>2. w = KeepRows(bought, DOMAIN bought)
    BY DEF w, bought
  <2>3. bought \in Seq(Y)
    BY DEF bought
  <2>4. PICK o :
           /\ DOMAIN KeepRows(bought, DOMAIN bought) = DOMAIN bought
           /\ \A k \in DOMAIN bought :
                 o[k] \in DOMAIN bought /\ KeepRows(bought, DOMAIN bought)[k] = bought[o[k]]
           /\ \A k, l \in DOMAIN bought : o[k] = o[l] => k = l
    BY <2>3, AllRowsKept
  <2>5. /\ DOMAIN w = DOMAIN bought
        /\ \A k \in DOMAIN bought : o[k] \in DOMAIN bought /\ w[k] = bought[o[k]]
    BY <2>2, <2>4
  <2>6. \A k, l \in DOMAIN bought : w[k].order_id = w[l].order_id => k = l
    BY <2>1, <2>4, <2>5
  <2>7. DOMAIN bought = 1..n
    BY <1>1
  <2> QED
    BY <2>1, <2>5, <2>6, <2>7
<1>4. build_interactions(valid) = clicks \cup orders
  BY DEF build_interactions
<1> HIDE DEF v, w, rows, bought, m, n
<1>5. IsFiniteSet(clicks) /\ Cardinality(clicks) = m
  <2> DEFINE h == [k \in 1..m |-> Click(v[k])]
  <2>1. \A r : Click(r).interaction_id = r.event_id
    BY DEF Click
  <2>2. \A k, l \in 1..m : h[k] = h[l] => k = l
    BY <1>2, <2>1
  <2>3. /\ \A k \in 1..m : h[k] \in clicks
        /\ \A t \in clicks : \E k \in 1..m : h[k] = t
    BY <1>2
  <2>4. m \in Nat
    BY <1>1
  <2> HIDE DEF h, clicks
  <2> QED
    BY <2>2, <2>3, <2>4, ListedOnce
<1>6. IsFiniteSet(orders) /\ Cardinality(orders) = n
  <2> DEFINE h == [k \in 1..n |-> Order(w[k])]
  <2>1. \A r : Order(r).interaction_id = r.order_id
    BY DEF Order
  <2>2. \A k, l \in 1..n : h[k] = h[l] => k = l
    BY <1>3, <2>1
  <2>3. /\ \A k \in 1..n : h[k] \in orders
        /\ \A t \in orders : \E k \in 1..n : h[k] = t
    BY <1>3
  <2>4. n \in Nat
    BY <1>1
  <2> HIDE DEF h, orders
  <2> QED
    BY <2>2, <2>3, <2>4, ListedOnce
<1>7. clicks \cap orders = {}
  <2> SUFFICES ASSUME NEW k \in DOMAIN v, NEW l \in DOMAIN w, Click(v[k]) = Order(w[l])
               PROVE  FALSE
    OBVIOUS
  <2>1. Click(v[k]).interaction_type = v[k].event_type
        /\ Order(w[l]).interaction_type = "Purchase"
    BY DEF Click, Order
  <2>2. PICK i \in DOMAIN src.ratings : \E e \in DOMAIN EVENT_MAPPING[src.ratings[i].rating] :
           v[k] = ClickOf(src, draw, i, e)
    BY <1>2
  <2>3. PICK e \in DOMAIN EVENT_MAPPING[src.ratings[i].rating] : v[k] = ClickOf(src, draw, i, e)
    BY <2>2
  <2>4. v[k].event_type \in {"View", "Wishlist", "AddToCart"}
    BY <2>3, ClickFacts
  <2> QED
    BY <2>1, <2>4
<1> HIDE DEF clicks, orders
<1>8. Cardinality(clicks \cup orders) = m + n - Cardinality({})
  BY <1>5, <1>6, <1>7, FS_Union
<1>9. Cardinality(clicks \cup orders) = m + n
  BY <1>1, <1>8, FS_EmptySet
<1> QED
  BY <1>4, <1>9 DEF m, n, rows, bought

-----------------------------------------------------------------------------
(***************************************************************************)
(* While nothing happens to a batch.                                       *)
(***************************************************************************)

\* Why a batch nothing happened to may stop.
MayStop(why) ==
    \/ why \in {"MovieLensDataError", "training", "KeyError"}
    \/ why = "validation failed" /\ Bought(origin.src) = {}
    \/ /\ why = "DataSplitError"
       /\ Len(files["clickstream"].rows) + Len(files["purchasehistory"].rows) < MinimumRecords

\* While nothing happens to a batch it holds the files of its draw, then the
\* frames ingestion makes of them, and stops for one of those reasons only.
CleanInv ==
    /\ HasFiles /\ defects = 0 =>
          /\ Drawn(origin.src, origin.draw)
          /\ files = IF phase = "generated" THEN IncomingFiles(origin.src, origin.draw)
                     ELSE RawFrames(IncomingFiles(origin.src, origin.draw))
    /\ phase = "stopped" /\ defects = 0 => MayStop(reason)

\* What validation reports of such a batch.
LEMMA CleanReport ==
    ASSUME NEW src, NEW draw, Drawn(src, draw),
           NEW frames, frames = RawFrames(IncomingFiles(src, draw)), TablesOf(frames, src),
           NEW rep, ReportsOn(rep, frames)
    PROVE  /\ rep.status = IF Bought(src) = {} THEN "FAILED" ELSE "SUCCESS"
           /\ \A d \in Datasets :
                 /\ rep.results[d].invalid = {} /\ ~rep.results[d].warned
                 /\ rep.results[d].valid = KeepRows(frames[d].rows, DOMAIN frames[d].rows)
                 /\ frames[d].rows # <<>> => rep.results[d].score = Flawless
<1> DEFINE results == rep.results
<1>1. ASSUME NEW d \in Datasets
      PROVE  LET v == results[d]
             IN  /\ v.invalid = {} /\ ~v.warned
                 /\ v.valid = KeepRows(frames[d].rows, DOMAIN frames[d].rows)
                 /\ v.critical <=> d = "purchasehistory" /\ Bought(src) = {}
                 /\ frames[d].rows # <<>> => ~v.failed /\ v.score = Flawless
  <2>1. results[d] = validate(d, frames, RatingUnit)
    BY DEF ReportsOn
  <2> HIDE DEF results
  <2> QED
    BY <2>1, CleanResult
<1>2. \A d \in Datasets : /\ frames[d].readable = TRUE
                          /\ frames[d].rows = <<>> <=> d = "purchasehistory" /\ Bought(src) = {}
  BY CleanRules
<1>3. rep.status = run_status(frames, results)
  BY DEF ReportsOn
<1> HIDE DEF results
<1>4. CASE Bought(src) = {}
  <2>1. "purchasehistory" \in Datasets
    BY DEF Datasets
  <2>2. results["purchasehistory"].critical
    BY <1>1, <1>4, <2>1
  <2> QED
    BY <1>1, <1>3, <1>4, <2>1, <2>2 DEF run_status, results
<1>5. CASE Bought(src) # {}
  <2>1. \A d \in Datasets : /\ ~(~frames[d].readable \/ results[d].critical)
                            /\ ~(results[d].invalid # {} \/ results[d].failed)
    BY <1>1, <1>2, <1>5
  <2>2. run_status(frames, results) = "SUCCESS"
    BY <2>1 DEF run_status
  <2> QED
    BY <1>1, <1>3, <1>5, <2>2 DEF results
<1> QED
  BY <1>4, <1>5

\* It quarantines nothing.
LEMMA NothingInvalid ==
    ASSUME \A d \in Datasets : report.results[d].invalid = {}
    PROVE  InvalidRecords = 0
<1> DEFINE f == [d \in Datasets |-> Cardinality(report.results[d].invalid)]
<1>1. DOMAIN f = Datasets /\ \A d \in Datasets : f[d] = 0
  BY FS_EmptySet
<1>2. IsFiniteSet(Datasets)
  BY DatasetsFinite
<1>3. InvalidRecords = SumOf(f)
  BY DEF InvalidRecords
<1> HIDE DEF f
<1>4. SumOf(f) = Total(DOMAIN f, f)
  BY <1>1, <1>2, SumIsTotal
<1>5. Total(Datasets, f) = 0 * Cardinality(Datasets)
  BY <1>1, <1>2, TotalConstant
<1>6. Cardinality(Datasets) \in Nat
  BY <1>2, FS_CardinalityType
<1> QED
  BY <1>1, <1>3, <1>4, <1>5, <1>6

\* Every product of the frames is kept.
LEMMA CleanProducts ==
    ASSUME NEW src, NEW draw, Drawn(src, draw),
           NEW frames, frames = RawFrames(IncomingFiles(src, draw)), TablesOf(frames, src),
           NEW rep, ReportsOn(rep, frames)
    PROVE  /\ rep.results["products"].valid # <<>>
           /\ \A i \in DOMAIN frames["products"].rows :
                 \E k \in DOMAIN rep.results["products"].valid :
                    rep.results["products"].valid[k] = frames["products"].rows[i]
<1> DEFINE products == frames["products"].rows
           valid == rep.results["products"].valid
<1>1. valid = KeepRows(products, DOMAIN products)
  BY CleanReport DEF Datasets
<1>2. products # <<>> /\ products \in Seq(ProductRows(src))
  BY CleanFrames DEF TablesOf
<1> HIDE DEF valid, products
<1>3. PICK o :
         /\ DOMAIN KeepRows(products, DOMAIN products) = DOMAIN products
         /\ \A k \in DOMAIN products :
               o[k] \in DOMAIN products /\ KeepRows(products, DOMAIN products)[k] = products[o[k]]
         /\ \A k, l \in DOMAIN products : o[k] = o[l] => k = l
         /\ \A i \in DOMAIN products : \E k \in DOMAIN products : o[k] = i
  BY <1>2, AllRowsKept
<1>4. 1 \in DOMAIN products
  BY <1>2
<1>5. /\ DOMAIN valid = DOMAIN products
      /\ \A k \in DOMAIN products : valid[k] = products[o[k]]
  BY <1>1, <1>3
<1>6. valid # <<>>
  BY <1>4, <1>5
<1>7. ASSUME NEW i \in DOMAIN products
      PROVE  \E k \in DOMAIN valid : valid[k] = products[i]
  <2>1. PICK k \in DOMAIN products : o[k] = i
    BY <1>3
  <2>2. k \in DOMAIN valid /\ valid[k] = products[i]
    BY <1>5, <2>1
  <2> QED
    BY <2>2
<1> QED
  BY <1>6, <1>7 DEF valid, products

\* Every click and every purchase of them becomes an interaction.
LEMMA CleanRows ==
    ASSUME NEW src, NEW draw, Drawn(src, draw),
           NEW frames, frames = RawFrames(IncomingFiles(src, draw)), TablesOf(frames, src),
           NEW rep, ReportsOn(rep, frames),
           NEW valid, valid = [d \in Datasets |-> rep.results[d].valid]
    PROVE  /\ Cardinality(build_interactions(valid)) =
                 Len(frames["clickstream"].rows) + Len(frames["purchasehistory"].rows)
           /\ Cardinality(build_interactions(valid)) \in Nat
<1> DEFINE clicks == generate_clickstream(src, draw)
           bought == generate_purchases(src, draw)
<1>1. \A d \in Datasets : valid[d] = KeepRows(frames[d].rows, DOMAIN frames[d].rows)
  BY CleanReport
<1>2. frames["clickstream"].rows = clicks /\ frames["purchasehistory"].rows = bought
  BY CleanFrames
<1>3. /\ frames["clickstream"].rows \in Seq(Clicks)
      /\ frames["purchasehistory"].rows \in Seq(Orders)
  BY DEF TablesOf, TypedFiles, EventData, Rows
<1>4. /\ valid["clickstream"] = KeepRows(clicks, DOMAIN clicks)
      /\ valid["purchasehistory"] = KeepRows(bought, DOMAIN bought)
  BY <1>1, <1>2 DEF Datasets
<1> HIDE DEF clicks, bought
<1>5. Cardinality(build_interactions(valid)) = Len(clicks) + Len(bought)
  <2>1. clicks \in Seq(Clicks) /\ bought \in Seq(Orders)
    BY <1>2, <1>3
  <2> QED
    BY <1>4, <2>1, CleanInteractions DEF clicks, bought
<1>6. Len(clicks) + Len(bought) \in Nat
  BY <1>2, <1>3
<1> QED
  BY <1>2, <1>5, <1>6

\* A batch that stops after ingestion keeps its frames.
LEMMA StopClean ==
    ASSUME CleanInv, phase \notin {"idle", "generated", "stopped"}, NEW why, Stop(why),
           reason = "", why \notin GenerationErrors,
           defects = 0 => MayStop(why)
    PROVE  CleanInv'
<1>1. /\ phase' = "stopped" /\ reason' = why
      /\ origin' = origin /\ defects' = defects /\ files' = files
  BY DEF Stop
<1>2. HasFiles
  BY DEF HasFiles, GenerationErrors
<1>3. HasFiles' /\ defects' = 0 =>
         /\ Drawn(origin'.src, origin'.draw)
         /\ files' = RawFrames(IncomingFiles(origin'.src, origin'.draw))
  BY <1>1, <1>2 DEF CleanInv
<1>4. defects' = 0 => MayStop(reason)'
  BY <1>1 DEF MayStop
<1> QED
  BY <1>1, <1>3, <1>4 DEF CleanInv

\* A step after ingestion that leaves the files keeps what is known of them.
LEMMA KeepsClean ==
    ASSUME CleanInv, HasFiles, phase # "generated", phase' \notin {"generated", "stopped"},
           UNCHANGED <<origin, defects, files>>
    PROVE  CleanInv'
BY DEF CleanInv

\* The click window of a fitting configuration is not refused.
LEMMA WindowHasRoom == Fits => ~(Available <= 0)
<1>1. Available \in Int
  BY GeneratorConfiguration DEF Available, ReferenceTime, Minute
<1> QED
  BY <1>1 DEF Fits

\* Generation draws and writes such a batch: a delay always fits.
LEMMA GenerateClean ==
    ASSUME Fits, ResultInv, NEW src \in Sources, NEW draw \in Draws(src), Generate(src, draw)
    PROVE  CleanInv'
<1>1. /\ Loadable(src) /\ \A i \in DOMAIN src.ratings : draw.offset[i] \in 0..Available
      /\ ~(Available <= 0)
  BY WindowHasRoom DEF Generate
<1>2. DelaysFit(src, draw)
  BY <1>1, DelaysAlwaysFit
<1>3. /\ \A i \in Bought(src) : DelayDrawn(src, draw, i)
      /\ phase' = "generated" /\ files' = IncomingFiles(src, draw)
      /\ origin' = [src |-> src, draw |-> draw]
  BY <1>1, <1>2 DEF Generate
<1>4. draw.quantity \in Quantities
  BY DEF Draws
<1>5. Drawn(src, draw)
  BY <1>1, <1>3, <1>4 DEF Drawn, Fits
<1>6. origin'.src = src /\ origin'.draw = draw
  BY <1>3
<1> QED
  BY <1>3, <1>5, <1>6 DEF CleanInv

\* Damage is counted.
LEMMA DamageClean ==
    ASSUME ResultInv, NEW d \in Datasets, Damages(d)
    PROVE  CleanInv'
<1>1. phase = "generated"
  BY DEF Damages, SpoilCell, RepeatRow, LoseColumn, AddColumn, EmptyFile, BreakSyntax, MayDamage
<1>2. HasFiles /\ defects \in 0..MaxDefects
  BY <1>1 DEF ResultInv, HasFiles, GenerationErrors
<1>3. TablesOf(files, origin.src)
  BY <1>2 DEF ResultInv
<1>4. defects' = defects + 1 /\ phase' = "generated"
  BY <1>1, <1>3, DamageKeepsTables
<1>5. defects' # 0
  BY <1>2, <1>4, FlowConfiguration
<1> QED
  BY <1>4, <1>5 DEF CleanInv

\* The service answers, and ingestion stores the frames.
LEMMA IngestClean ==
    ASSUME ResultInv, CleanInv, Ingest
    PROVE  CleanInv'
<1>1. phase = "generated" /\ reason = "" /\ HasFiles
  BY DEF Ingest, ResultInv, HasFiles, GenerationErrors
<1>2. origin' = origin /\ defects' = defects
  BY DEF Ingest, Stop
<1>3. CASE defects # 0
  BY <1>2, <1>3 DEF CleanInv
<1>4. CASE defects = 0
  <2>1. Drawn(origin.src, origin.draw) /\ files = IncomingFiles(origin.src, origin.draw)
    BY <1>1, <1>4 DEF CleanInv
  <2>2. ~ServiceRefuses(files["products"], files["popularity"])
    BY <2>1, ServiceAnswers
  <2>3. phase' = "ingested" /\ files' = RawFrames(files)
    BY <2>2 DEF Ingest
  <2> QED
    BY <1>2, <2>1, <2>3 DEF CleanInv
<1> QED
  BY <1>3, <1>4

\* No lookup of a rule raises.
LEMMA ValidateClean ==
    ASSUME ResultInv, CleanInv, ValidateBatch
    PROVE  CleanInv'
<1>1. phase = "ingested" /\ reason = "" /\ HasFiles
  BY DEF ValidateBatch, ResultInv, HasFiles, GenerationErrors
<1>2. CASE LookupRaises(files)
  <2>1. Stop("duplicate product")
    BY <1>2 DEF ValidateBatch
  <2>2. defects # 0
    <3> SUFFICES ASSUME defects = 0 PROVE FALSE
      OBVIOUS
    <3>1. /\ Drawn(origin.src, origin.draw)
          /\ files = RawFrames(IncomingFiles(origin.src, origin.draw))
      BY <1>1 DEF CleanInv
    <3>2. files["products"].rows = generate_products(origin.src)
      BY <3>1, CleanFrames
    <3> QED
      BY <1>2, <3>1, <3>2, LookupsSucceed
  <2> QED
    BY <1>1, <2>1, <2>2, StopClean DEF GenerationErrors
<1>3. CASE ~LookupRaises(files)
  <2>1. phase' = "validated" /\ UNCHANGED <<origin, defects, files>>
    BY <1>3 DEF ValidateBatch
  <2> QED
    BY <1>1, <2>1, KeepsClean
<1> QED
  BY <1>2, <1>3

\* What is known of the report of such a batch.
LEMMA ReportOfClean ==
    ASSUME FlowInv, ResultInv, CleanInv, defects = 0,
           phase \in {"validated", "accepted"}
    PROVE  /\ report.status = IF Bought(origin.src) = {} THEN "FAILED" ELSE "SUCCESS"
           /\ \A d \in Datasets :
                 /\ report.results[d].invalid = {} /\ ~report.results[d].warned
                 /\ files[d].rows # <<>> => report.results[d].score = Flawless
<1>1. HasFiles /\ HasReport
  BY DEF HasFiles, GenerationErrors, HasReport, FlowInv
<1>2. /\ Drawn(origin.src, origin.draw)
      /\ files = RawFrames(IncomingFiles(origin.src, origin.draw))
      /\ TablesOf(files, origin.src) /\ ReportsOn(report, files)
  BY <1>1 DEF CleanInv, ResultInv, FlowInv
<1>3. /\ report.status = IF Bought(origin.src) = {} THEN "FAILED" ELSE "SUCCESS"
      /\ \A d \in Datasets :
            /\ report.results[d].invalid = {} /\ ~report.results[d].warned
            /\ report.results[d].valid = KeepRows(files[d].rows, DOMAIN files[d].rows)
            /\ files[d].rows # <<>> => report.results[d].score = Flawless
  BY <1>2, CleanReport
<1> QED
  BY <1>3

\* What is known of the rows it keeps.
LEMMA RowsOfClean ==
    ASSUME FlowInv, ResultInv, CleanInv, defects = 0, HasFiles, HasReport
    PROVE  /\ ValidRows["products"] # <<>>
           /\ \A i \in DOMAIN files["products"].rows : \E k \in DOMAIN ValidRows["products"] :
                 ValidRows["products"][k] = files["products"].rows[i]
           /\ Cardinality(build_interactions(ValidRows)) =
                 Len(files["clickstream"].rows) + Len(files["purchasehistory"].rows)
           /\ Cardinality(build_interactions(ValidRows)) \in Nat
<1>1. phase # "generated"
  BY DEF HasReport, FlowInv
<1>2. /\ Drawn(origin.src, origin.draw)
      /\ files = RawFrames(IncomingFiles(origin.src, origin.draw))
      /\ TablesOf(files, origin.src) /\ ReportsOn(report, files)
  BY <1>1 DEF CleanInv, ResultInv, FlowInv
<1>3. ValidRows = [d \in Datasets |-> report.results[d].valid]
  BY DEF ValidRows
<1>4. ValidRows["products"] = report.results["products"].valid
  BY <1>3 DEF Datasets
<1>5. /\ report.results["products"].valid # <<>>
      /\ \A i \in DOMAIN files["products"].rows :
            \E k \in DOMAIN report.results["products"].valid :
               report.results["products"].valid[k] = files["products"].rows[i]
  BY <1>2, CleanProducts
<1>6. /\ Cardinality(build_interactions(ValidRows)) =
            Len(files["clickstream"].rows) + Len(files["purchasehistory"].rows)
      /\ Cardinality(build_interactions(ValidRows)) \in Nat
  BY <1>2, <1>3, CleanRows
<1> QED
  BY <1>4, <1>5, <1>6

\* The gate takes it, even when strict, if somebody bought something.
LEMMA GateClean ==
    ASSUME FlowInv, ResultInv, CleanInv, NEW strict, QualityGate(strict)
    PROVE  CleanInv'
<1>1. phase = "validated" /\ reason = "" /\ HasFiles
  BY DEF QualityGate, ResultInv, HasFiles, GenerationErrors
<1>2. CASE Stop("validation failed") /\ report.status = "FAILED"
  <2>1. ASSUME defects = 0
        PROVE  Bought(origin.src) = {}
    <3>1. report.status = IF Bought(origin.src) = {} THEN "FAILED" ELSE "SUCCESS"
      BY <1>1, <2>1, ReportOfClean
    <3> QED
      BY <1>2, <3>1
  <2> QED
    BY <1>1, <1>2, <2>1, StopClean DEF GenerationErrors, MayStop
<1>3. CASE Stop("strict quality") /\ report.status # "FAILED"
            /\ (report.status # "SUCCESS" \/ InvalidRecords > 0)
  <2>1. defects # 0
    <3> SUFFICES ASSUME defects = 0 PROVE FALSE
      OBVIOUS
    <3>1. report.status = IF Bought(origin.src) = {} THEN "FAILED" ELSE "SUCCESS"
      BY <1>1, ReportOfClean
    <3>2. ASSUME NEW d \in Datasets
          PROVE  report.results[d].invalid = {}
      BY <1>1, ReportOfClean
    <3>3. InvalidRecords = 0
      BY <3>2, NothingInvalid
    <3>4. ~(InvalidRecords > 0)
      BY <3>3
    <3> QED
      BY <1>3, <3>1, <3>4
  <2> QED
    BY <1>1, <1>3, <2>1, StopClean DEF GenerationErrors
<1>4. CASE phase' = "accepted" /\ UNCHANGED <<origin, defects, files>>
  BY <1>1, <1>4, KeepsClean
<1> QED
  BY <1>2, <1>3, <1>4 DEF QualityGate

\* Preparation finds products, and enough interactions or too few records.
LEMMA PrepareClean ==
    ASSUME Fits, FlowInv, ResultInv, CleanInv, Prepare
    PROVE  CleanInv'
<1>1. phase = "accepted" /\ reason = "" /\ HasFiles
  BY DEF Prepare, ResultInv, HasFiles, GenerationErrors
<1> DEFINE n == Cardinality(build_interactions(ValidRows))
<1>2. ASSUME defects = 0
      PROVE  /\ ValidRows["products"] # <<>>
             /\ n = Len(files["clickstream"].rows) + Len(files["purchasehistory"].rows)
             /\ n \in Nat
  BY <1>1, <1>2, RowsOfClean DEF HasReport
<1> HIDE DEF n
<1>3. CASE Stop("DatasetPreparationError") /\ ValidRows["products"] = <<>>
  BY <1>1, <1>2, <1>3, StopClean DEF GenerationErrors
<1>4. CASE Stop("DataSplitError") /\ SplitRefuses(n)
  <2>1. defects = 0 => n < MinimumRecords
    <3> SUFFICES ASSUME defects = 0, ~(n < MinimumRecords) PROVE FALSE
      OBVIOUS
    <3>1. n \in Nat /\ MinimumRecords \in Nat /\ MinimumRecords >= 3
          /\ ValidationPercent + TestPercent <= 66
      BY <1>2, PreparationConfiguration DEF Fits
    <3>2. n >= MinimumRecords
      BY <3>1
    <3> QED
      BY <1>4, <3>1, <3>2, TrainingRemains
  <2>2. defects = 0 => MayStop("DataSplitError")
    BY <1>2, <2>1 DEF MayStop
  <2> QED
    BY <1>1, <1>4, <2>2, StopClean DEF GenerationErrors
<1>5. CASE phase' = "prepared" /\ UNCHANGED <<origin, defects, files>>
  BY <1>1, <1>5, KeepsClean
<1> QED
  BY <1>3, <1>4, <1>5 DEF Prepare, n

\* Feature engineering leaves the files as they are.
LEMMA EngineerClean ==
    ASSUME ResultInv, CleanInv, Engineer
    PROVE  CleanInv'
<1>1. phase = "prepared" /\ reason = "" /\ HasFiles
  BY DEF Engineer, ResultInv, HasFiles, GenerationErrors
<1>2. CASE Stop("KeyError")
  BY <1>1, <1>2, StopClean DEF GenerationErrors, MayStop
<1>3. CASE phase' = "engineered" /\ UNCHANGED <<origin, defects, files>>
  BY <1>1, <1>3, KeepsClean
<1> QED
  BY <1>2, <1>3 DEF Engineer

\* So does training.
LEMMA TrainClean ==
    ASSUME ResultInv, CleanInv, NEW appeal, Train(appeal)
    PROVE  CleanInv'
<1>1. phase = "engineered" /\ reason = "" /\ HasFiles
  BY DEF Train, ResultInv, HasFiles, GenerationErrors
<1>2. CASE Stop("training")
  BY <1>1, <1>2, StopClean DEF GenerationErrors, MayStop
<1>3. CASE phase' = "trained" /\ UNCHANGED <<origin, defects, files>>
  BY <1>1, <1>3, KeepsClean
<1> QED
  BY <1>2, <1>3 DEF Train

\* Every step keeps the invariant.
LEMMA CleanStep ==
    ASSUME Fits, FlowInv, ResultInv, CleanInv, [Next]_vars
    PROVE  CleanInv'
<1>1. ASSUME NEW src \in Sources, Load(src) PROVE CleanInv'
  BY <1>1 DEF Load, Stop, CleanInv, HasFiles, GenerationErrors, MayStop
<1>2. ASSUME NEW src \in Sources, NEW draw \in Draws(src), Generate(src, draw)
      PROVE  CleanInv'
  BY <1>2, GenerateClean
<1>3. ASSUME NEW d \in Datasets, Damages(d) PROVE CleanInv'
  BY <1>3, DamageClean
<1>4. ASSUME NEW strict \in StrictModes, QualityGate(strict) PROVE CleanInv'
  BY <1>4, GateClean
<1>5. ASSUME NEW appeal \in Appeals, Train(appeal) PROVE CleanInv'
  BY <1>5, TrainClean
<1>6. CASE UNCHANGED vars
  BY <1>6 DEF vars, CleanInv, HasFiles, GenerationErrors, MayStop
<1> QED
  BY <1>1, <1>2, <1>3, <1>4, <1>5, <1>6, IngestClean, ValidateClean, PrepareClean,
     EngineerClean DEF Next, Damages

\* The invariant holds before anything was generated.
LEMMA CleanInit == Init => CleanInv
BY DEF Init, CleanInv, HasFiles, GenerationErrors

\* While nothing happens to a batch, it is made of what its draw says and
\* stops for few reasons.
THEOREM CleanInvariant == ASSUME Fits PROVE Spec => []CleanInv
<1>1. FlowInv /\ ResultInv /\ CleanInv /\ [Next]_vars => CleanInv'
  BY CleanStep
<1> QED
  BY <1>1, CleanInit, FlowInvariant, ResultInvariant, PTL DEF Spec

\* What the generator writes is what the validator demands: for any source and any
\* random choices its files break no rule, not even a warning, and score 100; only
\* a source without a rating of 4 or 5 fails, for having no purchase.
THEOREM GeneratorPassesValidation == ASSUME Fits PROVE Spec => []CleanBatchPasses
<1>1. FlowInv /\ ResultInv /\ CleanInv => CleanBatchPasses
  <2> SUFFICES ASSUME FlowInv, ResultInv, CleanInv, phase = "validated", defects = 0
               PROVE  /\ report.status = IF Bought(origin.src) = {} THEN "FAILED" ELSE "SUCCESS"
                      /\ \A d \in Datasets :
                            /\ ~report.results[d].warned
                            /\ files[d].rows # <<>> => report.results[d].score = 10000
    BY DEF CleanBatchPasses
  <2> QED
    BY ReportOfClean DEF Flawless
<1> QED
  BY <1>1, CleanInvariant, FlowInvariant, ResultInvariant, PTL

\* When the click window leaves room for clicks, no stage raises on what the
\* generator writes: a purchase always finds room for its delay, the API answers,
\* the gate opens even when strict, the split refuses only too few records, and
\* the features find every product.
THEOREM GeneratorFeedsEveryStage == ASSUME Fits PROVE Spec => []CleanBatchFlows
<1>1. FlowInv /\ ResultInv /\ CleanInv /\ LookupFailsForQuarantinedProduct => CleanBatchFlows
  <2> SUFFICES ASSUME FlowInv, ResultInv, CleanInv, LookupFailsForQuarantinedProduct,
                      phase = "stopped", defects = 0
               PROVE  reason # "KeyError"
    BY DEF CleanBatchFlows, CleanInv, MayStop
  <2> SUFFICES ASSUME reason = "KeyError" PROVE FALSE
    OBVIOUS
  <2> DEFINE valid == ValidRows["products"]
             raw == files["products"].rows
             known == IdsOf({valid[k] : k \in DOMAIN valid}, "product_id")
             lacking == IdsOf(select_feature_events(prepared), "product_id") \ known
  <2>1. HasFiles /\ HasReport
    BY DEF HasFiles, GenerationErrors, HasReport
  <2>2. \A i \in DOMAIN raw : \E k \in DOMAIN valid : valid[k] = raw[i]
    BY <2>1, RowsOfClean
  <2>3. lacking # {} /\ lacking \subseteq IdsOf(RowsOf(files["products"]), "product_id")
    BY DEF LookupFailsForQuarantinedProduct
  <2> HIDE DEF valid, raw
  <2>4. IdsOf(RowsOf(files["products"]), "product_id") \subseteq known
    BY <2>2 DEF IdsOf, RowsOf, raw
  <2> QED
    BY <2>3, <2>4
<1> QED
  BY <1>1, CleanInvariant, FlowInvariant, ResultInvariant, LookupFailsForOneCause, PTL
=============================================================================
