------------------------ MODULE DataFlowResultProofs ------------------------
(***************************************************************************)
(* What the stages compute from the rows: an invariant that follows each   *)
(* result to the operator that computed it, and from it the types of every *)
(* artifact and what the quality scores of validation say of the verdict.  *)
(*                                                                         *)
(* The scores rest on sums over finite sets and on the soundness of every  *)
(* rule; what the later results promise is in DataFlowOutputProofs.        *)
(***************************************************************************)
EXTENDS DataFlowProofs, SumTheorems

-----------------------------------------------------------------------------
(***************************************************************************)
(* The tables, whatever was done to them.                                  *)
(***************************************************************************)

UserIds(src) == {src.users[k] : k \in DOMAIN src.users}

\* A row of the users and the products of a source, damaged or not.
UserRows(src) ==
    [user_id : UserIds(src) \cup Odd \cup {0}, age : Times, gender : {"F"} \cup Odd,
     occupation : {"artist"} \cup Odd, zipcode : {"10001"} \cup Odd,
     registration_date : Times, customer_segment : {"Gold"} \cup Odd]
ProductRows(src) ==
    [product_id : ItemIds(src) \cup Odd \cup {0}, product_name : {"film"} \cup Odd,
     category : {Categories[p] : p \in ItemIds(src)} \cup Odd, release_date : Times,
     price : Times, brand : {Brands[p] : p \in ItemIds(src)} \cup Odd,
     average_rating : Times, total_ratings : Times]

\* The tables of a batch of the source src.
TablesOf(f, src) ==
    /\ TypedFiles(f)
    /\ \A d \in Datasets : f[d].missing \subseteq Columns(d) /\ f[d].extra \in {0, 1}
    /\ f["users"].rows \in Seq(UserRows(src))
    /\ f["products"].rows \in Seq(ProductRows(src))
    /\ \E X : f["popularity"].rows \in Seq(X)

\* Replacing one table by one of its kind.
LEMMA TableOfItsKind ==
    ASSUME NEW src, NEW f, TablesOf(f, src), NEW d \in Datasets, NEW table,
           DOMAIN table = Fields,
           table.missing \subseteq Columns(d), table.extra \in {0, 1},
           d \in EventData => table.rows \in Seq(Rows(d)),
           d = "users" => table.rows \in Seq(UserRows(src)),
           d = "products" => table.rows \in Seq(ProductRows(src)),
           d = "popularity" => \E X : table.rows \in Seq(X)
    PROVE  TablesOf([f EXCEPT ![d] = table], src)
<1> DEFINE g == [f EXCEPT ![d] = table]
<1>1. DOMAIN f = Datasets
  BY DEF TablesOf, TypedFiles
<1>2. g[d] = table /\ \A e \in Datasets \ {d} : g[e] = f[e]
  BY <1>1
<1>3. TypedFiles(g)
  BY TableReplaced DEF TablesOf
<1>4. \A e \in Datasets : g[e].missing \subseteq Columns(e) /\ g[e].extra \in {0, 1}
  BY <1>2 DEF TablesOf
<1>5. {"users", "products", "popularity"} \subseteq Datasets
  BY DEF Datasets
<1> HIDE DEF g
<1>6. g["users"].rows \in Seq(UserRows(src))
  BY <1>2, <1>5 DEF TablesOf
<1>7. g["products"].rows \in Seq(ProductRows(src))
  BY <1>2, <1>5 DEF TablesOf
<1>8. \E X : g["popularity"].rows \in Seq(X)
  BY <1>2, <1>5 DEF TablesOf
<1>9. TablesOf(g, src)
  BY <1>3, <1>4, <1>6, <1>7, <1>8 DEF TablesOf
<1> QED
  BY <1>9 DEF g

\* A defect leaves a row of users or products one.
LEMMA SpoiledRecord ==
    ASSUME NEW src,
           NEW c, NEW v
    PROVE  /\ c \in Columns("users") /\ v \in BadCells("users", c) =>
                \A r \in UserRows(src) : [r EXCEPT ![c] = v] \in UserRows(src)
           /\ c \in Columns("products") /\ v \in BadCells("products", c) =>
                \A r \in ProductRows(src) : [r EXCEPT ![c] = v] \in ProductRows(src)
<1>1. Late \in Int
  BY ValidationConfiguration DEF Late
<1>2. ASSUME c \in Columns("users"), v \in BadCells("users", c), NEW r \in UserRows(src)
      PROVE  [r EXCEPT ![c] = v] \in UserRows(src)
  <2>1. c \in {"user_id", "age", "gender", "occupation", "zipcode",
               "registration_date", "customer_segment"}
    BY <1>2 DEF Columns
  <2>2. CASE c \in {"gender", "occupation", "zipcode", "customer_segment"}
    <3>1. v \in Odd
      BY <1>2, <2>2 DEF BadCells, Odd
    <3> QED
      BY <2>2, <3>1, <1>2 DEF UserRows
  <2>3. CASE c = "user_id"
    <3>1. v \in Odd \cup {0}
      BY <1>2, <2>3 DEF BadCells, Odd
    <3> QED
      BY <2>3, <3>1, <1>2 DEF UserRows
  <2>4. CASE c \in {"age", "registration_date"}
    <3>1. v \in Times
      BY <1>1, <1>2, <2>4 DEF BadCells, Times, Odd
    <3> QED
      BY <2>4, <3>1, <1>2 DEF UserRows
  <2> QED
    BY <2>1, <2>2, <2>3, <2>4
<1>3. ASSUME c \in Columns("products"), v \in BadCells("products", c),
             NEW r \in ProductRows(src)
      PROVE  [r EXCEPT ![c] = v] \in ProductRows(src)
  <2>1. c \in {"product_id", "product_name", "category", "release_date",
               "price", "brand", "average_rating", "total_ratings"}
    BY <1>3 DEF Columns
  <2>2. CASE c \in {"product_name", "category", "brand"}
    <3>1. v \in Odd
      BY <1>3, <2>2 DEF BadCells, Odd
    <3> QED
      BY <2>2, <3>1, <1>3 DEF ProductRows
  <2>3. CASE c = "product_id"
    <3>1. v \in Odd \cup {0}
      BY <1>3, <2>3 DEF BadCells, Odd
    <3> QED
      BY <2>3, <3>1, <1>3 DEF ProductRows
  <2>4. CASE c \in {"price", "average_rating", "total_ratings", "release_date"}
    <3>1. v \in Times
      BY <1>1, <1>3, <2>4 DEF BadCells, Times, Odd, RatingUnit
    <3> QED
      BY <2>4, <3>1, <1>3 DEF ProductRows
  <2> QED
    BY <2>1, <2>2, <2>3, <2>4
<1> QED
  BY <1>2, <1>3

\* The rows of a table of the dataset d.
RowsOfKind(d, src, rows) ==
    /\ d \in EventData => rows \in Seq(Rows(d))
    /\ d = "users" => rows \in Seq(UserRows(src))
    /\ d = "products" => rows \in Seq(ProductRows(src))
    /\ d = "popularity" => \E X : rows \in Seq(X)

\* A spoiled cell and a repeated row leave rows of their kind.
LEMMA RowsStayOfKind ==
    ASSUME NEW src, NEW d \in Datasets, NEW rows, RowsOfKind(d, src, rows),
           NEW i \in DOMAIN rows
    PROVE  /\ \A c \in FileColumns(d) : \A v \in BadCells(d, c) :
                 RowsOfKind(d, src, [rows EXCEPT ![i] = [rows[i] EXCEPT ![c] = v]])
           /\ RowsOfKind(d, src, Append(rows, rows[i]))
           /\ RowsOfKind(d, src, <<>>)
<1>1. ASSUME NEW T, rows \in Seq(T), NEW row \in T
      PROVE  [rows EXCEPT ![i] = row] \in Seq(T)
  BY <1>1
<1>2. ASSUME NEW T, rows \in Seq(T)
      PROVE  rows[i] \in T /\ Append(rows, rows[i]) \in Seq(T) /\ <<>> \in Seq(T)
  BY <1>2
<1>3. ASSUME NEW c \in FileColumns(d), NEW v \in BadCells(d, c)
      PROVE  RowsOfKind(d, src, [rows EXCEPT ![i] = [rows[i] EXCEPT ![c] = v]])
  <2> DEFINE row == [rows[i] EXCEPT ![c] = v]
             new == [rows EXCEPT ![i] = row]
  <2>1. ASSUME d \in EventData PROVE new \in Seq(Rows(d))
    <3>1. c \in Columns(d)
      BY <2>1 DEF FileColumns, EventData
    <3>2. rows \in Seq(Rows(d)) /\ rows[i] \in Rows(d)
      BY <1>2, <2>1 DEF RowsOfKind
    <3>3. row \in Rows(d)
      BY <2>1, <3>1, <3>2, SpoiledRow
    <3> HIDE DEF row
    <3> QED
      BY <1>1, <3>2, <3>3
  <2>2. ASSUME d = "users" PROVE new \in Seq(UserRows(src))
    <3>1. c \in Columns("users") /\ v \in BadCells("users", c)
      BY <2>2 DEF FileColumns
    <3>2. rows \in Seq(UserRows(src)) /\ rows[i] \in UserRows(src)
      BY <1>2, <2>2 DEF RowsOfKind
    <3>3. row \in UserRows(src)
      BY <3>1, <3>2, SpoiledRecord
    <3> HIDE DEF row
    <3> QED
      BY <1>1, <3>2, <3>3
  <2>3. ASSUME d = "products" PROVE new \in Seq(ProductRows(src))
    <3>1. c \in Columns("products") /\ v \in BadCells("products", c)
      BY <2>3 DEF FileColumns
    <3>2. rows \in Seq(ProductRows(src)) /\ rows[i] \in ProductRows(src)
      BY <1>2, <2>3 DEF RowsOfKind
    <3>3. row \in ProductRows(src)
      BY <3>1, <3>2, SpoiledRecord
    <3> HIDE DEF row
    <3> QED
      BY <1>1, <3>2, <3>3
  <2>4. ASSUME d = "popularity" PROVE \E X : new \in Seq(X)
    <3>1. PICK X : rows \in Seq(X)
      BY <2>4 DEF RowsOfKind
    <3>2. rows \in Seq(X \cup {row}) /\ row \in X \cup {row}
      <4> HIDE DEF row
      <4> QED
        BY <3>1
    <3> HIDE DEF row
    <3> QED
      BY <1>1, <3>2
  <2>5. RowsOfKind(d, src, new)
    <3> HIDE DEF new
    <3> QED
      BY <2>1, <2>2, <2>3, <2>4 DEF RowsOfKind
  <2> QED
    BY <2>5
<1>4. RowsOfKind(d, src, Append(rows, rows[i])) /\ RowsOfKind(d, src, <<>>)
  BY <1>2 DEF RowsOfKind
<1> QED
  BY <1>3, <1>4

\* Any one defect leaves tables of the source.
LEMMA DamageKeepsTables ==
    ASSUME NEW src, TablesOf(files, src), NEW d \in Datasets, Damages(d)
    PROVE  TablesOf(files', src) /\ defects < MaxDefects /\ defects' = defects + 1
           /\ origin' = origin /\ phase = "generated"
           /\ UNCHANGED <<phase, reason, report, prepared, features, models>>
<1>1. /\ DOMAIN files[d] = Fields /\ RowsOfKind(d, src, files[d].rows)
      /\ files[d].missing \subseteq Columns(d) /\ files[d].extra \in {0, 1}
  BY DEF TablesOf, TypedFiles, RowsOfKind
<1> DEFINE Ok(table) ==
             /\ DOMAIN table = Fields /\ RowsOfKind(d, src, table.rows)
             /\ table.missing \subseteq Columns(d) /\ table.extra \in {0, 1}
           rows == files[d].rows
<1>2. \E table : Ok(table) /\ MayDamage(d) /\ Damage(d, table)
  <2>1. ASSUME NEW c \in FileColumns(d), NEW i \in 1..9, NEW v \in BadCells(d, c),
               SpoilCell(d, i, c, v)
        PROVE  \E table : Ok(table) /\ MayDamage(d) /\ Damage(d, table)
    <3> DEFINE table == [files[d] EXCEPT !.rows[i][c] = v]
               new == [rows EXCEPT ![i] = [rows[i] EXCEPT ![c] = v]]
    <3>1. /\ DOMAIN table = Fields /\ table.rows = new
          /\ table.missing = files[d].missing /\ table.extra = files[d].extra
      BY <1>1 DEF Fields
    <3>2. i \in DOMAIN rows /\ MayDamage(d) /\ Damage(d, table)
      BY <2>1 DEF SpoilCell
    <3> HIDE DEF table
    <3>3. RowsOfKind(d, src, new)
      BY <1>1, <3>2, RowsStayOfKind
    <3> HIDE DEF new
    <3>4. Ok(table)
      BY <1>1, <3>1, <3>3
    <3> QED
      BY <3>2, <3>4
  <2>2. ASSUME NEW i \in 1..9, RepeatRow(d, i)
        PROVE  \E table : Ok(table) /\ MayDamage(d) /\ Damage(d, table)
    <3> DEFINE table == [files[d] EXCEPT !.rows = Append(rows, rows[i])]
    <3>1. /\ DOMAIN table = Fields /\ table.rows = Append(rows, rows[i])
          /\ table.missing = files[d].missing /\ table.extra = files[d].extra
      BY <1>1 DEF Fields
    <3>2. i \in DOMAIN rows /\ MayDamage(d) /\ Damage(d, table)
      BY <2>2 DEF RepeatRow
    <3> HIDE DEF table, rows
    <3>3. RowsOfKind(d, src, Append(rows, rows[i]))
      BY <1>1, <3>2, RowsStayOfKind DEF rows
    <3>4. Ok(table)
      BY <1>1, <3>1, <3>3
    <3> QED
      BY <3>2, <3>4
  <2>3. ASSUME NEW c \in FileColumns(d), LoseColumn(d, c)
        PROVE  \E table : Ok(table) /\ MayDamage(d) /\ Damage(d, table)
    <3> DEFINE table == [files[d] EXCEPT !.missing = files[d].missing \cup {c}]
    <3>1. c \in Columns(d)
      BY DEF FileColumns, Columns
    <3>2. Ok(table)
      BY <1>1, <3>1 DEF Fields
    <3>3. MayDamage(d) /\ Damage(d, table)
      BY <2>3 DEF LoseColumn
    <3> QED
      BY <3>2, <3>3
  <2>4. CASE AddColumn(d)
    <3> DEFINE table == [files[d] EXCEPT !.extra = 1]
    <3>1. Ok(table)
      BY <1>1 DEF Fields
    <3>2. MayDamage(d) /\ Damage(d, table)
      BY <2>4 DEF AddColumn
    <3> QED
      BY <3>1, <3>2
  <2> DEFINE Nought == RowsOfKind(d, src, <<>>)
  <2>5. Nought
    BY DEF RowsOfKind
  <2>6. CASE EmptyFile(d)
    <3> DEFINE table == [files[d] EXCEPT !.rows = <<>>]
    <3>1. /\ DOMAIN table = Fields /\ table.rows = <<>>
          /\ table.missing = files[d].missing /\ table.extra = files[d].extra
      BY <1>1 DEF Fields
    <3>2. MayDamage(d) /\ Damage(d, table)
      BY <2>6 DEF EmptyFile
    <3> HIDE DEF table
    <3>3. Ok(table)
      BY <1>1, <2>5, <3>1
    <3> QED
      BY <3>2, <3>3
  <2>7. CASE BreakSyntax(d)
    <3> DEFINE table == Unread(d)
    <3>1. /\ DOMAIN table = Fields /\ table.rows = <<>>
          /\ table.missing = Columns(d) /\ table.extra = 0
      BY DEF Unread, Fields
    <3>2. MayDamage(d) /\ Damage(d, table)
      BY <2>7 DEF BreakSyntax
    <3> HIDE DEF table
    <3>3. Ok(table)
      BY <2>5, <3>1
    <3> QED
      BY <3>2, <3>3
  <2> HIDE DEF Ok
  <2> QED
    BY <2>1, <2>2, <2>3, <2>4, <2>6, <2>7 DEF Damages
<1>3. PICK table : Ok(table) /\ MayDamage(d) /\ Damage(d, table)
  BY <1>2
<1>4. TablesOf([files EXCEPT ![d] = table], src)
  BY <1>3, TableOfItsKind DEF RowsOfKind
<1> QED
  BY <1>3, <1>4 DEF MayDamage, Damage

\* Numbers are listed by size.
LEMMA NumbersInOrder ==
    ASSUME NEW S, IsFiniteSet(S), \A i \in S : i \in Int
    PROVE  Lists(InOrder(S, LAMBDA i, j : i < j), S, {p \in S \X S : p[1] < p[2]})
<1> DEFINE Before(i, j) == i < j
           R == {p \in S \X S : p[1] < p[2]}
           o == InOrder(S, Before)
<1>1. StrictOrder(S, R)
  BY DEF StrictOrder
<1>2. ASSUME NEW x \in S
      PROVE  {y \in S : Before(y, x)} = Below(S, R, x)
  BY DEF Below
<1>3. ASSUME NEW k \in 1..Cardinality(S)
      PROVE  o[k] \in S /\ Rank(S, R, o[k]) = k - 1
  <2>1. PICK x \in S : Rank(S, R, x) = k - 1
    BY <1>1, RankTaken
  <2>2. Cardinality({y \in S : Before(y, x)}) = k - 1
    BY <2>1, <1>2 DEF Rank
  <2>3. o[k] = CHOOSE z \in S : Cardinality({y \in S : Before(y, z)}) = k - 1
    BY DEF InOrder
  <2>4. o[k] \in S /\ Cardinality({y \in S : Before(y, o[k])}) = k - 1
    BY <2>2, <2>3
  <2> QED
    BY <2>4, <1>2 DEF Rank
<1>4. DOMAIN o = 1..Cardinality(S)
  BY DEF InOrder
<1>5. Lists(o, S, R)
  BY <1>3, <1>4 DEF Lists
<1> QED
  BY <1>5 DEF o, R

\* A function on the first numbers is a sequence of its values.
LEMMA ValuesInSequence ==
    ASSUME NEW n \in Nat, NEW f, DOMAIN f = 1..n, f = [k \in 1..n |-> f[k]],
           NEW T, \A k \in 1..n : f[k] \in T
    PROVE  f \in Seq(T) /\ Len(f) = n
OBVIOUS

\* The mean of ratings is a whole number of its unit.
LEMMA MeanRatingTyped ==
    ASSUME NEW src, src.ratings \in Seq(Ratings), NEW p
    PROVE  AverageRating(src, p) \in Int /\ Cardinality(RatingsOf(src, p)) \in Int
<1> DEFINE rated == RatingsOf(src, p)
           f == [i \in rated |-> src.ratings[i].rating]
           n == Cardinality(rated)
<1>1. IsFiniteSet(rated) /\ n \in Nat /\ (rated # {} => n # 0)
  <2>1. Len(src.ratings) \in Int /\ rated \subseteq 1..Len(src.ratings)
    BY DEF RatingsOf
  <2>2. IsFiniteSet(1..Len(src.ratings))
    BY <2>1, FS_Interval
  <2> QED
    BY <2>1, <2>2, FS_Subset, FS_CardinalityType, FS_EmptySet
<1>2. SumOf(f) \in Int
  <2>1. DOMAIN f = rated /\ \A i \in rated : f[i] \in Int
    BY RatingTyped DEF RatingsOf
  <2> HIDE DEF f, rated
  <2> QED
    BY <1>1, <2>1, SumIsTotal, TotalInt
<1>3. CASE rated = {}
  BY <1>1, <1>3 DEF AverageRating
<1>4. CASE rated # {}
  <2>1. AverageRating(src, p) = RoundDiv(RatingUnit * SumOf(f), n)
    BY <1>4 DEF AverageRating
  <2> HIDE DEF f, n, rated
  <2>2. RoundDiv(RatingUnit * SumOf(f), n) \in Int
    BY <1>1, <1>2, <1>4 DEF RoundDiv, RatingUnit
  <2> QED
    BY <1>1, <2>1, <2>2 DEF n, rated
<1> QED
  BY <1>3, <1>4

\* The rows of users are rows of the source.
LEMMA GeneratedUsers ==
    ASSUME NEW src, src.users \in Seq(Int)
    PROVE  generate_users(src) \in Seq(UserRows(src))
<1> DEFINE s == src.users
           Row(id) == [user_id |-> id, age |-> 30, gender |-> "F", occupation |-> "artist",
                       zipcode |-> "10001", registration_date |-> ReferenceTime,
                       customer_segment |-> "Gold"]
           o == [k \in DOMAIN s |-> Row(s[k])]
<1>1. generate_users(src) = o
  BY DEF generate_users
<1>2. DOMAIN s = 1..Len(s) /\ Len(s) \in Nat
  OBVIOUS
<1>3. ReferenceTime \in Int
  BY GeneratorConfiguration DEF ReferenceTime
<1>4. ASSUME NEW k \in DOMAIN s
      PROVE  Row(s[k]) \in UserRows(src)
  BY <1>3 DEF UserRows, UserIds, Times
<1> HIDE DEF s, Row
<1>5. o \in Seq(UserRows(src))
  BY <1>2, <1>4, ValuesInSequence
<1> QED
  BY <1>1, <1>5

\* The identifiers of the items of a source.
LEMMA ItemIdsFinite ==
    ASSUME NEW src, src.items \in Seq(Int)
    PROVE  /\ IsFiniteSet(ItemIds(src)) /\ \A i \in ItemIds(src) : i \in Int
           /\ Cardinality(ItemIds(src)) \in Nat
<1> DEFINE s == src.items
           D == DOMAIN s
<1>1. D = 1..Len(s) /\ Len(s) \in Int /\ \A k \in D : s[k] \in Int
  OBVIOUS
<1>2. IsFiniteSet(D)
  BY <1>1, FS_Interval
<1>3. ItemIds(src) = {s[k] : k \in D}
  BY DEF ItemIds
<1> HIDE DEF s
<1>4. IsFiniteSet({s[k] : k \in D})
  BY <1>2, ImageIsFinite
<1> QED
  BY <1>1, <1>3, <1>4, FS_CardinalityType

\* The record of a product.
ProductOf(src, p) ==
    [product_id |-> p, product_name |-> "film", category |-> Categories[p],
     release_date |-> Blank, price |-> Prices[p], brand |-> Brands[p],
     average_rating |-> AverageRating(src, p),
     total_ratings |-> Cardinality(RatingsOf(src, p))]

\* The rows of products are rows of the source, one for each item.
LEMMA GeneratedProducts ==
    ASSUME NEW src, src.items \in Seq(Int), src.ratings \in Seq(Ratings),
           \A p \in ItemIds(src) : Prices[p] \in Nat
    PROVE  LET rows == generate_products(src)
           IN  /\ rows \in Seq(ProductRows(src))
               /\ \A n \in DOMAIN rows : \E p \in ItemIds(src) : rows[n] = ProductOf(src, p)
               /\ \A p \in ItemIds(src) : \E n \in DOMAIN rows : rows[n] = ProductOf(src, p)
               /\ \A m, n \in DOMAIN rows : rows[m].product_id = rows[n].product_id => m = n
<1> DEFINE ids == ItemIds(src)
           order == InOrder(ids, LAMBDA a, b : a < b)
           R == {p \in ids \X ids : p[1] < p[2]}
           Record(p) ==
            [product_id |-> p, product_name |-> "film", category |-> Categories[p],
             release_date |-> Blank, price |-> Prices[p], brand |-> Brands[p],
             average_rating |-> AverageRating(src, p),
             total_ratings |-> Cardinality(RatingsOf(src, p))]
           o == [k \in DOMAIN order |-> Record(order[k])]
<1>1. generate_products(src) = o
  BY DEF generate_products, ItemIds
<1>2. IsFiniteSet(ids) /\ (\A i \in ids : i \in Int) /\ Cardinality(ids) \in Nat
  BY ItemIdsFinite
<1>3. Lists(order, ids, R)
  <2> HIDE DEF ids
  <2> QED
    BY <1>2, NumbersInOrder
<1>4. DOMAIN order = 1..Cardinality(ids) /\ \A k \in 1..Cardinality(ids) : order[k] \in ids
  BY <1>3 DEF Lists
<1>5. ASSUME NEW p \in ids
      PROVE  Record(p) \in ProductRows(src)
  <2>1. AverageRating(src, p) \in Int /\ Cardinality(RatingsOf(src, p)) \in Int
    BY MeanRatingTyped
  <2>2. Prices[p] \in Int
    OBVIOUS
  <2> QED
    BY <2>1, <2>2 DEF ProductRows, Times, Odd
<1>7. \A p \in ids : Record(p) = ProductOf(src, p) /\ Record(p).product_id = p
  BY DEF ProductOf
<1>8. /\ \A i, j \in 1..Cardinality(ids) : order[i] = order[j] => i = j
      /\ \A p \in ids : \E k \in 1..Cardinality(ids) : order[k] = p
  <2>1. StrictOrder(ids, R)
    BY <1>2 DEF StrictOrder
  <2> HIDE DEF order, ids, R
  <2> QED
    BY <1>2, <1>3, <2>1, ListingIsSorted
<1> HIDE DEF order, ids, Record
<1>6. o \in Seq(ProductRows(src))
  BY <1>2, <1>4, <1>5, ValuesInSequence
<1>9. /\ \A n \in DOMAIN o : o[n] = Record(order[n]) /\ order[n] \in ids
      /\ DOMAIN o = 1..Cardinality(ids)
  BY <1>4
<1>10. /\ \A n \in DOMAIN o : \E p \in ids : o[n] = ProductOf(src, p)
       /\ \A p \in ids : \E n \in DOMAIN o : o[n] = ProductOf(src, p)
       /\ \A m, n \in DOMAIN o : o[m].product_id = o[n].product_id => m = n
  <2> HIDE DEF o
  <2> QED
    BY <1>7, <1>8, <1>9
<1> HIDE DEF o
<1> QED
  BY <1>1, <1>6, <1>10 DEF ids

\* The incoming files are tables of the source.
LEMMA GeneratedTables ==
    ASSUME NEW src \in Sources, NEW draw \in Draws(src), Generate(src, draw), phase' = "generated"
    PROVE  /\ TablesOf(files', src) /\ origin'.src = src /\ Loadable(src)
           /\ phase = "idle"
           /\ UNCHANGED <<reason, defects, report, prepared, features, models>>
<1>1. /\ src.users \in Seq(Int) /\ src.items \in Seq(Int)
      /\ src.ratings \in Seq(Ratings) /\ Loadable(src) /\ phase = "idle"
      /\ \A k \in DOMAIN src.items : Prices[src.items[k]] \in Nat
  BY SourceTables DEF Generate, Ratings
<1>2. /\ files' = IncomingFiles(src, draw) /\ origin'.src = src
      /\ UNCHANGED <<reason, defects, report, prepared, features, models>>
  BY DEF Generate, Stop
<1>3. TypedFiles(files')
  BY GeneratedTyped
<1> DEFINE products == generate_products(src)
           f == IncomingFiles(src, draw)
<1>4. /\ f["users"] = TableOf(generate_users(src)) /\ f["products"] = TableOf(products)
      /\ f["clickstream"] = TableOf(generate_clickstream(src, draw))
      /\ f["purchasehistory"] = TableOf(generate_purchases(src, draw))
      /\ f["popularity"] = TableOf(generate_popularity(products, draw))
  BY DEF IncomingFiles
<1>5. \A rows : TableOf(rows).rows = rows /\ TableOf(rows).missing = {} /\ TableOf(rows).extra = 0
  BY DEF TableOf
<1>6. \A d \in Datasets : f[d].missing \subseteq Columns(d) /\ f[d].extra \in {0, 1}
  <2> HIDE DEF f, products
  <2> QED
    BY <1>4, <1>5 DEF Datasets
<1>7. generate_users(src) \in Seq(UserRows(src)) /\ products \in Seq(ProductRows(src))
  BY <1>1, GeneratedUsers, GeneratedProducts DEF ItemIds
<1>8. \E X : generate_popularity(products, draw) \in Seq(X)
  <2> DEFINE g == generate_popularity(products, draw)
             T == {g[k] : k \in DOMAIN products}
  <2> HIDE DEF products
  <2>1. g = [k \in DOMAIN products |-> g[k]]
    BY DEF generate_popularity
  <2>2. DOMAIN products = 1..Len(products) /\ Len(products) \in Nat
    BY <1>7
  <2> HIDE DEF g
  <2>3. DOMAIN g = 1..Len(products)
    BY <2>1, <2>2
  <2>4. g = [k \in 1..Len(products) |-> g[k]]
    BY <2>1, <2>2
  <2>5. \A k \in 1..Len(products) : g[k] \in T
    BY <2>2
  <2> HIDE DEF T
  <2>6. g \in Seq(T)
    BY <2>2, <2>3, <2>4, <2>5, ValuesInSequence
  <2> QED
    BY <2>6 DEF g
<1> HIDE DEF f, products
<1>9. TablesOf(f, src)
  BY <1>2, <1>3, <1>4, <1>5, <1>6, <1>7, <1>8 DEF TablesOf, f
<1> QED
  BY <1>1, <1>2, <1>9 DEF f

\* So are the raw frames.
LEMMA RawFramesTables ==
    ASSUME NEW src, NEW f, TablesOf(f, src)
    PROVE  TablesOf(RawFrames(f), src)
<1> DEFINE list == list_popularity(f["products"], f["popularity"])
           raw == RawFrames(f)
           incoming(d) == IF d = "popularity" THEN TableOf(list) ELSE f[d]
<1>1. raw = [d \in Datasets |-> AsRead(d, incoming(d))]
  BY DEF RawFrames
<1>2. TypedFiles(raw)
  BY RawFramesTyped DEF TablesOf
<1>3. \E X : list \in Seq(X)
  <2>1. PICK X : f["popularity"].rows \in Seq(X)
    BY DEF TablesOf
  <2> DEFINE rows == f["popularity"].rows
             D == DOMAIN rows
             n == Cardinality(D)
             T == {list[k] : k \in 1..n}
  <2>2. D = 1..Len(rows) /\ Len(rows) \in Int
    BY <2>1
  <2>3. n \in Nat
    <3> HIDE DEF rows, D
    <3>1. IsFiniteSet(D)
      BY <2>2, FS_Interval
    <3> QED
      BY <3>1, FS_CardinalityType
  <2>4. list = [k \in 1..n |-> list[k]]
    BY DEF list_popularity, InOrder
  <2> HIDE DEF list, n
  <2>5. DOMAIN list = 1..n /\ \A k \in 1..n : list[k] \in T
    BY <2>4
  <2> HIDE DEF T
  <2>6. list \in Seq(T)
    BY <2>3, <2>4, <2>5, ValuesInSequence
  <2> QED
    BY <2>6
<1>4. /\ TableOf(list).rows = list /\ TableOf(list).missing = {} /\ TableOf(list).extra = 0
      /\ DOMAIN TableOf(list) = Fields
  BY DEF TableOf, Fields
<1> HIDE DEF raw, list
<1>5. ASSUME NEW d \in Datasets
      PROVE  /\ raw[d].rows = incoming(d).rows
             /\ raw[d].missing \subseteq Columns(d) /\ raw[d].extra \in {0, 1}
  <2>1. /\ DOMAIN incoming(d) = Fields
        /\ incoming(d).missing \subseteq Columns(d) /\ incoming(d).extra \in {0, 1}
    BY <1>4 DEF TablesOf, TypedFiles
  <2>2. raw[d] = AsRead(d, incoming(d))
    BY <1>1
  <2> HIDE DEF incoming
  <2> QED
    BY <2>1, <2>2 DEF AsRead, Fields
<1>6. {"users", "products", "popularity"} \subseteq Datasets
  BY DEF Datasets
<1>7. raw["users"].rows \in Seq(UserRows(src)) /\ raw["products"].rows \in Seq(ProductRows(src))
  BY <1>5, <1>6 DEF TablesOf
<1>8. \E X : raw["popularity"].rows \in Seq(X)
  <2>1. raw["popularity"].rows = list
    BY <1>4, <1>5, <1>6
  <2> QED
    BY <1>3, <2>1
<1>9. TablesOf(raw, src)
  BY <1>2, <1>5, <1>7, <1>8 DEF TablesOf
<1> QED
  BY <1>9 DEF raw

-----------------------------------------------------------------------------
(***************************************************************************)
(* Which operator computed each result.                                    *)
(***************************************************************************)

\* The report is what the rules and the scores give for the files f.
ScoredFrom(rep, f) ==
    ReportsOn(rep, f) /\ rep.score = overall_quality_score(f, rep.results)

\* The feature tables are those computed from the prepared ones; a tie among
\* neighbours is any choice.
TablesFrom(prep, feat) ==
    LET events == select_feature_events(prep)
        items == {e.product_id : e \in events}
    IN  /\ feat.users = compute_user_features(events, prep.users)
        /\ feat.items = compute_item_features(events, prep.products)
        /\ feat.cooccurrence = compute_cooccurrence(events)
        /\ DOMAIN feat.similarity = items
        /\ \A i \in items : \E near \in SUBSET items :
              feat.similarity[i] =
                 RankedSimilar(events, prep.products, feat.cooccurrence, i, near)
        /\ ~Lacks(prep)

\* Lists and metrics are those of something the models may have learnt.
TrainedOn(prep, catalog, m) ==
    \E appeal \in Appeals :
        LET own == CollaborativeLists(prep.split.train, prep.split.test, appeal)
            content == ContentLists(prep.split.train, prep.split.test, catalog, appeal)
        IN  /\ ~TrainingRaises(prep.split.train, prep.split.test, catalog)
            /\ m.lists = [collaborative |-> own, content_based |-> content]
            /\ m.metrics = [collaborative |-> ranking_metrics(own, prep.split.test, catalog),
                            content_based |-> ranking_metrics(content, prep.split.test, catalog)]

\* Where the results of every phase came from.
ResultInv ==
    /\ defects \in 0..MaxDefects
    /\ (phase = "stopped") = (reason # "")
    /\ HasFiles =>
          origin.src \in Sources /\ Loadable(origin.src) /\ TablesOf(files, origin.src)
    /\ phase \in {"idle", "generated", "ingested"} => report = Nothing
    /\ report # Nothing \/ phase = "validated" => HasFiles /\ ScoredFrom(report, files)
    /\ HasFeatures => TablesFrom(prepared, features)
    /\ phase = "trained" => TrainedOn(prepared, DOMAIN features.items, models)

\* The invariant holds before anything was generated.
LEMMA ResultInit == Init => ResultInv
<1> SUFFICES ASSUME Init PROVE ResultInv
  OBVIOUS
<1>0. MaxDefects \in Nat
  BY FlowConfiguration
<1>1. defects = 0
  BY DEF Init
<1>2. phase = "idle" /\ reason = "" /\ report = Nothing
  BY DEF Init
<1>3. 0 \in 0..MaxDefects
  BY <1>0
<1>4. defects \in 0..MaxDefects
  BY <1>1, <1>3
<1> QED
  BY <1>2, <1>4 DEF ResultInv, HasFiles, GenerationErrors, HasFeatures

\* A batch that stops keeps what it has.
LEMMA StopResult ==
    ASSUME ResultInv, phase # "stopped", NEW why, Stop(why), why # "",
           why \in GenerationErrors <=> phase = "idle"
    PROVE  ResultInv'
<1>1. /\ phase' = "stopped" /\ reason' = why
      /\ origin' = origin /\ defects' = defects
      /\ files' = files /\ report' = report /\ prepared' = prepared /\ features' = features
  BY DEF Stop
<1>2. reason = ""
  BY DEF ResultInv
<1>3. HasFiles' => HasFiles
  BY <1>1, <1>2 DEF HasFiles, GenerationErrors
<1>4. report # Nothing => HasFiles'
  <2>1. report # Nothing => phase # "idle"
    BY DEF ResultInv
  <2> SUFFICES ASSUME report # Nothing PROVE HasFiles'
    OBVIOUS
  <2> QED
    BY <1>1, <1>2, <2>1 DEF HasFiles, GenerationErrors, ResultInv, Stop
<1> QED
  BY <1>1, <1>3, <1>4 DEF ResultInv, HasFeatures

\* Generation writes the tables of its source, or stops.
LEMMA GenerateResult ==
    ASSUME ResultInv, NEW src \in Sources, NEW draw \in Draws(src), Generate(src, draw)
    PROVE  ResultInv'
<1>1. CASE phase' = "generated"
  <2>1. /\ TablesOf(files', src) /\ origin'.src = src /\ Loadable(src) /\ phase = "idle"
        /\ UNCHANGED <<reason, defects, report, prepared, features, models>>
    BY <1>1, GeneratedTables
  <2>2. reason = "" /\ report = Nothing /\ defects \in 0..MaxDefects
    BY <2>1 DEF ResultInv
  <2> QED
    BY <1>1, <2>1, <2>2 DEF ResultInv, HasFiles, GenerationErrors, HasFeatures
<1>2. CASE phase' # "generated"
  <2>1. phase = "idle" /\ \E why \in GenerationErrors : Stop(why)
    BY <1>2 DEF Generate, GenerationErrors
  <2>2. PICK why \in GenerationErrors : Stop(why)
    BY <2>1
  <2>3. why # ""
    BY DEF GenerationErrors
  <2> QED
    BY <2>1, <2>2, <2>3, StopResult
<1> QED
  BY <1>1, <1>2

\* So does damage.
LEMMA DamageResult ==
    ASSUME ResultInv, NEW d \in Datasets, Damages(d)
    PROVE  ResultInv'
<1>1. phase = "generated"
  BY DEF Damages, SpoilCell, RepeatRow, LoseColumn, AddColumn, EmptyFile, BreakSyntax, MayDamage
<1>2. reason = "" /\ report = Nothing /\ defects \in 0..MaxDefects
  BY <1>1 DEF ResultInv
<1>3. origin.src \in Sources /\ Loadable(origin.src) /\ TablesOf(files, origin.src)
  BY <1>1, <1>2 DEF ResultInv, HasFiles, GenerationErrors
<1>4. /\ TablesOf(files', origin.src) /\ defects < MaxDefects /\ defects' = defects + 1
      /\ origin' = origin
      /\ UNCHANGED <<phase, reason, report, prepared, features, models>>
  BY <1>3, DamageKeepsTables
<1>5. defects' \in 0..MaxDefects
  <2>1. MaxDefects \in Nat
    BY FlowConfiguration
  <2>2. defects \in 0..MaxDefects /\ defects < MaxDefects /\ defects' = defects + 1
    BY <1>2, <1>4
  <2> QED
    BY <2>1, <2>2
<1>6. TablesOf(files', origin'.src)
  BY <1>4
<1> QED
  BY <1>1, <1>2, <1>3, <1>4, <1>5, <1>6 DEF ResultInv, HasFiles, GenerationErrors, HasFeatures

\* Ingestion stores tables, or stops.
LEMMA IngestResult ==
    ASSUME ResultInv, Ingest
    PROVE  ResultInv'
<1>1. phase = "generated"
  BY DEF Ingest
<1>2. reason = "" /\ report = Nothing /\ defects \in 0..MaxDefects
  BY <1>1 DEF ResultInv
<1>3. origin.src \in Sources /\ Loadable(origin.src) /\ TablesOf(files, origin.src)
  BY <1>1, <1>2 DEF ResultInv, HasFiles, GenerationErrors
<1>4. CASE ServiceRefuses(files["products"], files["popularity"])
  <2>1. Stop("popularity")
    BY <1>4 DEF Ingest
  <2> QED
    BY <1>1, <2>1, StopResult DEF GenerationErrors
<1>5. CASE ~ServiceRefuses(files["products"], files["popularity"])
  <2>1. /\ phase' = "ingested" /\ files' = RawFrames(files)
        /\ UNCHANGED <<reason, origin, defects, report, prepared, features, models>>
    BY <1>5 DEF Ingest
  <2>2. TablesOf(files', origin'.src)
    BY <1>3, <2>1, RawFramesTables
  <2> QED
    BY <1>2, <1>3, <2>1, <2>2 DEF ResultInv, HasFiles, GenerationErrors, HasFeatures
<1> QED
  BY <1>4, <1>5

\* Validation reports and scores the frames, or stops.
LEMMA ValidateResult ==
    ASSUME ResultInv, ValidateBatch
    PROVE  ResultInv'
<1>1. phase = "ingested"
  BY DEF ValidateBatch
<1>2. reason = "" /\ report = Nothing /\ defects \in 0..MaxDefects
  BY <1>1 DEF ResultInv
<1>3. HasFiles /\ origin.src \in Sources /\ Loadable(origin.src) /\ TablesOf(files, origin.src)
  BY <1>1, <1>2 DEF ResultInv, HasFiles, GenerationErrors
<1>4. CASE LookupRaises(files)
  <2>1. Stop("duplicate product")
    BY <1>4 DEF ValidateBatch
  <2> QED
    BY <1>1, <2>1, StopResult DEF GenerationErrors
<1>5. CASE ~LookupRaises(files)
  <2> DEFINE results == [d \in Datasets |-> validate(d, files, RatingUnit)]
             score == overall_quality_score(files, results)
             status == run_status(files, results)
  <2>1. /\ phase' = "validated"
        /\ report' = [results |-> results, status |-> status, score |-> score]
        /\ UNCHANGED <<reason, origin, defects, files, prepared, features, models>>
    BY <1>5 DEF ValidateBatch
  <2>2. report'.results = results /\ report'.status = status /\ report'.score = score
    <3> HIDE DEF results, score, status
    <3> QED
      BY <2>1
  <2>3. ScoredFrom(report', files')
    BY <2>1, <2>2 DEF ScoredFrom, ReportsOn
  <2> HIDE DEF results, score, status
  <2> QED
    BY <1>2, <1>3, <2>1, <2>3 DEF ResultInv, HasFiles, GenerationErrors, HasFeatures
<1> QED
  BY <1>4, <1>5

\* The gate and preparation change no result.
LEMMA GateResult ==
    ASSUME ResultInv, NEW strict, QualityGate(strict)
    PROVE  ResultInv'
<1>1. phase = "validated"
  BY DEF QualityGate
<1>2. CASE Stop("validation failed")
  BY <1>1, <1>2, StopResult DEF GenerationErrors
<1>3. CASE Stop("strict quality")
  BY <1>1, <1>3, StopResult DEF GenerationErrors
<1>4. CASE ~Stop("validation failed") /\ ~Stop("strict quality")
  <2>1. /\ phase' = "accepted"
        /\ UNCHANGED <<reason, origin, defects, files, report, prepared, features, models>>
    BY <1>4 DEF QualityGate
  <2> QED
    BY <1>1, <2>1 DEF ResultInv, HasFiles, GenerationErrors, HasFeatures
<1> QED
  BY <1>2, <1>3, <1>4

\* Preparation puts the operators' results in place, or changes no result.
LEMMA PrepareResult ==
    ASSUME ResultInv, Prepare
    PROVE  ResultInv'
<1>1. phase = "accepted"
  BY DEF Prepare
<1>2. CASE Stop("DatasetPreparationError")
  BY <1>1, <1>2, StopResult DEF GenerationErrors
<1>3. CASE Stop("DataSplitError")
  BY <1>1, <1>3, StopResult DEF GenerationErrors
<1>4. CASE ~Stop("DatasetPreparationError") /\ ~Stop("DataSplitError")
  <2>1. /\ phase' = "prepared"
        /\ UNCHANGED <<reason, origin, defects, files, report, features, models>>
    BY <1>4 DEF Prepare
  <2> QED
    BY <1>1, <2>1 DEF ResultInv, HasFiles, GenerationErrors, HasFeatures
<1> QED
  BY <1>2, <1>3, <1>4

\* Feature engineering computes its tables, or stops.
LEMMA EngineerResult ==
    ASSUME ResultInv, Engineer
    PROVE  ResultInv'
<1>1. phase = "prepared"
  BY DEF Engineer
<1> DEFINE events == select_feature_events(prepared)
<1>2. CASE Lacks(prepared)
  <2>1. Stop("KeyError")
    BY <1>2 DEF Engineer, Lacks
  <2> QED
    BY <1>1, <2>1, StopResult DEF GenerationErrors
<1>3. CASE ~Lacks(prepared)
  <2> DEFINE items == {e.product_id : e \in events}
             cooccurrence == compute_cooccurrence(events)
             u == compute_user_features(events, prepared.users)
             p == compute_item_features(events, prepared.products)
             up == compute_user_item_features(events, prepared.products)
             ranked(i, near) ==
                RankedSimilar(events, prepared.products, cooccurrence, i, near)
  <2>1. /\ phase' = "engineered"
        /\ UNCHANGED <<reason, origin, defects, files, report, prepared, models>>
        /\ \E near \in [items -> SUBSET items] :
             features' = [events |-> events, reference |-> Reference(events), users |-> u,
                          items |-> p, user_items |-> up, cooccurrence |-> cooccurrence,
                          similarity |-> [i \in items |-> ranked(i, near[i])]]
    BY <1>3 DEF Engineer, Lacks
  <2> HIDE DEF events, items, cooccurrence, u, p, up, ranked
  <2>2. PICK near \in [items -> SUBSET items] :
          features' = [events |-> events, reference |-> Reference(events), users |-> u,
                       items |-> p, user_items |-> up, cooccurrence |-> cooccurrence,
                       similarity |-> [i \in items |-> ranked(i, near[i])]]
    BY <2>1
  <2>3. /\ features'.users = u /\ features'.items = p /\ features'.cooccurrence = cooccurrence
        /\ DOMAIN features'.similarity = items
        /\ \A i \in items : features'.similarity[i] = ranked(i, near[i])
    BY <2>2
  <2>4. \A i \in items : near[i] \in SUBSET items
    BY <2>2
  <2>5. \A i \in items : \E n \in SUBSET items : features'.similarity[i] = ranked(i, n)
    BY <2>3, <2>4
  <2>6. TablesFrom(prepared, features')
    BY <1>3, <2>3, <2>5 DEF TablesFrom, events, items, cooccurrence, u, p, ranked
  <2> QED
    BY <1>1, <2>1, <2>6 DEF ResultInv, HasFiles, GenerationErrors, HasFeatures
<1> QED
  BY <1>2, <1>3

\* Training computes lists and metrics, or stops.
LEMMA TrainResult ==
    ASSUME ResultInv, NEW appeal \in Appeals, Train(appeal)
    PROVE  ResultInv'
<1>1. phase = "engineered"
  BY DEF Train
<1>2. CASE Stop("training")
  BY <1>1, <1>2, StopResult DEF GenerationErrors
<1>3. CASE ~Stop("training")
  <2> DEFINE train == prepared.split.train
             test == prepared.split.test
             own == CollaborativeLists(train, test, appeal)
             content == ContentLists(train, test, Catalog, appeal)
             first == ranking_metrics(own, test, Catalog)
             second == ranking_metrics(content, test, Catalog)
             winner == compare_models(first, second)
  <2>1. /\ phase' = "trained" /\ ~TrainingRaises(train, test, Catalog)
        /\ models' = [lists |-> [collaborative |-> own, content_based |-> content],
                      metrics |-> [collaborative |-> first, content_based |-> second],
                      winner |-> winner]
        /\ UNCHANGED <<reason, origin, defects, files, report, prepared, features>>
    BY <1>3 DEF Train
  <2> HIDE DEF own, content, first, second, winner
  <2>2. /\ models'.lists = [collaborative |-> own, content_based |-> content]
        /\ models'.metrics = [collaborative |-> first, content_based |-> second]
    BY <2>1
  <2>3. TrainedOn(prepared, DOMAIN features.items, models')
    BY <2>1, <2>2 DEF TrainedOn, own, content, first, second, Catalog
  <2> QED
    BY <1>1, <2>1, <2>3 DEF ResultInv, HasFiles, GenerationErrors, HasFeatures
<1> QED
  BY <1>2, <1>3

\* Every step keeps the invariant.
LEMMA ResultStep == ResultInv /\ [Next]_vars => ResultInv'
<1> SUFFICES ASSUME ResultInv, [Next]_vars PROVE ResultInv'
  OBVIOUS
<1>1. ASSUME NEW src \in Sources, Load(src) PROVE ResultInv'
  BY <1>1, StopResult DEF Load, GenerationErrors
<1>2. ASSUME NEW src \in Sources, NEW draw \in Draws(src), Generate(src, draw)
      PROVE  ResultInv'
  BY <1>2, GenerateResult
<1>3. ASSUME NEW d \in Datasets, Damages(d) PROVE ResultInv'
  BY <1>3, DamageResult
<1>4. ASSUME NEW strict \in StrictModes, QualityGate(strict) PROVE ResultInv'
  BY <1>4, GateResult
<1>5. ASSUME NEW appeal \in Appeals, Train(appeal) PROVE ResultInv'
  BY <1>5, TrainResult
<1>6. CASE UNCHANGED vars
  BY <1>6 DEF vars, ResultInv, HasFiles, GenerationErrors, HasFeatures
<1> QED
  BY <1>1, <1>2, <1>3, <1>4, <1>5, <1>6, IngestResult, ValidateResult, PrepareResult,
     EngineerResult DEF Next, Damages

\* Whatever was drawn and damaged, the tables are those of the source with
\* cells of their types, and every score, feature table, recommendation and
\* metric is what its stage computes from what the stages before it left.
THEOREM ResultInvariant == Spec => []ResultInv
BY ResultInit, ResultStep, PTL DEF Spec

-----------------------------------------------------------------------------
(***************************************************************************)
(* The rules of validation: what each of them counts.                      *)
(***************************************************************************)

RuleCategories ==
    {"Completeness", "Uniqueness", "Schema", "Range", "Format", "Business Rules",
     "Referential Integrity", "Consistency"}

\* A rule about the rows of a table: it counts the rows it names, and one about
\* completeness names the rows in which a required value is blank.
RuleOfRows(r, d, f) ==
    /\ r.failed \subseteq DOMAIN f.rows /\ r.count = Cardinality(r.failed)
    /\ r.severity \in {"ERROR", "WARNING"} /\ r.category \in RuleCategories \ {"Schema"}
    /\ r.category = "Completeness" /\ r.failed # {} =>
          \E c \in required_value_columns(d) \ f.missing :
             r.failed = {i \in DOMAIN f.rows : blank(f.rows[i][c])}
             
\* As a rule about one column is.
LEMMA ColumnRules ==
    ASSUME NEW d, NEW f, NEW c
    PROVE  /\ RuleOfRows(duplicate_rows(d, f), d, f)
           /\ RuleOfRows(business_key_unique(d, f), d, f)
           /\ RuleOfRows(positive_integer(f, c), d, f)
           /\ RuleOfRows(nonnegative_integer(f, c), d, f)
           /\ \A lo, hi : RuleOfRows(numeric_range(f, c, lo, hi), d, f)
           /\ \A unit : RuleOfRows(rating_with_unrated(f, unit), d, f)
           /\ \A labels : RuleOfRows(allowed(f, c, labels), d, f)
           /\ RuleOfRows(uuid(f, c), d, f)
           /\ \A r \in timestamp(f, c) : RuleOfRows(r, d, f)
           /\ \A e, g : RuleOfRows(foreign_key(e, f, c, "users", g), d, f)
           /\ \A e, g : RuleOfRows(foreign_key(e, f, c, "products", g), d, f)
<1>1. ASSUME NEW id, NEW category, NEW severity, NEW failed, 
             failed \subseteq DOMAIN f.rows, severity \in {"ERROR", "WARNING"},
             category \in RuleCategories \ {"Schema", "Completeness"}
      PROVE  RuleOfRows(Rule(id, category, severity, failed), d, f)
  BY <1>1 DEF RuleOfRows, Rule
<1>2. RuleOfRows(duplicate_rows(d, f), d, f)
  BY <1>1 DEF duplicate_rows, RuleCategories
<1>3. RuleOfRows(business_key_unique(d, f), d, f)
  BY <1>1 DEF business_key_unique, RuleCategories
<1>4. RuleOfRows(positive_integer(f, c), d, f)
  BY <1>1 DEF positive_integer, RuleCategories, Failing
<1>5. RuleOfRows(nonnegative_integer(f, c), d, f)
  BY <1>1 DEF nonnegative_integer, RuleCategories, Failing
<1>6. \A lo, hi : RuleOfRows(numeric_range(f, c, lo, hi), d, f)
  BY <1>1 DEF numeric_range, RuleCategories, Failing
<1>7. \A unit : RuleOfRows(rating_with_unrated(f, unit), d, f)
  BY <1>1 DEF rating_with_unrated, RuleCategories, Failing
<1>8. \A labels : RuleOfRows(allowed(f, c, labels), d, f)
  BY <1>1 DEF allowed, RuleCategories, Failing
<1>9. RuleOfRows(uuid(f, c), d, f)
  BY <1>1 DEF uuid, RuleCategories, Failing
<1>10. \A r \in timestamp(f, c) : RuleOfRows(r, d, f)
  <2> DEFINE misread == Failing(f, {c}, LAMBDA r : r[c] = Garbled)
             late == Failing(f, {c}, LAMBDA r : number(r[c]) /\ r[c] > Now + FutureTolerance)
  <2>1. timestamp(f, c) = {Rule(<<c, "FORMAT">>, "Format", "ERROR", misread),
                           Rule(<<c, "NOT_FUTURE">>, "Range", "ERROR", late)}
    BY DEF timestamp
  <2>2. misread \subseteq DOMAIN f.rows /\ late \subseteq DOMAIN f.rows
    BY DEF Failing
  <2> HIDE DEF misread, late
  <2> QED
    BY <1>1, <2>1, <2>2 DEF RuleCategories
<1>11. \A e, p, g : RuleOfRows(foreign_key(e, f, c, p, g), d, f)
  BY <1>1 DEF foreign_key, RuleCategories
<1> QED
  BY <1>2, <1>3, <1>4, <1>5, <1>6, <1>7, <1>8, <1>9, <1>10, <1>11

\* As every rule of a dataset is that is not about its schema.
LEMMA SpecificRules ==
    ASSUME NEW f, NEW users, NEW products, NEW clicks, NEW unit, NEW r
    PROVE  /\ r \in users_rules(f) => RuleOfRows(r, "users", f)
           /\ r \in products_rules(f, unit) => RuleOfRows(r, "products", f)
           /\ r \in clickstream_rules(f, users, products) => RuleOfRows(r, "clickstream", f)
           /\ r \in purchase_rules(f, users, products, clicks) =>
                RuleOfRows(r, "purchasehistory", f)
           /\ r \in popularity_rules(f, products, unit) => RuleOfRows(r, "popularity", f)
<1>1. ASSUME NEW d, NEW id, NEW category, NEW severity, NEW failed,
             failed \subseteq DOMAIN f.rows, severity \in {"ERROR", "WARNING"},
             category \in RuleCategories \ {"Schema", "Completeness"}
      PROVE  RuleOfRows(Rule(id, category, severity, failed), d, f)
  BY <1>1 DEF RuleOfRows, Rule
<1>2. ASSUME r \in users_rules(f)
      PROVE  RuleOfRows(r, "users", f)
  BY <1>2, ColumnRules DEF users_rules
<1>3. ASSUME r \in products_rules(f, unit)
      PROVE  RuleOfRows(r, "products", f)
  <2> DEFINE price == Rule(<<"PRICE_POSITIVE">>, "Range", "ERROR",
                           Failing(f, {"price"}, LAMBDA q : IF number(q.price) THEN q.price < 1
                                                            ELSE TRUE))
             Named(c) == Rule(<<c, "NOT_BLANK">>, "Completeness", "ERROR",
                              Failing(f, {c}, LAMBDA q : blank(q[c])))
  <2>1. \/ r \in {positive_integer(f, "product_id"), rating_with_unrated(f, unit),
                  nonnegative_integer(f, "total_ratings"), price}
        \/ r \in {Named(c) : c \in {"product_name", "category", "brand"}}
        \/ r \in timestamp(f, "release_date")
    BY <1>3 DEF products_rules
  <2>2. RuleOfRows(price, "products", f)
    BY <1>1 DEF Failing, RuleCategories
  <2>3. ASSUME NEW c \in {"product_name", "category", "brand"}
        PROVE  RuleOfRows(Named(c), "products", f)
    <3>1. c \in required_value_columns("products")
      BY DEF required_value_columns, Columns
    <3>2. Failing(f, {c}, LAMBDA q : blank(q[c])) =
             IF c \in f.missing THEN {} ELSE {i \in DOMAIN f.rows : blank(f.rows[i][c])}
      BY DEF Failing
    <3> QED
      BY <3>1, <3>2 DEF RuleOfRows, Rule, RuleCategories
  <2> HIDE DEF price, Named
  <2> QED
    BY <2>1, <2>2, <2>3, ColumnRules
<1>4. ASSUME r \in clickstream_rules(f, users, products)
      PROVE  RuleOfRows(r, "clickstream", f)
  <2>1. RuleOfRows(session_chronology(f), "clickstream", f)
    BY <1>1 DEF session_chronology, RuleCategories
  <2>2. RuleOfRows(session_sequence(f), "clickstream", f)
    BY <1>1 DEF session_sequence, RuleCategories
  <2> QED
    BY <1>4, <2>1, <2>2, ColumnRules DEF clickstream_rules
<1>5. ASSUME r \in purchase_rules(f, users, products, clicks)
      PROVE  RuleOfRows(r, "purchasehistory", f)
  <2> DEFINE amount == Rule(<<"AMOUNT_POSITIVE">>, "Range", "ERROR",
                            Failing(f, {"amount"}, LAMBDA q : IF number(q.amount) THEN q.amount < 1
                                                              ELSE TRUE))
             rating == Rule(<<"MINIMUM_RATING">>, "Business Rules", "ERROR",
                            Failing(f, {"rating"}, LAMBDA q : number(q.rating) /\ q.rating < 4))
  <2>1. RuleOfRows(amount, "purchasehistory", f) /\ RuleOfRows(rating, "purchasehistory", f)
    BY <1>1 DEF Failing, RuleCategories
  <2>2. RuleOfRows(amount_consistency(f, products), "purchasehistory", f)
    BY <1>1 DEF amount_consistency, Failing, RuleCategories
  <2>3. ASSUME r \in purchase_click_consistency(f, clicks)
        PROVE  RuleOfRows(r, "purchasehistory", f)
    <3> DEFINE skipped == {"user_id", "product_id", "timestamp"} \cap clicks.missing # {}
               columns == {"user_id", "product_id", "purchase_timestamp"}
               Latest(q) == Max({clicks.rows[j].timestamp : j \in MatchingClicks(f, clicks, q)})
               Early(q) == /\ MatchingClicks(f, clicks, q) # {} /\ number(q.purchase_timestamp)
                           /\ q.purchase_timestamp < Latest(q)
               early == IF skipped THEN {} ELSE Failing(f, columns, Early)
               lone == IF skipped THEN {}
                       ELSE Failing(f, columns, LAMBDA q : MatchingClicks(f, clicks, q) = {})
    <3>1. \/ r = Rule(<<"CLICK_CHRONOLOGY">>, "Consistency", "ERROR", early)
          \/ r = Rule(<<"CLICK_CORRELATION">>, "Consistency", "WARNING", lone)
      BY <2>3 DEF purchase_click_consistency
    <3>2. early \subseteq DOMAIN f.rows /\ lone \subseteq DOMAIN f.rows
      BY DEF Failing
    <3> HIDE DEF early, lone
    <3> QED
      BY <1>1, <3>1, <3>2 DEF RuleCategories
  <2>4. \/ r \in {uuid(f, "order_id"), positive_integer(f, "user_id"),
                  positive_integer(f, "product_id"), numeric_range(f, "quantity", 1, 100),
                  numeric_range(f, "rating", 1, 5), amount, rating,
                  foreign_key("purchasehistory", f, "user_id", "users", users),
                  foreign_key("purchasehistory", f, "product_id", "products", products),
                  amount_consistency(f, products)}
        \/ r \in timestamp(f, "purchase_timestamp")
        \/ r \in purchase_click_consistency(f, clicks)
    BY <1>5 DEF purchase_rules
  <2> HIDE DEF amount, rating
  <2> QED
    BY <2>1, <2>2, <2>3, <2>4, ColumnRules
<1>6. ASSUME r \in popularity_rules(f, products, unit)
      PROVE  RuleOfRows(r, "popularity", f)
  <2> DEFINE fresh == Rule(<<"FRESHNESS">>, "Range", "WARNING",
                           Failing(f, {"updated_at"},
                                   LAMBDA q : number(q.updated_at) /\ q.updated_at + MaxAge < Now))
  <2>1. RuleOfRows(fresh, "popularity", f)
    BY <1>1 DEF Failing, RuleCategories
  <2>2. RuleOfRows(product_statistics(f, products, unit), "popularity", f)
    BY <1>1 DEF product_statistics, Failing, RuleCategories
  <2>3. \/ r \in {positive_integer(f, "product_id"), rating_with_unrated(f, unit),
                  nonnegative_integer(f, "total_ratings"),
                  numeric_range(f, "popularity_score", 0, 10000),
                  allowed(f, "trend", {"UP", "DOWN"}), fresh,
                  foreign_key("popularity", f, "product_id", "products", products),
                  product_statistics(f, products, unit)}
        \/ r \in timestamp(f, "updated_at")
    BY <1>6 DEF popularity_rules
  <2> HIDE DEF fresh
  <2>4. CASE r \in timestamp(f, "updated_at")
    BY <2>4, ColumnRules
  <2>5. CASE r \in {fresh, product_statistics(f, products, unit)}
    BY <2>1, <2>2, <2>5
  <2>6. CASE r \in {positive_integer(f, "product_id"), rating_with_unrated(f, unit),
                    nonnegative_integer(f, "total_ratings"),
                    numeric_range(f, "popularity_score", 0, 10000),
                    allowed(f, "trend", {"UP", "DOWN"}),
                    foreign_key("popularity", f, "product_id", "products", products)}
    <3>1. /\ RuleOfRows(positive_integer(f, "product_id"), "popularity", f)
          /\ RuleOfRows(rating_with_unrated(f, unit), "popularity", f)
          /\ RuleOfRows(nonnegative_integer(f, "total_ratings"), "popularity", f)
      BY ColumnRules
    <3>2. RuleOfRows(numeric_range(f, "popularity_score", 0, 10000), "popularity", f)
      <4>1. \A hi : RuleOfRows(numeric_range(f, "popularity_score", 0, hi), "popularity", f)
        BY ColumnRules
      <4> QED
        BY <4>1
    <3>3. RuleOfRows(allowed(f, "trend", {"UP", "DOWN"}), "popularity", f)
      BY ColumnRules
    <3>4. RuleOfRows(foreign_key("popularity", f, "product_id", "products", products),
                     "popularity", f)
      BY ColumnRules
    <3> QED
      BY <2>6, <3>1, <3>2, <3>3, <3>4
  <2> QED
    BY <2>3, <2>4, <2>5, <2>6
<1> QED
  BY <1>2, <1>3, <1>4, <1>5, <1>6

\* So the rules of a dataset are rules about its rows, or the three about its
\* schema.
LEMMA RulesOfRows ==
    ASSUME NEW frames, NEW d \in Datasets, NEW unit, NEW r \in RulesOf(d, frames, unit)
    PROVE  \/ RuleOfRows(r, d, frames[d])
           \/ r \in {required_columns(d, frames[d]), unexpected_columns(frames[d]),
                     non_empty(frames[d])}
<1> DEFINE f == frames[d]
           schema == {required_columns(d, f), unexpected_columns(f), non_empty(f)}
<1>1. ASSUME r \in common_rules(d, f)
      PROVE  RuleOfRows(r, d, f) \/ r \in schema
  <2>1. \/ r \in schema
        \/ r \in {duplicate_rows(d, f), business_key_unique(d, f)}
        \/ r \in {required_value(d, f, c) : c \in required_value_columns(d)}
    BY <1>1 DEF common_rules
  <2>2. ASSUME NEW c \in required_value_columns(d)
        PROVE  RuleOfRows(required_value(d, f, c), d, f)
    <3> HIDE DEF f
    <3>1. Failing(f, {c}, LAMBDA q : blank(q[c])) =
             IF c \in f.missing THEN {} ELSE {i \in DOMAIN f.rows : blank(f.rows[i][c])}
      BY DEF Failing
    <3> QED
      BY <3>1 DEF required_value, RuleOfRows, Rule, RuleCategories
  <2> HIDE DEF schema, f
  <2> QED
    BY <2>1, <2>2, ColumnRules
<1>2. ASSUME r \notin common_rules(d, f)
      PROVE  RuleOfRows(r, d, f)
  <2>1. CASE d = "users"
    <3>1. r \in users_rules(f)
      BY <1>2, <2>1 DEF RulesOf
    <3> QED
      BY <2>1, <3>1, SpecificRules
  <2>2. CASE d = "products"
    <3>1. r \in products_rules(f, unit)
      BY <1>2, <2>2 DEF RulesOf
    <3> QED
      BY <2>2, <3>1, SpecificRules
  <2>3. CASE d = "clickstream"
    <3>1. r \in clickstream_rules(f, frames["users"], frames["products"])
      BY <1>2, <2>3 DEF RulesOf
    <3> QED
      BY <2>3, <3>1, SpecificRules
  <2>4. CASE d = "purchasehistory"
    <3>1. r \in purchase_rules(f, frames["users"], frames["products"], frames["clickstream"])
      BY <1>2, <2>4 DEF RulesOf
    <3> QED
      BY <2>4, <3>1, SpecificRules
  <2>5. CASE d = "popularity"
    <3>1. r \in popularity_rules(f, frames["products"], unit)
      BY <1>2, <2>5 DEF RulesOf
    <3> QED
      BY <2>5, <3>1, SpecificRules
  <2> QED
    BY <2>1, <2>2, <2>3, <2>4, <2>5 DEF Datasets
<1> QED
  BY <1>1, <1>2

\* A rule about n rows that counts what it names.
SoundRule(r, n) ==
    /\ r.failed \in SUBSET (1..n) /\ r.count \in Nat
    /\ r.count = 0 => r.failed = {}
    /\ r.category \in RuleCategories

\* What can be said of a table and its rows.
ReadTable(d, f) ==
    /\ f.rows \in Seq({f.rows[i] : i \in DOMAIN f.rows})
    /\ f.missing \subseteq Columns(d) /\ f.extra \in {0, 1}

\* As many numbers as there are, and a set written out, are finite.
LEMMA FirstNumbers ==
    ASSUME NEW n \in Int
    PROVE  IsFiniteSet(1..n) /\ (n >= 0 => Cardinality(1..n) = n)
BY FS_Interval

\* A set of eight listed elements is finite.
LEMMA SmallSets ==
    ASSUME NEW a, NEW b, NEW c, NEW d, NEW e, NEW f, NEW g, NEW h
    PROVE  IsFiniteSet({a, b, c, d, e, f, g, h})
<1>1. IsFiniteSet({a, b})
  <2>1. IsFiniteSet({a}) /\ {a, b} = {a} \cup {b}
    BY FS_Singleton
  <2> QED
    BY <2>1, FS_AddElement
<1>2. IsFiniteSet({a, b, c})
  <2>1. {a, b, c} = {a, b} \cup {c}
    OBVIOUS
  <2> QED
    BY <1>1, <2>1, FS_AddElement
<1>3. IsFiniteSet({a, b, c, d})
  <2>1. {a, b, c, d} = {a, b, c} \cup {d}
    OBVIOUS
  <2> QED
    BY <1>2, <2>1, FS_AddElement
<1>4. IsFiniteSet({e, f, g, h})
  <2>1. IsFiniteSet({e}) /\ {e, f} = {e} \cup {f} /\ {e, f, g} = {e, f} \cup {g}
    BY FS_Singleton
  <2>2. IsFiniteSet({e, f})
    BY <2>1, FS_AddElement
  <2>3. IsFiniteSet({e, f, g}) /\ {e, f, g, h} = {e, f, g} \cup {h}
    BY <2>1, <2>2, FS_AddElement
  <2> QED
    BY <2>3, FS_AddElement
<1>5. {a, b, c, d, e, f, g, h} = {a, b, c, d} \cup {e, f, g, h}
  OBVIOUS
<1> QED
  BY <1>3, <1>4, <1>5, FS_Union

\* The required columns of a dataset.
LEMMA RequiredColumns ==
    ASSUME NEW d \in Datasets
    PROVE  /\ IsFiniteSet(Columns(d)) /\ IsFiniteSet(required_value_columns(d))
           /\ required_value_columns(d) \subseteq Columns(d)
           /\ Cardinality(required_value_columns(d)) \in Nat
           /\ Cardinality(required_value_columns(d)) >= 2
<1>1. IsFiniteSet(Columns(d))
  <2>1. \E a, b, c, e, f, g, h, k : Columns(d) = {a, b, c, e, f, g, h, k}
    <3>1. CASE d = "users"
      <4>1. Columns(d) = {"user_id", "age", "gender", "occupation", "zipcode",
                          "registration_date", "customer_segment", "customer_segment"}
        BY <3>1 DEF Columns
      <4> QED
        BY <4>1, Zenon
    <3>2. CASE d = "products"
      <4>1. Columns(d) = {"product_id", "product_name", "category", "release_date",
                          "price", "brand", "average_rating", "total_ratings"}
        BY <3>2 DEF Columns
      <4> QED
        BY <4>1, Zenon
    <3>3. CASE d = "clickstream"
      <4>1. Columns(d) = {"event_id", "user_id", "product_id", "event_type",
                          "timestamp", "session_id", "session_id", "session_id"}
        BY <3>3 DEF Columns
      <4> QED
        BY <4>1, Zenon
    <3>4. CASE d = "purchasehistory"
      <4>1. Columns(d) = {"order_id", "user_id", "product_id", "quantity", "amount",
                          "rating", "purchase_timestamp", "purchase_timestamp"}
        BY <3>4 DEF Columns
      <4> QED
        BY <4>1, Zenon
    <3>5. CASE d = "popularity"
      <4>1. Columns(d) = {"product_id", "average_rating", "total_ratings",
                          "popularity_score", "trend", "updated_at", "updated_at", "updated_at"}
        BY <3>5 DEF Columns
      <4> QED
        BY <4>1, Zenon
    <3> QED
      BY <3>1, <3>2, <3>3, <3>4, <3>5 DEF Datasets
  <2>2. PICK a, b, c, e, f, g, h, k : Columns(d) = {a, b, c, e, f, g, h, k}
    BY <2>1
  <2>3. IsFiniteSet({a, b, c, e, f, g, h, k})
    BY SmallSets
  <2> QED
    BY <2>2, <2>3
<1>2. required_value_columns(d) \subseteq Columns(d)
  BY DEF required_value_columns
<1>3. \E a, b \in required_value_columns(d) : a # b
  <2>1. d = "users" => {"user_id", "age"} \subseteq required_value_columns(d)
    BY DEF required_value_columns, Columns
  <2>2. d = "purchasehistory" => {"user_id", "rating"} \subseteq required_value_columns(d)
    BY DEF required_value_columns, Columns
  <2>3. d = "products" => {"product_id", "price"} \subseteq required_value_columns(d)
    BY DEF required_value_columns, Columns
  <2>4. d = "clickstream" => {"user_id", "event_id"} \subseteq required_value_columns(d)
    BY DEF required_value_columns, Columns
  <2>5. d = "popularity" => {"product_id", "trend"} \subseteq required_value_columns(d)
    BY DEF required_value_columns, Columns
  <2> QED
    BY <2>1, <2>2, <2>3, <2>4, <2>5 DEF Datasets
<1>4. IsFiniteSet(required_value_columns(d))
  BY <1>1, <1>2, FS_Subset
<1>5. PICK a \in required_value_columns(d), b \in required_value_columns(d) : a # b
  BY <1>3
<1>6. IsFiniteSet({a}) /\ Cardinality({a}) = 1 /\ b \notin {a} /\ {a, b} = {a} \cup {b}
  BY <1>5, FS_Singleton
<1>7. Cardinality({a, b}) = 2
  <2>1. Cardinality({a} \cup {b}) = Cardinality({a}) + 1
    BY <1>6, FS_AddElement
  <2> QED
    BY <1>6, <2>1
<1>8. Cardinality({a, b}) <= Cardinality(required_value_columns(d))
  <2>1. {a, b} \subseteq required_value_columns(d)
    OBVIOUS
  <2> QED
    BY <1>4, <2>1, FS_Subset
<1>9. Cardinality(required_value_columns(d)) \in Nat
  BY <1>4, FS_CardinalityType
<1> QED
  BY <1>1, <1>2, <1>4, <1>7, <1>8, <1>9

\* Every rule of a dataset is sound, schema rules included.
LEMMA RulesAreSound ==
    ASSUME NEW frames, NEW d \in Datasets, NEW unit, ReadTable(d, frames[d]),
           NEW r \in RulesOf(d, frames, unit)
    PROVE  SoundRule(r, Len(frames[d].rows))
<1> DEFINE f == frames[d]
           n == Len(f.rows)
<1>1. n \in Int /\ DOMAIN f.rows = 1..n /\ (f.rows = <<>> => n = 0)
  BY DEF ReadTable
<1>2. CASE RuleOfRows(r, d, f)
  <2>1. IsFiniteSet(1..n)
    BY <1>1, FirstNumbers
  <2>2. r.failed \in SUBSET (1..n) /\ r.count = Cardinality(r.failed)
    BY <1>1, <1>2 DEF RuleOfRows
  <2>3. IsFiniteSet(r.failed)
    BY <2>1, <2>2, FS_Subset
  <2>4. r.count \in Nat /\ (r.count = 0 => r.failed = {})
    BY <2>2, <2>3, FS_CardinalityType, FS_EmptySet
  <2> QED
    BY <1>2, <2>2, <2>4 DEF SoundRule, RuleOfRows
<1>3. CASE r = required_columns(d, f)
  <2>1. IsFiniteSet(f.missing)
    BY RequiredColumns, FS_Subset DEF ReadTable
  <2>2. Cardinality(f.missing) \in Nat /\ (Cardinality(f.missing) = 0 => f.missing = {})
    BY <2>1, FS_CardinalityType, FS_EmptySet
  <2>3. /\ r.failed = IF f.missing = {} THEN {} ELSE DOMAIN f.rows
        /\ r.count = Cardinality(f.missing) /\ r.category = "Schema"
    BY <1>3 DEF required_columns, DatasetRule
  <2> HIDE DEF f, n
  <2>4. SoundRule(r, n)
    BY <1>1, <2>2, <2>3 DEF SoundRule, RuleCategories
  <2> QED
    BY <2>4 DEF n, f
<1>4. CASE r = unexpected_columns(f)
  <2>1. r.failed = {} /\ r.count = f.extra /\ r.category = "Schema"
    BY <1>4 DEF unexpected_columns, DatasetRule
  <2> QED
    BY <2>1 DEF SoundRule, RuleCategories, ReadTable
<1>5. CASE r = non_empty(f)
  <2>1. r.failed = {} /\ r.count \in {0, 1} /\ r.category = "Schema"
    BY <1>5 DEF non_empty, DatasetRule
  <2> QED
    BY <2>1 DEF SoundRule, RuleCategories
<1> QED
  BY <1>2, <1>3, <1>4, <1>5, RulesOfRows

\* The quarantined rows are rows of the file.
LEMMA QuarantinedRows ==
    ASSUME NEW frames, NEW d \in Datasets, NEW unit, ReadTable(d, frames[d])
    PROVE  Quarantined(RulesOf(d, frames, unit)) \in SUBSET (1..Len(frames[d].rows))
BY RulesAreSound DEF Quarantined, Errors, SoundRule

\* A category scores between nothing and all the rows: all of them when none of
\* its rules failed, and fewer when one did.
LEMMA CategoryScore ==
    ASSUME NEW n \in Nat, NEW rules, \A r \in rules : SoundRule(r, n), NEW categories
    PROVE  LET score == category_score(rules, categories, n)
               mine == {r \in Errors(rules) : r.category \in categories}
           IN  /\ score \in 0..n
               /\ (\A r \in mine : r.count = 0) => score = n
               /\ n > 0 /\ (\E r \in mine : r.count > 0) => score < n
<1> DEFINE mine == {r \in Errors(rules) : r.category \in categories}
           bad == UNION {r.failed : r \in mine}
           score == category_score(rules, categories, n)
           nameless == \E r \in mine : r.count > 0 /\ r.failed = {}
<1>1. \A r \in mine : SoundRule(r, n)
  BY DEF Errors
<1>2. score = IF nameless THEN 0 ELSE n - Cardinality(bad)
  BY DEF category_score
<1>3. /\ IsFiniteSet(bad) /\ Cardinality(bad) \in 0..n
      /\ bad # {} => Cardinality(bad) > 0
      /\ bad = {} => Cardinality(bad) = 0
  <2>1. IsFiniteSet(1..n) /\ Cardinality(1..n) = n
    BY FS_Interval
  <2>2. bad \subseteq 1..n
    BY <1>1 DEF SoundRule
  <2> HIDE DEF bad
  <2>3. IsFiniteSet(bad) /\ Cardinality(bad) <= Cardinality(1..n)
    BY <2>1, <2>2, FS_Subset
  <2>4. Cardinality(bad) \in Nat /\ (bad # {} => Cardinality(bad) # 0)
    BY <2>3, FS_CardinalityType, FS_EmptySet
  <2>5. bad = {} => Cardinality(bad) = 0
    BY FS_EmptySet
  <2> QED
    BY <2>1, <2>3, <2>4, <2>5
<1>4. ASSUME \A r \in mine : r.count = 0
      PROVE  ~nameless /\ bad = {}
  BY <1>1, <1>4 DEF SoundRule
<1>5. ASSUME NEW r \in mine, r.count > 0
      PROVE  nameless \/ bad # {}
  BY <1>5
<1> HIDE DEF mine, bad, score, nameless
<1>6. score \in 0..n
  BY <1>2, <1>3
<1>7. (\A r \in mine : r.count = 0) => score = n
  BY <1>2, <1>3, <1>4
<1>8. n > 0 /\ (\E r \in mine : r.count > 0) => score < n
  BY <1>2, <1>3, <1>5
<1> QED
  BY <1>6, <1>7, <1>8 DEF mine, score

-----------------------------------------------------------------------------
(***************************************************************************)
(* The score of a dataset: what is missing lowers it.                      *)
(***************************************************************************)

\* The score of a dataset without a flaw.
Flawless == 10000

\* The points of the four shares and the score they make, as the code computes it.
Points(n, c, filled, u, v, w) == 30 * filled + c * (20 * u + 30 * v + 20 * w)
Scored(n, c, points) == (200 * points + n * c) \div (2 * n * c)

\* The score of a dataset with c required columns and n rows, in which filled
\* cells have a value and u, v and w rows are unique, valid and consistent: no
\* more than 10000, that when nothing is missing, and less when anything is and
\* the cells are too few for the rounding to hide it.
LEMMA WeightedScore ==
    ASSUME NEW n \in Nat, n > 0, NEW c \in Nat, c >= 2, NEW filled \in 0..(n * c),
           NEW u \in 0..n, NEW v \in 0..n, NEW w \in 0..n
    PROVE  LET score == Scored(n, c, Points(n, c, filled, u, v, w))
           IN  /\ score \in 0..Flawless
               /\ filled = n * c /\ u = n /\ v = n /\ w = n => score = Flawless
               /\ n * c < HidingSize /\ (filled < n * c \/ u < n \/ v < n \/ w < n) =>
                     score < Flawless
<1> DEFINE m == n * c
           p == c * u
           q == c * v
           r == c * w
           weighted == 30 * filled + c * (20 * u + 30 * v + 20 * w)
           x == 200 * weighted + m
           y == 2 * n * c
           score == x \div y
<1>1. m \in Int /\ m > 0 /\ y = 2 * m /\ m = c * n
  <2>1. c * n > 0 /\ n * c = c * n
    OBVIOUS
  <2>2. 2 * n * c = 2 * (n * c)
    OBVIOUS
  <2> QED
    BY <2>1, <2>2
<1>2. ASSUME NEW k \in 0..n
      PROVE  /\ c * k \in Int /\ 0 <= c * k /\ c * k <= c * n
             /\ k < n => c * k + 2 <= c * n
  <2>1. c * n = c * k + c * (n - k)
    OBVIOUS
  <2>2. c * (n - k) >= 0 /\ c * k >= 0
    OBVIOUS
  <2>3. ASSUME k < n PROVE c * (n - k) >= 2
    <3>1. n - k >= 1
      BY <2>3
    <3>2. c * (n - k) = c + c * (n - k - 1) /\ c * (n - k - 1) >= 0
      BY <3>1
    <3> QED
      BY <3>2
  <2> QED
    BY <2>1, <2>2, <2>3
<1>3. /\ p \in Int /\ 0 <= p /\ p <= m /\ q \in Int /\ 0 <= q /\ q <= m
      /\ r \in Int /\ 0 <= r /\ r <= m
      /\ u < n => p + 2 <= m
      /\ v < n => q + 2 <= m
      /\ w < n => r + 2 <= m
  BY <1>1, <1>2
<1>4. weighted = 30 * filled + (20 * p + 30 * q + 20 * r)
  OBVIOUS
<1>5. filled \in Int /\ 0 <= filled /\ filled <= m
  BY <1>1
<1>6. u = n /\ v = n /\ w = n => p = m /\ q = m /\ r = m
  BY <1>1
<1>100. Scored(n, c, Points(n, c, filled, u, v, w)) = score
  BY DEF Scored, Points
<1>101. m = n * c
  OBVIOUS
<1> HIDE DEF m, p, q, r
<1>7. weighted \in Int /\ 0 <= weighted /\ weighted <= 100 * m
  BY <1>1, <1>3, <1>4, <1>5
<1>8. x \in Int /\ y \in Int /\ y > 0
  BY <1>1, <1>7
<1>9. ASSUME NEW hi \in Int
      PROVE  /\ x < y * (hi + 1) => score <= hi
             /\ hi * y <= x => hi <= score
  <2> HIDE DEF x, y
  <2> QED
    BY <1>8, QuotientAtMost
<1>10. score \in Int
  <2> HIDE DEF x, y
  <2> QED
    BY <1>8, Quotient
<1>11. x < y * 10001 /\ 0 * y <= x
  BY <1>1, <1>7
<1>12. 0 <= score
  BY <1>9, <1>11
<1>13. score <= 10000
  <2>1. x < y * (10000 + 1) => score <= 10000
    BY <1>9
  <2> HIDE DEF x, y, score
  <2> QED
    BY <1>11, <2>1
<1>14. filled = m /\ u = n /\ v = n /\ w = n => score = 10000
  <2> SUFFICES ASSUME filled = m, u = n, v = n, w = n PROVE score = 10000
    OBVIOUS
  <2>1. weighted = 100 * m
    BY <1>3, <1>4, <1>5, <1>6
  <2>2. 10000 * y <= x
    BY <1>1, <2>1
  <2>3. 10000 * y <= x => 10000 <= score
    BY <1>9
  <2> HIDE DEF x, y, score
  <2> QED
    BY <1>10, <1>13, <2>2, <2>3
<1>15. m < 6000 /\ (filled < m \/ u < n \/ v < n \/ w < n) => score < 10000
  <2> SUFFICES ASSUME m < 6000, filled < m \/ u < n \/ v < n \/ w < n PROVE score < 10000
    OBVIOUS
  <2>1. weighted <= 100 * m - 30
    BY <1>1, <1>3, <1>4, <1>5
  <2>2. x < y * 10000
    BY <1>1, <1>7, <2>1
  <2>3. x < y * (9999 + 1) => score <= 9999
    BY <1>9
  <2> HIDE DEF x, y, score
  <2> QED
    BY <1>10, <2>2, <2>3
<1> HIDE DEF score
<1>16. score \in 0..10000
  BY <1>10, <1>12, <1>13
<1> QED
  BY <1>14, <1>15, <1>16, <1>100, <1>101 DEF Flawless, HidingSize

\* The cells of a column in which a required value is missing.
EmptyCells(f, x) ==
    IF x \in f.missing THEN Len(f.rows)
    ELSE Cardinality({i \in DOMAIN f.rows : blank(f.rows[i][x])})

\* The filled cells are all of them when no ERROR rule fails, and fewer when a
\* rule about completeness does.
LEMMA FilledCells ==
    ASSUME NEW frames, NEW d \in Datasets, NEW unit, ReadTable(d, frames[d])
    PROVE  LET f == frames[d]
               columns == required_value_columns(d)
               n == Len(f.rows)
               empty == SumOf([x \in columns |-> EmptyCells(f, x)])
               errors == Errors(RulesOf(d, frames, unit))
           IN  /\ empty \in 0..(n * Cardinality(columns))
               /\ (\A r \in errors : r.count = 0) => empty = 0
               /\ (\E r \in errors : r.category = "Completeness" /\ r.count > 0) => empty > 0
<1> DEFINE f == frames[d]
           columns == required_value_columns(d)
           n == Len(f.rows)
           e == [x \in columns |-> EmptyCells(f, x)]
           rules == RulesOf(d, frames, unit)
<1>1. n \in Nat /\ DOMAIN f.rows = 1..n
  BY DEF ReadTable
<1>2. IsFiniteSet(columns) /\ DOMAIN e = columns
  BY RequiredColumns
<1>3. ASSUME NEW bad \in SUBSET (DOMAIN f.rows)
      PROVE  IsFiniteSet(bad) /\ Cardinality(bad) \in 0..n /\ (bad # {} => Cardinality(bad) > 0)
  <2>1. IsFiniteSet(1..n) /\ Cardinality(1..n) = n
    BY <1>1, FS_Interval
  <2> HIDE DEF n, f
  <2>2. IsFiniteSet(bad) /\ Cardinality(bad) <= Cardinality(1..n)
    BY <1>1, <2>1, FS_Subset
  <2>3. Cardinality(bad) \in Nat /\ (bad # {} => Cardinality(bad) # 0)
    BY <2>2, FS_CardinalityType, FS_EmptySet
  <2> QED
    BY <1>1, <2>1, <2>2, <2>3
<1>4. ASSUME NEW x \in columns
      PROVE  e[x] \in Int /\ 0 <= e[x] /\ e[x] <= n
  <2> DEFINE bad == {i \in DOMAIN f.rows : blank(f.rows[i][x])}
  <2>1. bad \in SUBSET (DOMAIN f.rows)
    OBVIOUS
  <2>2. e[x] = IF x \in f.missing THEN n ELSE Cardinality(bad)
    BY DEF EmptyCells
  <2> HIDE DEF bad, n, f, e
  <2>3. Cardinality(bad) \in 0..n
    BY <1>3, <2>1
  <2> QED
    BY <1>1, <2>2, <2>3
<1>5. SumOf(e) = Total(columns, e)
  <2> HIDE DEF e, columns
  <2> QED
    BY <1>2, SumIsTotal
<1>6. /\ Total(columns, e) \in Int
      /\ 0 * Cardinality(columns) <= Total(columns, e)
      /\ Total(columns, e) <= n * Cardinality(columns)
  <2> HIDE DEF e, columns, n
  <2>1. ASSUME NEW lo \in Int, NEW hi \in Int, 
               \A x \in columns : e[x] \in Int /\ lo <= e[x] /\ e[x] <= hi
        PROVE  /\ Total(columns, e) \in Int
               /\ lo * Cardinality(columns) <= Total(columns, e)
               /\ Total(columns, e) <= hi * Cardinality(columns)
    BY <1>2, <2>1, TotalBounded
  <2>2. 0 \in Int /\ n \in Int /\ \A x \in columns : e[x] \in Int /\ 0 <= e[x] /\ e[x] <= n
    BY <1>1, <1>4
  <2> QED
    BY <2>1, <2>2
<1>7. Cardinality(columns) \in Nat
  BY RequiredColumns
<1>8. SumOf(e) \in 0..(n * Cardinality(columns))
  <2> HIDE DEF e, columns, n
  <2>1. n * Cardinality(columns) \in Int
    BY <1>1, <1>7
  <2> QED
    BY <1>5, <1>6, <1>7, <2>1
<1>9. ASSUME \A r \in Errors(rules) : r.count = 0
      PROVE  SumOf(e) = 0
  <2>1. f.missing = {}
    <3>1. required_columns(d, f) \in Errors(rules)
      BY DEF Errors, RulesOf, common_rules, required_columns, DatasetRule
    <3>2. required_columns(d, f).count = Cardinality(f.missing)
      BY DEF required_columns, DatasetRule
    <3>3. IsFiniteSet(f.missing)
      BY RequiredColumns, FS_Subset DEF ReadTable
    <3>4. Cardinality(f.missing) = 0
      BY <1>9, <3>1, <3>2
    <3> QED
      BY <3>3, <3>4, FS_EmptySet
  <2>2. ASSUME NEW x \in columns
        PROVE  e[x] = 0
    <3> DEFINE bad == {i \in DOMAIN f.rows : blank(f.rows[i][x])}
    <3>1. required_value(d, f, x) \in Errors(rules)
      BY DEF Errors, RulesOf, common_rules, required_value, Rule
    <3>2. Failing(f, {x}, LAMBDA q : blank(q[x])) = bad
      BY <2>1 DEF Failing
    <3>3. required_value(d, f, x).count = Cardinality(bad)
      BY <3>2 DEF required_value, Rule
    <3>4. Cardinality(bad) = 0
      BY <1>9, <3>1, <3>3
    <3>5. e[x] = Cardinality(bad)
      BY <2>1 DEF EmptyCells
    <3> QED
      BY <3>4, <3>5
  <2> HIDE DEF e, columns, n
  <2>3. Total(columns, e) = 0 * Cardinality(columns)
    BY <1>2, <2>2, TotalConstant
  <2> QED
    BY <1>5, <1>7, <2>3
<1>10. ASSUME NEW r \in Errors(rules), r.category = "Completeness", r.count > 0
       PROVE  SumOf(e) > 0
  <2>1. r \in rules
    BY DEF Errors
  <2>2. RuleOfRows(r, d, f)
    <3>1. /\ required_columns(d, f).category = "Schema" /\ non_empty(f).category = "Schema"
          /\ unexpected_columns(f).category = "Schema"
      BY DEF required_columns, non_empty, unexpected_columns, DatasetRule
    <3> QED
      BY <1>10, <2>1, <3>1, RulesOfRows
  <2>3. r.failed # {}
    <3>1. Cardinality(r.failed) > 0
      BY <1>10, <2>2 DEF RuleOfRows
    <3> QED
      BY <3>1, FS_EmptySet
  <2>4. PICK x \in columns \ f.missing : r.failed = {i \in DOMAIN f.rows : blank(f.rows[i][x])}
    BY <1>10, <2>2, <2>3 DEF RuleOfRows
  <2>5. e[x] > 0
    <3>1. e[x] = Cardinality(r.failed)
      BY <2>4 DEF EmptyCells
    <3>2. r.failed \in SUBSET (DOMAIN f.rows)
      BY <2>2 DEF RuleOfRows
    <3> HIDE DEF e
    <3> QED
      BY <1>3, <2>3, <3>1, <3>2
  <2> HIDE DEF e, columns, n
  <2>6. Total(columns, e) = e[x] + Total(columns \ {x}, e) /\ Total(columns \ {x}, e) \in Int
    BY <1>2, <1>4, <2>4, TotalStep
  <2> DEFINE rest == columns \ {x}
  <2>7. IsFiniteSet(rest) /\ \A y \in rest : e[y] \in Int /\ 0 <= e[y] /\ e[y] <= n
    BY <1>2, <1>4, FS_Subset
  <2> HIDE DEF rest
  <2>8. 0 * Cardinality(rest) <= Total(rest, e) /\ Cardinality(rest) \in Nat
    <3>1. ASSUME NEW lo \in Int, NEW hi \in Int, 
                 \A y \in rest : e[y] \in Int /\ lo <= e[y] /\ e[y] <= hi
          PROVE  lo * Cardinality(rest) <= Total(rest, e)
      BY <2>7, <3>1, TotalBounded
    <3>2. 0 \in Int /\ n \in Int
      BY <1>1
    <3>3. 0 * Cardinality(rest) <= Total(rest, e)
      BY <2>7, <3>1, <3>2
    <3> QED
      BY <2>7, <3>3, FS_CardinalityType
  <2>9. 0 <= Total(columns \ {x}, e)
    BY <2>8 DEF rest
  <2>10. e[x] \in Int
    BY <1>4, <2>4
  <2> QED
    BY <1>5, <2>5, <2>6, <2>9, <2>10
<1> HIDE DEF rules
<1> QED
  BY <1>8, <1>9, <1>10 DEF rules

\* The score of a dataset that validation read: on the scale, 10000 when no
\* ERROR rule fails, and less when one does, unless the dataset is large.
LEMMA QualityScore ==
    ASSUME NEW frames, NEW d \in Datasets, NEW unit, ReadTable(d, frames[d])
    PROVE  LET f == frames[d]
               rules == RulesOf(d, frames, unit)
               score == calculate_quality_score(d, f, rules)
               failed == \E r \in Errors(rules) : r.count > 0
           IN  /\ score \in 0..Flawless
               /\ ~failed => score = Flawless
               /\ failed /\ Len(f.rows) * Cardinality(required_value_columns(d)) < HidingSize =>
                     score < Flawless
<1> DEFINE f == frames[d]
           rules == RulesOf(d, frames, unit)
           score == calculate_quality_score(d, f, rules)
           failed == \E r \in Errors(rules) : r.count > 0
           columns == required_value_columns(d)
           n == Len(f.rows)
           c == Cardinality(columns)
           empty == SumOf([x \in columns |-> EmptyCells(f, x)])
           filled == n * c - empty
           A == {"Uniqueness"}
           B == {"Schema", "Range", "Format", "Business Rules"}
           C == {"Referential Integrity", "Consistency"}
           u == category_score(rules, A, n)
           v == category_score(rules, B, n)
           w == category_score(rules, C, n)
<1>0. Flawless \in Nat /\ 0 \in 0..Flawless /\ 0 < Flawless
  BY DEF Flawless
<1>1. n \in Nat /\ c \in Nat /\ c >= 2 /\ (n = 0 => f.rows = <<>>)
  BY RequiredColumns DEF ReadTable
<1>2. score = IF n = 0 THEN 0 ELSE Scored(n, c, Points(n, c, filled, u, v, w))
  BY DEF calculate_quality_score, Scored, Points, EmptyCells
<1>3. \A r \in rules : SoundRule(r, n)
  BY RulesAreSound
<1>4. /\ empty \in 0..(n * c)
      /\ (\A r \in Errors(rules) : r.count = 0) => empty = 0
      /\ (\E r \in Errors(rules) : r.category = "Completeness" /\ r.count > 0) => empty > 0
  BY FilledCells
<1>5. n = 0 => failed
  <2> SUFFICES ASSUME n = 0 PROVE failed
    OBVIOUS
  <2>1. non_empty(f) \in Errors(rules)
    BY DEF Errors, RulesOf, common_rules, non_empty, DatasetRule
  <2>2. non_empty(f).count = 1
    BY <1>1 DEF non_empty, DatasetRule
  <2> QED
    BY <2>1, <2>2
<1> HIDE DEF f, score, columns, n, c, empty, rules
<1>6. ASSUME NEW X
      PROVE  /\ category_score(rules, X, n) \in 0..n
             /\ (\A r \in Errors(rules) : r.count = 0) => category_score(rules, X, n) = n
             /\ (n > 0 /\ \E r \in Errors(rules) : r.category \in X /\ r.count > 0) =>
                   category_score(rules, X, n) < n
  <2> DEFINE mine == {r \in Errors(rules) : r.category \in X}
             s == category_score(rules, X, n)
  <2>1. /\ s \in 0..n
        /\ (\A r \in mine : r.count = 0) => s = n
        /\ n > 0 /\ (\E r \in mine : r.count > 0) => s < n
    BY <1>1, <1>3, CategoryScore
  <2> QED
    BY <2>1
<1> HIDE DEF A, B, C
<1>7. u \in 0..n /\ v \in 0..n /\ w \in 0..n
  BY <1>6
<1>8. ASSUME \A r \in Errors(rules) : r.count = 0
      PROVE  empty = 0 /\ u = n /\ v = n /\ w = n
  BY <1>4, <1>6, <1>8
<1>9. ASSUME n > 0, failed
      PROVE  empty > 0 \/ u < n \/ v < n \/ w < n
  <2>1. PICK r \in Errors(rules) : r.count > 0
    BY <1>9
  <2>2. r.category \in RuleCategories
    BY <1>3 DEF Errors, SoundRule
  <2>3. r.category = "Completeness" \/ r.category \in A \/ r.category \in B \/ r.category \in C
    BY <2>2 DEF RuleCategories, A, B, C
  <2> QED
    BY <1>4, <1>6, <1>9, <2>1, <2>3
<1> HIDE DEF u, v, w
<1>10. ASSUME n > 0
       PROVE  LET s == Scored(n, c, Points(n, c, filled, u, v, w))
              IN  /\ s \in 0..Flawless
                  /\ filled = n * c /\ u = n /\ v = n /\ w = n => s = Flawless
                  /\ n * c < HidingSize /\ (filled < n * c \/ u < n \/ v < n \/ w < n)
                        => s < Flawless
  <2>1. filled \in 0..(n * c)
    <3>1. n * c \in Int
      BY <1>1
    <3> QED
      BY <1>4, <3>1
  <2> HIDE DEF filled, c, n
  <2> QED
    BY <1>1, <1>7, <1>10, <2>1, WeightedScore
<1>11. \A r \in Errors(rules) : r.count \in Nat
  BY <1>3 DEF Errors, SoundRule
<1>12. ~failed => n > 0 /\ \A r \in Errors(rules) : r.count = 0
  <2> HIDE DEF failed
  <2>1. ~failed => n # 0
    BY <1>5
  <2>2. ~failed => \A r \in Errors(rules) : r.count = 0
    BY <1>11 DEF failed
  <2> QED
    BY <1>1, <2>1, <2>2
<1>13. n * c \in Int /\ empty \in Int
  <2>1. n * c \in Int
    BY <1>1
  <2> QED
    BY <1>4, <2>1
<1> DEFINE total == n * c
<1>14. empty = 0 => filled = total
  BY <1>13
<1>15. empty > 0 => filled < total
  BY <1>13
<1> DEFINE s == Scored(n, c, Points(n, c, filled, u, v, w))
<1>16. /\ n > 0 => s \in 0..Flawless
       /\ n > 0 /\ filled = total /\ u = n /\ v = n /\ w = n => s = Flawless
       /\ n > 0 /\ total < HidingSize /\ (filled < total \/ u < n \/ v < n \/ w < n) => s < Flawless
  BY <1>10
<1> HIDE DEF failed, filled, s, total
<1>17. score = IF n = 0 THEN 0 ELSE s
  BY <1>2 DEF s
<1>18. score \in 0..Flawless
  BY <1>0, <1>1, <1>16, <1>17
<1>19. ~failed => score = Flawless
  BY <1>1, <1>8, <1>12, <1>14, <1>16, <1>17
<1>20. failed /\ total < HidingSize => score < Flawless
  BY <1>0, <1>1, <1>9, <1>15, <1>16, <1>17
<1> QED
  BY <1>18, <1>19, <1>20 DEF score, failed, total, n, c, f, rules, columns

-----------------------------------------------------------------------------
(***************************************************************************)
(* The report, and the types of every artifact.                            *)
(***************************************************************************)

\* Tables of a source can be read.
LEMMA TablesRead ==
    ASSUME NEW src, NEW f, TablesOf(f, src), NEW d \in Datasets
    PROVE  ReadTable(d, f[d])
<1>1. ASSUME NEW T, NEW rows \in Seq(T)
      PROVE  rows \in Seq({rows[i] : i \in DOMAIN rows})
  OBVIOUS
<1>2. PICK T : f[d].rows \in Seq(T)
  BY DEF TablesOf, TypedFiles, EventData, Datasets
<1>3. f[d].rows \in Seq({f[d].rows[i] : i \in DOMAIN f[d].rows})
  <2> DEFINE rows == f[d].rows
  <2> HIDE DEF rows
  <2>1. rows \in Seq({rows[i] : i \in DOMAIN rows})
    BY <1>1, <1>2 DEF rows
  <2> QED
    BY <2>1 DEF rows
<1> QED
  BY <1>3 DEF TablesOf, ReadTable

\* The mean of scores on the scale, weighted by numbers of rows, is on the scale.
LEMMA MeanOnTheScale ==
    ASSUME NEW n \in Nat, n > 0, NEW points \in Nat, points <= Flawless * n
    PROVE  (2 * points + n) \div (2 * n) \in 0..Flawless
<1> DEFINE x == 2 * points + n
           y == 2 * n
<1>1. x \in Int /\ y \in Int /\ y > 0
  OBVIOUS
<1>2. x < y * (Flawless + 1) /\ 0 * y <= x /\ Flawless \in Int
  BY DEF Flawless
<1> HIDE DEF x, y
<1>3. x \div y \in Int
  BY <1>1, Quotient
<1>4. x \div y <= Flawless
  BY <1>1, <1>2, QuotientAtMost
<1>5. 0 <= x \div y
  BY <1>1, <1>2, QuotientAtMost
<1>6. x \div y \in 0..Flawless
  BY <1>2, <1>3, <1>4, <1>5
<1> QED
  BY <1>6 DEF x, y

\* The datasets are five; the lemma on small sets lists eight elements.
LEMMA DatasetsFinite == IsFiniteSet(Datasets)
<1>1. Datasets = {"users", "products", "clickstream", "purchasehistory", "popularity",
                  "popularity", "popularity", "popularity"}
  BY DEF Datasets
<1>2. \E a, b, c, d, e, f, g, h : Datasets = {a, b, c, d, e, f, g, h}
  BY <1>1, Zenon
<1>3. PICK a, b, c, d, e, f, g, h : Datasets = {a, b, c, d, e, f, g, h}
  BY <1>2
<1>4. IsFiniteSet({a, b, c, d, e, f, g, h})
  BY SmallSets
<1> QED
  BY <1>3, <1>4

\* The score of a batch without a fault is a number of points.
LEMMA PointsAreNatural == Flawless \in Nat /\ 0 \in Nat /\ 0 \in 0..Flawless
BY DEF Flawless

\* So is the score of the batch.
LEMMA OverallScore ==
    ASSUME NEW frames, NEW results,
           \A d \in Datasets : Len(frames[d].rows) \in Nat /\ results[d].score \in 0..Flawless
    PROVE  overall_quality_score(frames, results) \in 0..Flawless
<1> DEFINE l == [d \in Datasets |-> Len(frames[d].rows)]
           p == [d \in Datasets |-> results[d].score * Len(frames[d].rows)]
           h == [d \in Datasets |-> Flawless * Len(frames[d].rows)]
           z == [d \in Datasets |-> 0]
           n == SumOf(l)
           points == SumOf(p)
<1>1. overall_quality_score(frames, results) =
         IF n = 0 THEN 0 ELSE (2 * points + n) \div (2 * n)
  BY DEF overall_quality_score
<1>2. DOMAIN l = Datasets /\ DOMAIN p = Datasets /\ IsFiniteSet(Datasets)
  BY DatasetsFinite
<1>3. Flawless \in Nat /\ 0 \in Nat /\ 0 \in 0..Flawless
  BY PointsAreNatural
<1>4. ASSUME NEW d \in Datasets
      PROVE  /\ l[d] \in Nat /\ p[d] \in Nat /\ h[d] \in Int /\ h[d] = Flawless * l[d]
             /\ p[d] <= h[d] /\ z[d] = 0
  <2> DEFINE a == results[d].score
             b == Len(frames[d].rows)
  <2>1. a \in 0..Flawless /\ b \in Nat
    OBVIOUS
  <2>2. l[d] = b /\ p[d] = a * b /\ h[d] = Flawless * b /\ z[d] = 0
    OBVIOUS
  <2> HIDE DEF a, b
  <2>3. a * b \in Nat /\ Flawless * b \in Int /\ a * b <= Flawless * b
    <3>1. a \in Nat /\ a <= Flawless /\ Flawless - a \in Nat
      BY <1>3, <2>1
    <3>2. (Flawless - a) * b \in Nat /\ Flawless * b = a * b + (Flawless - a) * b
      BY <1>3, <2>1, <3>1
    <3> QED
      BY <1>3, <2>1, <3>1, <3>2
  <2> HIDE DEF l, p, h, z
  <2> QED
    BY <2>1, <2>2, <2>3
<1> HIDE DEF l, p, h, z
<1>5. n = Total(Datasets, l)
  BY <1>2, SumIsTotal
<1>6. points = Total(Datasets, p)
  BY <1>2, SumIsTotal
<1>7. Total(Datasets, p) <= Total(Datasets, h)
  BY <1>2, <1>4, TotalMonotone
<1>8. Total(Datasets, h) = Flawless * Total(Datasets, l)
  BY <1>2, <1>3, <1>4, TotalScaled
<1>9. Total(Datasets, l) \in Nat
  <2>1. Datasets \in SUBSET Datasets
    OBVIOUS
  <2> QED
    BY <1>2, <1>4, <2>1, TotalOfPart
<1>10. Total(Datasets, p) \in Nat
  <2>1. Datasets \in SUBSET Datasets
    OBVIOUS
  <2> QED
    BY <1>2, <1>4, <2>1, TotalOfPart
<1> HIDE DEF n, points
<1>11. n \in Nat /\ points \in Nat /\ points <= Flawless * n
  BY <1>5, <1>6, <1>7, <1>8, <1>9, <1>10
<1>12. n > 0 => (2 * points + n) \div (2 * n) \in 0..Flawless
  BY <1>11, MeanOnTheScale
<1> QED
  BY <1>1, <1>3, <1>11, <1>12

\* What validation says of a dataset.
LEMMA ReportedResult ==
    ASSUME ResultInv, report # Nothing \/ phase = "validated", NEW d \in Datasets
    PROVE  LET r == report.results[d]
               cells == Len(files[d].rows) * Cardinality(required_value_columns(d))
           IN  /\ r.score \in 0..Flawless
               /\ ~r.failed => r.score = Flawless
               /\ r.failed /\ cells < HidingSize => r.score < Flawless
               /\ r.invalid \subseteq DOMAIN files[d].rows
               /\ Len(files[d].rows) \in Nat
<1> DEFINE f == files[d]
           rules == RulesOf(d, files, RatingUnit)
           r == report.results[d]
<1>1. HasFiles /\ TablesOf(files, origin.src) /\ ScoredFrom(report, files)
  BY DEF ResultInv
<1>2. ReadTable(d, f)
  BY <1>1, TablesRead
<1>3. Len(f.rows) \in Nat /\ DOMAIN f.rows = 1..Len(f.rows)
  BY <1>2 DEF ReadTable
<1>4. r = validate(d, files, RatingUnit)
  BY <1>1 DEF ScoredFrom, ReportsOn
<1>5. /\ r.score = calculate_quality_score(d, f, rules) /\ r.invalid = Quarantined(rules)
      /\ r.failed = (\E q \in Errors(rules) : q.count > 0)
  BY <1>4 DEF validate
<1>6. Quarantined(rules) \in SUBSET (1..Len(f.rows))
  BY <1>2, QuarantinedRows
<1> DEFINE score == calculate_quality_score(d, f, rules)
           failed == \E q \in Errors(rules) : q.count > 0
           cells == Len(f.rows) * Cardinality(required_value_columns(d))
<1>7. /\ score \in 0..Flawless /\ (~failed => score = Flawless)
      /\ failed /\ cells < HidingSize => score < Flawless
  BY <1>2, QualityScore
<1> HIDE DEF r, f, rules, score, failed
<1>8. r.score = score /\ r.failed = failed /\ r.invalid \subseteq DOMAIN f.rows
  BY <1>3, <1>5, <1>6 DEF score, failed
<1> QED
  BY <1>3, <1>7, <1>8 DEF r, f

\* Every phase holds the artifacts of the stages before it, and a report gives
\* each dataset a status and scores on the scale.
THEOREM ArtifactsAreTyped == Spec => []TypeOK
<1>1. ASSUME FlowInv, ResultInv
      PROVE  TypeOK
  <2>1. phase \in Phases /\ (phase = "stopped") = (reason # "") /\ defects \in 0..MaxDefects
    BY <1>1 DEF FlowInv, ResultInv
  <2>2. ASSUME phase \in {"generated", "ingested"}, NEW d \in Datasets
        PROVE  files[d].missing \subseteq Columns(d)
    <3>1. HasFiles
      BY <2>1, <2>2 DEF HasFiles, GenerationErrors
    <3> QED
      BY <1>1, <3>1 DEF ResultInv, TablesOf
  <2>3. ASSUME report # Nothing
        PROVE  /\ report.status \in STATUSES /\ report.score \in 0..Flawless
               /\ \A d \in Datasets : /\ report.results[d].score \in 0..Flawless
                                      /\ report.results[d].invalid \subseteq DOMAIN files[d].rows
    <3>1. ScoredFrom(report, files)
      BY <1>1, <2>3 DEF ResultInv
    <3>2. report.status \in STATUSES
      BY <3>1 DEF ScoredFrom, ReportsOn, run_status, STATUSES
    <3>3. ASSUME NEW d \in Datasets
          PROVE  /\ report.results[d].score \in 0..Flawless
                 /\ report.results[d].invalid \subseteq DOMAIN files[d].rows
                 /\ Len(files[d].rows) \in Nat
      BY <1>1, <2>3, ReportedResult
    <3>4. report.score \in 0..Flawless
      <4>1. overall_quality_score(files, report.results) \in 0..Flawless
        BY <3>3, OverallScore
      <4> QED
        BY <3>1, <4>1 DEF ScoredFrom
    <3> QED
      BY <3>2, <3>3, <3>4
  <2> DEFINE Scores(top) ==
                report # Nothing =>
                   /\ report.status \in STATUSES /\ report.score \in 0..top
                   /\ \A d \in Datasets :
                         /\ report.results[d].score \in 0..top
                         /\ report.results[d].invalid \subseteq DOMAIN files[d].rows
  <2>4. Scores(Flawless)
    BY <2>3
  <2> HIDE DEF Scores
  <2> DEFINE Reported == Scores(10000)
  <2>5. Reported
    BY <2>4 DEF Flawless
  <2> DEFINE Files == phase \in {"generated", "ingested"} =>
                         \A d \in Datasets : files[d].missing \subseteq Columns(d)
  <2>6. Files
    BY <2>2
  <2> HIDE DEF Files
  <2>7. /\ phase \in {"idle", "generated", "ingested", "validated", "accepted", "prepared",
                     "engineered", "trained", "stopped"}
        /\ (phase = "stopped") = (reason # "") /\ defects \in 0..MaxDefects
    BY <2>1 DEF Phases
  <2>8. TypeOK <=> /\ phase \in {"idle", "generated", "ingested", "validated", "accepted",
                                 "prepared", "engineered", "trained", "stopped"}
                   /\ (phase = "stopped") = (reason # "") /\ defects \in 0..MaxDefects
                   /\ Files /\ Reported
    BY DEF TypeOK, Files, Scores
  <2> HIDE DEF Reported
  <2> QED
    BY <2>5, <2>6, <2>7, <2>8
<1> QED
  BY <1>1, FlowInvariant, ResultInvariant, PTL

\* For every batch, however damaged, the score of a dataset is 10000 exactly
\* when no ERROR rule failed: its categories leave no rule out, and each takes
\* enough off the score to show.  Only a table of 6000 required cells or more
\* rounds a failure away.
THEOREM ScoresShowTheVerdict == Spec => []ScoreAgreesWithVerdict
<1>1. ASSUME FlowInv, ResultInv
      PROVE  ScoreAgreesWithVerdict
  <2> SUFFICES ASSUME phase = "validated", NEW d \in Datasets
               PROVE  LET cells == Len(files[d].rows) * Cardinality(required_value_columns(d))
                          flawless == report.results[d].score = 10000
                      IN  /\ ~report.results[d].failed => flawless
                          /\ report.results[d].failed /\ cells < HidingSize => ~flawless
    BY DEF ScoreAgreesWithVerdict
  <2>2. /\ report.results[d].score \in 0..Flawless
        /\ ~report.results[d].failed => report.results[d].score = Flawless
        /\ report.results[d].failed
             /\ Len(files[d].rows) * Cardinality(required_value_columns(d)) < HidingSize =>
                 report.results[d].score < Flawless
    BY <1>1, ReportedResult
  <2> DEFINE Agrees(top) ==
                LET cells == Len(files[d].rows) * Cardinality(required_value_columns(d))
                    flawless == report.results[d].score = top
                IN  /\ ~report.results[d].failed => flawless
                    /\ report.results[d].failed /\ cells < HidingSize => ~flawless
  <2>3. Agrees(Flawless)
    <3>1. Flawless \in Int
      BY DEF Flawless
    <3> QED
      BY <2>2, <3>1
  <2> HIDE DEF Agrees
  <2>4. Agrees(10000)
    BY <2>3 DEF Flawless
  <2> QED
    BY <2>4 DEF Agrees
<1> QED
  BY <1>1, FlowInvariant, ResultInvariant, PTL
=============================================================================
