--------------------------- MODULE DataFlowProofs ---------------------------
(***************************************************************************)
(* What the rows of a batch keep on their way to the models.  InOrder, by  *)
(* which the model sorts, lists a finite set in any strict total order on  *)
(* it: the ranks of its elements are the numbers below its size.  So a     *)
(* split by places is a split by time, once the interactions have times    *)
(* and identifiers of their own.  That they do is carried from the         *)
(* generator through any damage to the files, by the types of their cells, *)
(* and from the rules by which validation keeps a row.                     *)
(***************************************************************************)
EXTENDS DataFlow, FiniteSetTheorems, TLAPS

-----------------------------------------------------------------------------
(***************************************************************************)
(* Ordering a finite set.                                                  *)
(***************************************************************************)

\* R is a strict total order on S.
StrictOrder(S, R) ==
    /\ \A x \in S : <<x, x>> \notin R
    /\ \A x, y, z \in S : <<x, y>> \in R /\ <<y, z>> \in R => <<x, z>> \in R
    /\ \A x, y \in S : x = y \/ <<x, y>> \in R \/ <<y, x>> \in R

Below(S, R, x) == {y \in S : <<y, x>> \in R}
Rank(S, R, x) == Cardinality(Below(S, R, x))

\* The elements of S in the order R, as InOrder lists them.
Lists(o, S, R) ==
    /\ DOMAIN o = 1..Cardinality(S)
    /\ \A k \in 1..Cardinality(S) : o[k] \in S /\ Rank(S, R, o[k]) = k - 1

\* The rank of an element is a number below the size of the set.
LEMMA RankBounded ==
    ASSUME NEW S, NEW R, IsFiniteSet(S), StrictOrder(S, R), NEW x \in S
    PROVE  Cardinality(S) \in Nat /\ Rank(S, R, x) \in 0..(Cardinality(S) - 1)
<1>1. Below(S, R, x) \in SUBSET S /\ Below(S, R, x) # S
  BY DEF Below, StrictOrder
<1>2. /\ Cardinality(S) \in Nat
      /\ IsFiniteSet(Below(S, R, x))
      /\ Cardinality(Below(S, R, x)) <= Cardinality(S)
      /\ Cardinality(Below(S, R, x)) # Cardinality(S)
  BY <1>1, FS_Subset, FS_CardinalityType
<1>3. Cardinality(Below(S, R, x)) \in Nat
  BY <1>2, FS_CardinalityType
<1> QED
  BY <1>2, <1>3 DEF Rank

\* A later element has a higher rank.
LEMMA RankGrows ==
    ASSUME NEW S, NEW R, IsFiniteSet(S), StrictOrder(S, R),
           NEW x \in S, NEW y \in S, <<x, y>> \in R
    PROVE  Rank(S, R, x) < Rank(S, R, y)
<1>1. /\ Below(S, R, y) \in SUBSET S
      /\ Below(S, R, x) \in SUBSET Below(S, R, y)
  BY DEF Below, StrictOrder
<1>2. x \in Below(S, R, y) /\ x \notin Below(S, R, x)
  BY DEF Below, StrictOrder
<1>3. IsFiniteSet(Below(S, R, y))
  BY <1>1, FS_Subset
<1>4. /\ IsFiniteSet(Below(S, R, x))
      /\ Cardinality(Below(S, R, x)) <= Cardinality(Below(S, R, y))
      /\ Cardinality(Below(S, R, x)) # Cardinality(Below(S, R, y))
  BY <1>1, <1>2, <1>3, FS_Subset
<1>5. /\ Cardinality(Below(S, R, x)) \in Nat
      /\ Cardinality(Below(S, R, y)) \in Nat
  BY <1>3, <1>4, FS_CardinalityType
<1> QED
  BY <1>4, <1>5 DEF Rank

\* Two elements have different ranks.
LEMMA RankInjective ==
    ASSUME NEW S, NEW R, IsFiniteSet(S), StrictOrder(S, R),
           NEW x \in S, NEW y \in S, Rank(S, R, x) = Rank(S, R, y)
    PROVE  x = y
<1>1. /\ <<x, y>> \in R => Rank(S, R, x) < Rank(S, R, y)
      /\ <<y, x>> \in R => Rank(S, R, y) < Rank(S, R, x)
  BY RankGrows
<1>2. Rank(S, R, x) \in Nat /\ Rank(S, R, y) \in Nat
  BY RankBounded
<1> QED
  BY <1>1, <1>2 DEF StrictOrder

\* Every rank is taken: the injection into 0..n-1 is onto.
LEMMA RankTaken ==
    ASSUME NEW S, NEW R, IsFiniteSet(S), StrictOrder(S, R),
           NEW k \in 1..Cardinality(S)
    PROVE  \E x \in S : Rank(S, R, x) = k - 1
<1> DEFINE n == Cardinality(S)
           f == [x \in S |-> Rank(S, R, x)]
<1>1. n \in Nat
  BY FS_CardinalityType
<1>2. IsFiniteSet(0..(n - 1)) /\ Cardinality(0..(n - 1)) = n
  <2> HIDE DEF n
  <2> DEFINE m == n - 1
  <2>1. m \in Int
    BY <1>1
  <2> HIDE DEF m
  <2>2. /\ IsFiniteSet(0..m)
        /\ Cardinality(0..m) = IF 0 > m THEN 0 ELSE m - 0 + 1
    BY <2>1, FS_Interval
  <2> QED
    BY <1>1, <2>2 DEF m
<1>3. f \in [S -> 0..(n - 1)]
  BY RankBounded
<1>4. \A x, y \in S : f[x] = f[y] => x = y
  BY RankInjective
<1> HIDE DEF f
<1>5. f \in Injection(S, 0..(n - 1))
  BY <1>3, <1>4, DOMAIN f = S DEF Injection, IsInjective
<1>6. f \in Surjection(S, 0..(n - 1))
  BY <1>2, <1>5, FS_Injection
<1>7. k - 1 \in 0..(n - 1)
  BY <1>1
<1>8. \E x \in S : f[x] = k - 1
  BY <1>6, <1>7 DEF Surjection
<1> QED
  BY <1>8 DEF f

\* A listing is sorted and complete.
LEMMA ListingIsSorted ==
    ASSUME NEW S, NEW R, IsFiniteSet(S), StrictOrder(S, R), NEW o, Lists(o, S, R)
    PROVE  /\ \A i, j \in 1..Cardinality(S) : i < j => <<o[i], o[j]>> \in R
           /\ \A i, j \in 1..Cardinality(S) : o[i] = o[j] => i = j
           /\ \A x \in S : \E k \in 1..Cardinality(S) : o[k] = x
<1>1. Cardinality(S) \in Nat
  BY FS_CardinalityType
<1>2. ASSUME NEW i \in 1..Cardinality(S), NEW j \in 1..Cardinality(S), i < j
      PROVE  <<o[i], o[j]>> \in R
  <2>1. /\ o[i] \in S /\ o[j] \in S
        /\ Rank(S, R, o[i]) = i - 1 /\ Rank(S, R, o[j]) = j - 1
    BY DEF Lists
  <2>2. <<o[j], o[i]>> \in R => j - 1 < i - 1
    BY <2>1, RankGrows
  <2>3. o[i] # o[j]
    BY <2>1, <1>1, <1>2
  <2> QED
    BY <2>1, <2>2, <2>3, <1>1, <1>2 DEF StrictOrder
<1>3. ASSUME NEW i \in 1..Cardinality(S), NEW j \in 1..Cardinality(S), o[i] = o[j]
      PROVE  i = j
  BY <1>1, <1>3 DEF Lists
<1>4. ASSUME NEW x \in S
      PROVE  \E k \in 1..Cardinality(S) : o[k] = x
  <2>1. Rank(S, R, x) \in 0..(Cardinality(S) - 1)
    BY RankBounded
  <2>2. Rank(S, R, x) + 1 \in 1..Cardinality(S)
    BY <2>1, <1>1
  <2>3. /\ o[Rank(S, R, x) + 1] \in S
        /\ Rank(S, R, o[Rank(S, R, x) + 1]) = Rank(S, R, x)
    BY <2>1, <2>2, <1>1 DEF Lists
  <2>4. o[Rank(S, R, x) + 1] = x
    BY <2>3, RankInjective
  <2> QED
    BY <2>2, <2>4
<1> QED
  BY <1>2, <1>3, <1>4

\* A listing is a sequence.
LEMMA ListingIsSequence ==
    ASSUME NEW S, IsFiniteSet(S), NEW R, NEW o, Lists(o, S, R), o = [k \in DOMAIN o |-> o[k]]
    PROVE  o \in Seq(S) /\ Len(o) = Cardinality(S)
<1> DEFINE n == Cardinality(S)
<1>1. DOMAIN o = 1..n /\ \A k \in 1..n : o[k] \in S
  BY DEF Lists
<1>2. n \in Nat
  BY FS_CardinalityType
<1> HIDE DEF n
<1>3. o \in [1..n -> S]
  BY <1>1
<1>4. o \in Seq(S)
  BY <1>2, <1>3
<1>5. Len(o) = n
  BY <1>1, <1>2, <1>4
<1> QED
  BY <1>4, <1>5 DEF n

\* A nonempty finite set has a last element.
LEMMA LastExists ==
    ASSUME NEW S, NEW R, IsFiniteSet(S), StrictOrder(S, R), S # {}
    PROVE  \E m \in S : \A x \in S : x = m \/ <<x, m>> \in R
<1>1. Cardinality(S) \in Nat /\ Cardinality(S) # 0
  BY FS_CardinalityType, FS_EmptySet
<1>2. Cardinality(S) \in 1..Cardinality(S)
  BY <1>1
<1>3. PICK m \in S : Rank(S, R, m) = Cardinality(S) - 1
  BY <1>2, RankTaken
<1>4. ASSUME NEW x \in S, <<m, x>> \in R
      PROVE  FALSE
  <2>1. Rank(S, R, m) < Rank(S, R, x) /\ Rank(S, R, x) \in 0..(Cardinality(S) - 1)
    BY <1>4, RankGrows, RankBounded
  <2> QED
    BY <2>1, <1>1, <1>3
<1> QED
  BY <1>4 DEF StrictOrder

-----------------------------------------------------------------------------
(***************************************************************************)
(* The chronological split.                                                *)
(***************************************************************************)

\* The order chronological_split sorts by.
Chronology(S) == {p \in S \X S : Precedes(p[1], p[2])}

\* Interactions that the split can sort: their times and identifiers are
\* known, and no two share an identifier.
Sortable(S) ==
    /\ \A e \in S : e.event_timestamp \in Int /\ e.interaction_id \in Int \X Int
    /\ \A e, f \in S : e.interaction_id = f.interaction_id => e = f

\* The times and the identifiers order sortable interactions strictly.
LEMMA ChronologyIsStrict ==
    ASSUME NEW S, Sortable(S)
    PROVE  StrictOrder(S, Chronology(S))
<1>1. ASSUME NEW x \in S, NEW y \in S
      PROVE  <<x, y>> \in Chronology(S) <=> Precedes(x, y)
  BY DEF Chronology
<1>2. ASSUME NEW x \in S
      PROVE  /\ x.event_timestamp \in Int /\ x.interaction_id \in Int \X Int
             /\ x.interaction_id[1] \in Int /\ x.interaction_id[2] \in Int
  BY DEF Sortable
<1>3. ASSUME NEW x \in S
      PROVE  ~Precedes(x, x)
  BY <1>2 DEF Precedes
<1>4. ASSUME NEW x \in S, NEW y \in S, NEW z \in S, Precedes(x, y), Precedes(y, z)
      PROVE  Precedes(x, z)
  BY <1>2, <1>4 DEF Precedes
<1>5. ASSUME NEW x \in S, NEW y \in S, ~Precedes(x, y), ~Precedes(y, x)
      PROVE  x = y
  <2>1. /\ x.interaction_id[1] = y.interaction_id[1]
        /\ x.interaction_id[2] = y.interaction_id[2]
    BY <1>2, <1>5 DEF Precedes
  <2>2. x.interaction_id = y.interaction_id
    BY <1>2, <2>1
  <2> QED
    BY <2>2 DEF Sortable
<1> QED
  BY <1>1, <1>3, <1>4, <1>5 DEF StrictOrder

\* An order is one on every part as well.
LEMMA SubsetIsStrict ==
    ASSUME NEW S, NEW R, StrictOrder(S, R), NEW T \in SUBSET S
    PROVE  StrictOrder(T, R)
BY DEF StrictOrder

\* Sorting interactions lists each of them once, by its rank.
LEMMA InOrderSortsEvents ==
    ASSUME NEW S, IsFiniteSet(S), Sortable(S)
    PROVE  Lists(InOrder(S, Precedes), S, Chronology(S))
<1> DEFINE R == Chronology(S)
           o == InOrder(S, Precedes)
<1>1. StrictOrder(S, R)
  BY ChronologyIsStrict
<1>2. ASSUME NEW x \in S
      PROVE  {y \in S : Precedes(y, x)} = Below(S, R, x)
  BY DEF Below, Chronology
<1>3. ASSUME NEW k \in 1..Cardinality(S)
      PROVE  o[k] \in S /\ Rank(S, R, o[k]) = k - 1
  <2>1. PICK x \in S : Rank(S, R, x) = k - 1
    BY <1>1, RankTaken
  <2>2. Cardinality({y \in S : Precedes(y, x)}) = k - 1
    BY <2>1, <1>2 DEF Rank
  <2>3. o[k] = CHOOSE z \in S : Cardinality({y \in S : Precedes(y, z)}) = k - 1
    BY DEF InOrder
  <2>4. o[k] \in S /\ Cardinality({y \in S : Precedes(y, o[k])}) = k - 1
    BY <2>2, <2>3
  <2> QED
    BY <2>4, <1>2 DEF Rank
<1>4. DOMAIN o = 1..Cardinality(S)
  BY DEF InOrder
<1> QED
  BY <1>3, <1>4 DEF Lists

\* Something is held out for each of the later partitions, and the three
\* sizes are the whole.
LEMMA HeldOutPositive ==
    ASSUME NEW n \in Nat
    PROVE  /\ validation_size(n) \in Nat \ {0} /\ test_size(n) \in Nat \ {0}
           /\ train_end(n) \in Int
           /\ train_end(n) + validation_size(n) + test_size(n) = n
<1>1. ValidationPercent \in 0..100 /\ TestPercent \in 0..100
  BY PreparationConfiguration
<1>2. ASSUME NEW p \in 0..100
      PROVE  HeldOut(n, p) \in Nat \ {0}
  <2> DEFINE q == n * p
  <2>1. q \in Nat
    OBVIOUS
  <2> HIDE DEF q
  <2>2. q \div 100 \in Int
    BY <2>1
  <2>3. HeldOut(n, p) = IF q \div 100 < 1 THEN 1 ELSE q \div 100
    BY DEF HeldOut, q
  <2> QED
    BY <2>2, <2>3
<1>3. validation_size(n) \in Nat \ {0} /\ test_size(n) \in Nat \ {0}
  BY <1>1, <1>2 DEF validation_size, test_size
<1> QED
  BY <1>3 DEF train_end

\* The elements of a listing at some places.
Places(o, from, to) == {o[k] : k \in from..to}

\* Cutting a listing in two places cuts the set in three, in order.
LEMMA CutsAreOrdered ==
    ASSUME NEW S, NEW R, IsFiniteSet(S), StrictOrder(S, R), NEW o, Lists(o, S, R),
           NEW a \in Int, NEW b \in Int, 1 <= a, a < b, b < Cardinality(S)
    PROVE  LET first == Places(o, 1, a)
               second == Places(o, a + 1, b)
               third == Places(o, b + 1, Cardinality(S))
           IN  /\ first \cup second \cup third = S
               /\ first \cap second = {} /\ first \cap third = {} /\ second \cap third = {}
               /\ first # {}
               /\ \A x \in first : \A y \in second \cup third : <<x, y>> \in R
<1> DEFINE n == Cardinality(S)
           first == Places(o, 1, a)
           second == Places(o, a + 1, b)
           third == Places(o, b + 1, n)
<1>1. n \in Nat
  BY FS_CardinalityType
<1>2. /\ \A i, j \in 1..n : i < j => <<o[i], o[j]>> \in R
      /\ \A i, j \in 1..n : o[i] = o[j] => i = j
      /\ \A x \in S : \E k \in 1..n : o[k] = x
      /\ \A k \in 1..n : o[k] \in S
  <2>1. \A k \in 1..n : o[k] \in S
    BY DEF Lists
  <2>2. /\ \A i, j \in 1..n : i < j => <<o[i], o[j]>> \in R
        /\ \A i, j \in 1..n : o[i] = o[j] => i = j
        /\ \A x \in S : \E k \in 1..n : o[k] = x
    BY ListingIsSorted
  <2> QED
    BY <2>1, <2>2
<1> HIDE DEF n
<1>3. b < n
  BY DEF n
<1>4. first \cup second \cup third = S
  <2>1. ASSUME NEW x \in S
        PROVE  x \in first \cup second \cup third
    <3>1. PICK k \in 1..n : o[k] = x
      BY <1>2
    <3>2. k \in 1..a \/ k \in (a + 1)..b \/ k \in (b + 1)..n
      BY <1>1
    <3> QED
      BY <3>1, <3>2 DEF Places
  <2>2. ASSUME NEW k \in 1..a \cup (a + 1)..b \cup (b + 1)..n
        PROVE  o[k] \in S
    BY <1>1, <1>2, <1>3
  <2>3. first \cup second \cup third \subseteq S
    BY <2>2 DEF Places
  <2> QED
    BY <2>1, <2>3
<1>5. ASSUME NEW i \in 1..a, NEW j \in (a + 1)..n
      PROVE  i \in 1..n /\ j \in 1..n /\ <<o[i], o[j]>> \in R /\ o[i] # o[j]
  BY <1>1, <1>2, <1>3
<1>6. ASSUME NEW i \in (a + 1)..b, NEW j \in (b + 1)..n
      PROVE  o[i] # o[j]
  BY <1>1, <1>2, <1>3
<1>7. (a + 1)..b \subseteq (a + 1)..n /\ (b + 1)..n \subseteq (a + 1)..n
  BY <1>1, <1>3
<1>8. first \cap second = {} /\ first \cap third = {}
  BY <1>5, <1>7 DEF Places
<1>9. second \cap third = {}
  BY <1>6 DEF Places
<1>10. first # {}
  <2>1. 1 \in 1..a
    OBVIOUS
  <2> QED
    BY <2>1 DEF Places
<1>11. \A x \in first : \A y \in second \cup third : <<x, y>> \in R
  <2>1. ASSUME NEW x \in first, NEW y \in second \cup third
        PROVE  <<x, y>> \in R
    <3>1. PICK i \in 1..a : x = o[i]
      BY DEF Places
    <3>2. PICK j \in (a + 1)..n : y = o[j]
      BY <1>7 DEF Places
    <3> QED
      BY <1>5, <3>1, <3>2
  <2> QED
    BY <2>1
<1> QED
  BY <1>4, <1>8, <1>9, <1>10, <1>11 DEF n

\* The partitions of a split are all interactions, each in one, and what is
\* trained on comes before what is held out.
SplitIsChronological(S, split) ==
    /\ split.train \cup split.validation \cup split.test = S
    /\ split.train \cap split.validation = {} /\ split.train \cap split.test = {}
    /\ split.validation \cap split.test = {}
    /\ split.train # {}
    /\ \A x \in split.train : \A y \in split.validation \cup split.test :
          x.event_timestamp <= y.event_timestamp

\* chronological_split is chronological wherever it does not raise.
LEMMA SplitFollowsTime ==
    ASSUME NEW S, IsFiniteSet(S), Sortable(S), ~SplitRefuses(Cardinality(S))
    PROVE  SplitIsChronological(S, chronological_split(S))
<1> DEFINE o == InOrder(S, Precedes)
           R == Chronology(S)
           n == Cardinality(S)
           a == train_end(n)
           b == train_end(n) + validation_size(n)
<1>1. n \in Nat
  BY FS_CardinalityType
<1>2. Lists(o, S, R) /\ StrictOrder(S, R)
  BY InOrderSortsEvents, ChronologyIsStrict
<1>3. Len(o) = n
  <2>1. o = [k \in DOMAIN o |-> o[k]]
    BY SMTT(30) DEF InOrder
  <2> QED
    BY <1>2, <2>1, ListingIsSequence
<1>4. /\ a \in Int /\ b \in Int /\ 1 <= a /\ a < b /\ b < n
  <2>1. /\ validation_size(n) \in Nat \ {0} /\ test_size(n) \in Nat \ {0}
        /\ train_end(n) \in Int
        /\ train_end(n) + validation_size(n) + test_size(n) = n
    BY <1>1, HeldOutPositive
  <2>2. ~(train_end(n) < 1)
    BY DEF SplitRefuses
  <2> HIDE DEF n
  <2> QED
    BY <2>1, <2>2, <1>1
<1>5. chronological_split(S) =
        [train |-> Places(o, 1, a), validation |-> Places(o, a + 1, b),
         test |-> Places(o, b + 1, n)]
  BY <1>3 DEF chronological_split, Places
<1>6. \A p \in R : p[1].event_timestamp <= p[2].event_timestamp
  <2>1. ASSUME NEW p \in R
        PROVE  p[1].event_timestamp <= p[2].event_timestamp
    <3>1. p[1] \in S /\ p[2] \in S /\ Precedes(p[1], p[2])
      BY DEF Chronology
    <3>2. p[1].event_timestamp \in Int /\ p[2].event_timestamp \in Int
      BY <3>1 DEF Sortable
    <3> QED
      BY <3>1, <3>2 DEF Precedes
  <2> QED
    BY <2>1
<1> HIDE DEF o, R, a, b
<1>7. LET first == Places(o, 1, a)
          second == Places(o, a + 1, b)
          third == Places(o, b + 1, n)
      IN  /\ first \cup second \cup third = S
          /\ first \cap second = {} /\ first \cap third = {} /\ second \cap third = {}
          /\ first # {}
          /\ \A x \in first : \A y \in second \cup third : <<x, y>> \in R
  BY <1>2, <1>4, CutsAreOrdered
<1>8. \A x, y : <<x, y>> \in R => x.event_timestamp <= y.event_timestamp
  <2> TAKE x, y
  <2> HAVE <<x, y>> \in R
  <2>1. <<x, y>>[1].event_timestamp <= <<x, y>>[2].event_timestamp
    BY <1>6
  <2> QED
    BY <2>1
<1> DEFINE s == chronological_split(S)
<1>9. /\ s.train = Places(o, 1, a) /\ s.validation = Places(o, a + 1, b)
      /\ s.test = Places(o, b + 1, n)
  BY <1>5
<1>10. /\ s.train \cup s.validation \cup s.test = S
       /\ s.train \cap s.validation = {} /\ s.train \cap s.test = {}
       /\ s.validation \cap s.test = {}
       /\ s.train # {}
       /\ \A x \in s.train : \A y \in s.validation \cup s.test : <<x, y>> \in R
  BY <1>7, <1>9
<1> HIDE DEF s
<1>11. SplitIsChronological(S, s)
  BY <1>8, <1>10 DEF SplitIsChronological
<1> QED
  BY <1>11 DEF s

-----------------------------------------------------------------------------
(***************************************************************************)
(* The rows of the two files of events, whatever was done to them.         *)
(***************************************************************************)

Odd == {Blank, Garbled}
Numbers == Int \cup {Blank, Garbled, Fraction}
Times == Int \cup Odd
ClickIds == Int \X (Int \ {0})
OrderIds == Int \X {0}

Clicks ==
    [event_id : ClickIds \cup Odd, user_id : Numbers, product_id : Numbers,
     event_type : {"View", "Wishlist", "AddToCart"} \cup Odd, timestamp : Times,
     session_id : (Int \X Int) \cup Odd]
Orders ==
    [order_id : OrderIds \cup Odd, user_id : Numbers, product_id : Numbers,
     quantity : Numbers, amount : Numbers, rating : Numbers, purchase_timestamp : Times]
Rows(d) == IF d = "clickstream" THEN Clicks ELSE Orders

\* As many values as arguments, at most.
LEMMA ImageIsFinite ==
    ASSUME NEW S, IsFiniteSet(S), NEW f, DOMAIN f = S
    PROVE  IsFiniteSet({f[x] : x \in S})
<1> DEFINE g == [x \in S |-> f[x]]
           T == {f[x] : x \in S}
<1>1. g \in Surjection(S, T)
  BY DEF Surjection
<1> QED
  BY <1>1, FS_Surjection

\* What EVENT_MAPPING makes of a rating.
LEMMA MappedEvents ==
    ASSUME NEW r \in 1..5, NEW k \in DOMAIN EVENT_MAPPING[r]
    PROVE  /\ k \in 1..3
           /\ EVENT_MAPPING[r][k] \in {"View", "Wishlist", "AddToCart"}
<1>1. CASE r \in {1, 2, 3}
  BY <1>1 DEF EVENT_MAPPING
<1>2. CASE r = 4
  BY <1>2 DEF EVENT_MAPPING
<1>3. CASE r = 5
  BY <1>3 DEF EVENT_MAPPING
<1> QED
  BY <1>1, <1>2, <1>3

Ratings == [user_id : Int, product_id : Int, rating : Int]

\* The fields of a rating are numbers.
LEMMA RatingTyped ==
    ASSUME NEW ratings \in Seq(Ratings), NEW i \in DOMAIN ratings
    PROVE  /\ i \in 1..Len(ratings) /\ Len(ratings) \in Nat
           /\ ratings[i].user_id \in Int /\ ratings[i].product_id \in Int
           /\ ratings[i].rating \in Int
<1>1. ratings[i] \in Ratings
  OBVIOUS
<1> QED
  BY <1>1 DEF Ratings

\* A session is a user and a number.
LEMMA SessionTyped ==
    ASSUME NEW src, NEW draw, src.ratings \in Seq(Ratings),
           NEW i \in DOMAIN src.ratings
    PROVE  SessionOf(src, draw, i) \in Int \X Int
<1> DEFINE mine == {j \in DOMAIN src.ratings : src.ratings[j].user_id = src.ratings[i].user_id}
           Before(j) == {k \in mine : Earlier(draw, k, j)}
           Opens(j) == \A k \in Before(j) : draw.offset[j] - draw.offset[k] > Inactivity
           opening == {j \in Before(i) \cup {i} : Opens(j)}
<1>1. opening \in SUBSET (1..Len(src.ratings))
  OBVIOUS
<1>2. Len(src.ratings) \in Int
  OBVIOUS
<1>3. IsFiniteSet(1..Len(src.ratings))
  BY <1>2, FS_Interval
<1> HIDE DEF opening
<1>4. IsFiniteSet(opening)
  BY <1>1, <1>3, FS_Subset
<1>5. Cardinality(opening) \in Int
  BY <1>4, FS_CardinalityType
<1>6. src.ratings[i].user_id \in Int
  BY RatingTyped
<1>7. SessionOf(src, draw, i) = <<src.ratings[i].user_id, Cardinality(opening)>>
  BY DEF SessionOf, opening
<1> QED
  BY <1>5, <1>6, <1>7

\* The k-th click of a rating.
ClickOf(src, draw, i, k) ==
    [event_id |-> <<i, k>>, user_id |-> src.ratings[i].user_id,
     product_id |-> src.ratings[i].product_id,
     event_type |-> EVENT_MAPPING[src.ratings[i].rating][k],
     timestamp |-> draw.offset[i] + k - 1,
     session_id |-> SessionOf(src, draw, i)]

\* The clickstream the generator writes: the clicks of every rating, each once,
\* in the order of time.
LEMMA GeneratedClicks ==
    ASSUME NEW src, NEW draw, src.ratings \in Seq(Ratings), Loadable(src),
           \A i \in DOMAIN src.ratings : draw.offset[i] \in 0..Available,
           Available \in Int
    PROVE  LET rows == generate_clickstream(src, draw)
           IN  /\ rows \in Seq(Clicks)
               /\ \A n \in DOMAIN rows : \E i \in DOMAIN src.ratings :
                     \E k \in DOMAIN EVENT_MAPPING[src.ratings[i].rating] :
                        rows[n] = ClickOf(src, draw, i, k)
               /\ \A i \in DOMAIN src.ratings :
                     \A k \in DOMAIN EVENT_MAPPING[src.ratings[i].rating] :
                        \E n \in DOMAIN rows : rows[n] = ClickOf(src, draw, i, k)
               /\ \A m, n \in DOMAIN rows : m < n => rows[m].timestamp <= rows[n].timestamp
               /\ \A m, n \in DOMAIN rows : rows[m] = rows[n] => m = n
<1> DEFINE Event(i, k) ==
             [event_id |-> <<i, k>>, user_id |-> src.ratings[i].user_id,
              product_id |-> src.ratings[i].product_id,
              event_type |-> EVENT_MAPPING[src.ratings[i].rating][k],
              timestamp |-> draw.offset[i] + k - 1,
              session_id |-> SessionOf(src, draw, i)]
           Before(a, b) ==
             \/ a.timestamp < b.timestamp
             \/ a.timestamp = b.timestamp /\ a.user_id < b.user_id
             \/ /\ a.timestamp = b.timestamp /\ a.user_id = b.user_id
                /\ \/ a.product_id < b.product_id
                   \/ a.product_id = b.product_id /\ a.event_id[1] < b.event_id[1]
           S == UNION {{Event(i, k) : k \in DOMAIN EVENT_MAPPING[src.ratings[i].rating]} :
                          i \in DOMAIN src.ratings}
           R == {p \in S \X S : Before(p[1], p[2])}
           o == InOrder(S, Before)
<1>1. generate_clickstream(src, draw) = o
  BY DEF generate_clickstream
<1>2. ASSUME NEW i \in DOMAIN src.ratings, NEW k \in DOMAIN EVENT_MAPPING[src.ratings[i].rating]
      PROVE  /\ i \in 1..Len(src.ratings) /\ k \in 1..3
             /\ i \in Int /\ k \in Int \ {0} /\ draw.offset[i] \in Int
             /\ draw.offset[i] + k - 1 \in Int
             /\ src.ratings[i].user_id \in Int /\ src.ratings[i].product_id \in Int
             /\ EVENT_MAPPING[src.ratings[i].rating][k] \in {"View", "Wishlist", "AddToCart"}
             /\ SessionOf(src, draw, i) \in Int \X Int
  <2>1. src.ratings[i].rating \in 1..5
    BY DEF Loadable
  <2>2. /\ k \in 1..3
        /\ EVENT_MAPPING[src.ratings[i].rating][k] \in {"View", "Wishlist", "AddToCart"}
    BY <2>1, MappedEvents
  <2>3. draw.offset[i] \in Int /\ draw.offset[i] + k - 1 \in Int
    BY <2>2
  <2>5. i \in Int /\ k \in Int \ {0}
    BY <2>2, RatingTyped
  <2>4. SessionOf(src, draw, i) \in Int \X Int
    BY SessionTyped
  <2> QED
    BY <2>2, <2>3, <2>4, <2>5, RatingTyped
<1>3. ASSUME NEW e \in S
      PROVE  \E i \in DOMAIN src.ratings :
               \E k \in DOMAIN EVENT_MAPPING[src.ratings[i].rating] : e = Event(i, k)
  OBVIOUS
<1>4. S \subseteq Clicks
  <2>1. ASSUME NEW e \in S
        PROVE  e \in Clicks
    <3>1. PICK i \in DOMAIN src.ratings :
            \E k \in DOMAIN EVENT_MAPPING[src.ratings[i].rating] : e = Event(i, k)
      BY <1>3
    <3>2. PICK k \in DOMAIN EVENT_MAPPING[src.ratings[i].rating] : e = Event(i, k)
      BY <3>1
    <3>3. <<i, k>> \in ClickIds
      BY <1>2 DEF ClickIds
    <3> QED
      BY <1>2, <3>2, <3>3 DEF Clicks, Numbers, Times
  <2> QED
    BY <2>1
<1>5. IsFiniteSet(S)
  <2> DEFINE N == 1..Len(src.ratings)
             f == [p \in N \X (1..3) |-> Event(p[1], p[2])]
             T == {f[p] : p \in N \X (1..3)}
  <2>1. IsFiniteSet(N \X (1..3))
    <3>1. Len(src.ratings) \in Int
      OBVIOUS
    <3>2. IsFiniteSet(1..Len(src.ratings))
      BY <3>1, FS_Interval
    <3>3. IsFiniteSet(1..3)
      <4>1. 1 \in Int /\ 3 \in Int
        OBVIOUS
      <4> QED
        BY <4>1, FS_Interval
    <3> QED
      BY <3>2, <3>3, FS_Product
  <2>2. IsFiniteSet(T)
    <3>1. DOMAIN f = N \X (1..3)
      OBVIOUS
    <3> HIDE DEF f
    <3> QED
      BY <2>1, <3>1, ImageIsFinite
  <2>3. S \subseteq T
    <3>1. ASSUME NEW e \in S
          PROVE  e \in T
      <4>1. PICK i \in DOMAIN src.ratings :
              \E k \in DOMAIN EVENT_MAPPING[src.ratings[i].rating] : e = Event(i, k)
        BY <1>3
      <4>2. PICK k \in DOMAIN EVENT_MAPPING[src.ratings[i].rating] : e = Event(i, k)
        BY <4>1
      <4>3. <<i, k>> \in N \X (1..3) /\ e = f[<<i, k>>]
        BY <1>2, <4>2
      <4> QED
        BY <4>3
    <3> QED
      BY <3>1
  <2> QED
    BY <2>2, <2>3, FS_Subset
<1>6. ASSUME NEW e \in S
      PROVE  /\ e.timestamp \in Int /\ e.user_id \in Int /\ e.product_id \in Int
             /\ e.event_id[1] \in Int
  <2>1. PICK i \in DOMAIN src.ratings :
          \E k \in DOMAIN EVENT_MAPPING[src.ratings[i].rating] : e = Event(i, k)
    BY <1>3
  <2>2. PICK k \in DOMAIN EVENT_MAPPING[src.ratings[i].rating] : e = Event(i, k)
    BY <2>1
  <2> QED
    BY <1>2, <2>2
<1>7. ASSUME NEW e \in S, NEW g \in S, e.timestamp = g.timestamp, e.event_id[1] = g.event_id[1]
      PROVE  e = g
  <2>1. PICK i \in DOMAIN src.ratings :
          \E k \in DOMAIN EVENT_MAPPING[src.ratings[i].rating] : e = Event(i, k)
    BY <1>3
  <2>2. PICK k \in DOMAIN EVENT_MAPPING[src.ratings[i].rating] : e = Event(i, k)
    BY <2>1
  <2>3. PICK j \in DOMAIN src.ratings :
          \E l \in DOMAIN EVENT_MAPPING[src.ratings[j].rating] : g = Event(j, l)
    BY <1>3
  <2>4. PICK l \in DOMAIN EVENT_MAPPING[src.ratings[j].rating] : g = Event(j, l)
    BY <2>3
  <2>5. i = j
    BY <1>7, <2>2, <2>4
  <2>6. draw.offset[i] + k - 1 = draw.offset[j] + l - 1
    BY <1>7, <2>2, <2>4
  <2>8. draw.offset[i] \in Int /\ k \in 1..3 /\ l \in 1..3
    BY <1>2
  <2>7. k = l
    BY <2>5, <2>6, <2>8
  <2> QED
    BY <2>2, <2>4, <2>5, <2>7
<1> HIDE DEF S
<1>8. StrictOrder(S, R)
  <2>1. ASSUME NEW x \in S, NEW y \in S
        PROVE  <<x, y>> \in R <=> Before(x, y)
    OBVIOUS
  <2>2. ASSUME NEW x \in S
        PROVE  ~Before(x, x)
    BY <1>6
  <2>3. ASSUME NEW x \in S, NEW y \in S, NEW z \in S, Before(x, y), Before(y, z)
        PROVE  Before(x, z)
    BY <1>6, <2>3
  <2>4. ASSUME NEW x \in S, NEW y \in S, ~Before(x, y), ~Before(y, x)
        PROVE  x = y
    <3>1. x.timestamp = y.timestamp /\ x.event_id[1] = y.event_id[1]
      BY <1>6, <2>4
    <3> QED
      BY <1>7, <3>1
  <2> HIDE DEF Before, R
  <2> QED
    BY <2>1, <2>2, <2>3, <2>4 DEF StrictOrder
<1>9. Lists(o, S, R)
  <2>1. ASSUME NEW x \in S
        PROVE  {y \in S : Before(y, x)} = Below(S, R, x)
    BY DEF Below
  <2>2. ASSUME NEW k \in 1..Cardinality(S)
        PROVE  o[k] \in S /\ Rank(S, R, o[k]) = k - 1
    <3>1. PICK x \in S : Rank(S, R, x) = k - 1
      BY <1>5, <1>8, RankTaken
    <3>2. Cardinality({y \in S : Before(y, x)}) = k - 1
      BY <3>1, <2>1 DEF Rank
    <3>3. o[k] = CHOOSE z \in S : Cardinality({y \in S : Before(y, z)}) = k - 1
      BY DEF InOrder
    <3>4. o[k] \in S /\ Cardinality({y \in S : Before(y, o[k])}) = k - 1
      BY <3>2, <3>3
    <3> QED
      BY <3>4, <2>1 DEF Rank
  <2>3. DOMAIN o = 1..Cardinality(S)
    BY DEF InOrder
  <2> QED
    BY <2>2, <2>3 DEF Lists
<1>10. o \in Seq(S)
  <2>1. o = [k \in DOMAIN o |-> o[k]]
    <3> DEFINE at(k) == CHOOSE x \in S : Cardinality({y \in S : Before(y, x)}) = k - 1
    <3>1. o = [k \in 1..Cardinality(S) |-> at(k)]
      BY DEF InOrder
    <3> HIDE DEF at, o
    <3> QED
      BY <3>1
  <2> QED
    BY <1>5, <1>9, <2>1, ListingIsSequence
<1>11. o \in Seq(Clicks)
  <2> HIDE DEF o
  <2> QED
    BY <1>4, <1>10
<1>12. \A e : e \in S <=> \E i \in DOMAIN src.ratings :
                            \E k \in DOMAIN EVENT_MAPPING[src.ratings[i].rating] :
                               e = ClickOf(src, draw, i, k)
  BY DEF S, ClickOf
<1>13. DOMAIN o = 1..Cardinality(S) /\ \A n \in DOMAIN o : o[n] \in S
  BY <1>9 DEF Lists
<1>14. /\ \A m, n \in DOMAIN o : m < n => Before(o[m], o[n])
       /\ \A m, n \in DOMAIN o : o[m] = o[n] => m = n
       /\ \A e \in S : \E n \in DOMAIN o : o[n] = e
  <2> HIDE DEF o, R
  <2>1. /\ \A m, n \in 1..Cardinality(S) : m < n => <<o[m], o[n]>> \in R
        /\ \A m, n \in 1..Cardinality(S) : o[m] = o[n] => m = n
        /\ \A e \in S : \E n \in 1..Cardinality(S) : o[n] = e
    BY <1>5, <1>8, <1>9, ListingIsSorted
  <2>2. \A x, y \in S : <<x, y>> \in R => Before(x, y)
    BY DEF R
  <2> HIDE DEF Before
  <2> QED
    BY <1>13, <2>1, <2>2
<1>15. \A m, n \in DOMAIN o : m < n => o[m].timestamp <= o[n].timestamp
  <2> HIDE DEF o
  <2> QED
    BY <1>6, <1>13, <1>14
<1> DEFINE rows == generate_clickstream(src, draw)
<1>16. /\ rows \in Seq(Clicks)
       /\ \A m, n \in DOMAIN rows : m < n => rows[m].timestamp <= rows[n].timestamp
       /\ \A m, n \in DOMAIN rows : rows[m] = rows[n] => m = n
       /\ \A n \in DOMAIN rows : rows[n] \in S
       /\ \A e \in S : \E n \in DOMAIN rows : rows[n] = e
  <2> HIDE DEF o, Before
  <2> QED
    BY <1>1, <1>11, <1>13, <1>14, <1>15
<1> HIDE DEF rows
<1> QED
  BY <1>12, <1>16 DEF rows

\* The number of events of a rating is a number.
LEMMA MappedLength ==
    ASSUME NEW r \in 1..5
    PROVE  Len(EVENT_MAPPING[r]) \in Int
<1>1. CASE r \in {1, 2, 3}
  BY <1>1 DEF EVENT_MAPPING
<1>2. CASE r = 4
  BY <1>2 DEF EVENT_MAPPING
<1>3. CASE r = 5
  BY <1>3 DEF EVENT_MAPPING
<1> QED
  BY <1>1, <1>2, <1>3

\* The purchase of a rating.
OrderOf(src, draw, i) ==
    [order_id |-> <<i, 0>>, user_id |-> src.ratings[i].user_id,
     product_id |-> src.ratings[i].product_id, quantity |-> draw.quantity,
     amount |-> draw.quantity * Prices[src.ratings[i].product_id],
     rating |-> src.ratings[i].rating,
     purchase_timestamp |-> FinalClick(src, draw, i) + draw.delay[i]]

\* The purchases the generator writes: those of every bought rating, each once.
LEMMA GeneratedPurchases ==
    ASSUME NEW src, NEW draw, src.ratings \in Seq(Ratings), Loadable(src),
           \A k \in DOMAIN src.items : Prices[src.items[k]] \in Nat,
           draw.quantity \in Nat, Available \in Int,
           \A i \in DOMAIN src.ratings : draw.offset[i] \in 0..Available,
           \A i \in Bought(src) : draw.delay[i] \in Int
    PROVE  LET rows == generate_purchases(src, draw)
           IN  /\ rows \in Seq(Orders)
               /\ \A n \in DOMAIN rows : \E i \in Bought(src) : rows[n] = OrderOf(src, draw, i)
               /\ \A i \in Bought(src) : \E n \in DOMAIN rows : rows[n] = OrderOf(src, draw, i)
               /\ \A m, n \in DOMAIN rows : rows[m] = rows[n] => m = n
<1> DEFINE Entry(i) ==
             [order_id |-> <<i, 0>>, user_id |-> src.ratings[i].user_id,
              product_id |-> src.ratings[i].product_id, quantity |-> draw.quantity,
              amount |-> draw.quantity * Prices[src.ratings[i].product_id],
              rating |-> src.ratings[i].rating,
              purchase_timestamp |-> FinalClick(src, draw, i) + draw.delay[i]]
           Before(a, b) ==
             \/ a.purchase_timestamp < b.purchase_timestamp
             \/ a.purchase_timestamp = b.purchase_timestamp
                   /\ a.order_id[1] < b.order_id[1]
           S == {Entry(i) : i \in Bought(src)}
           R == {p \in S \X S : Before(p[1], p[2])}
           o == InOrder(S, Before)
<1>1. generate_purchases(src, draw) = o
  BY DEF generate_purchases
<1>2. ASSUME NEW i \in Bought(src)
      PROVE  /\ i \in Int /\ i \in 1..Len(src.ratings)
             /\ src.ratings[i].user_id \in Int /\ src.ratings[i].product_id \in Int
             /\ src.ratings[i].rating \in Int
             /\ draw.quantity * Prices[src.ratings[i].product_id] \in Int
             /\ FinalClick(src, draw, i) + draw.delay[i] \in Int
  <2>1. i \in DOMAIN src.ratings
    BY DEF Bought
  <2>2. src.ratings[i].rating \in 1..5
    BY <2>1 DEF Loadable
  <2>3. draw.offset[i] \in Int
    BY <2>1
  <2>4. FinalClick(src, draw, i) + draw.delay[i] \in Int
    <3> DEFINE clicks == Len(EVENT_MAPPING[src.ratings[i].rating])
    <3>1. clicks \in Int
      BY <2>2, MappedLength
    <3>2. FinalClick(src, draw, i) = draw.offset[i] + clicks - 1
      BY DEF FinalClick
    <3> HIDE DEF clicks
    <3>3. draw.delay[i] \in Int
      OBVIOUS
    <3> QED
      BY <2>3, <3>1, <3>2, <3>3
  <2>5. PICK j \in DOMAIN src.items : src.items[j] = src.ratings[i].product_id
    BY <2>1 DEF Loadable
  <2>6. Prices[src.ratings[i].product_id] \in Nat
    BY <2>5
  <2> DEFINE a == draw.quantity
             b == Prices[src.ratings[i].product_id]
  <2>7. a \in Int /\ b \in Int
    BY <2>6
  <2> HIDE DEF a, b
  <2>8. a * b \in Int
    BY <2>7
  <2> QED
    BY <2>1, <2>4, <2>8, RatingTyped DEF a, b
<1>3. S \subseteq Orders
  <2>1. ASSUME NEW i \in Bought(src)
        PROVE  Entry(i) \in Orders
    <3>1. <<i, 0>> \in OrderIds
      BY <1>2 DEF OrderIds
    <3>2. draw.quantity \in Int
      OBVIOUS
    <3> DEFINE a == draw.quantity * Prices[src.ratings[i].product_id]
               t == FinalClick(src, draw, i) + draw.delay[i]
    <3>3. a \in Int /\ t \in Int
      BY <1>2
    <3> HIDE DEF a, t
    <3>4. [order_id |-> <<i, 0>>, user_id |-> src.ratings[i].user_id,
           product_id |-> src.ratings[i].product_id, quantity |-> draw.quantity,
           amount |-> a, rating |-> src.ratings[i].rating,
           purchase_timestamp |-> t] \in Orders
      BY <1>2, <3>1, <3>2, <3>3 DEF Orders, Numbers, Times
    <3> QED
      BY <3>4 DEF a, t
  <2> QED
    BY <2>1
<1>4. IsFiniteSet(S)
  <2> DEFINE f == [i \in Bought(src) |-> Entry(i)]
  <2>1. Len(src.ratings) \in Int /\ Bought(src) \in SUBSET (1..Len(src.ratings))
    BY DEF Bought
  <2>2. IsFiniteSet(Bought(src))
    <3>1. IsFiniteSet(1..Len(src.ratings))
      BY <2>1, FS_Interval
    <3> QED
      BY <2>1, <3>1, FS_Subset
  <2>3. DOMAIN f = Bought(src)
    OBVIOUS
  <2>4. S = {f[i] : i \in Bought(src)}
    OBVIOUS
  <2> HIDE DEF f, S
  <2> QED
    BY <2>2, <2>3, <2>4, ImageIsFinite
<1>5. ASSUME NEW e \in S
      PROVE  e.purchase_timestamp \in Int /\ e.order_id[1] \in Int
  BY <1>2
<1>6. ASSUME NEW e \in S, NEW g \in S, e.order_id[1] = g.order_id[1]
      PROVE  e = g
  <2>1. PICK i \in Bought(src) : e = Entry(i)
    OBVIOUS
  <2>2. PICK j \in Bought(src) : g = Entry(j)
    OBVIOUS
  <2>3. i = j
    BY <1>6, <2>1, <2>2
  <2> QED
    BY <2>1, <2>2, <2>3
<1> HIDE DEF S
<1>7. StrictOrder(S, R)
  <2>1. ASSUME NEW x \in S, NEW y \in S
        PROVE  <<x, y>> \in R <=> Before(x, y)
    OBVIOUS
  <2>2. ASSUME NEW x \in S
        PROVE  ~Before(x, x)
    BY <1>5
  <2>3. ASSUME NEW x \in S, NEW y \in S, NEW z \in S, Before(x, y), Before(y, z)
        PROVE  Before(x, z)
    BY <1>5, <2>3
  <2>4. ASSUME NEW x \in S, NEW y \in S, ~Before(x, y), ~Before(y, x)
        PROVE  x = y
    <3>1. x.order_id[1] = y.order_id[1]
      BY <1>5, <2>4
    <3> QED
      BY <1>6, <3>1
  <2> HIDE DEF Before, R
  <2> QED
    BY <2>1, <2>2, <2>3, <2>4 DEF StrictOrder
<1>8. Lists(o, S, R)
  <2>1. ASSUME NEW x \in S
        PROVE  {y \in S : Before(y, x)} = Below(S, R, x)
    BY DEF Below
  <2>2. ASSUME NEW k \in 1..Cardinality(S)
        PROVE  o[k] \in S /\ Rank(S, R, o[k]) = k - 1
    <3>1. PICK x \in S : Rank(S, R, x) = k - 1
      BY <1>4, <1>7, RankTaken
    <3>2. Cardinality({y \in S : Before(y, x)}) = k - 1
      BY <3>1, <2>1 DEF Rank
    <3>3. o[k] = CHOOSE z \in S : Cardinality({y \in S : Before(y, z)}) = k - 1
      BY DEF InOrder
    <3>4. o[k] \in S /\ Cardinality({y \in S : Before(y, o[k])}) = k - 1
      BY <3>2, <3>3
    <3> QED
      BY <3>4, <2>1 DEF Rank
  <2>3. DOMAIN o = 1..Cardinality(S)
    BY DEF InOrder
  <2> QED
    BY <2>2, <2>3 DEF Lists
<1>9. o \in Seq(S)
  <2>1. o = [k \in DOMAIN o |-> o[k]]
    <3> DEFINE at(k) == CHOOSE x \in S : Cardinality({y \in S : Before(y, x)}) = k - 1
    <3>1. o = [k \in 1..Cardinality(S) |-> at(k)]
      BY DEF InOrder
    <3> HIDE DEF at, o
    <3> QED
      BY <3>1
  <2> QED
    BY <1>4, <1>8, <2>1, ListingIsSequence
<1>10. o \in Seq(Orders)
  <2> HIDE DEF o
  <2> QED
    BY <1>3, <1>9
<1>11. \A e : e \in S <=> \E i \in Bought(src) : e = OrderOf(src, draw, i)
  BY DEF S, OrderOf
<1>12. DOMAIN o = 1..Cardinality(S) /\ \A n \in DOMAIN o : o[n] \in S
  BY <1>8 DEF Lists
<1>13. /\ \A m, n \in DOMAIN o : o[m] = o[n] => m = n
       /\ \A e \in S : \E n \in DOMAIN o : o[n] = e
  <2> HIDE DEF o, R
  <2>1. /\ \A m, n \in 1..Cardinality(S) : o[m] = o[n] => m = n
        /\ \A e \in S : \E n \in 1..Cardinality(S) : o[n] = e
    BY <1>4, <1>7, <1>8, ListingIsSorted
  <2> QED
    BY <1>12, <2>1
<1> HIDE DEF o, Before
<1> QED
  BY <1>1, <1>10, <1>11, <1>12, <1>13

EventData == {"clickstream", "purchasehistory"}

\* A defect leaves a row of events a row of events.
LEMMA SpoiledRow ==
    ASSUME NEW d \in EventData, NEW r \in Rows(d), NEW c \in Columns(d), NEW v \in BadCells(d, c)
    PROVE  [r EXCEPT ![c] = v] \in Rows(d)
<1>1. Late \in Int
  BY ValidationConfiguration DEF Late
<1>2. CASE d = "clickstream"
  <2>1. r \in Clicks /\ Rows(d) = Clicks
    BY <1>2 DEF Rows
  <2>2. c \in {"event_id", "user_id", "product_id", "event_type", "timestamp", "session_id"}
    BY <1>2 DEF Columns
  <2>3. CASE c \in {"event_id", "event_type", "session_id"}
    <3>1. v \in Odd
      BY <2>3 DEF BadCells, Odd
    <3> QED
      BY <2>1, <2>3, <3>1 DEF Clicks
  <2>4. CASE c \in {"user_id", "product_id"}
    <3>1. v \in Numbers
      BY <1>2, <2>4 DEF BadCells, Numbers
    <3> QED
      BY <2>1, <2>4, <3>1 DEF Clicks
  <2>5. CASE c = "timestamp"
    <3>1. v \in Times
      BY <1>1, <2>5 DEF BadCells, Times, Odd
    <3> QED
      BY <2>1, <2>5, <3>1 DEF Clicks
  <2> QED
    BY <2>2, <2>3, <2>4, <2>5
<1>3. CASE d = "purchasehistory"
  <2>1. r \in Orders /\ Rows(d) = Orders
    BY <1>3 DEF Rows
  <2>2. c \in {"order_id", "user_id", "product_id", "quantity", "amount", "rating",
               "purchase_timestamp"}
    BY <1>3 DEF Columns
  <2>3. CASE c = "order_id"
    <3>1. v \in Odd
      BY <2>3 DEF BadCells, Odd
    <3> QED
      BY <2>1, <2>3, <3>1 DEF Orders
  <2>4. CASE c \in {"user_id", "product_id", "quantity", "amount", "rating"}
    <3>1. v \in Numbers
      BY <1>3, <2>4 DEF BadCells, Numbers
    <3> QED
      BY <2>1, <2>4, <3>1 DEF Orders
  <2>5. CASE c = "purchase_timestamp"
    <3>1. v \in Times
      BY <1>1, <2>5 DEF BadCells, Times, Odd
    <3> QED
      BY <2>1, <2>5, <3>1 DEF Orders
  <2> QED
    BY <2>2, <2>3, <2>4, <2>5
<1> QED
  BY <1>2, <1>3 DEF EventData

Fields == {"rows", "missing", "extra", "readable"}

\* The files of a batch, and the rows of events among them.
TypedFiles(f) ==
    /\ DOMAIN f = Datasets
    /\ \A d \in Datasets : DOMAIN f[d] = Fields
    /\ \A d \in EventData : f[d].rows \in Seq(Rows(d))

\* Replacing one table by one with rows of its kind.
LEMMA TableReplaced ==
    ASSUME NEW f, TypedFiles(f), NEW d \in Datasets, NEW table, DOMAIN table = Fields,
           d \in EventData => table.rows \in Seq(Rows(d))
    PROVE  TypedFiles([f EXCEPT ![d] = table])
BY DEF TypedFiles

Damages(d) ==
    \/ \E c \in FileColumns(d) : \E i \in 1..9 : \E v \in BadCells(d, c) : SpoilCell(d, i, c, v)
    \/ \E i \in 1..9 : RepeatRow(d, i)
    \/ \E c \in FileColumns(d) : LoseColumn(d, c)
    \/ AddColumn(d) \/ EmptyFile(d) \/ BreakSyntax(d)

\* Any one defect leaves cells of their types, and the other variables alone.
LEMMA DamageKeepsTypes ==
    ASSUME TypedFiles(files),
           NEW d \in Datasets, Damages(d)
    PROVE  /\ TypedFiles(files')
           /\ phase = "generated"
           /\ UNCHANGED <<phase, reason, report, prepared, features, models>>
<1>1. DOMAIN files[d] = Fields /\ (d \in EventData => files[d].rows \in Seq(Rows(d)))
  BY DEF TypedFiles
<1> DEFINE Ok(table) == DOMAIN table = Fields /\ (d \in EventData => table.rows \in Seq(Rows(d)))
<1>2. \E table : Ok(table) /\ MayDamage(d) /\ Damage(d, table)
  <2>1. ASSUME NEW c \in FileColumns(d), NEW i \in 1..9, NEW v \in BadCells(d, c),
               SpoilCell(d, i, c, v)
        PROVE  \E table : Ok(table) /\ MayDamage(d) /\ Damage(d, table)
    <3> DEFINE table == [files[d] EXCEPT !.rows[i][c] = v]
    <3>1. DOMAIN table = Fields
      BY <1>1
    <3>2. ASSUME d \in EventData PROVE table.rows \in Seq(Rows(d))
      <4>1. c \in Columns(d)
        BY <3>2 DEF FileColumns, EventData
      <4> DEFINE rows == files[d].rows
                 row == [rows[i] EXCEPT ![c] = v]
      <4>2. rows \in Seq(Rows(d)) /\ i \in DOMAIN rows
        BY <1>1, <2>1, <3>2 DEF SpoilCell
      <4>3. rows[i] \in Rows(d)
        BY <4>2
      <4>4. row \in Rows(d)
        BY <3>2, <4>1, <4>3, SpoiledRow
      <4>5. table.rows = [rows EXCEPT ![i] = row]
        BY <1>1 DEF Fields
      <4> HIDE DEF rows, row, table
      <4> QED
        BY <4>2, <4>4, <4>5
    <3>3. Ok(table)
      BY <3>1, <3>2
    <3>4. MayDamage(d) /\ Damage(d, table)
      BY <2>1 DEF SpoilCell
    <3> QED
      BY <3>3, <3>4
  <2>2. ASSUME NEW i \in 1..9, RepeatRow(d, i)
        PROVE  \E table : Ok(table) /\ MayDamage(d) /\ Damage(d, table)
    <3> DEFINE rows == files[d].rows
               table == [files[d] EXCEPT !.rows = Append(rows, rows[i])]
    <3>1. DOMAIN table = Fields /\ table.rows = Append(rows, rows[i])
      BY <1>1 DEF Fields
    <3>2. ASSUME d \in EventData PROVE Append(rows, rows[i]) \in Seq(Rows(d))
      <4>1. rows \in Seq(Rows(d)) /\ i \in DOMAIN rows
        BY <1>1, <2>2, <3>2 DEF RepeatRow
      <4> HIDE DEF rows
      <4>2. rows[i] \in Rows(d)
        BY <4>1
      <4> QED
        BY <4>1, <4>2
    <3>3. Ok(table)
      BY <3>1, <3>2
    <3>4. MayDamage(d) /\ Damage(d, table)
      BY <2>2 DEF RepeatRow
    <3> QED
      BY <3>3, <3>4
  <2>3. ASSUME NEW c \in FileColumns(d), LoseColumn(d, c)
        PROVE  \E table : Ok(table) /\ MayDamage(d) /\ Damage(d, table)
    <3> DEFINE table == [files[d] EXCEPT !.missing = files[d].missing \cup {c}]
    <3>1. Ok(table)
      BY <1>1 DEF Fields
    <3>2. MayDamage(d) /\ Damage(d, table)
      BY <2>3 DEF LoseColumn
    <3> QED
      BY <3>1, <3>2
  <2>4. CASE AddColumn(d)
    <3> DEFINE table == [files[d] EXCEPT !.extra = 1]
    <3>1. Ok(table)
      BY <1>1 DEF Fields
    <3>2. MayDamage(d) /\ Damage(d, table)
      BY <2>4 DEF AddColumn
    <3> QED
      BY <3>1, <3>2
  <2>5. CASE EmptyFile(d)
    <3> DEFINE table == [files[d] EXCEPT !.rows = <<>>]
    <3>1. Ok(table)
      BY <1>1 DEF Fields
    <3>2. MayDamage(d) /\ Damage(d, table)
      BY <2>5 DEF EmptyFile
    <3> QED
      BY <3>1, <3>2
  <2>6. CASE BreakSyntax(d)
    <3>1. DOMAIN Unread(d) = Fields /\ Unread(d).rows = <<>>
      BY DEF Unread, Fields
    <3>2. <<>> \in Seq(Rows(d))
      OBVIOUS
    <3>3. Ok(Unread(d))
      BY <3>1, <3>2
    <3>4. MayDamage(d) /\ Damage(d, Unread(d))
      BY <2>6 DEF BreakSyntax
    <3> QED
      BY <3>3, <3>4
  <2> HIDE DEF Ok
  <2> QED
    BY <2>1, <2>2, <2>3, <2>4, <2>5, <2>6 DEF Damages
<1>3. PICK table : Ok(table) /\ MayDamage(d) /\ Damage(d, table)
  BY <1>2
<1>4. TypedFiles(files')
  BY <1>3, TableReplaced DEF Damage
<1> QED
  BY <1>3, <1>4 DEF MayDamage, Damage

\* The incoming files are typed.
LEMMA GeneratedTyped ==
    ASSUME NEW src \in Sources, NEW draw \in Draws(src), Generate(src, draw), phase' = "generated"
    PROVE  TypedFiles(files')
<1>1. /\ src.ratings \in Seq(Ratings)
      /\ Loadable(src)
      /\ \A k \in DOMAIN src.items : Prices[src.items[k]] \in Nat
      /\ Quantities \subseteq Nat
  BY SourceTables DEF Generate, Ratings
<1>2. Available \in Int
  BY GeneratorConfiguration DEF Available, ReferenceTime, Minute
<1>3. /\ \A i \in DOMAIN src.ratings : draw.offset[i] \in 0..Available
      /\ files' = IncomingFiles(src, draw)
  BY DEF Generate, Stop
<1>4. draw.quantity \in Nat /\ \A i \in Bought(src) : draw.delay[i] \in Int
  <2>1. MinDelay \in Int /\ MaxDelay \in Int
    BY GeneratorConfiguration
  <2>2. draw.quantity \in Quantities /\ draw.delay \in [Bought(src) -> MinDelay..MaxDelay]
    BY DEF Draws
  <2>3. draw.quantity \in Nat
    BY <1>1, <2>2
  <2>4. \A i \in Bought(src) : draw.delay[i] \in Int
    BY <2>1, <2>2
  <2> QED
    BY <2>3, <2>4
<1>5. /\ generate_clickstream(src, draw) \in Seq(Clicks)
      /\ generate_purchases(src, draw) \in Seq(Orders)
  BY <1>1, <1>2, <1>3, <1>4, GeneratedClicks, GeneratedPurchases
<1> DEFINE f == IncomingFiles(src, draw)
<1>6. /\ f["clickstream"].rows = generate_clickstream(src, draw)
      /\ f["purchasehistory"].rows = generate_purchases(src, draw)
  BY DEF IncomingFiles, TableOf
<1>7. DOMAIN f = Datasets /\ \A d \in Datasets : DOMAIN f[d] = Fields
  BY DEF IncomingFiles, TableOf, Datasets, Fields
<1> HIDE DEF f
<1>8. TypedFiles(f)
  BY <1>5, <1>6, <1>7 DEF TypedFiles, EventData, Rows
<1> QED
  BY <1>3, <1>8 DEF f

\* So are the raw frames that ingestion stores.
LEMMA RawFramesTyped ==
    ASSUME NEW f, TypedFiles(f)
    PROVE  TypedFiles(RawFrames(f))
<1> DEFINE answer == TableOf(list_popularity(f["products"], f["popularity"]))
           raw == RawFrames(f)
<1>1. raw = [d \in Datasets |-> AsRead(d, IF d = "popularity" THEN answer ELSE f[d])]
  BY DEF RawFrames
<1>2. DOMAIN answer = Fields
  BY DEF TableOf, Fields
<1> HIDE DEF answer, raw
<1>3. ASSUME NEW d \in Datasets
      PROVE  DOMAIN raw[d] = Fields
  BY <1>1, <1>2 DEF AsRead, TypedFiles
<1>4. ASSUME NEW d \in EventData
      PROVE  raw[d] = f[d]
  BY <1>1 DEF AsRead, EventData, Datasets
<1>5. TypedFiles(raw)
  BY <1>1, <1>3, <1>4 DEF TypedFiles
<1> QED
  BY <1>5 DEF raw

-----------------------------------------------------------------------------
(***************************************************************************)
(* What each stage has made of the one before.                             *)
(***************************************************************************)

Phases == {"idle", "generated", "ingested", "validated", "accepted", "prepared",
           "engineered", "trained", "stopped"}
HasFiles == phase # "idle" /\ reason \notin GenerationErrors
HasReport ==
    phase \in {"validated", "accepted", "prepared", "engineered", "trained"} \/ reason = "KeyError"
PassedGate == phase \in {"accepted", "prepared", "engineered", "trained"} \/ reason = "KeyError"
HasPrepared == phase \in {"prepared", "engineered", "trained"} \/ reason = "KeyError"
HasFeatures == phase \in {"engineered", "trained"}

ReportsOn(rep, f) ==
    /\ rep.results = [d \in Datasets |-> validate(d, f, RatingUnit)]
    /\ rep.status = run_status(f, rep.results)
ValidOf(rep) == [d \in Datasets |-> rep.results[d].valid]
PreparedFrom(rep, prep) ==
    /\ prep = prepare_frames(ValidOf(rep))
    /\ ~SplitRefuses(Cardinality(build_interactions(ValidOf(rep))))
ComputedFrom(prep, feat) ==
    /\ feat.events = select_feature_events(prep)
    /\ feat.reference = Reference(select_feature_events(prep))
    /\ feat.user_items = compute_user_item_features(select_feature_events(prep), prep.products)
Lacks(prep) == CatalogRaises(select_feature_events(prep), prep.products)

FlowInv ==
    /\ phase \in Phases
    /\ phase # "stopped" => reason = ""
    /\ HasFiles => TypedFiles(files)
    /\ HasReport => ReportsOn(report, files)
    /\ PassedGate => report.status # "FAILED"
    /\ HasPrepared => PreparedFrom(report, prepared)
    /\ HasFeatures => ComputedFrom(prepared, features)
    /\ reason = "KeyError" => Lacks(prepared)

\* The invariant holds before anything was generated.
LEMMA FlowInit == Init => FlowInv
BY DEF Init, FlowInv, Phases, HasFiles, GenerationErrors, HasReport, PassedGate, HasPrepared, HasFeatures

\* A batch that stops keeps what it has.
LEMMA StopFlow ==
    ASSUME FlowInv, phase # "stopped", NEW why, Stop(why), why # "",
           why \notin GenerationErrors => phase # "idle",
           why = "KeyError" => phase = "prepared" /\ Lacks(prepared)
    PROVE  FlowInv'
<1>1. /\ phase' = "stopped" /\ reason' = why
      /\ files' = files /\ report' = report /\ prepared' = prepared /\ features' = features
  BY DEF Stop
<1>2. reason = ""
  BY DEF FlowInv
<1>3. HasFiles' => TypedFiles(files)
  BY <1>1, <1>2 DEF FlowInv, HasFiles, GenerationErrors
<1>4. why = "KeyError" =>
        /\ ReportsOn(report, files) /\ report.status # "FAILED"
        /\ PreparedFrom(report, prepared) /\ Lacks(prepared)
  BY DEF FlowInv, HasReport, PassedGate, HasPrepared
<1> QED
  BY <1>1, <1>3, <1>4
  DEF FlowInv, Phases, HasFiles, GenerationErrors, HasReport, PassedGate, HasPrepared, HasFeatures

\* Generation writes typed files, or stops.
LEMMA GenerateFlow ==
    ASSUME FlowInv, NEW src \in Sources, NEW draw \in Draws(src), Generate(src, draw)
    PROVE  FlowInv'
<1>1. CASE phase' = "generated"
  <2>1. TypedFiles(files')
    BY <1>1, GeneratedTyped
  <2>2. reason' = ""
    BY <1>1 DEF Generate, Stop, FlowInv
  <2> QED
    BY <1>1, <2>1, <2>2
    DEF FlowInv, Phases, HasFiles, GenerationErrors, HasReport, PassedGate, HasPrepared, HasFeatures
<1>2. CASE phase' # "generated"
  <2>1. phase = "idle" /\ \E why \in GenerationErrors : Stop(why)
    BY <1>2 DEF Generate, GenerationErrors
  <2>2. PICK why \in GenerationErrors : Stop(why)
    BY <2>1
  <2>3. why \notin {"", "KeyError"}
    BY DEF GenerationErrors
  <2> QED
    BY <2>1, <2>2, <2>3, StopFlow
<1> QED
  BY <1>1, <1>2

\* Damage touches files only.
LEMMA DamageFlow ==
    ASSUME FlowInv, phase = "generated", TypedFiles(files'),
           UNCHANGED <<phase, reason, report, prepared, features, models>>
    PROVE  FlowInv'
BY DEF FlowInv, Phases, HasFiles, GenerationErrors, HasReport, PassedGate, HasPrepared, HasFeatures

\* Ingestion stores typed frames, or stops.
LEMMA IngestFlow ==
    ASSUME FlowInv, Ingest
    PROVE  FlowInv'
<1>1. phase = "generated" /\ TypedFiles(files) /\ reason = ""
  BY DEF FlowInv, Ingest, HasFiles, GenerationErrors
<1>2. CASE ServiceRefuses(files["products"], files["popularity"])
  <2>1. Stop("popularity")
    BY <1>2 DEF Ingest
  <2> QED
    BY <1>1, <2>1, StopFlow
<1>3. CASE ~ServiceRefuses(files["products"], files["popularity"])
  <2>1. phase' = "ingested" /\ files' = RawFrames(files) /\ reason' = ""
    BY <1>1, <1>3 DEF Ingest
  <2>2. TypedFiles(files')
    BY <1>1, <2>1, RawFramesTyped
  <2> QED
    BY <2>1, <2>2
    DEF FlowInv, Phases, HasFiles, GenerationErrors, HasReport, PassedGate, HasPrepared, HasFeatures
<1> QED
  BY <1>2, <1>3

\* The report is about the frames of the batch.
LEMMA ValidateFlow ==
    ASSUME FlowInv, ValidateBatch
    PROVE  FlowInv'
<1>1. phase = "ingested" /\ TypedFiles(files) /\ reason = ""
  BY DEF FlowInv, ValidateBatch, HasFiles, GenerationErrors
<1>2. CASE LookupRaises(files)
  <2>1. Stop("duplicate product")
    BY <1>2 DEF ValidateBatch
  <2> QED
    BY <1>1, <2>1, StopFlow
<1>3. CASE ~LookupRaises(files)
  <2> DEFINE results == [d \in Datasets |-> validate(d, files, RatingUnit)]
             score == overall_quality_score(files, results)
  <2>1. /\ phase' = "validated" /\ reason' = "" /\ files' = files
        /\ report' = [results |-> results, status |-> run_status(files, results),
                      score |-> score]
    BY <1>1, <1>3 DEF ValidateBatch
  <2>2. report'.results = results /\ report'.status = run_status(files, results)
    <3> HIDE DEF results, score
    <3> QED
      BY <2>1
  <2>3. ReportsOn(report', files')
    BY <2>1, <2>2 DEF ReportsOn
  <2> QED
    BY <1>1, <2>1, <2>3
    DEF FlowInv, Phases, HasFiles, GenerationErrors, HasReport, PassedGate, HasPrepared, HasFeatures
<1> QED
  BY <1>2, <1>3

\* The gate lets no failed report through.
LEMMA GateFlow ==
    ASSUME FlowInv, NEW strict, QualityGate(strict)
    PROVE  FlowInv'
<1>1. phase = "validated" /\ reason = ""
  BY DEF FlowInv, QualityGate
<1>2. CASE Stop("validation failed")
  BY <1>1, <1>2, StopFlow
<1>3. CASE Stop("strict quality")
  BY <1>1, <1>3, StopFlow
<1>4. CASE ~Stop("validation failed") /\ ~Stop("strict quality")
  <2>1. /\ report.status # "FAILED"
        /\ phase' = "accepted"
        /\ UNCHANGED <<reason, origin, defects, files, report, prepared, features, models>>
    BY <1>4 DEF QualityGate
  <2>2. TypedFiles(files) /\ ReportsOn(report, files)
    BY <1>1 DEF FlowInv, HasFiles, GenerationErrors, HasReport
  <2> QED
    BY <1>1, <2>1, <2>2
    DEF FlowInv, Phases, HasFiles, GenerationErrors, HasReport, PassedGate, HasPrepared, HasFeatures
<1> QED
  BY <1>2, <1>3, <1>4

\* Preparation works on the valid rows of that report, or stops.
LEMMA PrepareFlow ==
    ASSUME FlowInv, Prepare
    PROVE  FlowInv'
<1>1. /\ phase = "accepted" /\ reason = ""
      /\ TypedFiles(files) /\ ReportsOn(report, files) /\ report.status # "FAILED"
  BY DEF FlowInv, Prepare, HasFiles, GenerationErrors, HasReport, PassedGate
<1>2. CASE Stop("DatasetPreparationError")
  BY <1>1, <1>2, StopFlow
<1>3. CASE Stop("DataSplitError")
  BY <1>1, <1>3, StopFlow
<1>4. CASE ~Stop("DatasetPreparationError") /\ ~Stop("DataSplitError")
  <2>1. ValidRows = ValidOf(report)
    BY DEF ValidRows, ValidOf
  <2>2. /\ ~SplitRefuses(Cardinality(build_interactions(ValidRows)))
        /\ phase' = "prepared" /\ prepared' = prepare_frames(ValidRows)
        /\ UNCHANGED <<reason, origin, defects, files, report, features, models>>
    BY <1>4 DEF Prepare
  <2>3. PreparedFrom(report, prepared')
    BY <2>1, <2>2 DEF PreparedFrom
  <2> QED
    BY <1>1, <2>2, <2>3
    DEF FlowInv, Phases, HasFiles, GenerationErrors, HasReport, PassedGate, HasPrepared, HasFeatures
<1> QED
  BY <1>2, <1>3, <1>4

\* The features are computed from the prepared artifacts, or a lookup fails.
LEMMA EngineerFlow ==
    ASSUME FlowInv, Engineer
    PROVE  FlowInv'
<1>1. /\ phase = "prepared" /\ reason = ""
      /\ TypedFiles(files) /\ ReportsOn(report, files) /\ report.status # "FAILED"
      /\ PreparedFrom(report, prepared)
  BY DEF FlowInv, Engineer, HasFiles, GenerationErrors, HasReport, PassedGate, HasPrepared
<1> DEFINE events == select_feature_events(prepared)
<1>2. CASE Lacks(prepared)
  <2>1. Stop("KeyError")
    BY <1>2 DEF Engineer, Lacks
  <2> QED
    BY <1>1, <1>2, <2>1, StopFlow
<1>3. CASE ~Lacks(prepared)
  <2>1. /\ phase' = "engineered"
        /\ UNCHANGED <<reason, origin, defects, files, report, prepared, models>>
        /\ features'.events = events
        /\ features'.reference = Reference(events)
        /\ features'.user_items = compute_user_item_features(events, prepared.products)
    <3> DEFINE items == {e.product_id : e \in events}
               cooccurrence == compute_cooccurrence(events)
               u == compute_user_features(events, prepared.users)
               p == compute_item_features(events, prepared.products)
               up == compute_user_item_features(events, prepared.products)
               similar(near) == [i \in items |->
                   RankedSimilar(events, prepared.products, cooccurrence, i, near[i])]
    <3>1. /\ phase' = "engineered"
          /\ UNCHANGED <<reason, origin, defects, files, report, prepared, models>>
          /\ \E near \in [items -> SUBSET items] :
               features' = [events |-> events, reference |-> Reference(events), users |-> u,
                            items |-> p, user_items |-> up, cooccurrence |-> cooccurrence,
                            similarity |-> similar(near)]
      BY <1>3 DEF Engineer, Lacks
    <3> HIDE DEF events, cooccurrence, u, p, up, similar
    <3>2. /\ features'.events = events
          /\ features'.reference = Reference(events)
          /\ features'.user_items = up
      BY <3>1
    <3> QED
      BY <3>1, <3>2 DEF up
  <2>2. ComputedFrom(prepared, features')
    BY <2>1 DEF ComputedFrom
  <2> QED
    BY <1>1, <2>1, <2>2
    DEF FlowInv, Phases, HasFiles, GenerationErrors, HasReport, PassedGate, HasPrepared, HasFeatures
<1> QED
  BY <1>2, <1>3

\* Training changes none of them.
LEMMA TrainFlow ==
    ASSUME FlowInv, NEW appeal, Train(appeal)
    PROVE  FlowInv'
<1>1. /\ phase = "engineered" /\ reason = ""
      /\ TypedFiles(files) /\ ReportsOn(report, files) /\ report.status # "FAILED"
      /\ PreparedFrom(report, prepared) /\ ComputedFrom(prepared, features)
  BY DEF FlowInv, Train, HasFiles, GenerationErrors, HasReport, PassedGate, HasPrepared, HasFeatures
<1>2. CASE Stop("training")
  BY <1>1, <1>2, StopFlow
<1>3. CASE ~Stop("training")
  <2>1. /\ phase' = "trained"
        /\ UNCHANGED <<reason, origin, defects, files, report, prepared, features>>
    BY <1>3 DEF Train
  <2> QED
    BY <1>1, <2>1
    DEF FlowInv, Phases, HasFiles, GenerationErrors, HasReport, PassedGate, HasPrepared, HasFeatures
<1> QED
  BY <1>2, <1>3

\* Every step keeps the invariant.
LEMMA FlowStep == FlowInv /\ [Next]_vars => FlowInv'
<1> SUFFICES ASSUME FlowInv, [Next]_vars PROVE FlowInv'
  OBVIOUS
<1>1. ASSUME NEW src \in Sources, Load(src) PROVE FlowInv'
  BY <1>1, StopFlow DEF Load, GenerationErrors
<1>2. ASSUME NEW src \in Sources, NEW draw \in Draws(src), Generate(src, draw) PROVE FlowInv'
  BY <1>2, GenerateFlow
<1>3. ASSUME NEW d \in Datasets, Damages(d) PROVE FlowInv'
  <2>1. phase = "generated"
    BY <1>3
    DEF Damages, SpoilCell, RepeatRow, LoseColumn, AddColumn, EmptyFile, BreakSyntax, MayDamage
  <2>2. TypedFiles(files)
    BY <2>1 DEF FlowInv, HasFiles, GenerationErrors
  <2> QED
    BY <1>3, <2>1, <2>2, DamageKeepsTypes, DamageFlow
<1>5. ASSUME NEW strict \in StrictModes, QualityGate(strict) PROVE FlowInv'
  BY <1>5, GateFlow
<1>6. ASSUME NEW appeal \in Appeals, Train(appeal) PROVE FlowInv'
  BY <1>6, TrainFlow
<1>7. CASE UNCHANGED vars
  BY <1>7 DEF vars, FlowInv, Phases, HasFiles, GenerationErrors, HasReport, PassedGate, HasPrepared, HasFeatures
<1> QED
  BY <1>1, <1>2, <1>3, <1>5, <1>6, <1>7, IngestFlow, ValidateFlow, PrepareFlow,
     EngineerFlow DEF Next, Damages

\* Whatever was drawn and damaged: the frames are typed, the report is the one
\* validate gives for them, a failed one never passes the gate, and what was
\* prepared and engineered was computed from the rows that report kept.
THEOREM FlowInvariant == Spec => []FlowInv
BY FlowInit, FlowStep, PTL DEF Spec

-----------------------------------------------------------------------------
(***************************************************************************)
(* What validation demands of a row it keeps.                              *)
(***************************************************************************)

\* The rows kept are rows of the file, each once.
LEMMA KeptRows ==
    ASSUME NEW rows, NEW X, rows \in Seq(X), NEW kept \in SUBSET DOMAIN rows
    PROVE  \E o : /\ DOMAIN KeepRows(rows, kept) = 1..Cardinality(kept)
                  /\ IsFiniteSet(kept)
                  /\ \A k \in 1..Cardinality(kept) :
                        o[k] \in kept /\ KeepRows(rows, kept)[k] = rows[o[k]]
                  /\ \A k, l \in 1..Cardinality(kept) : o[k] = o[l] => k = l
<1> DEFINE Before(i, j) == i < j
           R == {p \in kept \X kept : Before(p[1], p[2])}
           o == InOrder(kept, Before)
<1>1. Len(rows) \in Int /\ kept \in SUBSET (1..Len(rows))
  OBVIOUS
<1>2. IsFiniteSet(kept)
  <2>1. IsFiniteSet(1..Len(rows))
    BY <1>1, FS_Interval
  <2> QED
    BY <1>1, <2>1, FS_Subset
<1>3. \A i \in kept : i \in Int
  BY <1>1
<1>4. StrictOrder(kept, R)
  BY <1>3 DEF StrictOrder
<1>5. Lists(o, kept, R)
  <2>1. ASSUME NEW x \in kept
        PROVE  {y \in kept : Before(y, x)} = Below(kept, R, x)
    BY DEF Below
  <2>2. ASSUME NEW k \in 1..Cardinality(kept)
        PROVE  o[k] \in kept /\ Rank(kept, R, o[k]) = k - 1
    <3>1. PICK x \in kept : Rank(kept, R, x) = k - 1
      BY <1>2, <1>4, RankTaken
    <3>2. Cardinality({y \in kept : Before(y, x)}) = k - 1
      BY <3>1, <2>1 DEF Rank
    <3>3. o[k] = CHOOSE z \in kept : Cardinality({y \in kept : Before(y, z)}) = k - 1
      BY DEF InOrder
    <3>4. o[k] \in kept /\ Cardinality({y \in kept : Before(y, o[k])}) = k - 1
      BY <3>2, <3>3
    <3> QED
      BY <3>4, <2>1 DEF Rank
  <2>3. DOMAIN o = 1..Cardinality(kept)
    BY DEF InOrder
  <2> QED
    BY <2>2, <2>3 DEF Lists
<1>6. KeepRows(rows, kept) = [k \in DOMAIN o |-> rows[o[k]]]
  BY DEF KeepRows
<1> HIDE DEF o, R
<1>7. /\ DOMAIN o = 1..Cardinality(kept)
      /\ \A k \in 1..Cardinality(kept) : o[k] \in kept
  BY <1>5 DEF Lists
<1>8. \A k, l \in 1..Cardinality(kept) : o[k] = o[l] => k = l
  BY <1>2, <1>4, <1>5, ListingIsSorted
<1> WITNESS o
<1> QED
  BY <1>2, <1>6, <1>7, <1>8

\* A row that fails a rule of severity ERROR is quarantined.
LEMMA ErrorsQuarantine ==
    ASSUME NEW rules, NEW rule \in rules, rule.severity = "ERROR"
    PROVE  rule.failed \subseteq Quarantined(rules)
BY DEF Quarantined, Errors

\* What keeps an event and an order apart from others, and what says when it was.
IdOf(d) == IF d = "clickstream" THEN "event_id" ELSE "order_id"
TimeOf(d) == IF d = "clickstream" THEN "timestamp" ELSE "purchase_timestamp"

\* A row that is kept passes the rules of its dataset.
LEMMA RulesApply ==
    ASSUME NEW f, NEW d \in EventData, NEW i, i \notin Quarantined(RulesOf(d, f, RatingUnit))
    PROVE  /\ i \notin required_value(d, f[d], IdOf(d)).failed
           /\ i \notin required_value(d, f[d], TimeOf(d)).failed
           /\ i \notin business_key_unique(d, f[d]).failed
           /\ i \notin uuid(f[d], IdOf(d)).failed
           /\ i \notin Failing(f[d], {TimeOf(d)}, LAMBDA r : r[TimeOf(d)] = Garbled)
           /\ i \notin positive_integer(f[d], "product_id").failed
           /\ i \notin foreign_key(d, f[d], "product_id", "products", f["products"]).failed
<1> DEFINE rules == RulesOf(d, f, RatingUnit)
           format == Rule(<<TimeOf(d), "FORMAT">>, "Format", "ERROR",
                          Failing(f[d], {TimeOf(d)}, LAMBDA r : r[TimeOf(d)] = Garbled))
           r1 == required_value(d, f[d], IdOf(d))
           r2 == required_value(d, f[d], TimeOf(d))
           r3 == business_key_unique(d, f[d])
           r4 == uuid(f[d], IdOf(d))
           r5 == positive_integer(f[d], "product_id")
           r6 == foreign_key(d, f[d], "product_id", "products", f["products"])
<1>1. r1 \in rules /\ r2 \in rules /\ r3 \in rules
  <2>1. IdOf(d) \in required_value_columns(d) /\ TimeOf(d) \in required_value_columns(d)
    BY DEF IdOf, TimeOf, required_value_columns, Columns, EventData
  <2>2. r1 \in common_rules(d, f[d]) /\ r2 \in common_rules(d, f[d]) /\ r3 \in common_rules(d, f[d])
    <3> HIDE DEF r3
    <3> QED
      BY <2>1 DEF common_rules, r3
  <2>3. common_rules(d, f[d]) \subseteq rules
    BY DEF RulesOf
  <2> QED
    BY <2>2, <2>3
<1>2. r4 \in rules /\ r5 \in rules /\ r6 \in rules /\ format \in rules
  <2>1. CASE d = "clickstream"
    <3>1. clickstream_rules(f[d], f["users"], f["products"]) \subseteq rules
      BY <2>1 DEF RulesOf
    <3>2. format \in timestamp(f[d], "timestamp")
      BY <2>1 DEF timestamp, TimeOf
    <3>3. timestamp(f[d], "timestamp") \subseteq clickstream_rules(f[d], f["users"], f["products"])
      BY DEF clickstream_rules
    <3>4. {r4, r5, r6} \subseteq clickstream_rules(f[d], f["users"], f["products"])
      BY <2>1 DEF clickstream_rules, IdOf
    <3> QED
      BY <3>1, <3>2, <3>3, <3>4
  <2>2. CASE d = "purchasehistory"
    <3> DEFINE own == purchase_rules(f[d], f["users"], f["products"], f["clickstream"])
    <3>1. own \subseteq rules
      BY <2>2 DEF RulesOf
    <3>2. format \in timestamp(f[d], "purchase_timestamp")
      BY <2>2 DEF timestamp, TimeOf
    <3>3. timestamp(f[d], "purchase_timestamp") \subseteq own
      BY DEF purchase_rules
    <3>4. {r4, r5, r6} \subseteq own
      BY <2>2 DEF purchase_rules, IdOf
    <3> QED
      BY <3>1, <3>2, <3>3, <3>4
  <2> QED
    BY <2>1, <2>2 DEF EventData
<1>3. /\ r1.severity = "ERROR" /\ r2.severity = "ERROR" /\ r3.severity = "ERROR"
      /\ r4.severity = "ERROR" /\ r5.severity = "ERROR" /\ r6.severity = "ERROR"
      /\ format.severity = "ERROR"
      /\ format.failed = Failing(f[d], {TimeOf(d)}, LAMBDA r : r[TimeOf(d)] = Garbled)
  BY DEF Rule, required_value, business_key_unique, uuid, positive_integer, foreign_key
<1> HIDE DEF rules, r1, r2, r3, r4, r5, r6, format
<1>4. /\ r1.failed \subseteq Quarantined(rules) /\ r2.failed \subseteq Quarantined(rules)
      /\ r3.failed \subseteq Quarantined(rules) /\ r4.failed \subseteq Quarantined(rules)
      /\ r5.failed \subseteq Quarantined(rules) /\ r6.failed \subseteq Quarantined(rules)
      /\ format.failed \subseteq Quarantined(rules)
  BY <1>1, <1>2, <1>3, ErrorsQuarantine
<1>5. i \notin Quarantined(rules)
  BY DEF rules
<1> QED
  BY <1>3, <1>4, <1>5 DEF r1, r2, r3, r4, r5, r6

\* A row kept has its identifier, which no other row of the file has, a time
\* and a product of the raw catalog.
LEMMA KeptEvent ==
    ASSUME NEW f, TypedFiles(f), NEW d \in EventData,
           f[d].missing = {}, f["products"].missing = {},
           NEW i \in DOMAIN f[d].rows, i \notin Quarantined(RulesOf(d, f, RatingUnit))
    PROVE  /\ f[d].rows[i] \in Rows(d)
           /\ f[d].rows[i][IdOf(d)] \notin Odd
           /\ f[d].rows[i][TimeOf(d)] \notin Odd
           /\ f[d].rows[i].product_id \in Int
           /\ \A j \in DOMAIN f[d].rows :
                 f[d].rows[i][IdOf(d)] = f[d].rows[j][IdOf(d)] => i = j
           /\ \E j \in DOMAIN f["products"].rows :
                 f["products"].rows[j].product_id = f[d].rows[i].product_id
<1>1. f[d].rows[i] \in Rows(d)
  <2>1. f[d].rows \in Seq(Rows(d))
    BY DEF TypedFiles
  <2> DEFINE rows == f[d].rows
  <2>2. rows \in Seq(Rows(d)) /\ i \in DOMAIN rows
    BY <2>1
  <2> HIDE DEF rows
  <2>3. rows[i] \in Rows(d)
    BY <2>2
  <2> QED
    BY <2>3 DEF rows
<1>2. f[d].rows[i][IdOf(d)] \notin Odd
  BY RulesApply DEF uuid, Rule, Failing, Odd
<1>3. f[d].rows[i][TimeOf(d)] # Blank
  BY RulesApply DEF required_value, Rule, Failing, blank
<1>4. f[d].rows[i][TimeOf(d)] # Garbled
  BY RulesApply DEF Failing
<1>5. \A j \in DOMAIN f[d].rows : f[d].rows[i][IdOf(d)] = f[d].rows[j][IdOf(d)] => i = j
  <2>1. business_key(d) = IdOf(d)
    BY DEF business_key, IdOf, EventData
  <2> QED
    BY <2>1, RulesApply DEF business_key_unique, Rule
<1>6. f[d].rows[i].product_id \in Int
  <2>1. whole(f[d].rows[i].product_id)
    BY RulesApply DEF positive_integer, Rule, Failing
  <2>2. f[d].rows[i].product_id \in Numbers
    BY <1>1 DEF Rows, Clicks, Orders
  <2> QED
    BY <2>1, <2>2 DEF whole, Numbers
<1>7. \E j \in DOMAIN f["products"].rows :
         f["products"].rows[j].product_id = f[d].rows[i].product_id
  <2> DEFINE Orphan(k) ==
               \/ TextColumn(d, f[d], "product_id")
                     # TextColumn("products", f["products"], "product_id")
               \/ \A j \in DOMAIN f["products"].rows :
                     \/ blank(f["products"].rows[j]["product_id"])
                     \/ f["products"].rows[j]["product_id"] # f[d].rows[k]["product_id"]
  <2>1. foreign_key(d, f[d], "product_id", "products", f["products"]).failed
          = {k \in DOMAIN f[d].rows : Orphan(k)}
    BY DEF foreign_key, Rule
  <2>2. i \notin {k \in DOMAIN f[d].rows : Orphan(k)}
    BY <2>1, RulesApply
  <2>3. ~Orphan(i)
    BY <2>2
  <2> QED
    BY <2>3
<1> QED
  BY <1>1, <1>2, <1>3, <1>4, <1>5, <1>6, <1>7 DEF Odd

\* The events of one kind that validation passes on.
LEMMA ValidEvents ==
    ASSUME NEW f, TypedFiles(f), NEW rep, ReportsOn(rep, f), rep.status # "FAILED",
           NEW d \in EventData
    PROVE  LET v == ValidOf(rep)[d]
           IN  /\ IsFiniteSet(DOMAIN v)
               /\ \A k \in DOMAIN v :
                     /\ v[k] \in Rows(d)
                     /\ v[k][IdOf(d)] \notin Odd /\ v[k][TimeOf(d)] \notin Odd
                     /\ v[k].product_id \in Int
                     /\ \E j \in DOMAIN f["products"].rows :
                           f["products"].rows[j].product_id = v[k].product_id
               /\ \A k, l \in DOMAIN v : v[k][IdOf(d)] = v[l][IdOf(d)] => k = l
<1> DEFINE v == ValidOf(rep)[d]
           rows == f[d].rows
           invalid == Quarantined(RulesOf(d, f, RatingUnit))
           kept == DOMAIN rows \ invalid
<1>1. ASSUME NEW e \in Datasets
      PROVE  f[e].missing = {}
  <2>1. ~rep.results[e].critical
    BY DEF ReportsOn, run_status
  <2>2. rep.results[e].critical = (f[e].missing # {} \/ f[e].rows = <<>>)
    BY DEF ReportsOn, validate
  <2> QED
    BY <2>1, <2>2
<1>2. f[d].missing = {} /\ f["products"].missing = {}
  BY <1>1 DEF EventData, Datasets
<1>3. v = KeepRows(rows, kept)
  BY DEF ValidOf, ReportsOn, validate, EventData, Datasets
<1>4. rows \in Seq(Rows(d))
  BY DEF TypedFiles
<1>5. kept \in SUBSET DOMAIN rows
  OBVIOUS
<1>6. PICK o : /\ DOMAIN KeepRows(rows, kept) = 1..Cardinality(kept)
               /\ IsFiniteSet(kept)
               /\ \A k \in 1..Cardinality(kept) :
                     o[k] \in kept /\ KeepRows(rows, kept)[k] = rows[o[k]]
               /\ \A k, l \in 1..Cardinality(kept) : o[k] = o[l] => k = l
  <2> HIDE DEF rows, kept
  <2> QED
    BY <1>4, <1>5, KeptRows
<1> DEFINE n == Cardinality(kept)
<1> DEFINE picked == KeepRows(rows, kept)
<1>7. /\ DOMAIN v = 1..n /\ n \in Int
      /\ \A k \in 1..n : o[k] \in kept /\ v[k] = rows[o[k]]
      /\ \A k, l \in 1..n : o[k] = o[l] => k = l
  <2>1. n \in Int
    <3> HIDE DEF kept
    <3> QED
      BY <1>6, FS_CardinalityType
  <2>2. /\ DOMAIN picked = 1..n
        /\ \A k \in 1..n : o[k] \in kept /\ picked[k] = rows[o[k]]
        /\ \A k, l \in 1..n : o[k] = o[l] => k = l
    BY <1>6
  <2>3. v = picked
    BY <1>3
  <2> HIDE DEF v, picked, rows, kept, n
  <2> QED
    BY <2>1, <2>2, <2>3
<1>8. ASSUME NEW i \in kept
      PROVE  /\ rows[i] \in Rows(d)
             /\ rows[i][IdOf(d)] \notin Odd /\ rows[i][TimeOf(d)] \notin Odd
             /\ rows[i].product_id \in Int
             /\ \A j \in kept : rows[i][IdOf(d)] = rows[j][IdOf(d)] => i = j
             /\ \E j \in DOMAIN f["products"].rows :
                   f["products"].rows[j].product_id = rows[i].product_id
  BY <1>2, KeptEvent
<1> HIDE DEF v, kept, rows, n
<1>9. IsFiniteSet(DOMAIN v)
  <2>1. 1 \in Int /\ n \in Int
    BY <1>7
  <2>2. IsFiniteSet(1..n)
    BY <2>1, FS_Interval
  <2> QED
    BY <1>7, <2>2
<1>10. \A k \in DOMAIN v :
          /\ v[k] \in Rows(d)
          /\ v[k][IdOf(d)] \notin Odd /\ v[k][TimeOf(d)] \notin Odd
          /\ v[k].product_id \in Int
          /\ \E j \in DOMAIN f["products"].rows :
                f["products"].rows[j].product_id = v[k].product_id
  BY <1>7, <1>8
<1>11. \A k, l \in DOMAIN v : v[k][IdOf(d)] = v[l][IdOf(d)] => k = l
  BY <1>7, <1>8
<1> QED
  BY <1>9, <1>10, <1>11 DEF v

\* The interactions built from them can be sorted, and are about products of
\* the raw catalog.
LEMMA InteractionsSortable ==
    ASSUME NEW f, TypedFiles(f), NEW rep, ReportsOn(rep, f), rep.status # "FAILED"
    PROVE  LET S == build_interactions(ValidOf(rep))
           IN  /\ IsFiniteSet(S) /\ Sortable(S)
               /\ \A e \in S :
                     /\ e.product_id \in Int
                     /\ \E j \in DOMAIN f["products"].rows :
                           f["products"].rows[j].product_id = e.product_id
<1> DEFINE v == ValidOf(rep)["clickstream"]
           w == ValidOf(rep)["purchasehistory"]
           clicks == {Click(v[k]) : k \in DOMAIN v}
           orders == {Order(w[k]) : k \in DOMAIN w}
           S == build_interactions(ValidOf(rep))
           Listed(id) == \E j \in DOMAIN f["products"].rows :
                             f["products"].rows[j].product_id = id
<1>1. S = clicks \cup orders
  BY DEF build_interactions
<1>2. /\ IsFiniteSet(DOMAIN v)
      /\ \A k \in DOMAIN v :
            /\ v[k] \in Clicks /\ v[k].event_id \notin Odd /\ v[k].timestamp \notin Odd
            /\ v[k].product_id \in Int /\ Listed(v[k].product_id)
      /\ \A k, l \in DOMAIN v : v[k].event_id = v[l].event_id => k = l
  <2> DEFINE d == "clickstream"
  <2>1. d \in EventData /\ Rows(d) = Clicks /\ IdOf(d) = "event_id" /\ TimeOf(d) = "timestamp"
    BY DEF EventData, Rows, IdOf, TimeOf
  <2> QED
    BY <2>1, ValidEvents
<1>3. /\ IsFiniteSet(DOMAIN w)
      /\ \A k \in DOMAIN w :
            /\ w[k] \in Orders /\ w[k].order_id \notin Odd /\ w[k].purchase_timestamp \notin Odd
            /\ w[k].product_id \in Int /\ Listed(w[k].product_id)
      /\ \A k, l \in DOMAIN w : w[k].order_id = w[l].order_id => k = l
  <2> DEFINE d == "purchasehistory"
  <2>1. /\ d \in EventData /\ Rows(d) = Orders /\ IdOf(d) = "order_id"
        /\ TimeOf(d) = "purchase_timestamp"
    BY DEF EventData, Rows, IdOf, TimeOf
  <2> QED
    BY <2>1, ValidEvents
<1> HIDE DEF v, w, Listed
<1>4. ASSUME NEW e \in clicks
      PROVE  /\ e.interaction_id \in ClickIds /\ e.event_timestamp \in Int
             /\ e.product_id \in Int /\ Listed(e.product_id)
  <2>1. PICK k \in DOMAIN v : e = Click(v[k])
    OBVIOUS
  <2>2. v[k].event_id \in ClickIds /\ v[k].timestamp \in Int
    BY <1>2 DEF Clicks, Times, Odd
  <2>3. /\ e.interaction_id = v[k].event_id /\ e.event_timestamp = v[k].timestamp
        /\ e.product_id = v[k].product_id
    BY <2>1 DEF Click
  <2> QED
    BY <1>2, <2>2, <2>3
<1>5. ASSUME NEW e \in orders
      PROVE  /\ e.interaction_id \in OrderIds /\ e.event_timestamp \in Int
             /\ e.product_id \in Int /\ Listed(e.product_id)
  <2>1. PICK k \in DOMAIN w : e = Order(w[k])
    OBVIOUS
  <2>2. w[k].order_id \in OrderIds /\ w[k].purchase_timestamp \in Int
    BY <1>3 DEF Orders, Times, Odd
  <2>3. /\ e.interaction_id = w[k].order_id /\ e.event_timestamp = w[k].purchase_timestamp
        /\ e.product_id = w[k].product_id
    BY <2>1 DEF Order
  <2> QED
    BY <1>3, <2>2, <2>3
<1>6. ASSUME NEW e \in clicks, NEW g \in clicks, e.interaction_id = g.interaction_id
      PROVE  e = g
  <2>1. PICK k \in DOMAIN v : e = Click(v[k])
    OBVIOUS
  <2>2. PICK l \in DOMAIN v : g = Click(v[l])
    OBVIOUS
  <2>3. v[k].event_id = v[l].event_id
    BY <1>6, <2>1, <2>2 DEF Click
  <2> QED
    BY <1>2, <2>1, <2>2, <2>3
<1>7. ASSUME NEW e \in orders, NEW g \in orders, e.interaction_id = g.interaction_id
      PROVE  e = g
  <2>1. PICK k \in DOMAIN w : e = Order(w[k])
    OBVIOUS
  <2>2. PICK l \in DOMAIN w : g = Order(w[l])
    OBVIOUS
  <2>3. w[k].order_id = w[l].order_id
    BY <1>7, <2>1, <2>2 DEF Order
  <2> QED
    BY <1>3, <2>1, <2>2, <2>3
<1>8. ClickIds \cap OrderIds = {} /\ ClickIds \cup OrderIds \subseteq Int \X Int
  BY DEF ClickIds, OrderIds
<1>9. IsFiniteSet(clicks)
  <2> DEFINE h == [k \in DOMAIN v |-> Click(v[k])]
  <2>1. clicks = {h[k] : k \in DOMAIN v} /\ DOMAIN h = DOMAIN v
    OBVIOUS
  <2> HIDE DEF h, clicks
  <2> QED
    BY <1>2, <2>1, ImageIsFinite
<1>10. IsFiniteSet(orders)
  <2> DEFINE h == [k \in DOMAIN w |-> Order(w[k])]
  <2>1. orders = {h[k] : k \in DOMAIN w} /\ DOMAIN h = DOMAIN w
    OBVIOUS
  <2> HIDE DEF h, orders
  <2> QED
    BY <1>3, <2>1, ImageIsFinite
<1> HIDE DEF clicks, orders, S
<1>11. IsFiniteSet(S)
  BY <1>1, <1>9, <1>10, FS_Union
<1>12. \A e \in S : /\ e.event_timestamp \in Int /\ e.interaction_id \in Int \X Int
                    /\ e.product_id \in Int /\ Listed(e.product_id)
  BY <1>1, <1>4, <1>5, <1>8
<1>13. \A e, g \in S : e.interaction_id = g.interaction_id => e = g
  BY <1>1, <1>4, <1>5, <1>6, <1>7, <1>8
<1>14. Sortable(S)
  BY <1>12, <1>13 DEF Sortable
<1> QED
  BY <1>11, <1>12, <1>14 DEF S, Listed

-----------------------------------------------------------------------------
(***************************************************************************)
(* No feature looks ahead.                                                 *)
(***************************************************************************)

\* The latest time of some interactions is the time of one of them.
LEMMA LatestIsTaken ==
    ASSUME NEW S, IsFiniteSet(S), Sortable(S), NEW T \in SUBSET S, T # {}
    PROVE  \E m \in T : Max({e.event_timestamp : e \in T}) = m.event_timestamp
<1> DEFINE times == {e.event_timestamp : e \in T}
           R == Chronology(S)
<1>1. IsFiniteSet(T) /\ StrictOrder(T, R)
  BY FS_Subset, ChronologyIsStrict, SubsetIsStrict
<1>2. PICK last \in T : \A e \in T : e = last \/ <<e, last>> \in R
  BY <1>1, LastExists
<1>3. \A e \in T : e.event_timestamp \in Int
  BY DEF Sortable
<1>4. ASSUME NEW e \in T
      PROVE  e.event_timestamp <= last.event_timestamp
  <2>1. e = last \/ Precedes(e, last)
    BY <1>2 DEF Chronology
  <2> QED
    BY <1>3, <2>1 DEF Precedes
<1>5. last.event_timestamp \in times /\ \A t \in times : last.event_timestamp >= t
  BY <1>3, <1>4
<1>6. Max(times) \in times
  <2> HIDE DEF times
  <2> QED
    BY <1>5 DEF Max
<1> QED
  BY <1>6

\* What EventFeaturesSeeOnlyThePast says of a batch, for the interactions of a
\* sortable set.
LEMMA SplitHidesTheFuture ==
    ASSUME SourceSplit = "train",
           NEW S, IsFiniteSet(S), Sortable(S), ~SplitRefuses(Cardinality(S)),
           NEW split, split = chronological_split(S),
           NEW products
    PROVE  LET held == split.validation \cup split.test
               pairs == compute_user_item_features(split.train, products)
           IN  /\ \A h \in held :
                     /\ Reference(split.train) <= h.event_timestamp
                     /\ \A pair \in DOMAIN pairs : pairs[pair].last <= h.event_timestamp
               /\ split.train \cap held = {}
               /\ split.train \cup held = S
               /\ Cardinality(S) = Cardinality(split.train) + Cardinality(split.validation)
                                      + Cardinality(split.test)
<1> DEFINE train == split.train
           validation == split.validation
           test == split.test
           pairs == compute_user_item_features(train, products)
<1>1. SplitIsChronological(S, split)
  BY SplitFollowsTime
<1>2. /\ train \cup validation \cup test = S
      /\ train \cap validation = {} /\ train \cap test = {} /\ validation \cap test = {}
      /\ train # {}
      /\ \A x \in train : \A y \in validation \cup test : x.event_timestamp <= y.event_timestamp
  BY <1>1 DEF SplitIsChronological
<1> HIDE DEF train, validation, test
<1>3. ASSUME NEW h \in validation \cup test
      PROVE  Reference(train) <= h.event_timestamp
  <2>1. train \in SUBSET S /\ train # {}
    BY <1>2
  <2>2. PICK m \in train : Max({e.event_timestamp : e \in train}) = m.event_timestamp
    BY <2>1, LatestIsTaken
  <2> QED
    BY <1>2, <2>2 DEF Reference
<1>4. ASSUME NEW h \in validation \cup test, NEW pair \in DOMAIN pairs
      PROVE  pairs[pair].last <= h.event_timestamp
  <2> DEFINE mine == {e \in train : <<e.user_id, e.product_id>> = pair}
  <2>1. pair \in {<<e.user_id, e.product_id>> : e \in train}
    BY DEF compute_user_item_features
  <2>2. pairs[pair].last = Max({e.event_timestamp : e \in mine})
    BY <2>1 DEF compute_user_item_features
  <2>3. mine # {} /\ mine \in SUBSET S /\ mine \subseteq train
    BY <1>2, <2>1
  <2> HIDE DEF mine, pairs
  <2>4. PICK m \in mine : Max({e.event_timestamp : e \in mine}) = m.event_timestamp
    BY <2>3, LatestIsTaken
  <2> QED
    BY <1>2, <2>2, <2>3, <2>4
<1>5. Cardinality(S) = Cardinality(train) + Cardinality(validation) + Cardinality(test)
  <2>1. IsFiniteSet(train) /\ IsFiniteSet(validation) /\ IsFiniteSet(test)
    BY <1>2, FS_Subset
  <2>2. /\ Cardinality(train) \in Nat /\ Cardinality(validation) \in Nat
        /\ Cardinality(test) \in Nat
    BY <2>1, FS_CardinalityType
  <2>3. /\ Cardinality(train \cap validation) = 0
        /\ Cardinality((train \cup validation) \cap test) = 0
    BY <1>2, FS_EmptySet
  <2> DEFINE both == train \cup validation
             all == both \cup test
  <2> DEFINE shared == train \cap validation
  <2>4. IsFiniteSet(both) /\ Cardinality(both) = Cardinality(train) + Cardinality(validation)
    <3>1. /\ IsFiniteSet(both)
          /\ Cardinality(both) = Cardinality(train) + Cardinality(validation) - Cardinality(shared)
      BY <2>1, FS_Union
    <3>2. Cardinality(shared) = 0
      BY <2>3
    <3> HIDE DEF both, shared
    <3> QED
      BY <2>2, <3>1, <3>2
  <2>5. /\ Cardinality(all) = Cardinality(both) + Cardinality(test) - Cardinality(both \cap test)
        /\ Cardinality(both \cap test) = 0
    BY <2>1, <2>3, <2>4, FS_Union
  <2>6. all = S
    BY <1>2
  <2> HIDE DEF both, all
  <2> QED
    BY <2>2, <2>4, <2>5, <2>6
<1> QED
  BY <1>2, <1>3, <1>4, <1>5 DEF train, validation, test

\* What is known of the interactions of a batch that was prepared.
LEMMA PreparedBatch ==
    ASSUME FlowInv, HasPrepared
    PROVE  LET S == build_interactions(ValidOf(report))
           IN  /\ IsFiniteSet(S) /\ Sortable(S) /\ ~SplitRefuses(Cardinality(S))
               /\ prepared = prepare_frames(ValidOf(report))
               /\ prepared.interactions = S /\ prepared.split = chronological_split(S)
               /\ prepared.products = clean_products(ValidOf(report))
               /\ \A e \in S :
                     /\ e.product_id \in Int
                     /\ \E j \in DOMAIN files["products"].rows :
                           files["products"].rows[j].product_id = e.product_id
<1>1. /\ TypedFiles(files) /\ ReportsOn(report, files) /\ report.status # "FAILED"
      /\ PreparedFrom(report, prepared)
  BY DEF FlowInv, HasPrepared, HasFiles, GenerationErrors, HasReport, PassedGate
<1>2. /\ prepared = prepare_frames(ValidOf(report))
      /\ ~SplitRefuses(Cardinality(build_interactions(ValidOf(report))))
  BY <1>1 DEF PreparedFrom
<1>3. /\ prepared.interactions = build_interactions(ValidOf(report))
      /\ prepared.split = chronological_split(build_interactions(ValidOf(report)))
      /\ prepared.products = clean_products(ValidOf(report))
  BY <1>2 DEF prepare_frames
<1> QED
  BY <1>1, <1>2, <1>3, InteractionsSortable

\* No leakage, in every batch and for every source, draw and damage: with the
\* train partition as the source of features, as feature_engineering.yaml sets
\* it, what compute_all_features works on and its reference time lie before
\* every interaction that chronological_split held out, and the split loses and
\* repeats none.
THEOREM EventFeaturesStayInThePast ==
    ASSUME SourceSplit = "train"
    PROVE  Spec => []EventFeaturesSeeOnlyThePast
<1>1. ASSUME FlowInv
      PROVE  EventFeaturesSeeOnlyThePast
  <2> SUFFICES ASSUME phase \in {"engineered", "trained"}
               PROVE  EventFeaturesSeeOnlyThePast
    BY DEF EventFeaturesSeeOnlyThePast
  <2> DEFINE S == build_interactions(ValidOf(report))
             split == prepared.split
             pairs == compute_user_item_features(split.train, prepared.products)
  <2>1. HasPrepared /\ ComputedFrom(prepared, features)
    BY <1>1 DEF FlowInv, HasPrepared, HasFeatures
  <2>2. /\ IsFiniteSet(S) /\ Sortable(S) /\ ~SplitRefuses(Cardinality(S))
        /\ prepared.interactions = S /\ split = chronological_split(S)
    BY <1>1, <2>1, PreparedBatch
  <2>3. select_feature_events(prepared) = split.train
    BY DEF select_feature_events
  <2>4. /\ features.events = split.train /\ features.reference = Reference(split.train)
        /\ features.user_items = pairs
    BY <2>1, <2>3 DEF ComputedFrom
  <2> DEFINE held == split.validation \cup split.test
  <2>5. /\ \A h \in held :
              /\ Reference(split.train) <= h.event_timestamp
              /\ \A pair \in DOMAIN pairs : pairs[pair].last <= h.event_timestamp
        /\ split.train \cap held = {}
        /\ split.train \cup held = S
        /\ Cardinality(S) = Cardinality(split.train) + Cardinality(split.validation)
                               + Cardinality(split.test)
    <3> HIDE DEF S, split
    <3> QED
      BY <2>2, SplitHidesTheFuture
  <2>6. HeldOutEvents = held
    BY DEF HeldOutEvents
  <2> HIDE DEF S, pairs
  <2> QED
    BY <2>2, <2>4, <2>5, <2>6 DEF EventFeaturesSeeOnlyThePast
<1> QED
  BY <1>1, FlowInvariant, PTL

\* A product validation kept is in the prepared catalog.
LEMMA ValidProductsAreKnown ==
    ASSUME NEW valid, NEW k \in DOMAIN valid["products"]
    PROVE  \E p \in clean_products(valid) : p.product_id = valid["products"][k].product_id
<1> DEFINE Scores(id) == {valid["popularity"][j].popularity_score :
                             j \in {l \in DOMAIN valid["popularity"] :
                                       valid["popularity"][l].product_id = id}}
           Prepared(p) ==
               [product_id |-> p.product_id, category |-> p.category, brand |-> p.brand,
                price |-> p.price, average_rating |-> p.average_rating,
                popularity_score |-> IF Scores(p.product_id) = {} THEN Blank
                                     ELSE CHOOSE s \in Scores(p.product_id) : TRUE]
<1>1. clean_products(valid) = {Prepared(p) : p \in {valid["products"][l] :
                                                       l \in DOMAIN valid["products"]}}
  BY DEF clean_products
<1>2. Prepared(valid["products"][k]).product_id = valid["products"][k].product_id
  OBVIOUS
<1> HIDE DEF Prepared
<1>3. Prepared(valid["products"][k]) \in clean_products(valid)
  BY <1>1
<1> QED
  BY <1>2, <1>3

\* The KeyError of compute_similarity_features has one cause: a product whose
\* own row was quarantined, while clicks or purchases of it, checked against
\* the raw catalog, were kept.  No product is missing from the raw catalog,
\* whatever the files were and whichever partition the features are made of.
THEOREM LookupFailsForOneCause == Spec => []LookupFailsForQuarantinedProduct
<1>1. ASSUME FlowInv
      PROVE  LookupFailsForQuarantinedProduct
  <2> SUFFICES ASSUME phase = "stopped", reason = "KeyError"
               PROVE  LookupFailsForQuarantinedProduct
    BY DEF LookupFailsForQuarantinedProduct
  <2> DEFINE valid == ValidOf(report)
             S == build_interactions(valid)
             events == select_feature_events(prepared)
             known == IdsOf({ValidRows["products"][k] : k \in DOMAIN ValidRows["products"]},
                            "product_id")
             lacking == IdsOf(events, "product_id") \ known
  <2>1. HasPrepared /\ Lacks(prepared)
    BY <1>1 DEF FlowInv, HasPrepared
  <2>2. /\ IsFiniteSet(S) /\ Sortable(S) /\ ~SplitRefuses(Cardinality(S))
        /\ prepared.interactions = S /\ prepared.split = chronological_split(S)
        /\ prepared.products = clean_products(valid)
        /\ \A e \in S : \E j \in DOMAIN files["products"].rows :
              files["products"].rows[j].product_id = e.product_id
    BY <1>1, <2>1, PreparedBatch
  <2>3. events \subseteq S
    <3>1. SplitIsChronological(S, prepared.split)
      BY <2>2, SplitFollowsTime
    <3>2. prepared.split.train \subseteq S
      BY <3>1 DEF SplitIsChronological
    <3> QED
      BY <2>2, <3>2 DEF select_feature_events
  <2>4. PICK i \in {e.product_id : e \in events} : \A p \in clean_products(valid) : p.product_id # i
    BY <2>1, <2>2 DEF Lacks, CatalogRaises
  <2>5. valid = ValidRows
    BY DEF ValidRows, ValidOf
  <2>6. i \notin known
    <3>1. ASSUME NEW k \in DOMAIN valid["products"]
          PROVE  valid["products"][k].product_id # i
      BY <2>4, ValidProductsAreKnown
    <3> HIDE DEF valid
    <3> QED
      BY <2>5, <3>1 DEF IdsOf
  <2>7. i \in lacking
    BY <2>4, <2>6 DEF IdsOf
  <2>8. lacking \subseteq IdsOf(RowsOf(files["products"]), "product_id")
    <3> SUFFICES ASSUME NEW e \in events
                 PROVE  e.product_id \in IdsOf(RowsOf(files["products"]), "product_id")
      BY DEF IdsOf
    <3>1. PICK j \in DOMAIN files["products"].rows :
             files["products"].rows[j].product_id = e.product_id
      BY <2>2, <2>3
    <3>2. files["products"].rows[j] \in RowsOf(files["products"])
      BY DEF RowsOf
    <3> QED
      BY <3>1, <3>2 DEF IdsOf
  <2> QED
    BY <2>7, <2>8 DEF LookupFailsForQuarantinedProduct
<1> QED
  BY <1>1, FlowInvariant, PTL
=============================================================================
