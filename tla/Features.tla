------------------------------ MODULE Features ------------------------------
(***************************************************************************)
(* Feature engineering over the prepared catalog and the selected events:  *)
(* user and item activity, observed pairs, co-occurring item pairs and the *)
(* ranked similar items.  Ratios are kept as their two terms; a similarity *)
(* is measured in hundredths, with square roots rounded down.              *)
(***************************************************************************)
EXTENDS Frames

CONSTANTS SourceSplit,       \* "train", or "all" for every event
          ColdUserMinimum,   \* interactions below which a user or item is cold
          ColdItemUsers,     \* users below which an item is cold
          LowPercent,        \* quantiles of the activity levels
          HighPercent,
          MinCooccurrence,   \* users a co-occurring pair needs
          SupportPerMille,   \* and their share of all users
          MaxNeighbors,      \* pairs kept per item
          SimilarTopK,       \* similar items kept per item
          MinSimilarity      \* least combined similarity, in hundredths

ASSUME FeatureConfiguration ==
    /\ SourceSplit \in {"train", "all"}
    /\ {ColdUserMinimum, ColdItemUsers, MinCooccurrence, SupportPerMille,
        MinSimilarity} \subseteq Nat
    /\ {MaxNeighbors, SimilarTopK} \subseteq Nat \ {0}
    /\ {LowPercent, HighPercent} \subseteq 0..100

\* Similarity weights in hundredths.
SimilarityWeights == [cosine |-> 45, jaccard |-> 20, category |-> 15, brand |-> 5,
                      price |-> 10, rating |-> 5]

\* A mutant: the configured split is ignored.
select_feature_events_of_all(prepared) == prepared.interactions

select_feature_events(prepared) ==
    IF SourceSplit = "train" THEN prepared.split.train ELSE prepared.interactions

Reference(events) == Max({e.event_timestamp : e \in events})

(* Activity of users, of items and of pairs. *)

OfType(events, type) == {e \in events : e.interaction_type = type}

Activity(mine) ==
    [total_interactions |-> Cardinality(mine),
     view_count |-> Cardinality(OfType(mine, "View")),
     wishlist_count |-> Cardinality(OfType(mine, "Wishlist")),
     add_to_cart_count |-> Cardinality(OfType(mine, "AddToCart")),
     purchase_count |-> Cardinality(OfType(mine, "Purchase")),
     session_count |-> Cardinality({e.session_id : e \in mine} \ {Blank}),
     total_quantity |-> SumOf([e \in mine |-> e.quantity]),
     total_spend |-> SumOf([e \in mine |-> e.amount])]

\* Percentile of a bag of counts, interpolated between neighbours and scaled by
\* 100; counts is a function from whatever is counted to its number.
Quantile(counts, percent) ==
    LET n == Cardinality(DOMAIN counts)
        Rank(x) == Cardinality({y \in DOMAIN counts : counts[y] < counts[x]})
        Width(x) == Cardinality({y \in DOMAIN counts : counts[y] = counts[x]})
        At(k) == counts[CHOOSE x \in DOMAIN counts : k \in Rank(x)..(Rank(x) + Width(x) - 1)]
        low == ((n - 1) * percent) \div 100
        part == ((n - 1) * percent) % 100
        high == IF part = 0 THEN low ELSE low + 1
    IN  100 * At(low) + part * (At(high) - At(low))

\* Every prepared user has a row; events of other users are dropped.
compute_user_features(events, users) ==
    LET ids == {u.user_id : u \in users}
        Mine(u) == {e \in events : e.user_id = u}
        counts == [u \in ids |-> Cardinality(Mine(u))]
        low == Quantile(counts, LowPercent)
        high == Quantile(counts, HighPercent)
    IN  [u \in ids |->
            [activity |-> Activity(Mine(u)),
             unique_products |-> Cardinality({e.product_id : e \in Mine(u)}),
             level |-> IF 100 * counts[u] < low THEN "LOW"
                       ELSE IF 100 * counts[u] > high THEN "HIGH" ELSE "MEDIUM",
             cold_start |-> counts[u] < ColdUserMinimum]]

\* Every catalog item has a row; events on other items are dropped.
compute_item_features(events, products) ==
    LET ids == {p.product_id : p \in products}
        Mine(i) == {e \in events : e.product_id = i}
        Product(i) == CHOOSE p \in products : p.product_id = i
        counts == [i \in ids |-> Cardinality(Mine(i))]
        Users(i) == Cardinality({e.user_id : e \in Mine(i)})
        DenseRank(i, among) == 1 + Cardinality({counts[j] : j \in {k \in among :
                                                              counts[k] > counts[i]}})
    IN  [i \in ids |->
            [activity |-> Activity(Mine(i)),
             unique_users |-> Users(i),
             external_popularity |-> Product(i).popularity_score,
             rank |-> DenseRank(i, ids),
             category_rank |-> DenseRank(i, {j \in ids :
                                               Product(j).category = Product(i).category}),
             long_tail |-> 100 * counts[i] < Quantile(counts, 80),
             cold_start |-> Users(i) < ColdItemUsers \/ counts[i] < ColdUserMinimum]]

\* Affinities are kept as the weight on the category and the weight in all.
compute_user_item_features(events, products) ==
    LET Weight(es) == SumOf([e \in es |-> e.interaction_weight])
        Category(i) == {p.category : p \in {q \in products : q.product_id = i}}
    IN  [pair \in {<<e.user_id, e.product_id>> : e \in events} |->
            LET mine == {e \in events : <<e.user_id, e.product_id>> = pair}
                same == {e \in events : /\ e.user_id = pair[1]
                                        /\ Category(e.product_id) = Category(pair[2])
                                        /\ Category(pair[2]) # {}}
            IN  [activity |-> Activity(mine), implicit_score |-> Weight(mine),
                 first |-> Min({e.event_timestamp : e \in mine}),
                 last |-> Max({e.event_timestamp : e \in mine}),
                 category_weight |-> Weight(same),
                 user_weight |-> Weight({e \in events : e.user_id = pair[1]})]]

(* Pairs of items. *)

\* A mutant: sessions stand for users.
UsersOfSessions(events, i) == {e.session_id : e \in {f \in events : f.product_id = i}}

UsersOf(events, i) == {e.user_id : e \in {f \in events : f.product_id = i}}

\* Unordered pairs <<a, b>> with a < b and enough common users.
Cooccurring(events) ==
    LET items == {e.product_id : e \in events}
        everyone == Cardinality({e.user_id : e \in events})
        Common(p) == Cardinality(UsersOf(events, p[1]) \cap UsersOf(events, p[2]))
    IN  {p \in items \X items :
            /\ p[1] < p[2] /\ Common(p) >= MinCooccurrence /\ Common(p) > 0
            /\ 1000 * Common(p) >= SupportPerMille * everyone}

\* A pair stays when it is among the strongest of its first item or of its
\* second; among equals the code keeps those that come first.
limit_pair_neighbors(pairs, counts) ==
    LET Stronger(q, p) ==
            counts[q] > counts[p] \/ (counts[q] = counts[p] /\ q[1] + q[2] < p[1] + p[2])
        Place(p, side) == Cardinality({q \in pairs : q[side] = p[side] /\ Stronger(q, p)})
    IN  {p \in pairs : Place(p, 1) < MaxNeighbors \/ Place(p, 2) < MaxNeighbors}

compute_cooccurrence(events) ==
    LET Common(p) == UsersOf(events, p[1]) \cap UsersOf(events, p[2])
        counts == [p \in Cooccurring(events) |-> Cardinality(Common(p))]
        Buyers(i) == UsersOf(OfType(events, "Purchase"), i)
        Sessions(i) == {e.session_id : e \in {f \in events : f.product_id = i}} \ {Blank}
    IN  [p \in limit_pair_neighbors(DOMAIN counts, counts) |->
            [count |-> counts[p],
             item_a_users |-> Cardinality(UsersOf(events, p[1])),
             item_b_users |-> Cardinality(UsersOf(events, p[2])),
             sessions |-> Cardinality(Sessions(p[1]) \cap Sessions(p[2])),
             co_purchases |-> Cardinality(Buyers(p[1]) \cap Buyers(p[2]))]]

Root(n) == CHOOSE r \in 0..n : r * r <= n /\ (r + 1) * (r + 1) > n
Distance(a, b) == IF a < b THEN b - a ELSE a - b

Vector(events, i) ==
    [u \in {e.user_id : e \in events} |->
        SumOf([e \in {f \in events : f.product_id = i /\ f.user_id = u} |->
                  e.interaction_weight])]
Dot(v, w) == SumOf([u \in DOMAIN v |-> v[u] * w[u]])
cosine_similarity(events, i, j) ==
    LET v == Vector(events, i)
        w == Vector(events, j)
    IN  (100 * Dot(v, w)) \div Root(Dot(v, v) * Dot(w, w))

\* The intersection is looked up among the pairs that were kept: a pair below
\* the thresholds has a Jaccard similarity of 0.
jaccard_similarity(events, cooccurrence, i, j) ==
    LET key == IF i < j THEN <<i, j>> ELSE <<j, i>>
        common == IF key \in DOMAIN cooccurrence THEN cooccurrence[key].count ELSE 0
        union == Cardinality(UsersOf(events, i)) + Cardinality(UsersOf(events, j)) - common
    IN  IF union = 0 THEN 0 ELSE (100 * common) \div union

\* The spread of the catalog's prices, in units of at least one.
PriceSpread(products) ==
    LET n == Cardinality(products)
        total == SumOf([p \in products |-> p.price])
        squares == SumOf([p \in products |-> Distance(n * p.price, total)
                                                * Distance(n * p.price, total)])
    IN  IF n < 2 THEN 100
        ELSE Max({100, Root(squares \div (n * n * (n - 1)))})

combined_similarity_score(events, products, cooccurrence, i, j) ==
    LET left == CHOOSE p \in products : p.product_id = i
        right == CHOOSE p \in products : p.product_id = j
        spread == PriceSpread(products)
        Same(a, b) == IF a = b THEN 100 ELSE 0
        w == SimilarityWeights
    IN  (w.cosine * cosine_similarity(events, i, j)
         + w.jaccard * jaccard_similarity(events, cooccurrence, i, j)
         + w.category * Same(left.category, right.category)
         + w.brand * Same(left.brand, right.brand)
         + w.price * ((100 * spread) \div (spread + Distance(left.price, right.price)))
         + w.rating * (1000000 \div (10000 + Distance(left.average_rating,
                                                      right.average_rating)))) \div 100

\* The catalog rows of an item and its neighbours are looked up by identifier:
\* an item of the events that the catalog lacks raises KeyError as soon as it
\* has a neighbour.
CatalogRaises(events, products) ==
    LET items == {e.product_id : e \in events}
    IN  /\ Cardinality(items) > 1
        /\ \E i \in items : \A p \in products : p.product_id # i

\* The nearest items, itself included, that the neighbour search may return.
Neighborhoods(events, i) ==
    LET items == {e.product_id : e \in events}
        size == IF SimilarTopK + 1 < Cardinality(items) THEN SimilarTopK + 1
                ELSE Cardinality(items)
    IN  {near \in SUBSET items :
            /\ Cardinality(near) = size
            /\ \A j \in near, k \in items \ near :
                  cosine_similarity(events, i, j) >= cosine_similarity(events, i, k)}

\* The ranked similar items of i among the neighbours found for it.
RankedSimilar(events, products, cooccurrence, i, near) ==
    LET Score(j) == combined_similarity_score(events, products, cooccurrence, i, j)
        candidates == {j \in near \ {i} : Score(j) >= MinSimilarity}
        ordered == InOrder(candidates, LAMBDA j, k :
                              Score(j) > Score(k) \/ (Score(j) = Score(k) /\ j < k))
        kept == IF SimilarTopK < Len(ordered) THEN SimilarTopK ELSE Len(ordered)
    IN  [rank \in 1..kept |-> [product_id |-> ordered[rank], score |-> Score(ordered[rank])]]
=============================================================================
