---------------------------- MODULE Preparation -----------------------------
(***************************************************************************)
(* Data preparation: the valid rows of a batch become a catalog, the       *)
(* event-level interactions, their totals per user and product, and a      *)
(* chronological split into train, validation and test.  Calendar fields,  *)
(* one-hot codes and scaled copies of a column are left out: they change   *)
(* no row and decide nothing downstream of what is modelled here.          *)
(***************************************************************************)
EXTENDS Frames

CONSTANTS ValidationPercent,  \* the share of the interactions held out for each
          TestPercent,        \* of the two later partitions
          MinimumRecords      \* fewest interactions a split accepts

ASSUME PreparationConfiguration ==
    /\ {ValidationPercent, TestPercent} \subseteq 0..100
    /\ MinimumRecords \in Nat

Weights == [View |-> 1, Wishlist |-> 2, AddToCart |-> 3, Purchase |-> 5]

(* valid maps the datasets to their validated rows. *)

clean_users(valid) == {valid["users"][k] : k \in DOMAIN valid["users"]}

\* Popularity is an optional enrichment joined to the valid products.
clean_products(valid) ==
    LET Scores(id) == {valid["popularity"][k].popularity_score :
                          k \in {j \in DOMAIN valid["popularity"] :
                                    valid["popularity"][j].product_id = id}}
    IN  {[product_id |-> p.product_id, category |-> p.category, brand |-> p.brand,
          price |-> p.price, average_rating |-> p.average_rating,
          popularity_score |-> IF Scores(p.product_id) = {} THEN Blank
                               ELSE CHOOSE s \in Scores(p.product_id) : TRUE] :
            p \in {valid["products"][k] : k \in DOMAIN valid["products"]}}

Click(e) ==
    [interaction_id |-> e.event_id, user_id |-> e.user_id, product_id |-> e.product_id,
     interaction_type |-> e.event_type, explicit_rating |-> Blank, quantity |-> 0,
     amount |-> 0, event_timestamp |-> e.timestamp, session_id |-> e.session_id,
     interaction_weight |-> Weights[e.event_type]]
Order(o) ==
    [interaction_id |-> o.order_id, user_id |-> o.user_id, product_id |-> o.product_id,
     interaction_type |-> "Purchase", explicit_rating |-> o.rating, quantity |-> o.quantity,
     amount |-> o.amount, event_timestamp |-> o.purchase_timestamp, session_id |-> Blank,
     interaction_weight |-> Weights["Purchase"]]

\* Validated rows carry unique identifiers, so a set loses no interaction.
build_interactions(valid) ==
    {Click(valid["clickstream"][k]) : k \in DOMAIN valid["clickstream"]}
        \cup {Order(valid["purchasehistory"][k]) : k \in DOMAIN valid["purchasehistory"]}

(* The totals of the observed pairs and the matrices drawn from them. *)

PairsOf(events) == {<<e.user_id, e.product_id>> : e \in events}
EventsOf(events, pair) == {e \in events : <<e.user_id, e.product_id>> = pair}

aggregate_interactions(events) ==
    [pair \in PairsOf(events) |->
        LET mine == EventsOf(events, pair)
            rated == {e.explicit_rating : e \in mine} \ {Blank}
            Count(type) == Cardinality({e \in mine : e.interaction_type = type})
        IN  [view_count |-> Count("View"), wishlist_count |-> Count("Wishlist"),
             cart_count |-> Count("AddToCart"), purchase_count |-> Count("Purchase"),
             interaction_count |-> Cardinality(mine),
             total_spend |-> SumOf([e \in mine |-> e.amount]),
             latest |-> Max({e.event_timestamp : e \in mine}),
             explicit_rating |-> IF rated = {} THEN Blank ELSE Max(rated),
             implicit_score |-> SumOf([e \in mine |-> e.interaction_weight])]]

\* Pairs of an unknown user or product leave the matrices without a trace.
build_matrices(aggregated, users, products) ==
    LET observed == {pair \in DOMAIN aggregated :
                        /\ \E u \in users : u.user_id = pair[1]
                        /\ \E p \in products : p.product_id = pair[2]}
    IN  [implicit |-> [pair \in observed |-> aggregated[pair].implicit_score],
         ratings |-> [pair \in {q \in observed : aggregated[q].explicit_rating # Blank} |->
                         aggregated[pair].explicit_rating],
         possible |-> Cardinality(users) * Cardinality(products)]

(* The split. *)

HeldOut(n, percent) == IF (n * percent) \div 100 < 1 THEN 1 ELSE (n * percent) \div 100
validation_size(n) == HeldOut(n, ValidationPercent)
test_size(n) == HeldOut(n, TestPercent)
train_end(n) == n - validation_size(n) - test_size(n)

\* Where the code raises DataSplitError.
SplitRefuses(n) == n < MinimumRecords \/ train_end(n) < 1

Precedes(a, b) ==
    \/ a.event_timestamp < b.event_timestamp
    \/ a.event_timestamp = b.event_timestamp /\ a.interaction_id[1] < b.interaction_id[1]
    \/ /\ a.event_timestamp = b.event_timestamp /\ a.interaction_id[1] = b.interaction_id[1]
       /\ a.interaction_id[2] < b.interaction_id[2]

chronological_split(events) ==
    LET ordered == InOrder(events, Precedes)
        n == Len(ordered)
        Part(from, to) == {ordered[k] : k \in from..to}
    IN  [train |-> Part(1, train_end(n)),
         validation |-> Part(train_end(n) + 1, train_end(n) + validation_size(n)),
         test |-> Part(train_end(n) + validation_size(n) + 1, n)]

prepare_frames(valid) ==
    LET events == build_interactions(valid)
        users == clean_users(valid)
        products == clean_products(valid)
    IN  [users |-> users, products |-> products, interactions |-> events,
         matrices |-> build_matrices(aggregate_interactions(events), users, products),
         split |-> chronological_split(events)]
=============================================================================
