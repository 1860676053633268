------------------------------ MODULE Training ------------------------------
(***************************************************************************)
(* Training and evaluation of the two recommenders on one prepared split.  *)
(* What gradient descent and the content vectors learn is a given table,   *)
(* appeal[user][item], of whole numbers; who is recommended what, the      *)
(* fallbacks for unknown users and items, the metrics and the choice of    *)
(* the winner follow the code.  Metrics are in ten-thousandths.            *)
(***************************************************************************)
EXTENDS Frames

CONSTANTS TopK,         \* length of a recommendation list
          Threshold     \* rating from which a held-out item is relevant

ASSUME ModelingConfiguration == TopK \in 1..5 /\ Threshold \in 1..5

Rated(events) == {e \in events : e.explicit_rating # Blank}
ItemsOf(events) == {e.product_id : e \in events}
UsersIn(events) == {e.user_id : e \in events}
OfUser(events, u) == {e \in events : e.user_id = u}

FirstOf(list, n) == SubSeq(list, 1, IF n < Len(list) THEN n ELSE Len(list))

(* The collaborative model: the explicit ratings of the train partition. *)

global_mean(train) ==
    SumOf([e \in Rated(train) |-> e.explicit_rating]) \div Cardinality(Rated(train))

\* The appeal of an item to a user the model does not know is its bias; an item
\* it does not know adds nothing to the mean.
predict(train, appeal, u, i) ==
    LET score == global_mean(train) + IF i \in ItemsOf(Rated(train)) THEN appeal[u][i] ELSE 0
    IN  IF score < 1 THEN 1 ELSE IF score > 5 THEN 5 ELSE score

Seen(train, u) == ItemsOf(OfUser(Rated(train), u))

recommend(train, appeal, u) ==
    LET Better(i, j) ==
            \/ predict(train, appeal, u, i) > predict(train, appeal, u, j)
            \/ predict(train, appeal, u, i) = predict(train, appeal, u, j) /\ i < j
    IN  FirstOf(InOrder(ItemsOf(Rated(train)) \ Seen(train, u), Better), TopK)

(* The content model: the catalog, less what the user touched in any way. *)

\* A mutant: only what the user bought.
HistoryOfPurchases(train, u) == ItemsOf(OfUser(Rated(train), u))

History(train, u) == ItemsOf(OfUser(train, u))

\* A user without a known item gets nothing.
recommend_for_user(train, catalog, appeal, u) ==
    LET Better(i, j) ==
            \/ appeal[u][i] > appeal[u][j]
            \/ appeal[u][i] = appeal[u][j] /\ i < j
    IN  IF History(train, u) \cap catalog = {} THEN <<>>
        ELSE FirstOf(InOrder(catalog \ History(train, u), Better), TopK)

\* Where an empty recommendation list has no product_id column to read: a list
\* that comes from no candidates, not from an unknown user.
EmptyListRaises(train, catalog, u) ==
    \/ ItemsOf(Rated(train)) \subseteq Seen(train, u)
    \/ History(train, u) \cap catalog # {} /\ catalog \subseteq History(train, u)

(* Evaluation on the test partition. *)

RelevantEvents(test) == {e \in Rated(test) : e.explicit_rating >= Threshold}
Truth(test, u) == ItemsOf(OfUser(RelevantEvents(test), u))

\* A mutant: the logarithm multiplies instead of dividing.
DiscountReversed == <<10000, 15849, 20000, 23219, 25849>>

\* Discounts 1 / log2(rank + 1) of the first five ranks.
Discount == <<10000, 6309, 5000, 4307, 3869>>
Smaller(a, b) == IF a < b THEN a ELSE b

UserMetrics(list, truth) ==
    LET hits == {k \in DOMAIN list : list[k] \in truth}
        Upto(k) == Cardinality({h \in hits : h <= k})
        best == Smaller(Cardinality(truth), TopK)
        ideal == SumOf([k \in 1..best |-> Discount[k]])
    IN  [precision |-> (10000 * Cardinality(hits)) \div TopK,
         recall |-> (10000 * Cardinality(hits)) \div Cardinality(truth),
         average_precision |-> SumOf([k \in hits |-> (10000 * Upto(k)) \div k]) \div best,
         ndcg |-> (10000 * SumOf([k \in hits |-> Discount[k]])) \div ideal,
         hit |-> IF hits = {} THEN 0 ELSE 10000]

\* lists maps the users with relevant items to their recommendations.
ranking_metrics(lists, test, catalog) ==
    LET users == DOMAIN lists
        each == [u \in users |-> UserMetrics(lists[u], Truth(test, u))]
        Mean(field) == SumOf([u \in users |-> each[u][field]]) \div Cardinality(users)
        shown == UNION {{lists[u][k] : k \in DOMAIN lists[u]} : u \in users}
    IN  [precision |-> Mean("precision"), recall |-> Mean("recall"),
         map |-> Mean("average_precision"), ndcg |-> Mean("ndcg"), hit_rate |-> Mean("hit"),
         coverage |-> (10000 * Cardinality(shown)) \div Max({1, Cardinality(catalog)})]

\* What ends a training run with an error.
TrainingRaises(train, test, catalog) ==
    \/ Rated(train) = {}
    \/ RelevantEvents(test) = {}
    \/ \E u \in UsersIn(RelevantEvents(test)) : EmptyListRaises(train, catalog, u)

CollaborativeLists(train, test, appeal) ==
    [u \in UsersIn(RelevantEvents(test)) |-> recommend(train, appeal, u)]
ContentLists(train, test, catalog, appeal) ==
    [u \in UsersIn(RelevantEvents(test)) |-> recommend_for_user(train, catalog, appeal, u)]

\* The model with the greatest sum of four metrics wins, the first of equals.
compare_models(collaborative, content) ==
    LET Score(m) == m.precision + m.recall + m.ndcg + m.coverage
    IN  IF Score(content) > Score(collaborative) THEN "content_based" ELSE "collaborative"
=============================================================================
