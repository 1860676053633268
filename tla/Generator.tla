----------------------------- MODULE Generator ------------------------------
(***************************************************************************)
(* The source data generator: MovieLens ratings become users, products,    *)
(* sessionized clicks, purchases and product popularity.  The random draws *)
(* of the code are the fields of one record, a draw, and every operator    *)
(* computes a dataset from a source and a draw.  Time is counted in ticks  *)
(* of 30 seconds from the start of the click window; prices are in cents,  *)
(* average ratings in ten-thousandths, popularity in hundredths.           *)
(***************************************************************************)
EXTENDS Frames

CONSTANTS Lookback,     \* ticks from the start of the window to the reference time
          MinDelay,     \* shortest and longest delay from a click to its purchase
          MaxDelay,
          Inactivity,   \* a longer silence starts a new session
          Prices,       \* the price, category and brand drawn for each product
          Categories,
          Brands

ASSUME GeneratorConfiguration ==
    /\ {Lookback, MinDelay, MaxDelay, Inactivity} \subseteq Nat \ {0}
    /\ MinDelay <= MaxDelay

\* A marker is no number, no identifier and none of the words written here.
ASSUME MarkersApart ==
    \A v \in {Blank, Garbled, Fraction} :
        /\ v \notin Int /\ v \notin Int \X Int
        /\ v \notin {"F", "artist", "10001", "Gold", "film", "View", "Wishlist", "AddToCart",
                     "UP", "DOWN"}

Minute == 2
ReferenceTime == Lookback
RatingUnit == 10000

RoundDiv(a, b) == (2 * a + b) \div (2 * b)
Clamp(lo, v, hi) == IF v < lo THEN lo ELSE IF v > hi THEN hi ELSE v

(* The source: sequences of users and items and the table of ratings. *)

\* The source tables are not empty, their identifiers are unique, ratings are
\* on the scale and refer to users and items of the tables.
Loadable(src) ==
    /\ src.users # <<>> /\ src.items # <<>> /\ src.ratings # <<>>
    /\ \A i, j \in DOMAIN src.users : src.users[i] = src.users[j] => i = j
    /\ \A i, j \in DOMAIN src.items : src.items[i] = src.items[j] => i = j
    /\ \A i \in DOMAIN src.ratings :
          /\ src.ratings[i].rating \in 1..5
          /\ \E j \in DOMAIN src.users : src.users[j] = src.ratings[i].user_id
          /\ \E j \in DOMAIN src.items : src.items[j] = src.ratings[i].product_id

\* A registration day is drawn up to the reference day itself.
generate_users(src) ==
    [k \in DOMAIN src.users |->
        [user_id |-> src.users[k], age |-> 30, gender |-> "F", occupation |-> "artist",
         zipcode |-> "10001", registration_date |-> ReferenceTime,
         customer_segment |-> "Gold"]]

RatingsOf(src, p) == {i \in DOMAIN src.ratings : src.ratings[i].product_id = p}

AverageRating(src, p) ==
    LET rated == RatingsOf(src, p)
    IN  IF rated = {} THEN 0
        ELSE RoundDiv(RatingUnit * SumOf([i \in rated |-> src.ratings[i].rating]),
                      Cardinality(rated))

generate_products(src) ==
    LET Record(p) ==
            [product_id |-> p, product_name |-> "film", category |-> Categories[p],
             release_date |-> Blank, price |-> Prices[p], brand |-> Brands[p],
             average_rating |-> AverageRating(src, p),
             total_ratings |-> Cardinality(RatingsOf(src, p))]
        ids == {src.items[k] : k \in DOMAIN src.items}
        order == InOrder(ids, LAMBDA a, b : a < b)
    IN  [k \in DOMAIN order |-> Record(order[k])]

EVENT_MAPPING ==
    <<<<"View">>, <<"View">>, <<"View">>, <<"View", "AddToCart">>,
      <<"View", "Wishlist", "AddToCart">>>>

\* A mutant: the minute of the click sequence is left out.
AvailableWithoutSequence == ReferenceTime - MinDelay

\* The last interaction leaves room for the shortest delay and one minute; the
\* code raises ValueError for a window that leaves none.
Available == ReferenceTime - (MinDelay + Minute)

Position(event) == event.event_id[2]

\* A mutant: the delay counts from the first click.
FinalClickIsFirst(src, draw, i) == draw.offset[i]

FinalClick(src, draw, i) ==
    draw.offset[i] + Len(EVENT_MAPPING[src.ratings[i].rating]) - 1

\* The interactions of a user in the order the code walks through them.
Earlier(draw, i, j) ==
    draw.offset[i] < draw.offset[j] \/ (draw.offset[i] = draw.offset[j] /\ i < j)

\* A session opens with a user's first interaction and after each silence:
\* the number of a session is the number of openings up to it.
SessionOf(src, draw, i) ==
    LET mine == {j \in DOMAIN src.ratings : src.ratings[j].user_id = src.ratings[i].user_id}
        Before(j) == {k \in mine : Earlier(draw, k, j)}
        Opens(j) == \A k \in Before(j) : draw.offset[j] - draw.offset[k] > Inactivity
    IN  <<src.ratings[i].user_id, Cardinality({j \in Before(i) \cup {i} : Opens(j)})>>

generate_clickstream(src, draw) ==
    LET Event(i, k) ==
            [event_id |-> <<i, k>>, user_id |-> src.ratings[i].user_id,
             product_id |-> src.ratings[i].product_id,
             event_type |-> EVENT_MAPPING[src.ratings[i].rating][k],
             timestamp |-> draw.offset[i] + k - 1,
             session_id |-> SessionOf(src, draw, i)]
        Precedes(a, b) ==
            \/ a.timestamp < b.timestamp
            \/ a.timestamp = b.timestamp /\ a.user_id < b.user_id
            \/ /\ a.timestamp = b.timestamp /\ a.user_id = b.user_id
               /\ \/ a.product_id < b.product_id
                  \/ a.product_id = b.product_id /\ a.event_id[1] < b.event_id[1]
        events == UNION {{Event(i, k) : k \in DOMAIN EVENT_MAPPING[src.ratings[i].rating]} :
                            i \in DOMAIN src.ratings}
    IN  InOrder(events, Precedes)

Bought(src) == {i \in DOMAIN src.ratings : src.ratings[i].rating >= 4}

maximum_delay(src, draw, i) ==
    IF MaxDelay < ReferenceTime - FinalClick(src, draw, i)
    THEN MaxDelay ELSE ReferenceTime - FinalClick(src, draw, i)

\* The code raises ValueError for a purchase whose delay interval is empty.
DelaysFit(src, draw) == \A i \in Bought(src) : maximum_delay(src, draw, i) >= MinDelay

\* The delays the generator may draw; a draw of any other delay is not a draw.
DelayDrawn(src, draw, i) == draw.delay[i] \in MinDelay..maximum_delay(src, draw, i)

generate_purchases(src, draw) ==
    LET Order(i) ==
            [order_id |-> <<i, 0>>, user_id |-> src.ratings[i].user_id,
             product_id |-> src.ratings[i].product_id, quantity |-> draw.quantity,
             amount |-> draw.quantity * Prices[src.ratings[i].product_id],
             rating |-> src.ratings[i].rating,
             purchase_timestamp |-> FinalClick(src, draw, i) + draw.delay[i]]
        Precedes(a, b) ==
            \/ a.purchase_timestamp < b.purchase_timestamp
            \/ a.purchase_timestamp = b.purchase_timestamp
                  /\ a.order_id[1] < b.order_id[1]
    IN  InOrder({Order(i) : i \in Bought(src)}, Precedes)

generate_popularity(products, draw) ==
    LET totals == {products[k].total_ratings : k \in DOMAIN products}
        spread == Max(totals) - Min(totals)
        RatingScore(p) == Clamp(0, (p.average_rating - RatingUnit) \div 4, 10000)
        CountScore(p) ==
            IF spread = 0 THEN 0
            ELSE RoundDiv(10000 * (p.total_ratings - Min(totals)), spread)
        Previous(p) == Clamp(RatingUnit, p.average_rating + draw.drift, 5 * RatingUnit)
        Record(p) ==
            [product_id |-> p.product_id,
             popularity_score |->
                Clamp(0, RoundDiv(60 * RatingScore(p) + 40 * CountScore(p), 100), 10000),
             trend |-> IF p.average_rating >= Previous(p) THEN "UP" ELSE "DOWN",
             updated_at |-> ReferenceTime]
    IN  [k \in DOMAIN products |-> Record(products[k])]

(* The popularity API joins the two product files when it is asked. *)

\* Of two products with one identifier the later one gives the statistics.
list_popularity(products, popularity) ==
    LET Source(id) == products.rows[Max({j \in DOMAIN products.rows :
                                            products.rows[j].product_id = id})]
        Record(r) ==
            [product_id |-> r.product_id,
             average_rating |-> Source(r.product_id).average_rating,
             total_ratings |-> Source(r.product_id).total_ratings,
             popularity_score |-> r.popularity_score,
             trend |-> r.trend,
             updated_at |-> r.updated_at]
        Precedes(i, j) ==
            \/ popularity.rows[i].product_id < popularity.rows[j].product_id
            \/ popularity.rows[i].product_id = popularity.rows[j].product_id /\ i < j
        order == InOrder(DOMAIN popularity.rows, Precedes)
    IN  [k \in DOMAIN order |-> Record(popularity.rows[order[k]])]

\* A record outside this contract is no answer: the API then fails with a 500, and
\* the fetch would not take another trend either.
PopularityResponse(record) ==
    /\ record.average_rating \in 0..(5 * RatingUnit)
    /\ record.total_ratings >= 0
    /\ record.popularity_score \in 0..10000
    /\ record.trend \in {"UP", "DOWN"}

\* What makes the API refuse the files, and the fetch fail.
ServiceRefuses(products, popularity) ==
    \/ {"product_id", "average_rating", "total_ratings"} \cap products.missing # {}
    \/ {"product_id", "popularity_score", "updated_at", "trend"} \cap popularity.missing # {}
    \/ \E k \in DOMAIN products.rows :
          LET p == products.rows[k]
          IN  ~whole(p.product_id) \/ ~number(p.average_rating) \/ ~number(p.total_ratings)
    \/ \E k \in DOMAIN popularity.rows :
          LET r == popularity.rows[k]
          IN  \/ ~whole(r.product_id) \/ ~number(r.popularity_score)
              \/ ~number(r.updated_at)
              \/ \A j \in DOMAIN products.rows : products.rows[j].product_id # r.product_id
    \/ LET answer == list_popularity(products, popularity)
       IN  \E k \in DOMAIN answer : ~PopularityResponse(answer[k])
=============================================================================
