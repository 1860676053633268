------------------------------- MODULE Frames -------------------------------
(***************************************************************************)
(* The tables that travel between the generator, the raw layer and the     *)
(* validator.  A frame is what pandas reads from one raw file: the rows in *)
(* file order and the columns the file lacks or has in excess.  A cell is  *)
(* an ordinary value or one of three odd ones, which stand for every       *)
(* malformed cell the rules can tell apart.                                *)
(***************************************************************************)
EXTENDS Integers, Sequences, FiniteSets, FiniteSetsExt

CONSTANTS Blank,        \* a null or whitespace-only cell
          Garbled,      \* text that is no number, date, UUID or known label
          Fraction      \* a number that is not whole

ASSUME CellsDiffer == Cardinality({Blank, Garbled, Fraction}) = 3

Datasets == {"users", "products", "clickstream", "purchasehistory", "popularity"}
DATASET_ORDER == <<"users", "products", "clickstream", "purchasehistory", "popularity">>

Columns(d) ==
    CASE d = "users" -> {"user_id", "age", "gender", "occupation", "zipcode",
                         "registration_date", "customer_segment"}
      [] d = "products" -> {"product_id", "product_name", "category", "release_date",
                            "price", "brand", "average_rating", "total_ratings"}
      [] d = "clickstream" -> {"event_id", "user_id", "product_id", "event_type",
                               "timestamp", "session_id"}
      [] d = "purchasehistory" -> {"order_id", "user_id", "product_id", "quantity",
                                   "amount", "rating", "purchase_timestamp"}
      [] d = "popularity" -> {"product_id", "average_rating", "total_ratings",
                              "popularity_score", "trend", "updated_at"}

\* The one optional value is a product's release date.
required_value_columns(d) == Columns(d) \ {"release_date"}

business_key(d) ==
    CASE d = "users" -> "user_id"
      [] d = "products" -> "product_id"
      [] d = "clickstream" -> "event_id"
      [] d = "purchasehistory" -> "order_id"
      [] d = "popularity" -> "product_id"

TableOf(rows) == [rows |-> rows, missing |-> {}, extra |-> 0, readable |-> TRUE]

\* What the run goes on with when a file cannot be parsed: no row, no column.
Unread(d) == [rows |-> <<>>, missing |-> Columns(d), extra |-> 0, readable |-> FALSE]

blank(v) == v = Blank
number(v) == v \notin {Blank, Garbled}
whole(v) == v \notin {Blank, Garbled, Fraction}

\* One text cell makes read_csv type its whole column as text; records read
\* from JSON keep a type per cell.
TextColumn(d, f, c) ==
    /\ d \in {"users", "clickstream", "purchasehistory"}
    /\ \E i \in DOMAIN f.rows : f.rows[i][c] = Garbled

\* The sum of the values of a function.
SumOf(f) == MapThenSumSet(LAMBDA x : f[x], DOMAIN f)

\* The elements of S one after the other.
InOrder(S, before(_, _)) ==
    [k \in 1..Cardinality(S) |->
        CHOOSE x \in S : Cardinality({y \in S : before(y, x)}) = k - 1]
=============================================================================
