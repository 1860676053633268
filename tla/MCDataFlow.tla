----------------------------- MODULE MCDataFlow -----------------------------
EXTENDS DataFlow, TLC

MCPrices == <<300, 200, 1000>>
MCCategories == <<"Drama", "Drama", "War">>
MCBrands == <<"Acme", "Apex", "Acme">>

Rate(u, p, r) == [user_id |-> u, product_id |-> p, rating |-> r]

\* Two users, three products, every event mapping and four purchases.
Store ==
    [users |-> <<1, 2>>, items |-> <<1, 2, 3>>,
     ratings |-> <<Rate(1, 1, 5), Rate(2, 2, 4), Rate(2, 3, 4), Rate(2, 1, 3), Rate(1, 3, 4)>>]

\* A small batch, with an unrated product, for the damaged files.
Corner ==
    [users |-> <<1, 2>>, items |-> <<2, 1, 3>>,
     ratings |-> <<Rate(1, 1, 5), Rate(2, 1, 4), Rate(1, 2, 1)>>]

\* Nobody buys; an item nobody knows is rated.
Window == [Corner EXCEPT !.ratings = <<Rate(1, 1, 3), Rate(2, 2, 2)>>]
Orphan == [Corner EXCEPT !.ratings = <<Rate(1, 7, 5)>>]

\* Two users rate one product of two.
Single ==
    [users |-> <<1, 2>>, items |-> <<1, 2>>, ratings |-> <<Rate(1, 1, 5), Rate(2, 1, 4)>>]

MCSources == {Store, Corner, Single, Window, Orphan}
MCDamaged == {Corner, Single}

\* The offsets reach past the last one the generator may draw.
MCOffsets ==
    [s \in MCSources |->
        IF s = Store THEN {<<a, 0, b, 1, c>> : a, b, c \in {0, 2, 3, 4}}
        ELSE IF s = Corner THEN {<<0, 3, 3>>}
        ELSE IF s = Single THEN {<<0, 3>>}
        ELSE {<<0, 1>>}]
MCAppeals == {<<<<1, 0, 2>>, <<0, 2, 1>>>>, <<<<2, 1, 0>>, <<0, 1, 1>>>>}
MCDrifts == {-1000}

\* The hypothesis of the theorems about undamaged batches.
ASSUME InstanceFits == Fits
=============================================================================
