------------------------------ MODULE MCStages ------------------------------
EXTENDS Stages

MCFiles == <<"users", "products">>

\* The DAG's defaults, and both parameters changed: one acts at the quality gate,
\* the other on features.
MCParameters == {<<FALSE, "train">>, <<TRUE, "all">>}

\* The retries of the DAG's tasks.
MCRetries ==
    [generate |-> 1, ingest |-> 2, validate |-> 1, quality |-> 0, prepare |-> 1,
     features |-> 1, gate |-> 0, register |-> 1, train |-> 1, finalize |-> 1]
=============================================================================
