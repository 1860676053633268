---- MODULE MCIngestion ----
EXTENDS Ingestion

\* One file and the API keep the order "files first, the API last".
MCFiles == {"users"}
MCRequiredFiles == <<"users">>
=============================================================================
