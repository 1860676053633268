------------------------------ MODULE Lineage -------------------------------
(***************************************************************************)
(* What the stages of the pipeline promise together.  An artifact is a     *)
(* batch with the content of its files; a stage derives an artifact only   *)
(* from the same artifact of the stage before it, nothing is withdrawn,    *)
(* and a batch is validated with one content, whatever is ingested for it. *)
(***************************************************************************)
CONSTANTS Batches,      \* batch identifiers
          Contents      \* contents of the files of a batch

VARIABLES raw,          \* artifacts with a successful ingestion manifest
          validated,    \* artifacts that passed validation
          prepared,     \* artifacts with a preparation manifest
          stored,       \* artifacts whose features are in the warehouse
          trained       \* artifacts models were trained on

vars == <<raw, validated, prepared, stored, trained>>

Artifacts == Batches \X Contents

Init ==
    /\ raw = {} /\ validated = {} /\ prepared = {} /\ stored = {} /\ trained = {}

Ingest(a) ==
    /\ raw' = raw \cup {a}
    /\ UNCHANGED <<validated, prepared, stored, trained>>

Validate(a) ==
    /\ a \in raw
    /\ \A other \in validated : other[1] = a[1] => other = a
    /\ validated' = validated \cup {a}
    /\ UNCHANGED <<raw, prepared, stored, trained>>

Prepare(a) ==
    /\ a \in validated
    /\ prepared' = prepared \cup {a}
    /\ UNCHANGED <<raw, validated, stored, trained>>

Store(a) ==
    /\ a \in prepared
    /\ stored' = stored \cup {a}
    /\ UNCHANGED <<raw, validated, prepared, trained>>

Train(a) ==
    /\ a \in stored
    /\ trained' = trained \cup {a}
    /\ UNCHANGED <<raw, validated, prepared, stored>>

Next ==
    \E a \in Artifacts : Ingest(a) \/ Validate(a) \/ Prepare(a) \/ Store(a) \/ Train(a)

Spec == Init /\ [][Next]_vars
=============================================================================
