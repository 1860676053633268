------------------------------ MODULE RawStore ------------------------------
(***************************************************************************)
(* What the raw layer promises to the stages that read it: a write-once    *)
(* object store with a write-once commit record per batch partition.       *)
(* An object never changes once it is present, its recorded checksum is    *)
(* the checksum of its bytes, and a commit record that calls a source      *)
(* successful is published only when that source's bytes are in the store. *)
(***************************************************************************)
EXTENDS Naturals

CONSTANTS Items,        \* the configured sources of a batch
          Hours,        \* UTC hour partitions
          Batches       \* batch identifiers

VARIABLES objects,      \* data objects by source, hour and batch
          manifests     \* commit records by hour and batch

vars == <<objects, manifests>>

Keys == Items \X Hours \X Batches
Partitions == Hours \X Batches

\* Content 0 stands for absence; any other number names one byte string.
Absent == [body |-> 0, sha |-> 0]

Stored == {"SUCCESS", "IDEMPOTENT_SUCCESS"}
NoEntry == [status |-> "PENDING", sha |-> 0]
NoManifest == [id |-> 0, files |-> [i \in Items |-> NoEntry]]

Init ==
    /\ objects = [k \in Keys |-> Absent]
    /\ manifests = [q \in Partitions |-> NoManifest]

\* Some content is published under a key that holds nothing.
Put(k) ==
    LET o == objects'[k]
    IN  /\ objects[k] = Absent
        /\ o.body # 0 /\ o.sha = o.body
        /\ objects' = [objects EXCEPT ![k] = o]
        /\ UNCHANGED manifests

\* A commit record is published for a partition that has none: it decides
\* every source, and what it calls stored is in the store as described.
Commit(q) ==
    LET m == manifests'[q]
    IN  /\ manifests[q] = NoManifest
        /\ manifests' = [manifests EXCEPT ![q] = m]
        /\ m.id # 0
        /\ \A i \in Items :
              /\ m.files[i].status # "PENDING"
              /\ m.files[i].status \in Stored =>
                    objects[<<i, q[1], q[2]>>] =
                        [body |-> m.files[i].sha, sha |-> m.files[i].sha]
        /\ UNCHANGED objects

Next ==
    \/ \E k \in Keys : Put(k)
    \/ \E q \in Partitions : Commit(q)

Spec == Init /\ [][Next]_vars
=============================================================================
