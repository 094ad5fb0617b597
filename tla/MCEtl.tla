------------------------------- MODULE MCEtl -------------------------------
(***************************************************************************)
(* Small instances of EtlPipeline for TLC: two files, one of two rows and  *)
(* one of a single row (or, in the runs that list it, one no parser        *)
(* accepts), uploaded under keys of different owners.                      *)
(***************************************************************************)
EXTENDS EtlPipeline, TLC

CONSTANTS
  k1, k2, k3, \* keys
  c1, c2,     \* contents
  alice, bob  \* owners

MCKeyOwner == [k \in Keys |-> IF k = k1 THEN alice ELSE bob]
MCRowCount == [c \in Contents |-> IF c = c1 THEN 2 ELSE 1]

\* In the runs where only the number of reports matters.
OneRow == [c \in Contents |-> 1]

\* Every key may hold every content, ...
AnyFile == Notice

\* ... or one key is overwritten, and another owner has the same bytes.
TwoOwners == { [key |-> k1, etag |-> c1], [key |-> k1, etag |-> c2],
               [key |-> k2, etag |-> c2] }

\* A file that is ingested, one no parser accepts, one under a refused key.
OneForEach == { [key |-> k1, etag |-> c1], [key |-> k2, etag |-> c2],
                [key |-> k3, etag |-> c1] }

\* Executions, requests and report ids are interchangeable in safety runs.
Symmetry == Permutations(Workers) \cup Permutations(Deliveries)
              \cup Permutations(Reports)
=============================================================================
