---------------------------- MODULE IngestLedger ----------------------------
(***************************************************************************)
(* What ingestion promises of each REPORT it records, with no workers,     *)
(* deliveries, retries or indexes: a report is opened once with the number *)
(* of rows its file holds, receives its rows one by one, and is then       *)
(* closed for good.  A report may be closed short: the handler makes no    *)
(* promise to come back to it.                                             *)
(***************************************************************************)
EXTENDS Naturals

CONSTANT Reports

VARIABLES
  phase,      \* phase[r]: "absent", "open" (it has a writer) or "closed"
  declared,   \* declared[r]: the ItemCount stored in the report
  written     \* written[r]: the number of ITEM rows stored under it

vars == <<phase, declared, written>>

TypeOK ==
  /\ phase \in [Reports -> {"absent", "open", "closed"}]
  /\ declared \in [Reports -> Nat]
  /\ written \in [Reports -> Nat]

Init ==
  /\ phase = [r \in Reports |-> "absent"]
  /\ declared = [r \in Reports |-> 0]
  /\ written = [r \in Reports |-> 0]

(* The report is stored; its writer either goes on to the rows or has lost *)
(* the answer of the database and is gone.                                 *)
Open(r) ==
  /\ phase[r] = "absent"
  /\ \E p \in {"open", "closed"} : phase' = [phase EXCEPT ![r] = p]
  /\ declared' \in [Reports -> Nat]
  /\ \A q \in Reports \ {r} : declared'[q] = declared[q]
  /\ UNCHANGED written

(* One more row, and no more rows than were declared; the writer may lose  *)
(* the answer to this write and be gone.                                   *)
Append(r) ==
  /\ phase[r] = "open"
  /\ written[r] < declared[r]
  /\ written' = [written EXCEPT ![r] = @ + 1]
  /\ \E p \in {"open", "closed"} : phase' = [phase EXCEPT ![r] = p]
  /\ UNCHANGED declared

Close(r) ==
  /\ phase[r] = "open"
  /\ phase' = [phase EXCEPT ![r] = "closed"]
  /\ UNCHANGED <<declared, written>>

Next == \E r \in Reports : Open(r) \/ Append(r) \/ Close(r)

Spec == Init /\ [][Next]_vars
=============================================================================
