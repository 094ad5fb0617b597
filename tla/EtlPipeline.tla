---------------------------- MODULE EtlPipeline ----------------------------
(***************************************************************************)
(* The ETL Lambda (lambdas/etl_parser/handler.py) with the DynamoDB access *)
(* it uses (app/db.py) and the delivery path that invokes it (the S3       *)
(* "Object Created" rule, the asynchronous retries and the dead-letter     *)
(* queue of infra/cdk_app.py).                                             *)
(*                                                                         *)
(* One step is one call of the handler to S3 or DynamoDB together with the *)
(* local work that follows it, so that every interleaving of concurrent    *)
(* invocations and every point where one can die is a behaviour.           *)
(***************************************************************************)
EXTENDS Naturals, Sequences, FiniteSets

CONSTANTS
  Workers,      \* concurrent Lambda executions (reserved concurrency)
  Deliveries,   \* asynchronous invocation requests, duplicates included
  Keys,         \* object keys
  Contents,     \* distinct file contents; the ETag is the content's identity
  Files,        \* what clients may upload under which key, see Notice
  Reports,      \* the uuid4 supply for REPORT ids
  Owners,       \* owner subs, "system" included
  KeyOwner,     \* KeyOwner[k]: the owner a key names
  RowCount,     \* RowCount[c]: the rows the parser finds in a content
  Unparseable,  \* contents on which the parser raises
  Rejected,     \* keys whose bucket or suffix process_record refuses
  MaxBatch,     \* records in one event
  MaxAttempts,  \* executions of one request before it is dead-lettered
  MaxDownloads, \* attempts of _download_with_retry
  Faults,       \* what may go wrong in this instance, see FaultKinds
  None          \* absent object, delivery, content, report

(* "download":  get_object answers with a retryable ClientError            *)
(* "expire":    an object is removed while its events are still around     *)
(* "abort":     an exception from a database call that was not applied, a  *)
(*              timeout or a crash ends the invocation                     *)
(* "lostReply": a put is applied, and its caller sees an exception         *)
(* "replay":    a put is applied, its answer is lost, the SDK sends it     *)
(*              again and the condition fails on the caller's own write    *)
(* "lag":       GSI3 shows a REPORT some time after it was stored          *)
FaultKinds == {"download", "expire", "abort", "lostReply", "replay", "lag"}

\* A REPORT record and an ITEM record of the table.
Report == [owner : Owners, key : Keys, etag : Contents, count : Nat]
Row == [owner : Owners, content : Contents, row : Nat]

\* What S3 announces of an object: its key and the ETag of that version.
Notice == [key : Keys, etag : Contents]

ASSUME ConstantsAssumption ==
  /\ KeyOwner \in [Keys -> Owners]
  /\ RowCount \in [Contents -> Nat]
  /\ Files \subseteq Notice
  /\ Unparseable \subseteq Contents
  /\ Rejected \subseteq Keys
  /\ MaxBatch \in Nat \ {0}
  /\ MaxAttempts \in Nat \ {0}
  /\ MaxDownloads \in Nat \ {0}
  /\ Faults \subseteq FaultKinds
  /\ None \notin Deliveries \cup Contents \cup Reports \cup Report

\* Ten executions are reserved, and there are 2^122 uuids of version 4.
ASSUME FiniteAssumption == IsFiniteSet(Workers) /\ IsFiniteSet(Reports)

VARIABLES
  objects,   \* objects[k]: the current version of object k
  uploads,   \* the (key, etag) facts S3 has announced or may yet announce
  event,     \* event[d]: the records of request d, <<>> before it exists
  status,    \* status[d]: where request d is in the delivery path
  attempts,  \* attempts[d]: executions started for request d
  inv,       \* inv[w]: what execution w is doing
  reports,   \* the REPORT records of the table
  gsi3,      \* the reports index GSI3 shows
  items      \* items[r]: the ITEM records stored for report r, oldest first

vars == <<objects, uploads, event, status, attempts, inv, reports, gsi3, items>>

\* The variables of the delivery path, of one execution and of the table.
store == <<objects, uploads>>
queue == <<event, status, attempts>>
table == <<reports, gsi3, items>>

-----------------------------------------------------------------------------
Batches(S) == UNION {[1..n -> S] : n \in 1..MaxBatch}

Statuses == {"unused", "queued", "running", "done", "dead"}

Invocation ==
  [ pc       : {"idle", "download", "check", "put", "rows"},
    delivery : Deliveries \cup {None},
    pos      : Nat,                        \* index of the record in the event
    tries    : 0..MaxDownloads,
    content  : Contents \cup {None},
    report   : Reports \cup {None},
    next     : Nat ]                       \* the row the item loop is at

Idle == [pc |-> "idle", delivery |-> None, pos |-> 0, tries |-> 0,
         content |-> None, report |-> None, next |-> 0]

(* Every variable has its shape; in particular no request is executed more *)
(* than MaxAttempts times (retry_attempts=2 after the first execution).    *)
TypeOK ==
  /\ objects \in [Keys -> Contents \cup {None}]
  /\ uploads \subseteq Notice
  /\ event \in [Deliveries -> Seq(Notice)]
  /\ status \in [Deliveries -> Statuses]
  /\ attempts \in [Deliveries -> 0..MaxAttempts]
  /\ inv \in [Workers -> Invocation]
  /\ reports \in [Reports -> Report \cup {None}]
  /\ gsi3 \subseteq Reports
  /\ items \in [Reports -> Seq(Row)]

Init ==
  /\ objects = [k \in Keys |-> None]
  /\ uploads = {}
  /\ event = [d \in Deliveries |-> <<>>]
  /\ status = [d \in Deliveries |-> "unused"]
  /\ attempts = [d \in Deliveries |-> 0]
  /\ inv = [w \in Workers |-> Idle]
  /\ reports = [r \in Reports |-> None]
  /\ gsi3 = {}
  /\ items = [r \in Reports |-> <<>>]

-----------------------------------------------------------------------------
(* The outside: clients put objects through presigned URLs, and may put    *)
(* again under the same key; S3 announces each version at least once, in   *)
(* any order and with any delay.                                           *)

Upload(k, c) ==
  /\ [key |-> k, etag |-> c] \in Files
  /\ objects' = [objects EXCEPT ![k] = c]
  /\ uploads' = uploads \cup {[key |-> k, etag |-> c]}
  /\ UNCHANGED <<queue, inv, table>>

Expire(k) ==
  /\ "expire" \in Faults
  /\ objects' = [objects EXCEPT ![k] = None]
  /\ UNCHANGED <<uploads, queue, inv, table>>

Deliver(d) ==
  /\ status[d] = "unused"
  /\ \E batch \in Batches(uploads) : event' = [event EXCEPT ![d] = batch]
  /\ status' = [status EXCEPT ![d] = "queued"]
  /\ UNCHANGED <<store, attempts, inv, table>>

-----------------------------------------------------------------------------
(* One execution of the handler.                                           *)

Record(w) == event[inv[w].delivery][inv[w].pos]

\* process_record entered for record p of request d.
AtRecord(d, p) ==
  [pc |-> "download", delivery |-> d, pos |-> p, tries |-> 0,
   content |-> None, report |-> None, next |-> 0]

Start(w, d) ==
  /\ inv[w] = Idle
  /\ status[d] = "queued"
  /\ status' = [status EXCEPT ![d] = "running"]
  /\ attempts' = [attempts EXCEPT ![d] = @ + 1]
  /\ inv' = [inv EXCEPT ![w] = AtRecord(d, 1)]
  /\ UNCHANGED <<store, event, table>>

\* MUTANT: the failed request is queued again however often it has run.
RaiseForever(w) ==
  /\ status' = [status EXCEPT ![inv[w].delivery] = "queued"]
  /\ inv' = [inv EXCEPT ![w] = Idle]

\* MUTANT: the failure is swallowed with the request neither retried nor
\* dead-lettered.
RaiseAndForget(w) ==
  /\ status' = [status EXCEPT ![inv[w].delivery] = "running"]
  /\ inv' = [inv EXCEPT ![w] = Idle]

(* The handler raises (or dies): the whole event is retried, or goes to    *)
(* the dead-letter queue after its last attempt.  Nothing is rolled back.  *)
Raise(w) ==
  /\ status' = [status EXCEPT ![inv[w].delivery] =
                  IF attempts[inv[w].delivery] < MaxAttempts
                  THEN "queued" ELSE "dead"]
  /\ inv' = [inv EXCEPT ![w] = Idle]

\* MUTANT: the handler comes back to the record it has ended.
EndRecordAgain(w) ==
  LET d == inv[w].delivery
      more == inv[w].pos < Len(event[d])
  IN  /\ inv' = [inv EXCEPT ![w] = IF more THEN AtRecord(d, inv[w].pos) ELSE Idle]
      /\ status' = IF more THEN status ELSE [status EXCEPT ![d] = "done"]

(* process_record returns: the next record of the event, or the handler's  *)
(* own return, which acknowledges the request.                             *)
EndRecord(w) ==
  LET d == inv[w].delivery
      more == inv[w].pos < Len(event[d])
  IN  /\ inv' = [inv EXCEPT ![w] =
                   IF more THEN AtRecord(d, inv[w].pos + 1) ELSE Idle]
      /\ status' = IF more THEN status ELSE [status EXCEPT ![d] = "done"]

Fail(w) == Raise(w) /\ UNCHANGED <<store, event, attempts, table>>

Reject(w) ==
  /\ inv[w].pc = "download"
  /\ Record(w).key \in Rejected
  /\ Fail(w)

(* get_object names no version: it reads whatever the key holds now, which *)
(* need not be the version the event announces.                            *)
Object(w) == objects[Record(w).key]
Reading(w) == inv[w].pc = "download" /\ Record(w).key \notin Rejected

Download(w) ==
  /\ Reading(w)
  /\ Object(w) \in Contents \ Unparseable
  /\ inv' = [inv EXCEPT ![w].pc = "check", ![w].content = Object(w),
                        ![w].tries = 0]
  /\ UNCHANGED <<store, queue, table>>

ParseError(w) ==
  /\ Reading(w)
  /\ Object(w) \in Unparseable
  /\ Fail(w)

MissingObject(w) ==
  /\ Reading(w)
  /\ Object(w) = None
  /\ Fail(w)

DownloadError(w) ==
  /\ "download" \in Faults
  /\ Reading(w)
  /\ \/ /\ inv[w].tries + 1 < MaxDownloads
        /\ inv' = [inv EXCEPT ![w].tries = @ + 1]
        /\ UNCHANGED <<store, queue, table>>
     \/ /\ inv[w].tries + 1 >= MaxDownloads
        /\ Fail(w)

-----------------------------------------------------------------------------
(* upsert_report_idempotent                                                *)

ReportsOf(e) == {r \in Reports : reports[r] # None /\ reports[r].etag = e}
Seen(e) == gsi3 \cap ReportsOf(e) # {}

\* MUTANT: the retry adopts the stored report and writes its rows again.
ResumeReport(w) ==
  /\ inv[w].pc = "check"
  /\ Seen(Record(w).etag)
  /\ \E r \in gsi3 \cap ReportsOf(Record(w).etag) :
       inv' = [inv EXCEPT ![w].pc = "rows", ![w].report = r, ![w].next = 1]
  /\ UNCHANGED <<store, queue, table>>

\* MUTANT: an upload is taken for known when its key has a report.
ShortCircuitByKey(w) ==
  /\ inv[w].pc = "check"
  /\ \E r \in gsi3 : reports[r].key = Record(w).key
  /\ EndRecord(w)
  /\ UNCHANGED <<store, event, attempts, table>>

ShortCircuit(w) ==
  /\ inv[w].pc = "check"
  /\ Seen(Record(w).etag)
  /\ EndRecord(w)
  /\ UNCHANGED <<store, event, attempts, table>>

\* MUTANT: the index is queried and its answer ignored.
NotSeenUnchecked(w) ==
  /\ inv[w].pc = "check"
  /\ inv' = [inv EXCEPT ![w].pc = "put"]
  /\ UNCHANGED <<store, queue, table>>

NotSeen(w) ==
  /\ inv[w].pc = "check"
  /\ ~ Seen(Record(w).etag)
  /\ inv' = [inv EXCEPT ![w].pc = "put"]
  /\ UNCHANGED <<store, queue, table>>

(* The conditional put of the REPORT: a fresh uuid, so that the condition  *)
(* attribute_not_exists(SK) holds of every first send of it.               *)
StoreReport(w, r) ==
  /\ inv[w].pc = "put"
  /\ reports[r] = None
  /\ reports' = [reports EXCEPT ![r] =
       [owner |-> KeyOwner[Record(w).key], key |-> Record(w).key,
        etag |-> Record(w).etag, count |-> RowCount[inv[w].content]]]
  /\ gsi3' = IF "lag" \in Faults THEN gsi3 ELSE gsi3 \cup {r}
  /\ UNCHANGED <<store, event, attempts, items>>

PutReport(w, r) ==
  /\ StoreReport(w, r)
  /\ inv' = [inv EXCEPT ![w].pc = "rows", ![w].report = r, ![w].next = 1]
  /\ UNCHANGED status

\* The failed condition on the caller's own write reads as "duplicate".
PutReportReplayed(w, r) ==
  /\ "replay" \in Faults
  /\ StoreReport(w, r)
  /\ EndRecord(w)

PutReportLost(w, r) ==
  /\ "lostReply" \in Faults
  /\ StoreReport(w, r)
  /\ Raise(w)

-----------------------------------------------------------------------------
(* The item loop of write_to_dynamodb                                      *)

NextRow(w) == [owner |-> KeyOwner[Record(w).key], content |-> inv[w].content,
               row |-> inv[w].next]

\* MUTANT: the loop runs once more than there are rows.
StoreRowPastEnd(w) ==
  /\ inv[w].pc = "rows"
  /\ inv[w].next <= RowCount[inv[w].content] + 1
  /\ items' = [items EXCEPT ![inv[w].report] = Append(@, NextRow(w))]
  /\ UNCHANGED <<store, event, attempts, reports, gsi3>>

StoreRow(w) ==
  /\ inv[w].pc = "rows"
  /\ inv[w].next <= RowCount[inv[w].content]
  /\ items' = [items EXCEPT ![inv[w].report] = Append(@, NextRow(w))]
  /\ UNCHANGED <<store, event, attempts, reports, gsi3>>

\* MUTANT: a failed condition on the row is retried in place.
WriteItemTwice(w) ==
  /\ StoreRow(w)
  /\ inv' \in {inv, [inv EXCEPT ![w].next = @ + 1]}
  /\ UNCHANGED status

WriteItem(w) ==
  /\ StoreRow(w)
  /\ inv' = [inv EXCEPT ![w].next = @ + 1]
  /\ UNCHANGED status

(* The row is stored but its writer sees an exception.  A failed condition *)
(* surfaces as db.ConditionalCheckFailed, which is no ClientError and so   *)
(* passes the handler's "safe to ignore" clause: both end the invocation.  *)
WriteItemUnconfirmed(w) ==
  /\ Faults \cap {"lostReply", "replay"} # {}
  /\ StoreRow(w)
  /\ Raise(w)

\* MUTANT: the record is reported as written before its last row.
FinishEarly(w) ==
  /\ inv[w].pc = "rows"
  /\ inv[w].next >= RowCount[inv[w].content]
  /\ EndRecord(w)
  /\ UNCHANGED <<store, event, attempts, table>>

FinishRecord(w) ==
  /\ inv[w].pc = "rows"
  /\ inv[w].next > RowCount[inv[w].content]
  /\ EndRecord(w)
  /\ UNCHANGED <<store, event, attempts, table>>

Abort(w) ==
  /\ "abort" \in Faults
  /\ inv[w].pc # "idle"
  /\ Fail(w)

IndexCatchUp(r) ==
  /\ reports[r] # None
  /\ r \notin gsi3
  /\ gsi3' = gsi3 \cup {r}
  /\ UNCHANGED <<store, queue, inv, reports, items>>

-----------------------------------------------------------------------------
\* The steps an execution takes of its own accord, and those of a failure.
Step(w) ==
  \/ Reject(w) \/ Download(w) \/ ParseError(w) \/ MissingObject(w)
  \/ ShortCircuit(w) \/ NotSeen(w)
  \/ \E r \in Reports : PutReport(w, r)
  \/ WriteItem(w) \/ FinishRecord(w)

Failure(w) ==
  \/ DownloadError(w) \/ Abort(w) \/ WriteItemUnconfirmed(w)
  \/ \E r \in Reports : PutReportReplayed(w, r) \/ PutReportLost(w, r)

Environment ==
  \/ \E k \in Keys : Expire(k) \/ \E c \in Contents : Upload(k, c)
  \/ \E d \in Deliveries : Deliver(d)
  \/ \E r \in Reports : IndexCatchUp(r)

Next ==
  \/ Environment
  \/ \E w \in Workers : Step(w) \/ Failure(w) \/ \E d \in Deliveries : Start(w, d)

Spec == Init /\ [][Next]_vars

(* Lambda drains the asynchronous queue and runs what it started; uploads, *)
(* deliveries and failures are never forced.                               *)
Fairness ==
  /\ \A w \in Workers : WF_vars(Step(w))
  /\ \A d \in Deliveries : WF_vars(\E w \in Workers : Start(w, d))
  /\ \A r \in Reports : WF_vars(IndexCatchUp(r))

FairSpec == Spec /\ Fairness

-----------------------------------------------------------------------------
(* Properties                                                              *)

Writing(w, r) == inv[w].pc = "rows" /\ inv[w].report = r
HasWriter(r) == \E w \in Workers : Writing(w, r)
Complete(r) == reports[r] # None /\ Len(items[r]) = reports[r].count

(* Under every fault and interleaving, the ITEMs stored for a report are   *)
(* rows 1, 2, ... of one single content, each once and in order, no more   *)
(* than the report declares, with the report's owner; and no ITEM is there *)
(* without its REPORT (upsert before the item loop, one report id per      *)
(* invocation).                                                            *)
RowsOnceInOrder ==
  \A r \in Reports :
    /\ reports[r] = None => items[r] = <<>>
    /\ reports[r] # None => Len(items[r]) <= reports[r].count
    /\ \A i \in 1..Len(items[r]) :
         items[r][i] = [owner |-> reports[r].owner, row |-> i,
                        content |-> items[r][1].content]

(* A report whose writer is gone is never written to again, by a retry or  *)
(* by anyone: an incomplete one stays incomplete (the short-circuit at the *)
(* GSI3 check never looks at the rows).                                    *)
SealedReports ==
  [][\A r \in Reports :
       reports[r] # None /\ ~ HasWriter(r)
         => ~ HasWriter(r)' /\ items'[r] = items[r] /\ reports'[r] = reports[r]]_vars

\* The REPORTs of a file, and those that executions past their check may add.
PastCheck(e) == {w \in Workers : inv[w].pc = "put" /\ Record(w).etag = e}
Copies(e) == Cardinality(ReportsOf(e)) + Cardinality(PastCheck(e))

(* Once GSI3 shows an ETag, its REPORTs and the executions that may still  *)
(* add one only get fewer: whatever is delivered, retried or lost later,   *)
(* duplicates come from executions already past their check.               *)
SeenEtagFrozen ==
  [][\A e \in Contents : Seen(e) => Copies(e)' <= Copies(e)]_vars

(* With an up-to-date index, concurrent deliveries of one file store at    *)
(* most as many REPORTs as there are concurrent executions (10 reserved),  *)
(* whatever fails and however often they are retried: with one execution   *)
(* at a time the GSI3 check is exact.                                      *)
DuplicatesBoundedByConcurrency ==
  "lag" \notin Faults =>
    \A e \in Contents : Cardinality(ReportsOf(e)) <= Cardinality(Workers)

\* Key k was put more than once, with different contents.
Overwritten(k) ==
  \E m, n \in uploads : m.key = k /\ n.key = k /\ m.etag # n.etag

\* Clients of different owners uploaded the same bytes.
Shared(e) ==
  \E m, n \in uploads :
    m.etag = e /\ n.etag = e /\ KeyOwner[m.key] # KeyOwner[n.key]

HoldsRowsOf(r, c) ==
  /\ reports[r].count = RowCount[c]
  /\ \A i \in 1..Len(items[r]) : items[r][i].content = c

\* Report r stands for the upload that notice n announces.
StandsFor(r, n) ==
  /\ \E m \in uploads : /\ m.key = reports[r].key /\ HoldsRowsOf(r, m.etag)
                        /\ m.etag = n.etag \/ Overwritten(m.key)
  /\ reports[r].owner = KeyOwner[n.key] \/ Shared(n.etag)

(* A request is acknowledged only when each of its records has a report    *)
(* under its ETag, whatever fails.  The rows of that report are those of a *)
(* version put under the report's key, which is the announced one unless   *)
(* that key was overwritten (handler.py:262 names no version), and its     *)
(* owner is the record's own, unless another owner uploaded the same bytes *)
(* (db.py:359 asks for the ETag alone).  And when no invocation can die    *)
(* between its report and its last row, all of them are there or their     *)
(* writer is still at work.                                                *)
AckedIsIngested ==
  \A d \in Deliveries : status[d] = "done" =>
    \A i \in 1..Len(event[d]) :
      \E r \in ReportsOf(event[d][i].etag) :
        /\ StandsFor(r, event[d][i])
        /\ Faults \cap {"abort", "lostReply", "replay"} = {} =>
             Complete(r) \/ HasWriter(r)

(* Every request the queue accepts is in the end acknowledged or dead-     *)
(* lettered, even a terminal failure that is retried to no purpose.        *)
EveryDeliverySettles ==
  \A d \in Deliveries : status[d] = "queued" ~> status[d] \in {"done", "dead"}

\* The turns request d has left at most: each attempt waits, and then runs.
TurnsLeft(d) ==
  CASE status[d] = "unused" -> 2 * MaxAttempts + 1
    [] status[d] = "queued" -> 2 * (MaxAttempts - attempts[d])
    [] status[d] = "running" -> 2 * (MaxAttempts - attempts[d]) + 1
    [] OTHER -> 0

Stage == [download |-> 1, check |-> 2, put |-> 3, rows |-> 4]

\* Execution j is execution i further on, within the bounds of the handler:
\* at another record, at a later call, or in a loop's next round.
Further(i, j) ==
  /\ j.delivery = i.delivery
  /\ \/ i.pos < j.pos /\ j.pos <= Len(event[i.delivery])
     \/ i.pos = j.pos /\ Stage[i.pc] < Stage[j.pc]
     \/ /\ i.pos = j.pos /\ i.pc = j.pc /\ i.content = j.content
        /\ \/ i.tries < j.tries /\ j.tries < MaxDownloads
           \/ i.next < j.next /\ j.next <= RowCount[i.content] + 1

(* Every step of an execution gets it further in an event that stays what  *)
(* it was, or ends it and takes one of its request's turns; nothing ever   *)
(* gives a turn back.  So a request settles within a number of steps that  *)
(* its records, rows, downloads and attempts bound, whatever fails and     *)
(* however the executions interleave (handler.py:257, cdk_app.py:333).     *)
SettlingIsBounded ==
  [][\A d \in Deliveries :
       /\ status'[d] # status[d] => TurnsLeft(d)' < TurnsLeft(d)
       /\ status[d] # "unused" => event'[d] = event[d]
       /\ \A w \in Workers : inv[w].delivery = d /\ inv'[w] # inv[w] =>
            \/ Further(inv[w], inv'[w])
            \/ inv'[w] = Idle /\ TurnsLeft(d)' < TurnsLeft(d)]_vars

\* What ingestion promises of each report, implemented by this pipeline.
Phase == [r \in Reports |-> IF reports[r] = None THEN "absent"
                           ELSE IF HasWriter(r) THEN "open" ELSE "closed"]
Declared == [r \in Reports |-> IF reports[r] = None THEN 0 ELSE reports[r].count]
Written == [r \in Reports |-> Len(items[r])]

Ledger == INSTANCE IngestLedger WITH
  phase <- Phase, declared <- Declared, written <- Written

(* The pipeline implements the ledger: a report is opened once, filled row *)
(* by row up to its declared count by one writer, and closed for good.     *)
LedgerSpec == Ledger!Spec

-----------------------------------------------------------------------------
(* Claims of the source's comments                                         *)

(* handler.py:12-14: re-uploading an object (same ETag) is a no-op; the    *)
(* conditional put on the REPORT is "race-safe".                           *)
OneReportPerEtag == \A e \in Contents : Cardinality(ReportsOf(e)) <= 1

(* handler.py:15: transient errors propagate "so Lambda retries"; a        *)
(* request that is acknowledged after its retries has stored its rows.     *)
RetryCompletes ==
  \A d \in Deliveries : status[d] = "done" =>
    \A i \in 1..Len(event[d]) :
      \E r \in ReportsOf(event[d][i].etag) : Complete(r) \/ HasWriter(r)
=============================================================================
