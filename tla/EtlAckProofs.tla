---------------------------- MODULE EtlAckProofs ----------------------------
(***************************************************************************)
(* What an acknowledgement is worth: each record of an acknowledged        *)
(* request has a report under its ETag, which stands for an upload of that *)
(* file, and, when no execution dies between its report and its last row,  *)
(* that report is complete or in the hands of an execution at work.        *)
(***************************************************************************)
EXTENDS EtlDedupProofs

\* No failure comes between a report and its last row.
Uninterrupted == Faults \cap {"abort", "lostReply", "replay"} = {}

Ingested(e) == ReportsOf(e) # {}

\* Every stored report is complete or being written.
NoneAbandoned ==
  \A r \in Reports : reports[r] # None => Complete(r) \/ HasWriter(r)

\* The records of an acknowledged request have reports, ...
SettledInv ==
  \A d \in Deliveries : status[d] = "done" =>
    \A i \in 1..Len(event[d]) : Ingested(event[d][i].etag)

\* ... so do those a running execution has behind it, ...
BehindInv ==
  \A w \in Workers : inv[w].pc # "idle" =>
    \A i \in 1..Len(event[inv[w].delivery]) :
      i < inv[w].pos => Ingested(event[inv[w].delivery][i].etag)

\* ... and the one whose rows it is writing.
AtRowsInv ==
  \A w \in Workers : inv[w].pc = "rows" => Ingested(Record(w).etag)

AckInv == (Uninterrupted => NoneAbandoned) /\ SettledInv /\ BehindInv /\ AtRowsInv

\* What is stored, announced or read was uploaded under its key, ...
ObjectsInv ==
  \A k \in Keys : objects[k] # None => [key |-> k, etag |-> objects[k]] \in uploads

EventsInv ==
  \A d \in Deliveries : \A i \in 1..Len(event[d]) : event[d][i] \in uploads

ContentsInv ==
  \A w \in Workers : inv[w].pc \notin {"idle", "download"} =>
    [key |-> Record(w).key, etag |-> inv[w].content] \in uploads

\* ... an execution writes rows for the report of its own key, ...
KeysInv ==
  \A w \in Workers : inv[w].pc = "rows" => reports[inv[w].report].key = Record(w).key

\* ... and a report names an upload, its owner, and the rows of a version.
Sourced(r) ==
  /\ [key |-> reports[r].key, etag |-> reports[r].etag] \in uploads
  /\ reports[r].owner = KeyOwner[reports[r].key]
  /\ \E m \in uploads : m.key = reports[r].key /\ HoldsRowsOf(r, m.etag)

ReportsInv == \A r \in Reports : reports[r] # None => Sourced(r)

SourceInv == ObjectsInv /\ EventsInv /\ ContentsInv /\ KeysInv /\ ReportsInv

\* The file of ETag e has a report after this step.
IngestedNext(e) == \E r \in Reports : reports'[r] # None /\ reports'[r].etag = e

-----------------------------------------------------------------------------
(* Reports stay                                                            *)

LEMMA ReportsStay ==
  ASSUME Base, [Next]_vars
  PROVE  /\ \A r \in Reports : reports[r] # None => reports'[r] = reports[r]
         /\ \A e : Ingested(e) => IngestedNext(e)
<1>1. \A r \in Reports : reports[r] # None => reports'[r] = reports[r]
  <2>1. ASSUME NEW w \in Workers, NEW q \in Reports, StoreReport(w, q)
        PROVE  \A r \in Reports : reports[r] # None => reports'[r] = reports[r]
    BY <2>1 DEF StoreReport, Base, StoreType
  <2> QED
    BY <2>1, CopySteps DEF CopyStep, CopyQuiet, CheckStep, PutStep
<1> QED
  BY <1>1 DEF Ingested, IngestedNext, ReportsOf

-----------------------------------------------------------------------------
(* No report is abandoned                                                  *)

\* An execution's step leaves the other executions alone.
LEMMA OthersKeep ==
  ASSUME Base, NEW w \in Workers, Step(w) \/ Failure(w), NEW v \in Workers \ {w}
  PROVE  inv'[v] = inv[v]
<1>1. ASSUME Raise(w) \/ EndRecord(w)
      PROVE  inv'[v] = inv[v]
  BY <1>1 DEF Raise, EndRecord, Base, QueueBase
<1>2. CASE Step(w)
  <2>1. CASE Reject(w) \/ ParseError(w) \/ MissingObject(w)
    BY <1>1, <2>1 DEF Reject, ParseError, MissingObject, Fail
  <2>2. CASE ShortCircuit(w) \/ FinishRecord(w)
    BY <1>1, <2>2 DEF ShortCircuit, FinishRecord
  <2>3. CASE Download(w) \/ NotSeen(w) \/ WriteItem(w) \/ \E r \in Reports : PutReport(w, r)
    BY <2>3 DEF Download, NotSeen, WriteItem, PutReport, Base, QueueBase
  <2> QED
    BY <1>2, <2>1, <2>2, <2>3 DEF Step
<1>3. CASE Failure(w)
  <2>1. CASE DownloadError(w)
    BY <1>1, <2>1 DEF DownloadError, Fail, Base, QueueBase
  <2>2. CASE Abort(w) \/ WriteItemUnconfirmed(w)
    BY <1>1, <2>2 DEF Abort, Fail, WriteItemUnconfirmed
  <2>3. ASSUME NEW r \in Reports, PutReportReplayed(w, r) \/ PutReportLost(w, r)
        PROVE  inv'[v] = inv[v]
    BY <1>1, <2>3 DEF PutReportReplayed, PutReportLost
  <2> QED
    BY <1>3, <2>1, <2>2, <2>3 DEF Failure
<1> QED
  BY <1>2, <1>3

\* Undisturbed, a failure is a failed download.
LEMMA UninterruptedFailure ==
  ASSUME Uninterrupted, NEW w \in Workers, Failure(w)
  PROVE  DownloadError(w)
  BY DEF Uninterrupted, Failure, Abort, WriteItemUnconfirmed,
         PutReportReplayed, PutReportLost

\* A writer goes on writing its report, or finishes it.
LEMMA WritersGoOn ==
  ASSUME Base, Uninterrupted, [Next]_vars, NEW v \in Workers, inv[v].pc = "rows"
  PROVE  \/ inv'[v].pc = "rows" /\ inv'[v].report = inv[v].report
         \/ FinishRecord(v)
<1>1. CASE Environment \/ UNCHANGED vars
  BY <1>1 DEF Environment, Expire, Upload, Deliver, IndexCatchUp, vars
<1>2. ASSUME NEW w \in Workers, NEW d \in Deliveries, Start(w, d)
      PROVE  inv'[v] = inv[v]
  BY <1>2, IdleType DEF Start, Base, QueueBase
<1>3. ASSUME NEW w \in Workers \ {v}, Step(w) \/ Failure(w)
      PROVE  inv'[v] = inv[v]
  BY <1>3, OthersKeep
<1>4. CASE Failure(v)
  BY <1>4, UninterruptedFailure DEF DownloadError, Reading
<1>5. CASE Step(v)
  <2>1. WriteItem(v) \/ FinishRecord(v)
    BY <1>5 DEF Step, Reject, Download, ParseError, MissingObject, Reading,
                ShortCircuit, NotSeen, PutReport, StoreReport
  <2>2. ASSUME WriteItem(v)
        PROVE  inv'[v].pc = "rows" /\ inv'[v].report = inv[v].report
    BY <2>2 DEF WriteItem, Base, QueueBase, Invocation
  <2> QED
    BY <2>1, <2>2
<1> QED
  BY <1>1, <1>2, <1>3, <1>4, <1>5 DEF Next

\* Only an execution that goes on to the rows stores a report.
LEMMA OpensGoOn ==
  ASSUME Base, Uninterrupted, [Next]_vars,
         NEW r \in Reports, reports[r] = None, reports'[r] # None
  PROVE  HasWriter(r)'
<1>1. ~ QuietStep /\ ~ (\E w \in Workers : RowStep(w))
  BY DEF QuietStep, RowStep, StoreRow
<1>2. ASSUME NEW w \in Workers, NEW q \in Reports, PutReport(w, q)
      PROVE  HasWriter(r)'
  <2>1. q = r
    BY <1>2 DEF PutReport, StoreReport, Base, StoreType
  <2>2. inv'[w].pc = "rows" /\ inv'[w].report = r
    BY <1>2, <2>1 DEF PutReport, Base, QueueBase, Invocation
  <2> QED
    BY <2>2 DEF HasWriter, Writing
<1>3. ASSUME NEW w \in Workers, Step(w)
      PROVE  \E q \in Reports : PutReport(w, q)
  BY <1>3 DEF Step, Reject, Download, ParseError, MissingObject, Fail, ShortCircuit,
              NotSeen, WriteItem, StoreRow, FinishRecord, table
<1>4. ASSUME NEW w \in Workers, Failure(w)
      PROVE  FALSE
  BY <1>4, UninterruptedFailure DEF DownloadError, Fail, table
<1>5. ~ Environment /\ ~ (\E w \in Workers, d \in Deliveries : Start(w, d))
      /\ ~ UNCHANGED vars
  BY DEF Environment, Expire, Upload, Deliver, IndexCatchUp, Start, table, vars
<1> QED
  BY <1>2, <1>3, <1>4, <1>5 DEF Next

LEMMA FinishingCompletes ==
  ASSUME Base, TableInv, NEW w \in Workers, FinishRecord(w)
  PROVE  LET r == inv[w].report
         IN  /\ r \in Reports /\ reports'[r] # None
             /\ Len(items'[r]) = reports'[r].count
<1> DEFINE r == inv[w].report
<1>1. /\ inv[w].pc = "rows" /\ inv[w].next > RowCount[inv[w].content]
      /\ reports' = reports /\ items' = items
  BY DEF FinishRecord, table
<1>2. r \in Reports /\ inv[w].content \in Contents
  BY <1>1 DEF Base, QueueBase, BusyInv
<1>3. /\ reports[r] # None /\ reports[r].count = RowCount[inv[w].content]
      /\ inv[w].next = Len(items[r]) + 1
  BY <1>1 DEF TableInv, WriterInv
<1>4. Len(items[r]) <= reports[r].count
  BY <1>2, <1>3 DEF TableInv, RowsOnceInOrder
<1>5. Len(items[r]) \in Nat /\ RowCount[inv[w].content] \in Nat
  BY <1>2, LenProperties, ConstantsAssumption DEF Base, StoreType
<1>6. Len(items[r]) = reports[r].count
  BY <1>1, <1>3, <1>4, <1>5
<1>7. reports'[r] # None /\ Len(items'[r]) = reports'[r].count
  BY <1>1, <1>3, <1>6
<1> QED
  BY <1>2, <1>7

\* A complete report gets no more rows.
LEMMA CompleteStays ==
  ASSUME Base, TableInv, [Next]_vars, NEW r \in Reports, Complete(r)
  PROVE  Complete(r)'
<1>1. reports[r] # None /\ reports'[r] = reports[r] /\ Len(items[r]) = reports[r].count
  BY ReportsStay DEF Complete
<1>2. ASSUME NEW w \in Workers, RowStep(w)
      PROVE  items'[r] = items[r]
  <2>1. /\ inv[w].pc = "rows"
        /\ inv[w].next = Len(items[inv[w].report]) + 1
        /\ Len(items[inv[w].report]) + 1 <= RowCount[inv[w].content]
        /\ Len(items[inv[w].report]) \in Nat
        /\ \A q \in Reports \ {inv[w].report} : items'[q] = items[q]
    BY <1>2, RowEffect
  <2>2. reports[inv[w].report].count = RowCount[inv[w].content]
    BY <2>1 DEF TableInv, WriterInv
  <2>3. RowCount[inv[w].content] \in Nat
    BY <2>1, ConstantsAssumption DEF Base, QueueBase, BusyInv
  <2>4. r # inv[w].report
    BY <1>1, <2>1, <2>2, <2>3
  <2> QED
    BY <2>1, <2>4
<1>3. items'[r] = items[r]
  BY <1>2, StepKinds DEF TableStep, QuietStep, OpenStep, StoreReport
<1> QED
  BY <1>1, <1>3 DEF Complete

LEMMA NoneAbandonedNext ==
  ASSUME Base, TableInv, Uninterrupted, NoneAbandoned, [Next]_vars
  PROVE  NoneAbandoned'
<1> SUFFICES ASSUME NEW r \in Reports, reports'[r] # None
             PROVE  Complete(r)' \/ HasWriter(r)'
  BY DEF NoneAbandoned
<1>1. CASE reports[r] = None
  BY <1>1, OpensGoOn
<1>2. CASE reports[r] # None /\ Complete(r)
  BY <1>2, CompleteStays
<1>3. CASE reports[r] # None /\ HasWriter(r)
  <2>1. PICK v \in Workers : inv[v].pc = "rows" /\ inv[v].report = r
    BY <1>3 DEF HasWriter, Writing
  <2>2. CASE inv'[v].pc = "rows" /\ inv'[v].report = r
    BY <2>2 DEF HasWriter, Writing
  <2>3. CASE FinishRecord(v)
    BY <2>1, <2>3, FinishingCompletes DEF Complete
  <2> QED
    BY <2>1, <2>2, <2>3, WritersGoOn
<1> QED
  BY <1>1, <1>2, <1>3 DEF NoneAbandoned

-----------------------------------------------------------------------------
(* What lies behind an execution                                           *)

LEMMA AtRowsNext ==
  ASSUME Base, TableInv, AtRowsInv, [Next]_vars
  PROVE  AtRowsInv'
<1> SUFFICES ASSUME NEW v \in Workers, inv'[v].pc = "rows"
             PROVE  Ingested(Record(v).etag)'
  BY DEF AtRowsInv
<1>1. Record(v)' = Record(v)
  BY StepKinds DEF KeepsRecords
<1>2. ASSUME inv[v].pc = "rows"
      PROVE  Ingested(Record(v).etag)'
  <2>1. Ingested(Record(v).etag)
    BY <1>2 DEF AtRowsInv
  <2>2. PICK r \in Reports : reports[r] # None /\ reports[r].etag = Record(v).etag
    BY <2>1 DEF Ingested, ReportsOf
  <2>3. reports'[r] = reports[r]
    BY <2>2, ReportsStay
  <2> QED
    BY <1>1, <2>2, <2>3 DEF Ingested, ReportsOf
<1>3. CASE QuietStep
  BY <1>2, <1>3 DEF QuietStep
<1>4. ASSUME NEW w \in Workers, RowStep(w)
      PROVE  Ingested(Record(v).etag)'
  <2>1. inv[v].pc = "rows"
    BY <1>4, RowEffect
  <2> QED
    BY <1>2, <2>1
<1>5. ASSUME NEW w \in Workers, NEW r \in Reports, OpenStep(w, r), KeepsRecords
      PROVE  Ingested(Record(v).etag)'
  <2>1. /\ reports'[r] # None /\ reports'[r].etag = Record(w).etag
        /\ \A u \in Workers \ {w} : inv'[u] = inv[u]
    BY <1>5, OpenEffect
  <2>2. CASE v = w
    BY <1>1, <2>1, <2>2 DEF Ingested, ReportsOf
  <2>3. CASE v # w
    BY <1>2, <2>1, <2>3
  <2> QED
    BY <2>2, <2>3
<1> QED
  BY <1>3, <1>4, <1>5, StepKinds DEF TableStep

\* No request is newly acknowledged; an execution stays where it is, begins
\* a request, or becomes idle.
GoesOnStep ==
  /\ \A d \in Deliveries : status'[d] = "done" => status[d] = "done"
  /\ \A d \in Deliveries : status[d] # "unused" => event'[d] = event[d]
  /\ \A v \in Workers : inv'[v].pc # "idle" =>
       \/ inv'[v].pos = 1
       \/ /\ inv[v].pc # "idle"
          /\ inv'[v].delivery = inv[v].delivery /\ inv'[v].pos = inv[v].pos

\* w is done with a record that has a report.
EndStep(w) ==
  /\ inv[w].pc # "idle" /\ IngestedNext(Record(w).etag)
  /\ EndRecord(w) /\ event' = event

LEMMA RaiseGoesOn ==
  ASSUME Base, NEW w \in Workers, inv[w].pc # "idle", Raise(w), event' = event
  PROVE  GoesOnStep
<1>1. inv[w].delivery \in Deliveries
  BY DEF Base, QueueBase, BusyInv
<1>2. \A d \in Deliveries : status'[d] = "done" => status[d] = "done"
  BY <1>1 DEF Raise, Base, QueueBase
<1>3. \A v \in Workers : inv'[v].pc # "idle" => inv'[v] = inv[v]
  BY IdleType DEF Raise, Base, QueueBase
<1> QED
  BY <1>1, <1>2, <1>3 DEF GoesOnStep

LEMMA FailGoesOn ==
  ASSUME Base, NEW w \in Workers, inv[w].pc # "idle", Fail(w)
  PROVE  GoesOnStep
  BY RaiseGoesOn DEF Fail

\* A step of w within its record.
LEMMA WithinGoesOn ==
  ASSUME Base, NEW w \in Workers, inv[w].pc # "idle", UNCHANGED <<event, status>>,
         \E i : /\ inv' = [inv EXCEPT ![w] = i]
               /\ i.delivery = inv[w].delivery /\ i.pos = inv[w].pos
  PROVE  GoesOnStep
<1>1. PICK i : /\ inv' = [inv EXCEPT ![w] = i]
               /\ i.delivery = inv[w].delivery /\ i.pos = inv[w].pos
  OBVIOUS
<1>2. inv'[w] = i /\ \A v \in Workers \ {w} : inv'[v] = inv[v]
  BY <1>1 DEF Base, QueueBase
<1> QED
  BY <1>1, <1>2 DEF GoesOnStep

LEMMA StepGoesOn ==
  ASSUME Base, AtRowsInv, NEW w \in Workers, Step(w)
  PROVE  GoesOnStep \/ EndStep(w)
<1>1. CASE Reject(w) \/ ParseError(w) \/ MissingObject(w)
  BY <1>1, FailGoesOn DEF Reject, ParseError, MissingObject, Reading
<1>2. CASE Download(w)
  <2> DEFINE i == [inv[w] EXCEPT !.pc = "check", !.content = Object(w), !.tries = 0]
  <2>1. /\ inv' = [inv EXCEPT ![w] = i]
        /\ i.delivery = inv[w].delivery /\ i.pos = inv[w].pos
    BY <1>2 DEF Download, Base, QueueBase, Invocation
  <2> QED
    BY <1>2, <2>1, WithinGoesOn DEF Download, Reading, queue
<1>3. CASE ShortCircuit(w)
  <2>1. PICK r \in Reports : reports[r] # None /\ reports[r].etag = Record(w).etag
    BY <1>3 DEF ShortCircuit, Seen, ReportsOf
  <2>2. IngestedNext(Record(w).etag)
    BY <1>3, <2>1 DEF ShortCircuit, table, IngestedNext
  <2> QED
    BY <1>3, <2>2 DEF ShortCircuit, EndStep
<1>4. CASE NotSeen(w)
  <2> DEFINE i == [inv[w] EXCEPT !.pc = "put"]
  <2>1. /\ inv' = [inv EXCEPT ![w] = i]
        /\ i.delivery = inv[w].delivery /\ i.pos = inv[w].pos
    BY <1>4 DEF NotSeen, Base, QueueBase, Invocation
  <2> QED
    BY <1>4, <2>1, WithinGoesOn DEF NotSeen, queue
<1>5. ASSUME NEW r \in Reports, PutReport(w, r)
      PROVE  GoesOnStep
  <2> DEFINE i == [inv[w] EXCEPT !.pc = "rows", !.report = r, !.next = 1]
  <2>1. /\ inv' = [inv EXCEPT ![w] = i]
        /\ i.delivery = inv[w].delivery /\ i.pos = inv[w].pos
    BY <1>5 DEF PutReport, Base, QueueBase, Invocation
  <2> QED
    BY <1>5, <2>1, WithinGoesOn DEF PutReport, StoreReport
<1>6. CASE WriteItem(w)
  <2> DEFINE i == [inv[w] EXCEPT !.next = @ + 1]
  <2>1. /\ inv' = [inv EXCEPT ![w] = i]
        /\ i.delivery = inv[w].delivery /\ i.pos = inv[w].pos
    BY <1>6 DEF WriteItem, Base, QueueBase, Invocation
  <2> QED
    BY <1>6, <2>1, WithinGoesOn DEF WriteItem, StoreRow
<1>7. CASE FinishRecord(w)
  <2>1. PICK r \in Reports : reports[r] # None /\ reports[r].etag = Record(w).etag
    BY <1>7 DEF FinishRecord, AtRowsInv, Ingested, ReportsOf
  <2>2. IngestedNext(Record(w).etag)
    BY <1>7, <2>1 DEF FinishRecord, table, IngestedNext
  <2> QED
    BY <1>7, <2>2 DEF FinishRecord, EndStep
<1> QED
  BY <1>1, <1>2, <1>3, <1>4, <1>5, <1>6, <1>7 DEF Step

LEMMA DownloadErrorGoesOn ==
  ASSUME Base, NEW w \in Workers, DownloadError(w)
  PROVE  GoesOnStep
<1>1. inv[w].pc = "download"
  BY DEF DownloadError, Reading
<1>2. CASE inv[w].tries + 1 < MaxDownloads
  <2> DEFINE i == [inv[w] EXCEPT !.tries = @ + 1]
  <2>1. inv' = [inv EXCEPT ![w] = i] /\ UNCHANGED queue
    BY <1>2, ConstantsAssumption DEF DownloadError, Base, QueueBase, Invocation
  <2>2. i.delivery = inv[w].delivery /\ i.pos = inv[w].pos
    BY DEF Base, QueueBase, Invocation
  <2> QED
    BY <1>1, <2>1, <2>2, WithinGoesOn DEF queue
<1>3. CASE ~ (inv[w].tries + 1 < MaxDownloads)
  BY <1>1, <1>3, FailGoesOn DEF DownloadError
<1> QED
  BY <1>2, <1>3

LEMMA FailureGoesOn ==
  ASSUME Base, NEW w \in Workers, Failure(w)
  PROVE  GoesOnStep \/ EndStep(w)
<1>1. CASE Abort(w)
  BY <1>1, FailGoesOn DEF Abort
<1>2. CASE WriteItemUnconfirmed(w)
  BY <1>2, RaiseGoesOn DEF WriteItemUnconfirmed, StoreRow
<1>3. ASSUME NEW r \in Reports, PutReportReplayed(w, r)
      PROVE  EndStep(w)
  <2> DEFINE rec == [owner |-> KeyOwner[Record(w).key], key |-> Record(w).key,
                     etag |-> Record(w).etag, count |-> RowCount[inv[w].content]]
  <2>1. inv[w].pc = "put" /\ event' = event /\ reports'[r] = rec
    BY <1>3 DEF PutReportReplayed, StoreReport, Base, StoreType
  <2>2. Record(w) \in Notice /\ inv[w].content \in Contents
    BY <2>1, RecordType DEF Base, QueueBase, BusyInv
  <2>3. rec \in Report
    BY <2>2, ConstantsAssumption DEF Report, Notice
  <2>4. rec # None /\ rec.etag = Record(w).etag
    BY <2>3, ConstantsAssumption
  <2>5. IngestedNext(Record(w).etag)
    BY <2>1, <2>4 DEF IngestedNext
  <2> QED
    BY <1>3, <2>1, <2>5 DEF PutReportReplayed, EndStep
<1>4. ASSUME NEW r \in Reports, PutReportLost(w, r)
      PROVE  GoesOnStep
  BY <1>4, RaiseGoesOn DEF PutReportLost, StoreReport
<1> QED
  BY <1>1, <1>2, <1>3, <1>4, DownloadErrorGoesOn DEF Failure

LEMMA AckSteps ==
  ASSUME Base, AtRowsInv, [Next]_vars
  PROVE  GoesOnStep \/ \E w \in Workers : EndStep(w)
<1>1. CASE Environment
  <2>1. inv' = inv /\ \A d \in Deliveries :
          /\ status'[d] = "done" => status[d] = "done"
          /\ status[d] # "unused" => event'[d] = event[d]
    BY <1>1 DEF Environment, Expire, Upload, Deliver, IndexCatchUp, queue, Base, QueueBase
  <2> QED
    BY <2>1 DEF GoesOnStep
<1>2. ASSUME NEW w \in Workers, Step(w) \/ Failure(w)
      PROVE  GoesOnStep \/ EndStep(w)
  BY <1>2, StepGoesOn, FailureGoesOn
<1>3. ASSUME NEW w \in Workers, NEW d \in Deliveries, Start(w, d)
      PROVE  GoesOnStep
  <2>1. /\ inv'[w].pos = 1 /\ event' = event
        /\ \A v \in Workers \ {w} : inv'[v] = inv[v]
    BY <1>3, AtRecordType DEF Start, Base, QueueBase
  <2>2. \A c \in Deliveries : status'[c] = "done" => status[c] = "done"
    BY <1>3 DEF Start, Base, QueueBase
  <2> QED
    BY <2>1, <2>2 DEF GoesOnStep
<1>4. CASE UNCHANGED vars
  BY <1>4 DEF vars, GoesOnStep
<1> QED
  BY <1>1, <1>2, <1>3, <1>4 DEF Next

\* What a record that ends lies behind: all up to and including its own.
LEMMA EndsBehind ==
  ASSUME Base, BehindInv, [Next]_vars, NEW w \in Workers, EndStep(w),
         NEW i \in 1..Len(event[inv[w].delivery]), i <= inv[w].pos
  PROVE  IngestedNext(event[inv[w].delivery][i].etag)
<1>1. inv[w].pc # "idle" /\ IngestedNext(Record(w).etag) /\ inv[w].pos \in Nat
  BY DEF EndStep, Base, QueueBase, Invocation
<1>2. CASE i = inv[w].pos
  BY <1>1, <1>2 DEF Record
<1>3. CASE i < inv[w].pos
  BY <1>1, <1>3, ReportsStay DEF BehindInv
<1> QED
  BY <1>1, <1>2, <1>3

\* EndRecord, as seen from the queue and from the executions.
LEMMA EndEffect ==
  ASSUME Base, NEW w \in Workers, EndStep(w)
  PROVE  LET d == inv[w].delivery
             p == inv[w].pos
         IN  /\ d \in Deliveries /\ p \in 1..Len(event[d]) /\ event' = event
             /\ Len(event[d]) \in Nat
             /\ \A v \in Workers \ {w} : inv'[v] = inv[v]
             /\ \A c \in Deliveries \ {d} : status'[c] = status[c]
             /\ \/ /\ inv'[w].delivery = d /\ inv'[w].pos = p + 1
                   /\ status'[d] # "done"
                \/ inv'[w].pc = "idle" /\ p = Len(event[d])
<1> DEFINE d == inv[w].delivery
           p == inv[w].pos
<1>1. /\ d \in Deliveries /\ p \in 1..Len(event[d]) /\ event' = event
      /\ status[d] = "running" /\ EndRecord(w)
  BY DEF EndStep, Base, QueueBase, BusyInv
<1>2. Len(event[d]) \in Nat
  BY <1>1, LenProperties DEF Base, QueueBase
<1>3. /\ \A v \in Workers \ {w} : inv'[v] = inv[v]
      /\ \A c \in Deliveries \ {d} : status'[c] = status[c]
  BY <1>1 DEF EndRecord, Base, QueueBase
<1>4. CASE p < Len(event[d])
  <2>1. inv'[w] = AtRecord(d, p + 1) /\ status' = status
    BY <1>1, <1>4 DEF EndRecord, Base, QueueBase
  <2>2. AtRecord(d, p + 1).delivery = d /\ AtRecord(d, p + 1).pos = p + 1
    BY DEF AtRecord
  <2> QED
    BY <1>1, <1>2, <1>3, <2>1, <2>2
<1>5. CASE ~ (p < Len(event[d]))
  <2>1. inv'[w] = Idle
    BY <1>1, <1>5 DEF EndRecord, Base, QueueBase
  <2> QED
    BY <1>1, <1>2, <1>3, <1>5, <2>1, IdleType
<1> QED
  BY <1>4, <1>5

LEMMA BehindNext ==
  ASSUME Base, BehindInv, AtRowsInv, [Next]_vars
  PROVE  BehindInv'
<1> SUFFICES ASSUME NEW v \in Workers, inv'[v].pc # "idle",
                    NEW i \in 1..Len(event'[inv'[v].delivery]), i < inv'[v].pos
             PROVE  Ingested(event[inv[v].delivery][i].etag)'
  BY DEF BehindInv
<1>1. ASSUME inv[v].pc # "idle", event'[inv[v].delivery] = event[inv[v].delivery],
             inv'[v].delivery = inv[v].delivery, inv'[v].pos = inv[v].pos
      PROVE  Ingested(event[inv[v].delivery][i].etag)'
  <2>1. Ingested(event[inv[v].delivery][i].etag)
    BY <1>1 DEF BehindInv
  <2> QED
    BY <1>1, <2>1, ReportsStay DEF Ingested, IngestedNext, ReportsOf
<1>2. CASE GoesOnStep
  <2>1. CASE inv'[v].pos = 1
    BY <2>1
  <2>2. CASE inv'[v].pos # 1
    <3>1. inv[v].pc # "idle" /\ inv'[v].delivery = inv[v].delivery /\ inv'[v].pos = inv[v].pos
      BY <1>2, <2>2 DEF GoesOnStep
    <3>2. inv[v].delivery \in Deliveries /\ status[inv[v].delivery] = "running"
      BY <3>1 DEF Base, QueueBase, BusyInv
    <3>3. event'[inv[v].delivery] = event[inv[v].delivery]
      BY <1>2, <3>2 DEF GoesOnStep
    <3> QED
      BY <1>1, <3>1, <3>3
  <2> QED
    BY <2>1, <2>2
<1>3. ASSUME NEW w \in Workers, EndStep(w)
      PROVE  Ingested(event[inv[v].delivery][i].etag)'
  <2>1. CASE v # w
    BY <1>1, <1>3, <2>1, EndEffect
  <2>2. CASE v = w
    <3>1. /\ event' = event /\ inv'[w].delivery = inv[w].delivery
          /\ inv'[w].pos = inv[w].pos + 1 /\ inv[w].pos \in Nat
          /\ inv[w].pos \in 1..Len(event[inv[w].delivery])
      BY <1>3, <2>2, EndEffect
    <3>2. i \in 1..Len(event[inv[w].delivery]) /\ i <= inv[w].pos
      BY <2>2, <3>1
    <3>3. IngestedNext(event[inv[w].delivery][i].etag)
      BY <1>3, <3>2, EndsBehind
    <3> QED
      BY <2>2, <3>1, <3>3 DEF Ingested, IngestedNext, ReportsOf
  <2> QED
    BY <2>1, <2>2
<1> QED
  BY <1>2, <1>3, AckSteps

LEMMA SettledNext ==
  ASSUME Base, SettledInv, BehindInv, AtRowsInv, [Next]_vars
  PROVE  SettledInv'
<1> SUFFICES ASSUME NEW d \in Deliveries, status'[d] = "done",
                    NEW i \in 1..Len(event'[d])
             PROVE  Ingested(event[d][i].etag)'
  BY DEF SettledInv
<1>1. ASSUME status[d] = "done", event'[d] = event[d]
      PROVE  Ingested(event[d][i].etag)'
  <2>1. Ingested(event[d][i].etag)
    BY <1>1 DEF SettledInv
  <2> QED
    BY <1>1, <2>1, ReportsStay DEF Ingested, IngestedNext, ReportsOf
<1>2. CASE GoesOnStep
  BY <1>1, <1>2 DEF GoesOnStep
<1>3. ASSUME NEW w \in Workers, EndStep(w)
      PROVE  Ingested(event[d][i].etag)'
  <2>1. CASE d # inv[w].delivery
    BY <1>1, <1>3, <2>1, EndEffect
  <2>2. CASE d = inv[w].delivery
    <3>1. event' = event /\ inv[w].pos = Len(event[d]) /\ Len(event[d]) \in Nat
      BY <1>3, <2>2, EndEffect
    <3>2. i \in 1..Len(event[inv[w].delivery]) /\ i <= inv[w].pos
      BY <2>2, <3>1
    <3>3. IngestedNext(event[inv[w].delivery][i].etag)
      BY <1>3, <3>2, EndsBehind
    <3> QED
      BY <2>2, <3>1, <3>3 DEF Ingested, IngestedNext, ReportsOf
  <2> QED
    BY <2>1, <2>2
<1> QED
  BY <1>2, <1>3, AckSteps

-----------------------------------------------------------------------------
(* Where rows and reports come from                                        *)

\* Nothing an execution does touches the uploads or the announcements.
LEMMA StoreKept ==
  ASSUME NEW w \in Workers, Step(w) \/ Failure(w)
  PROVE  UNCHANGED <<objects, uploads, event>>
<1>1. CASE Step(w)
  BY <1>1 DEF Step, Reject, Download, ParseError, MissingObject, Fail, ShortCircuit,
              NotSeen, PutReport, StoreReport, WriteItem, StoreRow, FinishRecord,
              store, queue
<1>2. CASE Failure(w)
  BY <1>2 DEF Failure, DownloadError, Abort, Fail, WriteItemUnconfirmed, StoreRow,
              PutReportReplayed, PutReportLost, StoreReport, store, queue
<1> QED
  BY <1>1, <1>2

LEMMA UploadsGrow ==
  ASSUME [Next]_vars
  PROVE  uploads \subseteq uploads'
<1>1. CASE Environment \/ UNCHANGED vars
  BY <1>1 DEF Environment, Expire, Upload, Deliver, IndexCatchUp, store, vars
<1>2. ASSUME NEW w \in Workers, NEW d \in Deliveries, Start(w, d)
      PROVE  uploads' = uploads
  BY <1>2 DEF Start, store
<1> QED
  BY <1>1, <1>2, StoreKept DEF Next

LEMMA ObjectsNext ==
  ASSUME Base, ObjectsInv, [Next]_vars
  PROVE  ObjectsInv'
<1>1. ASSUME NEW k \in Keys, NEW c \in Contents, Upload(k, c)
      PROVE  ObjectsInv'
  BY <1>1 DEF Upload, ObjectsInv, Base, StoreType
<1>2. ASSUME NEW k \in Keys, Expire(k)
      PROVE  ObjectsInv'
  BY <1>2 DEF Expire, ObjectsInv, Base, StoreType
<1>3. ASSUME UNCHANGED <<objects, uploads>>
      PROVE  ObjectsInv'
  BY <1>3 DEF ObjectsInv
<1>4. CASE Environment
  BY <1>1, <1>2, <1>3, <1>4 DEF Environment, Deliver, IndexCatchUp, store
<1>5. ASSUME NEW w \in Workers, NEW d \in Deliveries, Start(w, d)
      PROVE  UNCHANGED <<objects, uploads>>
  BY <1>5 DEF Start, store
<1> QED
  BY <1>3, <1>4, <1>5, StoreKept DEF Next, vars

\* Every element of a batch of uploads is an upload.
LEMMA BatchElements ==
  ASSUME NEW S, NEW batch \in Batches(S)
  PROVE  \A i \in 1..Len(batch) : batch[i] \in S
<1>1. PICK n \in 1..MaxBatch : batch \in [1..n -> S]
  BY DEF Batches
<1>2. n \in Nat
  BY <1>1, ConstantsAssumption
<1>3. batch \in Seq(S)
  BY <1>1, <1>2, SeqDef
<1> QED
  BY <1>3, ElementOfSeq

LEMMA EventsNext ==
  ASSUME Base, EventsInv, [Next]_vars
  PROVE  EventsInv'
<1>1. ASSUME event' = event
      PROVE  EventsInv'
  BY <1>1, UploadsGrow DEF EventsInv
<1>2. ASSUME NEW d \in Deliveries, Deliver(d)
      PROVE  EventsInv'
  <2>1. PICK batch \in Batches(uploads) : event' = [event EXCEPT ![d] = batch]
    BY <1>2 DEF Deliver
  <2>2. event'[d] = batch /\ \A c \in Deliveries \ {d} : event'[c] = event[c]
    BY <2>1 DEF Base, QueueBase
  <2>3. \A i \in 1..Len(batch) : batch[i] \in uploads
    BY BatchElements
  <2> QED
    BY <2>2, <2>3, UploadsGrow DEF EventsInv
<1>3. CASE Environment
  BY <1>1, <1>2, <1>3 DEF Environment, Expire, Upload, IndexCatchUp, queue
<1>4. ASSUME NEW w \in Workers, NEW d \in Deliveries, Start(w, d)
      PROVE  event' = event
  BY <1>4 DEF Start
<1> QED
  BY <1>1, <1>3, <1>4, StoreKept DEF Next, vars

\* An execution keeps its record and content from its download on.
Keeps(v) ==
  /\ inv[v].pc \notin {"idle", "download"}
  /\ inv'[v].content = inv[v].content
  /\ Record(v)' = Record(v)

LEMMA StepKeeps ==
  ASSUME Base, NEW v \in Workers, Step(v) \/ Failure(v),
         inv'[v].pc \notin {"idle", "download"}
  PROVE  Keeps(v) \/ Download(v)
<1>1. event' = event
  BY StoreKept
<1>2. ASSUME inv[v].pc \notin {"idle", "download"}, inv'[v].content = inv[v].content,
             inv'[v].delivery = inv[v].delivery, inv'[v].pos = inv[v].pos
      PROVE  Keeps(v)
  BY <1>1, <1>2 DEF Keeps, Record
<1>3. ~ Raise(v)
  BY IdleType DEF Raise, Base, QueueBase
<1>4. ASSUME inv[v].pc # "idle"
      PROVE  ~ EndRecord(v)
  <2>1. inv[v].delivery \in Deliveries /\ inv[v].pos + 1 \in Nat
    BY <1>4 DEF Base, QueueBase, BusyInv, Invocation
  <2> QED
    BY <2>1, IdleType, AtRecordType DEF EndRecord, Base, QueueBase
<1>5. CASE NotSeen(v) \/ \E r \in Reports : PutReport(v, r)
  <2>1. inv[v].pc \in {"check", "put"}
    BY <1>5 DEF NotSeen, PutReport, StoreReport
  <2>2. inv[v].pc \notin {"idle", "download"}
    BY <2>1
  <2>3. inv \in [Workers -> Invocation]
    BY DEF Base, QueueBase
  <2>4. CASE NotSeen(v)
    <3>1. inv' = [inv EXCEPT ![v].pc = "put"]
      BY <2>4 DEF NotSeen
    <3>2. /\ inv'[v].content = inv[v].content
          /\ inv'[v].delivery = inv[v].delivery
          /\ inv'[v].pos = inv[v].pos
      BY <2>3, <3>1 DEF Invocation
    <3>3. Keeps(v)
      BY <1>2, <2>2, <3>2
    <3> QED
      BY <3>3
  <2>5. ASSUME NEW r \in Reports, PutReport(v, r)
        PROVE  Keeps(v)
    <3>1. inv' = [inv EXCEPT ![v].pc = "rows", ![v].report = r, ![v].next = 1]
      BY <2>5 DEF PutReport
    <3>2. /\ inv'[v].content = inv[v].content
          /\ inv'[v].delivery = inv[v].delivery
          /\ inv'[v].pos = inv[v].pos
      BY <2>3, <3>1 DEF Invocation
    <3> QED
      BY <1>2, <2>2, <3>2
  <2> QED
    BY <1>5, <2>4, <2>5
<1>6. CASE WriteItem(v)
  BY <1>2, <1>6 DEF WriteItem, StoreRow, Base, QueueBase, Invocation
<1>7. ~ Reject(v) /\ ~ ParseError(v) /\ ~ MissingObject(v) /\ ~ Abort(v)
  BY <1>3 DEF Reject, ParseError, MissingObject, Abort, Fail
<1>8. ~ ShortCircuit(v) /\ ~ FinishRecord(v)
  BY <1>4 DEF ShortCircuit, FinishRecord
<1>9. ~ DownloadError(v)
  <2>1. ASSUME inv[v].pc = "download", inv' = [inv EXCEPT ![v].tries = @ + 1]
        PROVE  FALSE
    BY <2>1 DEF Base, QueueBase, Invocation
  <2> QED
    BY <1>3, <2>1 DEF DownloadError, Fail, Reading
<1>10. ~ WriteItemUnconfirmed(v) /\ ~ (\E r \in Reports : PutReportLost(v, r))
  BY <1>3 DEF WriteItemUnconfirmed, PutReportLost
<1>11. ~ (\E r \in Reports : PutReportReplayed(v, r))
  BY <1>4 DEF PutReportReplayed, StoreReport
<1> QED
  BY <1>5, <1>6, <1>7, <1>8, <1>9, <1>10, <1>11 DEF Step, Failure

LEMMA NextKeeps ==
  ASSUME Base, [Next]_vars, NEW v \in Workers, inv'[v].pc \notin {"idle", "download"}
  PROVE  Keeps(v) \/ Download(v)
<1>1. ASSUME inv'[v] = inv[v], \A d \in Deliveries : status[d] # "unused" => event'[d] = event[d]
      PROVE  Keeps(v)
  <2>1. inv[v].delivery \in Deliveries /\ status[inv[v].delivery] = "running"
    BY <1>1 DEF Base, QueueBase, BusyInv
  <2> QED
    BY <1>1, <2>1 DEF Keeps, Record
<1>2. CASE Environment \/ UNCHANGED vars
  <2>1. inv' = inv /\ \A d \in Deliveries : status[d] # "unused" => event'[d] = event[d]
    BY <1>2 DEF Environment, Expire, Upload, Deliver, IndexCatchUp, queue, vars, Base, QueueBase
  <2> QED
    BY <1>1, <2>1
<1>3. ASSUME NEW w \in Workers, NEW d \in Deliveries, Start(w, d)
      PROVE  Keeps(v)
  <2>1. v # w
    BY <1>3, AtRecordType DEF Start, Base, QueueBase
  <2> QED
    BY <1>1, <1>3, <2>1 DEF Start, Base, QueueBase
<1>4. ASSUME NEW w \in Workers \ {v}, Step(w) \/ Failure(w)
      PROVE  Keeps(v)
  BY <1>1, <1>4, OthersKeep, StoreKept
<1> QED
  BY <1>2, <1>3, <1>4, StepKeeps DEF Next

LEMMA ContentsNext ==
  ASSUME Base, ObjectsInv, ContentsInv, [Next]_vars
  PROVE  ContentsInv'
<1> SUFFICES ASSUME NEW v \in Workers, inv'[v].pc \notin {"idle", "download"}
             PROVE  [key |-> Record(v).key, etag |-> inv[v].content]' \in uploads'
  BY DEF ContentsInv
<1>1. CASE Keeps(v)
  BY <1>1, UploadsGrow DEF Keeps, ContentsInv
<1>2. CASE Download(v)
  <2>1. Record(v) \in Notice
    BY <1>2, RecordType DEF Download, Reading, Base
  <2>2. objects[Record(v).key] # None /\ Record(v).key \in Keys
    BY <1>2, <2>1, ConstantsAssumption DEF Download, Object, Notice
  <2>3. [key |-> Record(v).key, etag |-> objects[Record(v).key]] \in uploads
    BY <2>2 DEF ObjectsInv
  <2>4. /\ inv'[v].content = objects[Record(v).key]
        /\ inv'[v].delivery = inv[v].delivery /\ inv'[v].pos = inv[v].pos
        /\ event' = event
    BY <1>2 DEF Download, Object, queue, Base, QueueBase, Invocation
  <2>5. Record(v)' = Record(v)
    BY <2>4 DEF Record
  <2> QED
    BY <2>3, <2>4, <2>5, UploadsGrow
<1> QED
  BY <1>1, <1>2, NextKeeps

\* The report of a writing execution is stored and has its record's key.
LEMMA KeysNext ==
  ASSUME Base, TableInv, KeysInv, [Next]_vars
  PROVE  KeysInv'
<1> SUFFICES ASSUME NEW v \in Workers, inv'[v].pc = "rows"
             PROVE  reports'[inv'[v].report].key = Record(v).key'
  BY DEF KeysInv
<1>1. Record(v)' = Record(v)
  BY StepKinds DEF KeepsRecords
<1>2. ASSUME inv[v].pc = "rows", inv'[v].report = inv[v].report
      PROVE  reports'[inv'[v].report].key = Record(v).key'
  <2>1. inv[v].report \in Reports /\ reports[inv[v].report] # None
    BY <1>2 DEF Base, QueueBase, BusyInv, TableInv, WriterInv
  <2>2. reports'[inv[v].report] = reports[inv[v].report]
    BY <2>1, ReportsStay
  <2> QED
    BY <1>1, <1>2, <2>2 DEF KeysInv
<1>3. CASE QuietStep
  BY <1>2, <1>3 DEF QuietStep
<1>4. ASSUME NEW w \in Workers, RowStep(w)
      PROVE  inv[v].pc = "rows" /\ inv'[v].report = inv[v].report
  BY <1>4, RowEffect
<1>5. ASSUME NEW w \in Workers, NEW r \in Reports, OpenStep(w, r), KeepsRecords
      PROVE  reports'[inv'[v].report].key = Record(v).key'
  <2>1. /\ reports'[r].key = Record(w).key
        /\ inv'[w].pc = "rows" => inv'[w].report = r
        /\ \A u \in Workers \ {w} : inv'[u] = inv[u]
    BY <1>5, OpenEffect
  <2>2. CASE v = w
    BY <1>1, <2>1, <2>2
  <2>3. CASE v # w
    BY <1>2, <2>1, <2>3
  <2> QED
    BY <2>2, <2>3
<1> QED
  BY <1>2, <1>3, <1>4, <1>5, StepKinds DEF TableStep

\* What holds of a report holds as long as it and its rows stay.
LEMMA SourcedStays ==
  ASSUME [Next]_vars, NEW r \in Reports, Sourced(r),
         reports'[r] = reports[r], items'[r] = items[r]
  PROVE  Sourced(r)'
  BY UploadsGrow DEF Sourced, HoldsRowsOf

\* An execution at its rows has a source for the report it stores or fills.
LEMMA ReportsNext ==
  ASSUME Base, TableInv, EventsInv, ContentsInv, KeysInv, ReportsInv, [Next]_vars
  PROVE  ReportsInv'
<1> SUFFICES ASSUME NEW q \in Reports, reports'[q] # None
             PROVE  Sourced(q)'
  BY DEF ReportsInv
<1>1. ASSUME reports[q] # None, reports'[q] = reports[q], items'[q] = items[q]
      PROVE  Sourced(q)'
  BY <1>1, SourcedStays DEF ReportsInv
<1>2. CASE QuietStep
  BY <1>1, <1>2 DEF QuietStep
<1>3. ASSUME NEW w \in Workers, NEW r \in Reports, OpenStep(w, r), KeepsRecords
      PROVE  Sourced(q)'
  <2>1. /\ inv[w].pc = "put" /\ items' = items /\ items[r] = <<>>
        /\ reports'[r].owner = KeyOwner[Record(w).key]
        /\ reports'[r].key = Record(w).key
        /\ reports'[r].etag = Record(w).etag
        /\ reports'[r].count = RowCount[inv[w].content]
        /\ \A p \in Reports \ {r} : reports'[p] = reports[p]
        /\ Record(w) \in Notice
    BY <1>3, OpenEffect
  <2>2. CASE q # r
    BY <1>1, <2>1, <2>2
  <2>3. CASE q = r
    <3>1. Record(w) \in uploads
      BY <2>1 DEF EventsInv, Record, Base, QueueBase, BusyInv
    <3>2. [key |-> Record(w).key, etag |-> Record(w).etag] = Record(w)
      BY <2>1 DEF Notice
    <3>3. PICK m \in uploads : m.key = Record(w).key /\ m.etag = inv[w].content
      BY <2>1 DEF ContentsInv
    <3>4. HoldsRowsOf(r, m.etag)'
      BY <2>1, <3>3, EmptySeq DEF HoldsRowsOf
    <3> QED
      BY <2>1, <2>3, <3>1, <3>2, <3>3, <3>4, UploadsGrow DEF Sourced
  <2> QED
    BY <2>2, <2>3
<1>4. ASSUME NEW w \in Workers, RowStep(w), KeepsRecords
      PROVE  Sourced(q)'
  <2> DEFINE r == inv[w].report
             n == Len(items[r])
  <2>1. /\ inv[w].pc = "rows" /\ r \in Reports /\ n \in Nat /\ reports' = reports
        /\ Len(items'[r]) = n + 1
        /\ \A i \in 1..n : items'[r][i] = items[r][i]
        /\ items'[r][n + 1] = NextRow(w)
        /\ \A p \in Reports \ {r} : items'[p] = items[p]
    BY <1>4, RowEffect
  <2> HIDE DEF n
  <2>2. CASE q # r
    BY <1>1, <2>1, <2>2
  <2>3. CASE q = r
    <3>1. Sourced(r) /\ reports[r].key = Record(w).key
      BY <2>1, <2>3 DEF ReportsInv, KeysInv
    <3>2. PICK m \in uploads : m.key = Record(w).key /\ m.etag = inv[w].content
      BY <2>1 DEF ContentsInv
    <3>3. /\ reports[r].count = RowCount[m.etag]
          /\ \A i \in 1..n : items[r][i].content = m.etag
      BY <2>1, <3>2 DEF TableInv, WriterInv, n
    <3>4. \A i \in 1..(n + 1) : items'[r][i].content = m.etag
      <4> SUFFICES ASSUME NEW i \in 1..(n + 1)
                   PROVE  items'[r][i].content = m.etag
        OBVIOUS
      <4>1. CASE i \in 1..n
        BY <2>1, <3>3, <4>1
      <4>2. CASE i = n + 1
        BY <2>1, <3>2, <4>2 DEF NextRow
      <4> QED
        BY <2>1, <4>1, <4>2
    <3>5. m \in uploads' /\ m.key = reports'[q].key /\ HoldsRowsOf(q, m.etag)'
      BY <2>1, <2>3, <3>1, <3>2, <3>3, <3>4, UploadsGrow DEF HoldsRowsOf
    <3> QED
      BY <2>1, <2>3, <3>1, <3>5, UploadsGrow DEF Sourced
  <2> QED
    BY <2>2, <2>3
<1> QED
  BY <1>2, <1>3, <1>4, StepKinds DEF TableStep

LEMMA InitSource == Init => SourceInv
<1> SUFFICES ASSUME Init
             PROVE  SourceInv
  OBVIOUS
<1>1. \A w \in Workers : inv[w].pc = "idle"
  BY IdleType DEF Init
<1>2. \A d \in Deliveries : Len(event[d]) = 0
  BY EmptySeq DEF Init
<1> QED
  BY <1>1, <1>2 DEF Init, SourceInv, ObjectsInv, EventsInv, ContentsInv, KeysInv, ReportsInv

LEMMA NextKeepsSource == Base /\ TableInv /\ SourceInv /\ [Next]_vars => SourceInv'
  BY ObjectsNext, EventsNext, ContentsNext, KeysNext, ReportsNext DEF SourceInv

-----------------------------------------------------------------------------
(* The theorem                                                             *)

LEMMA InitAck == Init => AckInv
<1> SUFFICES ASSUME Init
             PROVE  AckInv
  OBVIOUS
<1>1. \A w \in Workers : inv[w].pc = "idle"
  BY IdleType DEF Init
<1>2. /\ \A r \in Reports : reports[r] = None
      /\ \A d \in Deliveries : status[d] = "unused"
  BY DEF Init
<1> QED
  BY <1>1, <1>2 DEF AckInv, NoneAbandoned, SettledInv, BehindInv, AtRowsInv

LEMMA NextKeepsAck == Base /\ TableInv /\ AckInv /\ [Next]_vars => AckInv'
<1>1. ASSUME Base, TableInv, AckInv, [Next]_vars, Uninterrupted
      PROVE  NoneAbandoned'
  BY <1>1, NoneAbandonedNext DEF AckInv
<1>2. Uninterrupted' = Uninterrupted
  BY DEF Uninterrupted
<1> QED
  BY <1>1, <1>2, SettledNext, BehindNext, AtRowsNext DEF AckInv

\* A report that has a source stands for every upload of its bytes.
LEMMA SourcedStands ==
  ASSUME NEW r \in Reports, NEW n \in uploads, n \in Notice, Sourced(r),
         reports[r].etag = n.etag
  PROVE  StandsFor(r, n)
<1>1. PICK m \in uploads : m.key = reports[r].key /\ HoldsRowsOf(r, m.etag)
  BY DEF Sourced
<1>2. PICK o \in uploads : o.key = reports[r].key /\ o.etag = n.etag
  BY DEF Sourced
<1>3. m.etag = n.etag \/ Overwritten(m.key)
  BY <1>1, <1>2 DEF Overwritten
<1>4. reports[r].owner = KeyOwner[n.key] \/ Shared(n.etag)
  BY <1>2 DEF Shared, Sourced
<1> QED
  BY <1>1, <1>3, <1>4 DEF StandsFor

LEMMA AckIsEnough == Base /\ AckInv /\ SourceInv => AckedIsIngested
<1> SUFFICES ASSUME Base, AckInv, SourceInv, NEW d \in Deliveries, status[d] = "done",
                    NEW i \in 1..Len(event[d])
             PROVE  \E r \in ReportsOf(event[d][i].etag) :
                      StandsFor(r, event[d][i]) /\ (Uninterrupted => Complete(r) \/ HasWriter(r))
  BY DEF AckedIsIngested, Uninterrupted
<1>1. PICK r \in ReportsOf(event[d][i].etag) : TRUE
  BY DEF AckInv, SettledInv, Ingested
<1>2. r \in Reports /\ reports[r] # None /\ reports[r].etag = event[d][i].etag
  BY DEF ReportsOf
<1>3. Uninterrupted => Complete(r) \/ HasWriter(r)
  BY <1>2 DEF AckInv, NoneAbandoned
<1>4. event[d][i] \in uploads /\ Sourced(r)
  BY <1>2 DEF SourceInv, EventsInv, ReportsInv
<1>5. event[d][i] \in Notice
  BY <1>4 DEF Base, StoreType
<1> QED
  BY <1>2, <1>3, <1>4, <1>5, SourcedStands

(* Whatever fails, a request is acknowledged only with a report for each   *)
(* of its records that stands for an upload of that file, in the way       *)
(* StandsFor says; and only with all of its rows, or a writer still at     *)
(* work on them, when no execution is interrupted between its report and   *)
(* its last row (handler.py:149-182).                                      *)
THEOREM AcknowledgedIsIngested == Spec => []AckedIsIngested
<1>1. Init => AckInv /\ SourceInv
  BY InitAck, InitSource
<1>2. Base /\ TableInv /\ AckInv /\ SourceInv /\ [Next]_vars => (AckInv /\ SourceInv)'
  BY NextKeepsAck, NextKeepsSource
<1>3. Base /\ AckInv /\ SourceInv => AckedIsIngested
  BY AckIsEnough
<1> QED
  BY <1>1, <1>2, <1>3, TableInvariant, PTL DEF Spec
=============================================================================
