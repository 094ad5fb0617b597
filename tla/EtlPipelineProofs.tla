------------------------- MODULE EtlPipelineProofs -------------------------
(***************************************************************************)
(* Theorems about EtlPipeline, for every set of workers, requests, keys    *)
(* and contents, every bound and every combination of faults.              *)
(***************************************************************************)
EXTENDS EtlPipeline, SequenceTheorems, FiniteSetTheorems, TLAPS

-----------------------------------------------------------------------------
(* The executions and the queue                                            *)

(* An execution works at a record of a running request, has a content once *)
(* it has downloaded one and a report once it has stored one.              *)
BusyInv ==
  \A w \in Workers : inv[w].pc # "idle" =>
    /\ inv[w].delivery \in Deliveries
    /\ status[inv[w].delivery] = "running"
    /\ inv[w].pos \in 1..Len(event[inv[w].delivery])
    /\ inv[w].pc # "download" => inv[w].content \in Contents
    /\ inv[w].pc = "rows" => inv[w].report \in Reports

\* No request is run by two executions at a time.
ExclusiveInv ==
  \A v, w \in Workers :
    v # w /\ inv[v].pc # "idle" /\ inv[w].pc # "idle"
      => inv[v].delivery # inv[w].delivery

\* A request that waits for an execution has one left and names a record.
QueueInv ==
  /\ \A d \in Deliveries : status[d] \in {"unused", "queued"} => attempts[d] < MaxAttempts
  /\ \A d \in Deliveries : status[d] = "queued" => Len(event[d]) >= 1

\* The queue's part of TypeOK, strengthened to be inductive.
QueueBase ==
  /\ event \in [Deliveries -> Seq(Notice)]
  /\ status \in [Deliveries -> Statuses]
  /\ attempts \in [Deliveries -> 0..MaxAttempts]
  /\ inv \in [Workers -> Invocation]
  /\ BusyInv /\ ExclusiveInv /\ QueueInv

\* The store's and the table's part.
StoreType ==
  /\ objects \in [Keys -> Contents \cup {None}]
  /\ uploads \subseteq Notice
  /\ reports \in [Reports -> Report \cup {None}]
  /\ gsi3 \subseteq Reports
  /\ items \in [Reports -> Seq(Row)]

Base == QueueBase /\ StoreType

LEMMA BaseIsTyped == Base => TypeOK
  BY DEF Base, QueueBase, StoreType, TypeOK

\* The record an execution works at is a notice of S3.
LEMMA RecordType ==
  ASSUME QueueBase, NEW w \in Workers, inv[w].pc # "idle"
  PROVE  Record(w) \in Notice
<1>1. /\ inv[w].delivery \in Deliveries
      /\ inv[w].pos \in 1..Len(event[inv[w].delivery])
  BY DEF QueueBase, BusyInv
<1>2. event[inv[w].delivery] \in Seq(Notice)
  BY <1>1 DEF QueueBase
<1> QED
  BY <1>1, <1>2, ElementOfSeq DEF Record

\* A batch of announced notices is a sequence of one or more of them.
LEMMA BatchIsSequence ==
  ASSUME StoreType, NEW batch \in Batches(uploads)
  PROVE  batch \in Seq(Notice) /\ Len(batch) >= 1
<1>1. PICK n \in 1..MaxBatch : batch \in [1..n -> uploads]
  BY DEF Batches
<1>2. n \in Nat /\ n >= 1
  BY <1>1, ConstantsAssumption
<1>3. batch \in [1..n -> Notice]
  BY <1>1 DEF StoreType
<1>4. batch \in Seq(Notice)
  BY <1>2, <1>3, SeqDef
<1>5. Len(batch) = n
  BY <1>2, <1>3, <1>4, LenProperties
<1> QED
  BY <1>2, <1>4, <1>5

LEMMA IdleType == Idle \in Invocation /\ Idle.pc = "idle"
  BY ConstantsAssumption DEF Idle, Invocation

LEMMA AtRecordType ==
  ASSUME NEW d \in Deliveries, NEW p \in Nat
  PROVE  /\ AtRecord(d, p) \in Invocation
         /\ AtRecord(d, p).pc = "download"
         /\ AtRecord(d, p).delivery = d
         /\ AtRecord(d, p).pos = p
  BY ConstantsAssumption DEF AtRecord, Invocation

\* An execution that goes on at its record keeps the queue's invariant.
LEMMA GoesOn ==
  ASSUME QueueBase, NEW w \in Workers, inv[w].pc # "idle",
         NEW i \in Invocation, i.pc \in {"download", "check", "put", "rows"},
         i.delivery = inv[w].delivery, i.pos = inv[w].pos,
         i.pc # "download" => i.content \in Contents,
         i.pc = "rows" => i.report \in Reports,
         inv' = [inv EXCEPT ![w] = i], UNCHANGED <<event, status, attempts>>
  PROVE  QueueBase'
  BY DEF QueueBase, BusyInv, ExclusiveInv, QueueInv

\* A failed execution leaves its request waiting or dead.
LEMMA Raises ==
  ASSUME QueueBase, NEW w \in Workers, inv[w].pc # "idle",
         Raise(w), UNCHANGED <<event, attempts>>
  PROVE  QueueBase'
<1> DEFINE d == inv[w].delivery
<1>1. d \in Deliveries /\ Len(event[d]) >= 1 /\ status[d] = "running"
  BY DEF QueueBase, BusyInv
<1>2. /\ status' \in [Deliveries -> Statuses]
      /\ \A e \in Deliveries \ {d} : status'[e] = status[e]
      /\ status'[d] = IF attempts[d] < MaxAttempts THEN "queued" ELSE "dead"
  BY <1>1 DEF QueueBase, Raise, Statuses
<1>3. /\ inv' \in [Workers -> Invocation]
      /\ inv'[w].pc = "idle"
      /\ \A v \in Workers \ {w} : inv'[v] = inv[v]
  BY IdleType DEF QueueBase, Raise
<1>4. BusyInv'
  <2> SUFFICES ASSUME NEW v \in Workers, inv'[v].pc # "idle"
               PROVE  /\ inv'[v].delivery \in Deliveries
                      /\ status'[inv'[v].delivery] = "running"
                      /\ inv'[v].pos \in 1..Len(event'[inv'[v].delivery])
                      /\ inv'[v].pc # "download" => inv'[v].content \in Contents
                      /\ inv'[v].pc = "rows" => inv'[v].report \in Reports
    BY DEF BusyInv
  <2>1. v # w /\ inv'[v] = inv[v] /\ event' = event
    BY <1>3
  <2>2. inv[v].delivery # d
    BY <2>1 DEF QueueBase, ExclusiveInv
  <2>3. inv[v].delivery \in Deliveries /\ status[inv[v].delivery] = "running"
    BY <2>1 DEF QueueBase, BusyInv
  <2>4. status'[inv[v].delivery] = status[inv[v].delivery]
    BY <1>2, <2>2, <2>3
  <2> QED
    BY <2>1, <2>3, <2>4 DEF QueueBase, BusyInv
<1>5. ExclusiveInv'
  BY <1>3 DEF QueueBase, ExclusiveInv
<1>6. QueueInv'
  BY <1>1, <1>2 DEF QueueBase, QueueInv
<1> QED
  BY <1>2, <1>3, <1>4, <1>5, <1>6 DEF QueueBase

\* An execution that ends a record goes to the next or acknowledges.
LEMMA EndsRecord ==
  ASSUME QueueBase, NEW w \in Workers, inv[w].pc # "idle",
         EndRecord(w), UNCHANGED <<event, attempts>>
  PROVE  QueueBase'
<1> DEFINE d == inv[w].delivery
           p == inv[w].pos
<1>1. /\ d \in Deliveries /\ status[d] = "running" /\ p \in 1..Len(event[d])
      /\ Len(event[d]) \in Nat
  BY LenProperties DEF QueueBase, BusyInv
<1>2. CASE p < Len(event[d])
  <2>1. inv' = [inv EXCEPT ![w] = AtRecord(d, p + 1)] /\ status' = status
    BY <1>2 DEF EndRecord
  <2>2. p + 1 \in 1..Len(event[d])
    BY <1>1, <1>2
  <2> QED
    BY <1>1, <2>1, <2>2, AtRecordType DEF QueueBase, BusyInv, ExclusiveInv, QueueInv
<1>3. CASE ~ (p < Len(event[d]))
  <2>1. inv' = [inv EXCEPT ![w] = Idle] /\ status' = [status EXCEPT ![d] = "done"]
    BY <1>3 DEF EndRecord
  <2> QED
    BY <1>1, <2>1, IdleType DEF QueueBase, BusyInv, ExclusiveInv, QueueInv, Statuses
<1> QED
  BY <1>2, <1>3

-----------------------------------------------------------------------------
(* The steps, one by one                                                   *)

\* Storing a report keeps the types of the store and the table.
LEMMA StoreReportType ==
  ASSUME Base, NEW w \in Workers, NEW r \in Reports, StoreReport(w, r)
  PROVE  StoreType' /\ inv[w].pc = "put"
<1>1. inv[w].pc = "put" /\ Record(w) \in Notice
  BY RecordType DEF StoreReport, Base
<1>2. inv[w].content \in Contents
  BY <1>1 DEF Base, QueueBase, BusyInv
<1>3. [owner |-> KeyOwner[Record(w).key], key |-> Record(w).key,
       etag |-> Record(w).etag, count |-> RowCount[inv[w].content]] \in Report
  BY <1>1, <1>2, ConstantsAssumption DEF Report, Notice
<1>4. reports' \in [Reports -> Report \cup {None}]
  BY <1>3 DEF StoreReport, Base, StoreType
<1> QED
  BY <1>1, <1>4 DEF StoreReport, Base, StoreType, store

LEMMA RowType ==
  ASSUME Base, NEW w \in Workers, inv[w].pc = "rows"
  PROVE  NextRow(w) \in Row /\ inv[w].report \in Reports
<1>1. Record(w) \in Notice /\ inv[w].content \in Contents
  BY RecordType DEF Base, QueueBase, BusyInv
<1>2. inv[w].report \in Reports /\ inv[w].next \in Nat
  BY DEF Base, QueueBase, BusyInv, Invocation
<1> QED
  BY <1>1, <1>2, ConstantsAssumption DEF NextRow, Row, Notice

LEMMA StoreRowType ==
  ASSUME Base, NEW w \in Workers, StoreRow(w)
  PROVE  StoreType' /\ inv[w].pc = "rows"
<1>1. inv[w].pc = "rows"
  BY DEF StoreRow
<1>2. Append(items[inv[w].report], NextRow(w)) \in Seq(Row)
  BY <1>1, RowType, AppendProperties DEF Base, StoreType
<1>3. items' \in [Reports -> Seq(Row)]
  BY <1>1, <1>2, RowType DEF StoreRow, Base, StoreType
<1> QED
  BY <1>1, <1>3 DEF StoreRow, Base, StoreType, store

LEMMA FailKeepsBase ==
  ASSUME Base, NEW w \in Workers, inv[w].pc # "idle", Fail(w)
  PROVE  Base'
<1>1. QueueBase'
  BY Raises DEF Base, Fail
<1>2. StoreType'
  BY DEF Base, StoreType, Fail, store, table
<1> QED
  BY <1>1, <1>2 DEF Base

LEMMA InitBase == Init => Base
<1> SUFFICES ASSUME Init
             PROVE  Base
  OBVIOUS
<1>1. inv \in [Workers -> Invocation] /\ \A w \in Workers : inv[w].pc = "idle"
  BY IdleType DEF Init
<1>2. event \in [Deliveries -> Seq(Notice)]
  BY EmptySeq DEF Init
<1>3. items \in [Reports -> Seq(Row)]
  BY EmptySeq DEF Init
<1>4. /\ status \in [Deliveries -> Statuses]
      /\ attempts \in [Deliveries -> 0..MaxAttempts]
      /\ QueueInv
  BY ConstantsAssumption DEF Init, Statuses, QueueInv
<1>5. BusyInv /\ ExclusiveInv
  BY <1>1 DEF BusyInv, ExclusiveInv
<1>6. StoreType
  BY <1>3 DEF Init, StoreType
<1> QED
  BY <1>1, <1>2, <1>4, <1>5, <1>6 DEF Base, QueueBase

LEMMA DeliverBase ==
  ASSUME Base, NEW d \in Deliveries, Deliver(d)
  PROVE  Base'
<1>1. PICK batch \in Batches(uploads) : event' = [event EXCEPT ![d] = batch]
  BY DEF Deliver
<1>2. batch \in Seq(Notice) /\ Len(batch) >= 1
  BY <1>1, BatchIsSequence DEF Base
<1>3. status[d] = "unused" /\ status' = [status EXCEPT ![d] = "queued"]
  BY DEF Deliver
<1>4. inv' = inv /\ attempts' = attempts /\ StoreType'
  BY DEF Deliver, Base, StoreType, store, table
<1>5. QueueBase'
  BY <1>1, <1>2, <1>3, <1>4
     DEF Base, QueueBase, BusyInv, ExclusiveInv, QueueInv, Statuses
<1> QED
  BY <1>4, <1>5 DEF Base

LEMMA StartBase ==
  ASSUME Base, NEW w \in Workers, NEW d \in Deliveries, Start(w, d)
  PROVE  Base'
<1>1. /\ inv[w].pc = "idle" /\ status[d] = "queued"
      /\ attempts[d] < MaxAttempts /\ Len(event[d]) >= 1
  BY IdleType DEF Start, Base, QueueBase, QueueInv
<1>2. /\ status' = [status EXCEPT ![d] = "running"] /\ event' = event
      /\ attempts' = [attempts EXCEPT ![d] = @ + 1]
      /\ inv' = [inv EXCEPT ![w] = AtRecord(d, 1)]
  BY DEF Start
<1>3. Len(event[d]) \in Nat /\ 1 \in 1..Len(event[d])
  BY <1>1, LenProperties DEF Base, QueueBase
<1>4. attempts' \in [Deliveries -> 0..MaxAttempts]
  BY <1>1, <1>2, ConstantsAssumption DEF Base, QueueBase
<1>5. status' \in [Deliveries -> Statuses] /\ inv' \in [Workers -> Invocation]
  BY <1>2, AtRecordType DEF Base, QueueBase, Statuses
<1>6. \A v \in Workers : inv[v].pc # "idle" =>
        inv[v].delivery # d /\ inv'[v] = inv[v]
  BY <1>1, <1>2 DEF Base, QueueBase, BusyInv
<1>7. BusyInv' /\ ExclusiveInv'
  <2>1. /\ inv'[w].pc = "download" /\ inv'[w].delivery = d /\ inv'[w].pos = 1
        /\ \A v \in Workers \ {w} : inv'[v] = inv[v]
    BY <1>2, AtRecordType DEF Base, QueueBase
  <2>2. status'[d] = "running" /\ \A e \in Deliveries \ {d} : status'[e] = status[e]
    BY <1>2 DEF Base, QueueBase
  <2>3. BusyInv'
    <3> SUFFICES ASSUME NEW v \in Workers, inv'[v].pc # "idle"
                 PROVE  /\ inv'[v].delivery \in Deliveries
                        /\ status'[inv'[v].delivery] = "running"
                        /\ inv'[v].pos \in 1..Len(event'[inv'[v].delivery])
                        /\ inv'[v].pc # "download" => inv'[v].content \in Contents
                        /\ inv'[v].pc = "rows" => inv'[v].report \in Reports
      BY DEF BusyInv
    <3>1. CASE v = w
      BY <3>1, <1>2, <1>3, <2>1, <2>2
    <3>2. CASE v # w
      BY <3>2, <1>2, <1>6, <2>1, <2>2 DEF Base, QueueBase, BusyInv
    <3> QED
      BY <3>1, <3>2
  <2>4. ExclusiveInv'
    <3>1. \A v \in Workers \ {w} : inv'[v].pc # "idle" => inv'[v].delivery # d
      BY <1>6, <2>1
    <3> QED
      BY <2>1, <3>1 DEF Base, QueueBase, ExclusiveInv
  <2> QED
    BY <2>3, <2>4
<1>8. QueueInv'
  BY <1>2 DEF Base, QueueBase, QueueInv
<1>9. StoreType'
  BY DEF Start, Base, StoreType, store, table
<1> QED
  BY <1>2, <1>4, <1>5, <1>7, <1>8, <1>9 DEF Base, QueueBase

\* The steps that go on at their record.
LEMMA DownloadBase ==
  ASSUME Base, NEW w \in Workers, Download(w)
  PROVE  Base'
<1> DEFINE i == [inv[w] EXCEPT !.pc = "check", !.content = Object(w), !.tries = 0]
<1>1. inv[w].pc = "download" /\ Object(w) \in Contents
  BY DEF Download, Reading
<1>2. /\ i \in Invocation /\ i.pc = "check" /\ i.content = Object(w)
      /\ i.delivery = inv[w].delivery /\ i.pos = inv[w].pos
  <2>1. inv[w] \in Invocation
    BY DEF Base, QueueBase
  <2>2. 0 \in 0..MaxDownloads
    BY ConstantsAssumption
  <2> QED
    BY <1>1, <2>1, <2>2 DEF Invocation
<1>3. inv' = [inv EXCEPT ![w] = i] /\ UNCHANGED <<event, status, attempts>>
  BY DEF Download, queue
<1>4. QueueBase'
  BY <1>1, <1>2, <1>3, GoesOn DEF Base
<1>5. StoreType'
  BY DEF Download, Base, StoreType, store, table
<1> QED
  BY <1>4, <1>5 DEF Base

LEMMA DownloadErrorBase ==
  ASSUME Base, NEW w \in Workers, DownloadError(w)
  PROVE  Base'
<1> DEFINE i == [inv[w] EXCEPT !.tries = @ + 1]
<1>1. inv[w].pc = "download"
  BY DEF DownloadError, Reading
<1>2. CASE inv[w].tries + 1 < MaxDownloads
  <2>1. /\ inv' = [inv EXCEPT ![w] = i] /\ UNCHANGED <<event, status, attempts>>
        /\ StoreType'
    BY <1>2, ConstantsAssumption
       DEF DownloadError, queue, store, table, Base, StoreType, QueueBase, Invocation
  <2>2. /\ i \in Invocation /\ i.pc = "download"
        /\ i.delivery = inv[w].delivery /\ i.pos = inv[w].pos
    <3>1. inv[w] \in Invocation /\ inv[w].tries \in 0..MaxDownloads
      BY DEF Base, QueueBase, Invocation
    <3>2. inv[w].tries + 1 \in 0..MaxDownloads
      BY <1>2, <3>1, ConstantsAssumption
    <3> QED
      BY <1>1, <3>1, <3>2 DEF Invocation
  <2>3. QueueBase'
    BY <1>1, <2>1, <2>2, GoesOn DEF Base
  <2> QED
    BY <2>1, <2>3 DEF Base
<1>3. CASE ~ (inv[w].tries + 1 < MaxDownloads)
  <2>1. Fail(w)
    BY <1>3 DEF DownloadError
  <2> QED
    BY <1>1, <2>1, FailKeepsBase
<1> QED
  BY <1>2, <1>3

LEMMA NotSeenBase ==
  ASSUME Base, NEW w \in Workers, NotSeen(w)
  PROVE  Base'
<1> DEFINE i == [inv[w] EXCEPT !.pc = "put"]
<1>1. /\ inv[w].pc = "check" /\ inv' = [inv EXCEPT ![w] = i]
      /\ UNCHANGED <<event, status, attempts>>
  BY DEF NotSeen, queue
<1>2. /\ i \in Invocation /\ i.pc = "put" /\ i.content = inv[w].content
      /\ i.delivery = inv[w].delivery /\ i.pos = inv[w].pos
  BY DEF Base, QueueBase, Invocation
<1>3. inv[w].content \in Contents
  BY <1>1 DEF Base, QueueBase, BusyInv
<1>4. QueueBase'
  BY <1>1, <1>2, <1>3, GoesOn DEF Base
<1>5. StoreType'
  BY DEF NotSeen, Base, StoreType, store, table
<1> QED
  BY <1>4, <1>5 DEF Base

LEMMA PutReportBase ==
  ASSUME Base, NEW w \in Workers, NEW r \in Reports, PutReport(w, r)
  PROVE  Base'
<1> DEFINE i == [inv[w] EXCEPT !.pc = "rows", !.report = r, !.next = 1]
<1>1. StoreType' /\ inv[w].pc = "put"
  BY StoreReportType DEF PutReport
<1>2. inv' = [inv EXCEPT ![w] = i] /\ UNCHANGED <<event, status, attempts>>
  BY DEF PutReport, StoreReport
<1>3. /\ i \in Invocation /\ i.pc = "rows" /\ i.report = r
      /\ i.content = inv[w].content
      /\ i.delivery = inv[w].delivery /\ i.pos = inv[w].pos
  BY DEF Base, QueueBase, Invocation
<1>4. inv[w].content \in Contents
  BY <1>1 DEF Base, QueueBase, BusyInv
<1>5. QueueBase'
  BY <1>1, <1>2, <1>3, <1>4, GoesOn DEF Base
<1> QED
  BY <1>1, <1>5 DEF Base

LEMMA WriteItemBase ==
  ASSUME Base, NEW w \in Workers, WriteItem(w)
  PROVE  Base'
<1> DEFINE i == [inv[w] EXCEPT !.next = @ + 1]
<1>1. StoreType' /\ inv[w].pc = "rows"
  BY StoreRowType DEF WriteItem
<1>2. inv' = [inv EXCEPT ![w] = i] /\ UNCHANGED <<event, status, attempts>>
  BY DEF WriteItem, StoreRow
<1>3. /\ i \in Invocation /\ i.pc = "rows" /\ i.report = inv[w].report
      /\ i.content = inv[w].content
      /\ i.delivery = inv[w].delivery /\ i.pos = inv[w].pos
  <2>1. inv[w] \in Invocation /\ inv[w].next + 1 \in Nat
    BY DEF Base, QueueBase, Invocation
  <2> QED
    BY <1>1, <2>1 DEF Invocation
<1>4. inv[w].content \in Contents /\ inv[w].report \in Reports
  BY <1>1 DEF Base, QueueBase, BusyInv
<1>5. QueueBase'
  BY <1>1, <1>2, <1>3, <1>4, GoesOn DEF Base
<1> QED
  BY <1>1, <1>5 DEF Base

LEMMA StepKeepsBase ==
  ASSUME Base, NEW w \in Workers, Step(w)
  PROVE  Base'
<1>1. CASE Reject(w)
  BY <1>1, FailKeepsBase DEF Reject
<1>2. CASE Download(w)
  BY <1>2, DownloadBase
<1>3. CASE ParseError(w)
  BY <1>3, FailKeepsBase DEF ParseError, Reading
<1>4. CASE MissingObject(w)
  BY <1>4, FailKeepsBase DEF MissingObject, Reading
<1>5. CASE ShortCircuit(w)
  <2>1. QueueBase'
    BY <1>5, EndsRecord DEF ShortCircuit, Base
  <2>2. StoreType'
    BY <1>5 DEF ShortCircuit, Base, StoreType, store, table
  <2> QED
    BY <2>1, <2>2 DEF Base
<1>6. CASE NotSeen(w)
  BY <1>6, NotSeenBase
<1>7. CASE \E r \in Reports : PutReport(w, r)
  BY <1>7, PutReportBase
<1>8. CASE WriteItem(w)
  BY <1>8, WriteItemBase
<1>9. CASE FinishRecord(w)
  <2>1. QueueBase'
    BY <1>9, EndsRecord DEF FinishRecord, Base
  <2>2. StoreType'
    BY <1>9 DEF FinishRecord, Base, StoreType, store, table
  <2> QED
    BY <2>1, <2>2 DEF Base
<1> QED
  BY <1>1, <1>2, <1>3, <1>4, <1>5, <1>6, <1>7, <1>8, <1>9 DEF Step

LEMMA FailureKeepsBase ==
  ASSUME Base, NEW w \in Workers, Failure(w)
  PROVE  Base'
<1>1. CASE DownloadError(w)
  BY <1>1, DownloadErrorBase
<1>2. CASE Abort(w)
  BY <1>2, FailKeepsBase DEF Abort
<1>3. CASE WriteItemUnconfirmed(w)
  <2>1. StoreType' /\ inv[w].pc # "idle"
    BY <1>3, StoreRowType DEF WriteItemUnconfirmed
  <2>2. QueueBase'
    BY <1>3, <2>1, Raises DEF WriteItemUnconfirmed, StoreRow, Base
  <2> QED
    BY <2>1, <2>2 DEF Base
<1>4. ASSUME NEW r \in Reports, PutReportReplayed(w, r)
      PROVE  Base'
  <2>1. StoreType' /\ inv[w].pc # "idle"
    BY <1>4, StoreReportType DEF PutReportReplayed
  <2>2. QueueBase'
    BY <1>4, <2>1, EndsRecord DEF PutReportReplayed, StoreReport, Base
  <2> QED
    BY <2>1, <2>2 DEF Base
<1>5. ASSUME NEW r \in Reports, PutReportLost(w, r)
      PROVE  Base'
  <2>1. StoreType' /\ inv[w].pc # "idle"
    BY <1>5, StoreReportType DEF PutReportLost
  <2>2. QueueBase'
    BY <1>5, <2>1, Raises DEF PutReportLost, StoreReport, Base
  <2> QED
    BY <2>1, <2>2 DEF Base
<1> QED
  BY <1>1, <1>2, <1>3, <1>4, <1>5 DEF Failure

LEMMA EnvironmentKeepsBase ==
  ASSUME Base, Environment
  PROVE  Base'
<1>1. ASSUME NEW k \in Keys, Expire(k)
      PROVE  Base'
  BY <1>1 DEF Expire, Base, QueueBase, BusyInv, ExclusiveInv, QueueInv, StoreType,
              queue, table
<1>2. ASSUME NEW k \in Keys, NEW c \in Contents, Upload(k, c)
      PROVE  Base'
  <2>1. [key |-> k, etag |-> c] \in Notice
    BY DEF Notice
  <2> QED
    BY <1>2, <2>1 DEF Upload, Base, QueueBase, BusyInv, ExclusiveInv, QueueInv,
                      StoreType, queue, table
<1>3. ASSUME NEW d \in Deliveries, Deliver(d)
      PROVE  Base'
  BY <1>3, DeliverBase
<1>4. ASSUME NEW r \in Reports, IndexCatchUp(r)
      PROVE  Base'
  BY <1>4 DEF IndexCatchUp, Base, QueueBase, BusyInv, ExclusiveInv, QueueInv,
              StoreType, queue, store
<1> QED
  BY <1>1, <1>2, <1>3, <1>4 DEF Environment

LEMMA NextKeepsBase == Base /\ [Next]_vars => Base'
<1> SUFFICES ASSUME Base, [Next]_vars
             PROVE  Base'
  OBVIOUS
<1>1. CASE Environment
  BY <1>1, EnvironmentKeepsBase
<1>2. ASSUME NEW w \in Workers, Step(w) \/ Failure(w)
      PROVE  Base'
  BY <1>2, StepKeepsBase, FailureKeepsBase
<1>3. ASSUME NEW w \in Workers, NEW d \in Deliveries, Start(w, d)
      PROVE  Base'
  BY <1>3, StartBase
<1>4. CASE UNCHANGED vars
  BY <1>4 DEF vars, store, queue, table, Base, QueueBase, BusyInv, ExclusiveInv,
              QueueInv, StoreType
<1> QED
  BY <1>1, <1>2, <1>3, <1>4 DEF Next

LEMMA BaseInvariant == Spec => []Base
<1> QED
  BY InitBase, NextKeepsBase, PTL DEF Spec

(* Every variable keeps its shape, and no request is executed more than    *)
(* MaxAttempts times, in every instance (the delivery path of              *)
(* infra/cdk_app.py:320-337).                                              *)
THEOREM TypeCorrect == Spec => []TypeOK
  BY BaseInvariant, BaseIsTyped, PTL
-----------------------------------------------------------------------------
(* How far a request has got                                               *)

\* What one step may do to a request and to the execution that runs it.
SettlingOf(d) ==
  /\ status'[d] # status[d] => TurnsLeft(d)' < TurnsLeft(d)
  /\ status[d] # "unused" => event'[d] = event[d]
  /\ \A w \in Workers : inv[w].delivery = d /\ inv'[w] # inv[w] =>
       \/ Further(inv[w], inv'[w])
       \/ inv'[w] = Idle /\ TurnsLeft(d)' < TurnsLeft(d)

\* An idle execution runs no request.
LEMMA IdleRunsNothing ==
  ASSUME NEW d \in Deliveries
  PROVE  Idle.delivery # d
  BY ConstantsAssumption DEF Idle

\* A failure takes the turn of the execution that ran.
LEMMA RaiseTakesTurn ==
  ASSUME QueueBase, NEW w \in Workers, inv[w].pc # "idle",
         Raise(w), UNCHANGED <<event, attempts>>, NEW d \in Deliveries
  PROVE  SettlingOf(d)
<1>0. PICK e : e = inv[w].delivery
  OBVIOUS
<1>1. e \in Deliveries /\ status[e] = "running"
  BY <1>0 DEF QueueBase, BusyInv
<1>2. /\ status' = [status EXCEPT ![e] = IF attempts[e] < MaxAttempts
                                         THEN "queued" ELSE "dead"]
      /\ inv' = [inv EXCEPT ![w] = Idle]
  BY <1>0 DEF Raise
<1>3. attempts'[e] = attempts[e] /\ attempts[e] \in 0..MaxAttempts /\ MaxAttempts \in Nat
  BY <1>1, ConstantsAssumption DEF QueueBase
<1>4. status'[e] \in {"queued", "dead"}
  BY <1>1, <1>2 DEF QueueBase
<1>5. TurnsLeft(e)' < TurnsLeft(e)
  BY <1>1, <1>3, <1>4 DEF TurnsLeft
<1>6. d # e => status'[d] = status[d]
  BY <1>2 DEF QueueBase
<1>7. \A v \in Workers : v # w => inv'[v] = inv[v]
  BY <1>2 DEF QueueBase
<1>8. inv'[w] = Idle
  BY <1>2 DEF QueueBase
<1> QED
  BY <1>0, <1>5, <1>6, <1>7, <1>8 DEF SettlingOf

\* The end of a record leads to the next one or takes the turn.
LEMMA EndTakesTurn ==
  ASSUME QueueBase, NEW w \in Workers, inv[w].pc # "idle",
         EndRecord(w), UNCHANGED <<event, attempts>>, NEW d \in Deliveries
  PROVE  SettlingOf(d)
<1>0. PICK e, p : e = inv[w].delivery /\ p = inv[w].pos
  OBVIOUS
<1>1. /\ e \in Deliveries /\ status[e] = "running"
      /\ p \in 1..Len(event[e]) /\ Len(event[e]) \in Nat
  BY <1>0, LenProperties DEF QueueBase, BusyInv
<1>2. attempts'[e] = attempts[e] /\ attempts[e] \in 0..MaxAttempts /\ MaxAttempts \in Nat
  BY <1>1, ConstantsAssumption DEF QueueBase
<1>3. CASE p < Len(event[e])
  <2>1. inv' = [inv EXCEPT ![w] = AtRecord(e, p + 1)] /\ status' = status
    BY <1>0, <1>3 DEF EndRecord
  <2>2. \A v \in Workers : v # w => inv'[v] = inv[v]
    BY <2>1 DEF QueueBase
  <2>3. inv'[w] = AtRecord(e, p + 1)
    BY <2>1 DEF QueueBase
  <2>4. inv'[w].delivery = e /\ inv'[w].pos = p + 1
    BY <2>3 DEF AtRecord
  <2>5. Further(inv[w], inv'[w])
    BY <1>0, <1>1, <1>3, <2>4 DEF Further
  <2> QED
    BY <2>1, <2>2, <2>5 DEF SettlingOf
<1>4. CASE ~ (p < Len(event[e]))
  <2>1. inv' = [inv EXCEPT ![w] = Idle] /\ status' = [status EXCEPT ![e] = "done"]
    BY <1>0, <1>4 DEF EndRecord
  <2>2. status'[e] = "done" /\ (d # e => status'[d] = status[d])
    BY <1>1, <2>1 DEF QueueBase
  <2>3. TurnsLeft(e)' < TurnsLeft(e)
    BY <1>1, <1>2, <2>2 DEF TurnsLeft
  <2>4. inv'[w] = Idle /\ \A v \in Workers : v # w => inv'[v] = inv[v]
    BY <2>1 DEF QueueBase
  <2> QED
    BY <1>0, <2>2, <2>3, <2>4 DEF SettlingOf
<1> QED
  BY <1>3, <1>4

\* A step within a record keeps the turn.
LEMMA GoingOnKeepsTurn ==
  ASSUME QueueBase, NEW w \in Workers, NEW i, Further(inv[w], i),
         inv' = [inv EXCEPT ![w] = i], UNCHANGED <<event, status>>,
         NEW d \in Deliveries
  PROVE  SettlingOf(d)
<1>1. inv'[w] = i /\ \A v \in Workers : v # w => inv'[v] = inv[v]
  BY DEF QueueBase
<1>2. Further(inv[w], inv'[w])
  BY <1>1
<1> QED
  BY <1>1, <1>2 DEF SettlingOf
\* A step that neither moves an execution nor the queue.
LEMMA StillSettling ==
  ASSUME NEW d \in Deliveries, UNCHANGED <<inv, event, status>>
  PROVE  SettlingOf(d)
  BY DEF SettlingOf

\* A delivered request takes its first turn, and its records stay.
LEMMA DeliverTakesTurn ==
  ASSUME QueueBase, NEW c \in Deliveries, Deliver(c), NEW d \in Deliveries
  PROVE  SettlingOf(d)
<1>1. /\ status[c] = "unused" /\ inv' = inv /\ attempts' = attempts
      /\ status' = [status EXCEPT ![c] = "queued"]
      /\ \E batch : event' = [event EXCEPT ![c] = batch]
  BY DEF Deliver
<1>2. status'[c] = "queued" /\ attempts[c] \in 0..MaxAttempts /\ MaxAttempts \in Nat
  BY <1>1, ConstantsAssumption DEF QueueBase
<1>3. TurnsLeft(c)' < TurnsLeft(c)
  BY <1>1, <1>2 DEF TurnsLeft
<1>4. d # c => status'[d] = status[d] /\ event'[d] = event[d]
  BY <1>1 DEF QueueBase
<1> QED
  BY <1>1, <1>3, <1>4 DEF SettlingOf

\* An execution that starts takes the turn its request has waited for.
LEMMA StartTakesTurn ==
  ASSUME QueueBase, NEW w \in Workers, NEW c \in Deliveries, Start(w, c),
         NEW d \in Deliveries
  PROVE  SettlingOf(d)
<1>1. /\ status[c] = "queued" /\ event' = event /\ inv[w] = Idle
      /\ status' = [status EXCEPT ![c] = "running"]
      /\ attempts' = [attempts EXCEPT ![c] = @ + 1]
      /\ inv' = [inv EXCEPT ![w] = AtRecord(c, 1)]
  BY DEF Start
<1>2. /\ attempts[c] \in 0..MaxAttempts /\ attempts[c] < MaxAttempts
      /\ MaxAttempts \in Nat
  BY <1>1, ConstantsAssumption DEF QueueBase, QueueInv
<1>3. status'[c] = "running" /\ attempts'[c] = attempts[c] + 1
  BY <1>1 DEF QueueBase
<1>4. TurnsLeft(c)' < TurnsLeft(c)
  BY <1>1, <1>2, <1>3 DEF TurnsLeft
<1>5. /\ d # c => status'[d] = status[d]
      /\ \A v \in Workers : v # w => inv'[v] = inv[v]
  BY <1>1 DEF QueueBase
<1>6. inv[w].delivery # d
  BY <1>1, IdleRunsNothing
<1> QED
  BY <1>1, <1>4, <1>5, <1>6 DEF SettlingOf

\* The steps within a record are further on.
LEMMA DownloadIsFurther ==
  ASSUME QueueBase, NEW w \in Workers, Download(w), NEW d \in Deliveries
  PROVE  SettlingOf(d)
<1> DEFINE i == [inv[w] EXCEPT !.pc = "check", !.content = Object(w), !.tries = 0]
<1>1. inv[w].pc = "download" /\ inv' = [inv EXCEPT ![w] = i]
      /\ UNCHANGED <<event, status>> /\ inv[w] \in Invocation
  BY DEF Download, Reading, queue, QueueBase
<1>2. i.delivery = inv[w].delivery /\ i.pos = inv[w].pos /\ i.pc = "check"
  BY <1>1 DEF Invocation
<1>3. Further(inv[w], i)
  BY <1>1, <1>2 DEF Further, Stage
<1> QED
  BY <1>1, <1>3, GoingOnKeepsTurn

LEMMA NotSeenIsFurther ==
  ASSUME QueueBase, NEW w \in Workers, NotSeen(w), NEW d \in Deliveries
  PROVE  SettlingOf(d)
<1> DEFINE i == [inv[w] EXCEPT !.pc = "put"]
<1>1. inv[w].pc = "check" /\ inv' = [inv EXCEPT ![w] = i]
      /\ UNCHANGED <<event, status>> /\ inv[w] \in Invocation
  BY DEF NotSeen, queue, QueueBase
<1>2. i.delivery = inv[w].delivery /\ i.pos = inv[w].pos /\ i.pc = "put"
  BY <1>1 DEF Invocation
<1>3. Further(inv[w], i)
  BY <1>1, <1>2 DEF Further, Stage
<1> QED
  BY <1>1, <1>3, GoingOnKeepsTurn

LEMMA PutReportIsFurther ==
  ASSUME QueueBase, NEW w \in Workers, NEW r \in Reports, PutReport(w, r),
         NEW d \in Deliveries
  PROVE  SettlingOf(d)
<1> DEFINE i == [inv[w] EXCEPT !.pc = "rows", !.report = r, !.next = 1]
<1>1. inv[w].pc = "put" /\ inv' = [inv EXCEPT ![w] = i]
      /\ UNCHANGED <<event, status>> /\ inv[w] \in Invocation
  BY DEF PutReport, StoreReport, QueueBase
<1>2. i.delivery = inv[w].delivery /\ i.pos = inv[w].pos /\ i.pc = "rows"
  BY <1>1 DEF Invocation
<1>3. Further(inv[w], i)
  BY <1>1, <1>2 DEF Further, Stage
<1> QED
  BY <1>1, <1>3, GoingOnKeepsTurn

LEMMA WriteItemIsFurther ==
  ASSUME QueueBase, NEW w \in Workers, WriteItem(w), NEW d \in Deliveries
  PROVE  SettlingOf(d)
<1> DEFINE i == [inv[w] EXCEPT !.next = @ + 1]
<1>1. /\ inv[w].pc = "rows" /\ inv[w].next <= RowCount[inv[w].content]
      /\ inv' = [inv EXCEPT ![w] = i]
      /\ UNCHANGED <<event, status>> /\ inv[w] \in Invocation
  BY DEF WriteItem, StoreRow, QueueBase
<1>2. /\ inv[w].next \in Nat /\ inv[w].content \in Contents
      /\ RowCount[inv[w].content] \in Nat
  BY <1>1, ConstantsAssumption DEF QueueBase, BusyInv, Invocation
<1>3. /\ i.delivery = inv[w].delivery /\ i.pos = inv[w].pos /\ i.pc = inv[w].pc
      /\ i.content = inv[w].content /\ i.next = inv[w].next + 1
  BY <1>1 DEF Invocation
<1>4. i.next > inv[w].next /\ i.next <= RowCount[inv[w].content] + 1
  BY <1>1, <1>2, <1>3
<1>5. Further(inv[w], i)
  BY <1>3, <1>4 DEF Further
<1> QED
  BY <1>1, <1>5, GoingOnKeepsTurn

LEMMA FailTakesTurn ==
  ASSUME QueueBase, NEW w \in Workers, inv[w].pc # "idle", Fail(w),
         NEW d \in Deliveries
  PROVE  SettlingOf(d)
  BY RaiseTakesTurn DEF Fail

LEMMA DownloadErrorSettles ==
  ASSUME QueueBase, NEW w \in Workers, DownloadError(w), NEW d \in Deliveries
  PROVE  SettlingOf(d)
<1> DEFINE i == [inv[w] EXCEPT !.tries = @ + 1]
<1>1. inv[w].pc = "download" /\ inv[w] \in Invocation
  BY DEF DownloadError, Reading, QueueBase
<1>2. CASE inv[w].tries + 1 < MaxDownloads
  <2>1. inv' = [inv EXCEPT ![w] = i] /\ UNCHANGED <<event, status>>
    <3>1. inv[w].tries \in Nat /\ MaxDownloads \in Nat
      BY <1>1, ConstantsAssumption DEF Invocation
    <3> QED
      BY <1>2, <3>1 DEF DownloadError, queue
  <2>2. inv[w].tries \in Nat
    BY <1>1 DEF Invocation
  <2>3. /\ i.delivery = inv[w].delivery /\ i.pos = inv[w].pos /\ i.pc = inv[w].pc
        /\ i.content = inv[w].content /\ i.tries = inv[w].tries + 1
    BY <1>1 DEF Invocation
  <2>4. i.tries > inv[w].tries /\ i.tries < MaxDownloads
    BY <1>2, <2>2, <2>3
  <2>5. Further(inv[w], i)
    BY <2>3, <2>4 DEF Further
  <2> QED
    BY <2>1, <2>5, GoingOnKeepsTurn
<1>3. CASE ~ (inv[w].tries + 1 < MaxDownloads)
  BY <1>1, <1>3, FailTakesTurn DEF DownloadError
<1> QED
  BY <1>2, <1>3

LEMMA StepSettles ==
  ASSUME QueueBase, NEW w \in Workers, Step(w), NEW d \in Deliveries
  PROVE  SettlingOf(d)
<1>1. CASE Reject(w) \/ ParseError(w) \/ MissingObject(w)
  BY <1>1, FailTakesTurn DEF Reject, ParseError, MissingObject, Reading
<1>2. CASE ShortCircuit(w) \/ FinishRecord(w)
  BY <1>2, EndTakesTurn DEF ShortCircuit, FinishRecord
<1>3. CASE Download(w) \/ NotSeen(w) \/ WriteItem(w)
  BY <1>3, DownloadIsFurther, NotSeenIsFurther, WriteItemIsFurther
<1>4. CASE \E r \in Reports : PutReport(w, r)
  BY <1>4, PutReportIsFurther
<1> QED
  BY <1>1, <1>2, <1>3, <1>4 DEF Step

LEMMA FailureSettles ==
  ASSUME QueueBase, NEW w \in Workers, Failure(w), NEW d \in Deliveries
  PROVE  SettlingOf(d)
<1>1. CASE DownloadError(w)
  BY <1>1, DownloadErrorSettles
<1>2. CASE Abort(w)
  BY <1>2, FailTakesTurn DEF Abort
<1>3. CASE WriteItemUnconfirmed(w)
  BY <1>3, RaiseTakesTurn DEF WriteItemUnconfirmed, StoreRow
<1>4. ASSUME NEW r \in Reports, PutReportReplayed(w, r)
      PROVE  SettlingOf(d)
  BY <1>4, EndTakesTurn DEF PutReportReplayed, StoreReport
<1>5. ASSUME NEW r \in Reports, PutReportLost(w, r)
      PROVE  SettlingOf(d)
  BY <1>5, RaiseTakesTurn DEF PutReportLost, StoreReport
<1> QED
  BY <1>1, <1>2, <1>3, <1>4, <1>5 DEF Failure

LEMMA NextSettles ==
  ASSUME QueueBase, Next, NEW d \in Deliveries
  PROVE  SettlingOf(d)
<1>1. CASE Environment
  <2>1. ASSUME NEW k \in Keys, Expire(k) \/ \E c \in Contents : Upload(k, c)
        PROVE  SettlingOf(d)
    BY <2>1, StillSettling DEF Expire, Upload, queue
  <2>2. ASSUME NEW c \in Deliveries, Deliver(c)
        PROVE  SettlingOf(d)
    BY <2>2, DeliverTakesTurn
  <2>3. ASSUME NEW r \in Reports, IndexCatchUp(r)
        PROVE  SettlingOf(d)
    BY <2>3, StillSettling DEF IndexCatchUp, queue
  <2> QED
    BY <1>1, <2>1, <2>2, <2>3 DEF Environment
<1>2. ASSUME NEW w \in Workers, Step(w) \/ Failure(w)
      PROVE  SettlingOf(d)
  BY <1>2, StepSettles, FailureSettles
<1>3. ASSUME NEW w \in Workers, NEW c \in Deliveries, Start(w, c)
      PROVE  SettlingOf(d)
  BY <1>3, StartTakesTurn
<1> QED
  BY <1>1, <1>2, <1>3 DEF Next

(* Whatever fails and however the executions interleave, each of their     *)
(* steps gets on within the bounds of the event, the rows and the          *)
(* downloads, and each end takes one of the turns that MaxAttempts leaves  *)
(* the request: no retry policy runs forever (cdk_app.py:333).             *)
THEOREM RequestsDrawToAnEnd == Spec => SettlingIsBounded
<1>1. Base /\ [Next]_vars =>
        [\A d \in Deliveries :
           /\ status'[d] # status[d] => TurnsLeft(d)' < TurnsLeft(d)
           /\ status[d] # "unused" => event'[d] = event[d]
           /\ \A w \in Workers : inv[w].delivery = d /\ inv'[w] # inv[w] =>
                \/ Further(inv[w], inv'[w])
                \/ inv'[w] = Idle /\ TurnsLeft(d)' < TurnsLeft(d)]_vars
  BY NextSettles DEF Base, SettlingOf
<1> QED
  BY <1>1, BaseInvariant, PTL DEF Spec, SettlingIsBounded
=============================================================================
