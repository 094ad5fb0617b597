--------------------------- MODULE EtlTableProofs ---------------------------
(***************************************************************************)
(* Theorems about the table the pipeline writes: the rows under a report,  *)
(* the end of a report, and the ledger the pipeline implements.  They rest *)
(* on EtlPipelineProofs and on one lemma, StepKinds, that says what a step *)
(* can do to the table.                                                    *)
(***************************************************************************)
EXTENDS EtlPipelineProofs

-----------------------------------------------------------------------------
(* What a step can do to the table                                         *)

\* The table's records stay, and an execution may at most stop writing.
QuietStep ==
  /\ UNCHANGED <<reports, items>>
  /\ \A v \in Workers : inv'[v].pc = "rows" => inv'[v] = inv[v]
  /\ \A u, v \in Workers : inv'[u] # inv[u] /\ inv'[v] # inv[v] => u = v

\* w stores report r and may go on to its rows.
OpenStep(w, r) ==
  /\ StoreReport(w, r)
  /\ \E i \in Invocation :
       /\ inv' = [inv EXCEPT ![w] = i]
       /\ i.pc = "rows" => /\ i.report = r /\ i.next = 1
                           /\ i.content = inv[w].content

\* w stores a row and may go on to the next one.
RowStep(w) ==
  /\ StoreRow(w)
  /\ \E i \in Invocation :
       /\ inv' = [inv EXCEPT ![w] = i]
       /\ i.pc = "rows" => /\ i.report = inv[w].report /\ i.next = inv[w].next + 1
                           /\ i.content = inv[w].content

TableStep ==
  \/ QuietStep
  \/ \E w \in Workers, r \in Reports : OpenStep(w, r)
  \/ \E w \in Workers : RowStep(w)

\* The records that writing executions work at do not change under them.
KeepsRecords ==
  \A v \in Workers : inv'[v].pc = "rows" => Record(v)' = Record(v)

\* One execution changes, to one that is not at its rows.
LEMMA LeavesRows ==
  ASSUME QueueBase, NEW w \in Workers, NEW i, i.pc # "rows",
         inv' = [inv EXCEPT ![w] = i]
  PROVE  /\ \A v \in Workers : inv'[v].pc = "rows" => inv'[v] = inv[v]
         /\ \A u, v \in Workers : inv'[u] # inv[u] /\ inv'[v] # inv[v] => u = v
  BY DEF QueueBase

LEMMA RaiseLeaves ==
  ASSUME NEW w, Raise(w)
  PROVE  \E i \in Invocation : i.pc \notin {"put", "rows"} /\ inv' = [inv EXCEPT ![w] = i]
  BY IdleType DEF Raise

LEMMA EndRecordLeaves ==
  ASSUME QueueBase, NEW w \in Workers, inv[w].pc # "idle", EndRecord(w)
  PROVE  \E i \in Invocation : i.pc \notin {"put", "rows"} /\ inv' = [inv EXCEPT ![w] = i]
<1> DEFINE d == inv[w].delivery
           p == inv[w].pos
<1>1. d \in Deliveries /\ p + 1 \in Nat
  BY DEF QueueBase, BusyInv, Invocation
<1>2. CASE p < Len(event[d])
  BY <1>1, <1>2, AtRecordType DEF EndRecord
<1>3. CASE ~ (p < Len(event[d]))
  BY <1>3, IdleType DEF EndRecord
<1> QED
  BY <1>2, <1>3

\* A step that leaves the records alone and takes w off its rows, if it was
\* there, is quiet.
LEMMA LeavingIsQuiet ==
  ASSUME QueueBase, NEW w \in Workers, UNCHANGED <<reports, items, event>>,
         \E i : i.pc # "rows" /\ inv' = [inv EXCEPT ![w] = i]
  PROVE  QuietStep /\ KeepsRecords
<1>1. PICK i : i.pc # "rows" /\ inv' = [inv EXCEPT ![w] = i]
  OBVIOUS
<1>2. QuietStep
  BY <1>1, LeavesRows DEF QuietStep
<1> QED
  BY <1>2 DEF QuietStep, KeepsRecords, Record

LEMMA FailIsQuiet ==
  ASSUME Base, NEW w \in Workers, Fail(w)
  PROVE  QuietStep /\ KeepsRecords
<1>1. \E i \in Invocation : i.pc # "rows" /\ inv' = [inv EXCEPT ![w] = i]
  BY RaiseLeaves DEF Fail
<1> QED
  BY <1>1, LeavingIsQuiet DEF Fail, table, Base

LEMMA EndIsQuiet ==
  ASSUME Base, NEW w \in Workers, inv[w].pc # "idle", EndRecord(w),
         UNCHANGED <<event, table>>
  PROVE  QuietStep /\ KeepsRecords
<1>1. \E i \in Invocation : i.pc # "rows" /\ inv' = [inv EXCEPT ![w] = i]
  BY EndRecordLeaves DEF Base
<1> QED
  BY <1>1, LeavingIsQuiet DEF table, Base

\* A step of the outside or of the queue that leaves the executions alone.
LEMMA IdleStepIsQuiet ==
  ASSUME UNCHANGED <<reports, items, event, inv>>
  PROVE  QuietStep /\ KeepsRecords
  BY DEF QuietStep, KeepsRecords, Record

LEMMA DeliverIsQuiet ==
  ASSUME Base, NEW d \in Deliveries, Deliver(d)
  PROVE  QuietStep /\ KeepsRecords
<1>1. UNCHANGED <<reports, items, inv>> /\ status[d] = "unused"
      /\ \A e \in Deliveries \ {d} : event'[e] = event[e]
  BY DEF Deliver, table, Base, QueueBase
<1>2. QuietStep
  BY <1>1 DEF QuietStep
<1>3. KeepsRecords
  BY <1>1 DEF KeepsRecords, Record, Base, QueueBase, BusyInv
<1> QED
  BY <1>2, <1>3

\* Going on to or into an invocation is what OpenStep and RowStep describe.
LEMMA StoringOpens ==
  ASSUME Base, NEW w \in Workers, NEW r \in Reports, StoreReport(w, r),
         \E i \in Invocation :
           /\ inv' = [inv EXCEPT ![w] = i]
           /\ i.pc = "rows" => /\ i.report = r /\ i.next = 1
                               /\ i.content = inv[w].content
                               /\ i.delivery = inv[w].delivery /\ i.pos = inv[w].pos
  PROVE  OpenStep(w, r) /\ KeepsRecords
<1>1. OpenStep(w, r)
  BY DEF OpenStep
<1>2. event' = event
  BY DEF StoreReport
<1>3. \A v \in Workers : inv'[v].pc = "rows" =>
        inv'[v].delivery = inv[v].delivery /\ inv'[v].pos = inv[v].pos
  BY DEF Base, QueueBase
<1> QED
  BY <1>1, <1>2, <1>3 DEF KeepsRecords, Record

LEMMA StoringRows ==
  ASSUME Base, NEW w \in Workers, StoreRow(w),
         \E i \in Invocation :
           /\ inv' = [inv EXCEPT ![w] = i]
           /\ i.pc = "rows" => /\ i.report = inv[w].report /\ i.next = inv[w].next + 1
                               /\ i.content = inv[w].content
                               /\ i.delivery = inv[w].delivery /\ i.pos = inv[w].pos
  PROVE  RowStep(w) /\ KeepsRecords
<1>1. RowStep(w)
  BY DEF RowStep
<1>2. event' = event
  BY DEF StoreRow
<1>3. \A v \in Workers : inv'[v].pc = "rows" =>
        inv'[v].delivery = inv[v].delivery /\ inv'[v].pos = inv[v].pos
  BY DEF Base, QueueBase
<1> QED
  BY <1>1, <1>2, <1>3 DEF KeepsRecords, Record

LEMMA StepKind ==
  ASSUME Base, NEW w \in Workers, Step(w)
  PROVE  TableStep /\ KeepsRecords
<1>1. CASE Reject(w) \/ ParseError(w) \/ MissingObject(w)
  BY <1>1, FailIsQuiet DEF Reject, ParseError, MissingObject, TableStep
<1>2. CASE Download(w)
  <2> DEFINE i == [inv[w] EXCEPT !.pc = "check", !.content = Object(w), !.tries = 0]
  <2>1. i.pc = "check" /\ inv' = [inv EXCEPT ![w] = i]
    BY <1>2 DEF Download, Base, QueueBase, Invocation
  <2> QED
    BY <1>2, <2>1, LeavingIsQuiet DEF Download, queue, table, Base, TableStep
<1>3. CASE ShortCircuit(w) \/ FinishRecord(w)
  BY <1>3, EndIsQuiet DEF ShortCircuit, FinishRecord, TableStep
<1>4. CASE NotSeen(w)
  <2> DEFINE i == [inv[w] EXCEPT !.pc = "put"]
  <2>1. i.pc = "put" /\ inv' = [inv EXCEPT ![w] = i]
    BY <1>4 DEF NotSeen, Base, QueueBase, Invocation
  <2> QED
    BY <1>4, <2>1, LeavingIsQuiet DEF NotSeen, queue, table, Base, TableStep
<1>5. ASSUME NEW r \in Reports, PutReport(w, r)
      PROVE  TableStep /\ KeepsRecords
  <2> DEFINE i == [inv[w] EXCEPT !.pc = "rows", !.report = r, !.next = 1]
  <2>1. /\ i \in Invocation /\ i.report = r /\ i.next = 1 /\ i.content = inv[w].content
        /\ i.delivery = inv[w].delivery /\ i.pos = inv[w].pos
    BY DEF Base, QueueBase, Invocation
  <2>2. StoreReport(w, r) /\ inv' = [inv EXCEPT ![w] = i]
    BY <1>5 DEF PutReport
  <2> QED
    BY <2>1, <2>2, StoringOpens DEF TableStep
<1>6. CASE WriteItem(w)
  <2> DEFINE i == [inv[w] EXCEPT !.next = @ + 1]
  <2>1. inv[w] \in Invocation /\ inv[w].next + 1 \in Nat
    BY DEF Base, QueueBase, Invocation
  <2>2. /\ i \in Invocation /\ i.report = inv[w].report /\ i.next = inv[w].next + 1
        /\ i.content = inv[w].content
        /\ i.delivery = inv[w].delivery /\ i.pos = inv[w].pos
    BY <2>1 DEF Invocation
  <2>3. StoreRow(w) /\ inv' = [inv EXCEPT ![w] = i]
    BY <1>6 DEF WriteItem
  <2> QED
    BY <2>2, <2>3, StoringRows DEF TableStep
<1> QED
  BY <1>1, <1>2, <1>3, <1>4, <1>5, <1>6 DEF Step

LEMMA FailureKind ==
  ASSUME Base, NEW w \in Workers, Failure(w)
  PROVE  TableStep /\ KeepsRecords
<1>1. CASE DownloadError(w)
  <2>1. CASE inv[w].tries + 1 < MaxDownloads
    <3> DEFINE i == [inv[w] EXCEPT !.tries = @ + 1]
    <3>1. inv' = [inv EXCEPT ![w] = i] /\ UNCHANGED <<reports, items, event>>
      BY <1>1, <2>1, ConstantsAssumption
         DEF DownloadError, queue, table, Base, QueueBase, Invocation
    <3>2. i.pc = "download"
      BY <1>1 DEF DownloadError, Reading, Base, QueueBase, Invocation
    <3> QED
      BY <3>1, <3>2, LeavingIsQuiet DEF Base, TableStep
  <2>2. CASE ~ (inv[w].tries + 1 < MaxDownloads)
    BY <1>1, <2>2, FailIsQuiet DEF DownloadError, TableStep
  <2> QED
    BY <2>1, <2>2
<1>2. CASE Abort(w)
  BY <1>2, FailIsQuiet DEF Abort, TableStep
<1>3. CASE WriteItemUnconfirmed(w)
  BY <1>3, RaiseLeaves, StoringRows DEF WriteItemUnconfirmed, TableStep
<1>4. ASSUME NEW r \in Reports, PutReportReplayed(w, r)
      PROVE  TableStep /\ KeepsRecords
  <2>1. StoreReport(w, r) /\ EndRecord(w) /\ inv[w].pc # "idle"
    BY <1>4 DEF PutReportReplayed, StoreReport
  <2> QED
    BY <2>1, EndRecordLeaves, StoringOpens DEF Base, TableStep
<1>5. ASSUME NEW r \in Reports, PutReportLost(w, r)
      PROVE  TableStep /\ KeepsRecords
  BY <1>5, RaiseLeaves, StoringOpens DEF PutReportLost, TableStep
<1> QED
  BY <1>1, <1>2, <1>3, <1>4, <1>5 DEF Failure

LEMMA StartIsQuiet ==
  ASSUME Base, NEW w \in Workers, NEW d \in Deliveries, Start(w, d)
  PROVE  QuietStep /\ KeepsRecords
<1>1. AtRecord(d, 1).pc # "rows" /\ inv' = [inv EXCEPT ![w] = AtRecord(d, 1)]
  BY AtRecordType DEF Start
<1> QED
  BY <1>1, LeavingIsQuiet DEF Start, Base, table

\* Every step is quiet, stores one report or stores one row.
LEMMA StepKinds ==
  ASSUME Base, [Next]_vars
  PROVE  TableStep /\ KeepsRecords
<1>1. CASE Environment
  <2>1. ASSUME NEW k \in Keys, Expire(k) \/ \E c \in Contents : Upload(k, c)
        PROVE  QuietStep /\ KeepsRecords
    BY <2>1, IdleStepIsQuiet DEF Expire, Upload, queue, table
  <2>2. ASSUME NEW r \in Reports, IndexCatchUp(r)
        PROVE  QuietStep /\ KeepsRecords
    BY <2>2, IdleStepIsQuiet DEF IndexCatchUp, queue, table
  <2> QED
    BY <1>1, <2>1, <2>2, DeliverIsQuiet DEF Environment, TableStep
<1>2. ASSUME NEW w \in Workers, Step(w) \/ Failure(w)
      PROVE  TableStep /\ KeepsRecords
  BY <1>2, StepKind, FailureKind
<1>3. ASSUME NEW w \in Workers, NEW d \in Deliveries, Start(w, d)
      PROVE  TableStep /\ KeepsRecords
  BY <1>3, StartIsQuiet DEF TableStep
<1>4. CASE UNCHANGED vars
  BY <1>4, IdleStepIsQuiet DEF vars, TableStep
<1> QED
  BY <1>1, <1>2, <1>3, <1>4 DEF Next

-----------------------------------------------------------------------------
(* The rows of a report                                                    *)

(* A writing execution knows its report: it is stored, it declares the     *)
(* rows of the content at hand, and holds exactly those before next.       *)
WriterInv ==
  \A w \in Workers : inv[w].pc = "rows" =>
    /\ reports[inv[w].report] # None
    /\ reports[inv[w].report].owner = KeyOwner[Record(w).key]
    /\ reports[inv[w].report].count = RowCount[inv[w].content]
    /\ inv[w].next = Len(items[inv[w].report]) + 1
    /\ \A i \in 1..Len(items[inv[w].report]) :
         items[inv[w].report][i].content = inv[w].content

\* No report has two writers.
OneWriterInv ==
  \A v, w \in Workers :
    v # w /\ inv[v].pc = "rows" /\ inv[w].pc = "rows"
      => inv[v].report # inv[w].report

TableInv == WriterInv /\ OneWriterInv /\ RowsOnceInOrder

LEMMA InitTable == Init => TableInv
<1> SUFFICES ASSUME Init
             PROVE  TableInv
  OBVIOUS
<1>1. \A w \in Workers : inv[w].pc = "idle"
  BY IdleType DEF Init
<1>2. RowsOnceInOrder
  BY EmptySeq DEF Init, RowsOnceInOrder
<1> QED
  BY <1>1, <1>2 DEF TableInv, WriterInv, OneWriterInv

LEMMA QuietKeepsTable ==
  ASSUME TableInv, QuietStep, KeepsRecords
  PROVE  TableInv'
<1>1. reports' = reports /\ items' = items
      /\ \A v \in Workers : inv'[v].pc = "rows" =>
           inv'[v] = inv[v] /\ Record(v)' = Record(v)
  BY DEF QuietStep, KeepsRecords
<1>2. WriterInv'
  BY <1>1 DEF TableInv, WriterInv
<1>3. OneWriterInv'
  BY <1>1 DEF TableInv, OneWriterInv
<1>4. RowsOnceInOrder'
  BY <1>1 DEF TableInv, RowsOnceInOrder
<1> QED
  BY <1>2, <1>3, <1>4 DEF TableInv

\* What storing a report does, in the terms the invariants use.
LEMMA OpenEffect ==
  ASSUME Base, TableInv, KeepsRecords,
         NEW w \in Workers, NEW r \in Reports, OpenStep(w, r)
  PROVE  /\ inv[w].pc = "put" /\ inv[w].content \in Contents /\ Record(w) \in Notice
         /\ reports[r] = None /\ items' = items /\ items[r] = <<>>
         /\ reports'[r] # None
         /\ reports'[r].owner = KeyOwner[Record(w).key]
         /\ reports'[r].key = Record(w).key
         /\ reports'[r].etag = Record(w).etag
         /\ reports'[r].count = RowCount[inv[w].content]
         /\ \A q \in Reports \ {r} : reports'[q] = reports[q]
         /\ \A v \in Workers \ {w} : inv'[v] = inv[v]
         /\ inv'[w].pc = "rows" => /\ inv'[w].report = r /\ inv'[w].next = 1
                                  /\ inv'[w].content = inv[w].content
         /\ event' = event
         /\ \A v \in Workers : ~ Writing(v, r)
<1> DEFINE rec == [owner |-> KeyOwner[Record(w).key], key |-> Record(w).key,
                   etag |-> Record(w).etag, count |-> RowCount[inv[w].content]]
<1>1. inv[w].pc = "put" /\ reports[r] = None /\ items' = items /\ event' = event
      /\ reports' = [reports EXCEPT ![r] = rec]
  BY DEF OpenStep, StoreReport
<1>2. inv[w].content \in Contents /\ Record(w) \in Notice
  BY <1>1, RecordType DEF Base, QueueBase, BusyInv
<1>3. rec \in Report
  BY <1>2, ConstantsAssumption DEF Report, Notice
<1>4. rec # None
  BY <1>3, ConstantsAssumption
<1>5. reports'[r] = rec /\ \A q \in Reports \ {r} : reports'[q] = reports[q]
  BY <1>1 DEF Base, StoreType
<1>6. items[r] = <<>>
  BY <1>1 DEF TableInv, RowsOnceInOrder
<1>7. \A v \in Workers : ~ Writing(v, r)
  BY <1>1 DEF TableInv, WriterInv, Writing
<1>8. /\ \A v \in Workers \ {w} : inv'[v] = inv[v]
      /\ inv'[w].pc = "rows" => /\ inv'[w].report = r /\ inv'[w].next = 1
                               /\ inv'[w].content = inv[w].content
  BY DEF OpenStep, Base, QueueBase
<1> QED
  BY <1>1, <1>2, <1>4, <1>5, <1>6, <1>7, <1>8

LEMMA OpenKeepsTable ==
  ASSUME Base, TableInv, KeepsRecords,
         NEW w \in Workers, NEW r \in Reports, OpenStep(w, r)
  PROVE  TableInv'
<1>1. /\ inv[w].pc = "put" /\ inv[w].content \in Contents /\ Record(w) \in Notice
      /\ reports[r] = None /\ items' = items /\ items[r] = <<>>
      /\ reports'[r] # None
      /\ reports'[r].owner = KeyOwner[Record(w).key]
      /\ reports'[r].count = RowCount[inv[w].content]
      /\ \A q \in Reports \ {r} : reports'[q] = reports[q]
      /\ \A v \in Workers \ {w} : inv'[v] = inv[v]
      /\ inv'[w].pc = "rows" => /\ inv'[w].report = r /\ inv'[w].next = 1
                               /\ inv'[w].content = inv[w].content
      /\ \A v \in Workers : ~ Writing(v, r)
  BY OpenEffect
<1>2. Len(items[r]) = 0
  BY <1>1, EmptySeq
<1>3. \A v \in Workers : inv'[v].pc = "rows" => Record(v)' = Record(v)
  BY DEF KeepsRecords
<1>4. WriterInv'
  <2> SUFFICES ASSUME NEW v \in Workers, inv'[v].pc = "rows"
               PROVE  /\ reports'[inv'[v].report] # None
                      /\ reports'[inv'[v].report].owner = KeyOwner[Record(v)'.key]
                      /\ reports'[inv'[v].report].count = RowCount[inv'[v].content]
                      /\ inv'[v].next = Len(items'[inv'[v].report]) + 1
                      /\ \A i \in 1..Len(items'[inv'[v].report]) :
                           items'[inv'[v].report][i].content = inv'[v].content
    BY DEF WriterInv
  <2>1. CASE v = w
    BY <2>1, <1>1, <1>2, <1>3
  <2>2. CASE v # w
    <3>1. inv'[v] = inv[v] /\ inv[v].pc = "rows" /\ inv[v].report \in Reports \ {r}
      BY <2>2, <1>1 DEF Base, QueueBase, BusyInv, Writing
    <3> QED
      BY <3>1, <1>1, <1>3 DEF TableInv, WriterInv
  <2> QED
    BY <2>1, <2>2
<1>5. OneWriterInv'
  <2>1. \A v \in Workers \ {w} : inv'[v].pc = "rows" => inv'[v].report # r
    BY <1>1 DEF Writing
  <2> QED
    BY <1>1, <2>1 DEF TableInv, OneWriterInv
<1>6. RowsOnceInOrder'
  <2> SUFFICES ASSUME NEW q \in Reports
               PROVE  /\ reports'[q] = None => items'[q] = <<>>
                      /\ reports'[q] # None => Len(items'[q]) <= reports'[q].count
                      /\ \A i \in 1..Len(items'[q]) :
                           items'[q][i] = [owner |-> reports'[q].owner, row |-> i,
                                           content |-> items'[q][1].content]
    BY DEF RowsOnceInOrder
  <2>1. CASE q = r
    BY <2>1, <1>1, <1>2, ConstantsAssumption
  <2>2. CASE q # r
    BY <2>2, <1>1 DEF TableInv, RowsOnceInOrder
  <2> QED
    BY <2>1, <2>2
<1> QED
  BY <1>4, <1>5, <1>6 DEF TableInv

\* What storing a row does, in the terms the invariants use.
LEMMA RowEffect ==
  ASSUME Base, TableInv, NEW w \in Workers, RowStep(w)
  PROVE  LET r == inv[w].report
             n == Len(items[r])
         IN  /\ inv[w].pc = "rows" /\ r \in Reports /\ n \in Nat /\ reports' = reports
             /\ inv[w].next = n + 1 /\ n + 1 <= RowCount[inv[w].content]
             /\ items'[r] \in Seq(Row) /\ Len(items'[r]) = n + 1
             /\ \A i \in 1..n : items'[r][i] = items[r][i]
             /\ items'[r][n + 1] = NextRow(w)
             /\ \A q \in Reports \ {r} : items'[q] = items[q]
             /\ \A v \in Workers \ {w} : inv'[v] = inv[v]
             /\ inv'[w].pc = "rows" => /\ inv'[w].report = r
                                      /\ inv'[w].next = inv[w].next + 1
                                      /\ inv'[w].content = inv[w].content
<1> DEFINE r == inv[w].report
           n == Len(items[r])
<1>1. /\ inv[w].pc = "rows" /\ inv[w].next <= RowCount[inv[w].content]
      /\ items' = [items EXCEPT ![r] = Append(items[r], NextRow(w))]
      /\ reports' = reports
  BY DEF RowStep, StoreRow
<1>2. r \in Reports /\ NextRow(w) \in Row
  BY <1>1, RowType
<1>3. items[r] \in Seq(Row) /\ items'[r] = Append(items[r], NextRow(w))
      /\ \A q \in Reports \ {r} : items'[q] = items[q]
  BY <1>1, <1>2 DEF Base, StoreType
<1>4. /\ n \in Nat /\ items'[r] \in Seq(Row) /\ Len(items'[r]) = n + 1
      /\ items'[r][n + 1] = NextRow(w)
      /\ \A i \in 1..n : items'[r][i] = items[r][i]
  BY <1>2, <1>3, AppendProperties, LenProperties
<1>5. inv[w].next = n + 1
  BY <1>1 DEF TableInv, WriterInv
<1>6. /\ \A v \in Workers \ {w} : inv'[v] = inv[v]
      /\ inv'[w].pc = "rows" => /\ inv'[w].report = r
                               /\ inv'[w].next = inv[w].next + 1
                               /\ inv'[w].content = inv[w].content
  BY DEF RowStep, Base, QueueBase
<1> HIDE DEF n
<1> QED
  BY <1>1, <1>2, <1>3, <1>4, <1>5, <1>6 DEF n

LEMMA RowKeepsTable ==
  ASSUME Base, TableInv, KeepsRecords, NEW w \in Workers, RowStep(w)
  PROVE  TableInv'
<1> DEFINE r == inv[w].report
           n == Len(items[r])
<1>1. /\ inv[w].pc = "rows" /\ r \in Reports /\ n \in Nat /\ reports' = reports
      /\ inv[w].next = n + 1 /\ n + 1 <= RowCount[inv[w].content]
      /\ items'[r] \in Seq(Row) /\ Len(items'[r]) = n + 1
      /\ \A i \in 1..n : items'[r][i] = items[r][i]
      /\ items'[r][n + 1] = NextRow(w)
      /\ \A q \in Reports \ {r} : items'[q] = items[q]
      /\ \A v \in Workers \ {w} : inv'[v] = inv[v]
      /\ inv'[w].pc = "rows" => /\ inv'[w].report = r
                               /\ inv'[w].next = inv[w].next + 1
                               /\ inv'[w].content = inv[w].content
  BY RowEffect
<1>2. /\ reports[r] # None
      /\ reports[r].owner = KeyOwner[Record(w).key]
      /\ reports[r].count = RowCount[inv[w].content]
      /\ \A i \in 1..n : items[r][i].content = inv[w].content
  BY <1>1 DEF TableInv, WriterInv
<1>3. \A v \in Workers : inv'[v].pc = "rows" => Record(v)' = Record(v)
  BY DEF KeepsRecords
<1>4. items'[r][n + 1] = [owner |-> reports[r].owner, row |-> n + 1,
                          content |-> inv[w].content]
  BY <1>1, <1>2 DEF NextRow
<1> HIDE DEF n
<1>5. \A i \in 1..(n + 1) : i \in 1..n \/ i = n + 1
  BY <1>1
<1>6. \A i \in 1..(n + 1) : items'[r][i].content = inv[w].content
  BY <1>1, <1>2, <1>4, <1>5
<1>7. WriterInv'
  <2> SUFFICES ASSUME NEW v \in Workers, inv'[v].pc = "rows"
               PROVE  /\ reports'[inv'[v].report] # None
                      /\ reports'[inv'[v].report].owner = KeyOwner[Record(v)'.key]
                      /\ reports'[inv'[v].report].count = RowCount[inv'[v].content]
                      /\ inv'[v].next = Len(items'[inv'[v].report]) + 1
                      /\ \A i \in 1..Len(items'[inv'[v].report]) :
                           items'[inv'[v].report][i].content = inv'[v].content
    BY DEF WriterInv
  <2>1. CASE v = w
    BY <2>1, <1>1, <1>2, <1>3, <1>6
  <2>2. CASE v # w
    <3>1. inv'[v] = inv[v] /\ inv[v].pc = "rows" /\ inv[v].report \in Reports
      BY <2>2, <1>1 DEF Base, QueueBase, BusyInv
    <3>2. inv[v].report # r
      BY <2>2, <3>1, <1>1 DEF TableInv, OneWriterInv
    <3> QED
      BY <3>1, <3>2, <1>1, <1>3 DEF TableInv, WriterInv
  <2> QED
    BY <2>1, <2>2
<1>8. OneWriterInv'
  BY <1>1 DEF TableInv, OneWriterInv
<1>9. RowsOnceInOrder'
  <2> SUFFICES ASSUME NEW q \in Reports
               PROVE  /\ reports'[q] = None => items'[q] = <<>>
                      /\ reports'[q] # None => Len(items'[q]) <= reports'[q].count
                      /\ \A i \in 1..Len(items'[q]) :
                           items'[q][i] = [owner |-> reports'[q].owner, row |-> i,
                                           content |-> items'[q][1].content]
    BY DEF RowsOnceInOrder
  <2>1. CASE q = r
    <3>1. items'[r][1].content = inv[w].content
      BY <1>1, <1>6
    <3>2. \A i \in 1..n : items'[r][i] = [owner |-> reports[r].owner, row |-> i,
                                         content |-> inv[w].content]
      <4> SUFFICES ASSUME NEW i \in 1..n
                   PROVE  items'[r][i] = [owner |-> reports[r].owner, row |-> i,
                                          content |-> inv[w].content]
        OBVIOUS
      <4>1. 1 \in 1..n
        BY <1>1
      <4>2. items[r][1].content = inv[w].content
        BY <4>1, <1>2
      <4>3. items[r][i] = [owner |-> reports[r].owner, row |-> i,
                           content |-> items[r][1].content]
        BY <1>1 DEF TableInv, RowsOnceInOrder, n
      <4> QED
        BY <4>2, <4>3, <1>1
    <3> QED
      BY <2>1, <3>1, <3>2, <1>1, <1>2, <1>4, <1>5
  <2>2. CASE q # r
    BY <2>2, <1>1 DEF TableInv, RowsOnceInOrder
  <2> QED
    BY <2>1, <2>2
<1> QED
  BY <1>7, <1>8, <1>9 DEF TableInv

LEMMA NextKeepsTable == Base /\ TableInv /\ [Next]_vars => TableInv'
<1> SUFFICES ASSUME Base, TableInv, [Next]_vars
             PROVE  TableInv'
  OBVIOUS
<1>1. TableStep /\ KeepsRecords
  BY StepKinds
<1> QED
  BY <1>1, QuietKeepsTable, OpenKeepsTable, RowKeepsTable DEF TableStep

LEMMA TableInvariant == Spec => [](Base /\ TableInv)
<1>1. Init => TableInv
  BY InitTable
<1>2. Base /\ TableInv /\ [Next]_vars => TableInv'
  BY NextKeepsTable
<1> QED
  BY <1>1, <1>2, BaseInvariant, PTL DEF Spec

(* Whatever fails and however invocations interleave, the ITEMs under a    *)
(* report are a prefix of the rows of one content, once each, in order,    *)
(* for the report's owner (handler.py:121-182).                            *)
THEOREM RowsCorrect == Spec => []RowsOnceInOrder
<1>1. Base /\ TableInv => RowsOnceInOrder
  BY DEF TableInv
<1> QED
  BY <1>1, TableInvariant, PTL

-----------------------------------------------------------------------------
(* The end of a report                                                     *)

\* Who writes which report after a step that stores none.
LEMMA SealedStep ==
  ASSUME Base, TableInv, [Next]_vars, NEW r \in Reports,
         reports[r] # None, ~ HasWriter(r)
  PROVE  ~ HasWriter(r)' /\ items'[r] = items[r] /\ reports'[r] = reports[r]
<1>1. CASE QuietStep
  BY <1>1 DEF QuietStep, HasWriter, Writing
<1>2. ASSUME NEW w \in Workers, NEW q \in Reports, OpenStep(w, q), KeepsRecords
      PROVE  ~ HasWriter(r)' /\ items'[r] = items[r] /\ reports'[r] = reports[r]
  <2>1. /\ reports[q] = None /\ items' = items
        /\ \A p \in Reports \ {q} : reports'[p] = reports[p]
        /\ \A v \in Workers \ {w} : inv'[v] = inv[v]
        /\ inv'[w].pc = "rows" => inv'[w].report = q
    BY <1>2, OpenEffect
  <2>2. r # q
    BY <2>1
  <2> QED
    BY <2>1, <2>2 DEF HasWriter, Writing
<1>3. ASSUME NEW w \in Workers, RowStep(w)
      PROVE  ~ HasWriter(r)' /\ items'[r] = items[r] /\ reports'[r] = reports[r]
  <2> DEFINE q == inv[w].report
  <2>1. /\ inv[w].pc = "rows" /\ reports' = reports
        /\ \A p \in Reports \ {q} : items'[p] = items[p]
        /\ \A v \in Workers \ {w} : inv'[v] = inv[v]
        /\ inv'[w].pc = "rows" => inv'[w].report = q
    BY <1>3, RowEffect
  <2>2. r # q
    BY <2>1 DEF HasWriter, Writing
  <2> QED
    BY <2>1, <2>2 DEF HasWriter, Writing
<1> QED
  BY <1>1, <1>2, <1>3, StepKinds DEF TableStep

(* A report whose writer is gone never changes again and never finds       *)
(* another writer: no retry completes it (db.py:356-363).                  *)
THEOREM ReportsStaySealed == Spec => SealedReports
<1>1. Base /\ TableInv /\ [Next]_vars =>
        [\A r \in Reports :
           reports[r] # None /\ ~ HasWriter(r)
             => ~ HasWriter(r)' /\ items'[r] = items[r] /\ reports'[r] = reports[r]]_vars
  BY SealedStep
<1> QED
  BY <1>1, TableInvariant, PTL DEF Spec, SealedReports

-----------------------------------------------------------------------------
(* The ledger                                                              *)

LEMMA InitLedger == Init => Ledger!Init
<1> SUFFICES ASSUME Init
             PROVE  Ledger!Init
  OBVIOUS
<1>1. \A r \in Reports : reports[r] = None /\ items[r] = <<>>
  BY DEF Init
<1>2. \A r \in Reports : Len(items[r]) = 0
  BY <1>1, EmptySeq
<1> QED
  BY <1>1, <1>2 DEF Ledger!Init, Phase, Declared, Written

\* A quiet step closes at most the report of the execution that moved.
LEMMA QuietLedger ==
  ASSUME Base, TableInv, QuietStep
  PROVE  [Ledger!Next]_Ledger!vars
<1>1. reports' = reports /\ items' = items
  BY DEF QuietStep
<1>2. Declared' = Declared /\ Written' = Written
  BY <1>1 DEF Declared, Written
<1>3. \A r \in Reports : HasWriter(r)' => HasWriter(r)
  BY DEF QuietStep, HasWriter, Writing
<1>4. CASE \A r \in Reports : HasWriter(r) => HasWriter(r)'
  <2>1. Phase' = Phase
    BY <1>1, <1>3, <1>4 DEF Phase
  <2> QED
    BY <1>2, <2>1 DEF Ledger!vars
<1>5. ASSUME NEW r \in Reports, HasWriter(r), ~ HasWriter(r)'
      PROVE  Ledger!Close(r)
  <2>1. PICK w \in Workers : Writing(w, r)
    BY <1>5 DEF HasWriter
  <2>2. inv'[w] # inv[w]
    BY <1>5, <2>1 DEF HasWriter, Writing
  <2>3. \A q \in Reports \ {r} : HasWriter(q) => HasWriter(q)'
    BY <2>1, <2>2 DEF QuietStep, HasWriter, Writing
  <2>4. reports[r] # None
    BY <2>1 DEF Writing, TableInv, WriterInv
  <2>5. Phase[r] = "open" /\ Phase' = [Phase EXCEPT ![r] = "closed"]
    BY <1>1, <1>3, <1>5, <2>3, <2>4 DEF Phase
  <2> QED
    BY <1>2, <2>5 DEF Ledger!Close
<1> QED
  BY <1>4, <1>5 DEF Ledger!Next

LEMMA OpenLedger ==
  ASSUME Base, TableInv, KeepsRecords,
         NEW w \in Workers, NEW r \in Reports, OpenStep(w, r)
  PROVE  Ledger!Open(r)
<1>1. /\ inv[w].pc = "put" /\ inv[w].content \in Contents
      /\ reports[r] = None /\ items' = items
      /\ reports'[r] # None
      /\ reports'[r].count = RowCount[inv[w].content]
      /\ \A q \in Reports \ {r} : reports'[q] = reports[q]
      /\ \A v \in Workers \ {w} : inv'[v] = inv[v]
      /\ inv'[w].pc = "rows" => inv'[w].report = r
  BY OpenEffect
<1>2. Phase[r] = "absent" /\ Written' = Written
  BY <1>1 DEF Phase, Written
<1>3. \A q \in Reports \ {r} : HasWriter(q)' <=> HasWriter(q)
  BY <1>1 DEF HasWriter, Writing
<1>4. \E p \in {"open", "closed"} : Phase' = [Phase EXCEPT ![r] = p]
  BY <1>1, <1>3 DEF Phase
<1>5. \A q \in Reports \ {r} : Declared'[q] = Declared[q]
  BY <1>1 DEF Declared
<1>6. Declared' \in [Reports -> Nat]
  <2>1. \A q \in Reports : reports[q] # None => reports[q].count \in Nat
    BY DEF Base, StoreType, Report
  <2>2. RowCount[inv[w].content] \in Nat
    BY <1>1, ConstantsAssumption
  <2>3. \A q \in Reports : reports'[q] # None => reports'[q].count \in Nat
    BY <1>1, <2>1, <2>2
  <2> QED
    BY <2>3 DEF Declared
<1> QED
  BY <1>2, <1>4, <1>5, <1>6 DEF Ledger!Open

LEMMA RowLedger ==
  ASSUME Base, TableInv, NEW w \in Workers, RowStep(w)
  PROVE  Ledger!Append(inv[w].report)
<1> DEFINE r == inv[w].report
           n == Len(items[r])
<1>1. /\ inv[w].pc = "rows" /\ r \in Reports /\ n \in Nat /\ reports' = reports
      /\ inv[w].next = n + 1 /\ n + 1 <= RowCount[inv[w].content]
      /\ Len(items'[r]) = n + 1
      /\ \A q \in Reports \ {r} : items'[q] = items[q]
      /\ \A v \in Workers \ {w} : inv'[v] = inv[v]
      /\ inv'[w].pc = "rows" => inv'[w].report = r
  BY RowEffect
<1>2. /\ reports[r] # None /\ reports[r].count = RowCount[inv[w].content]
      /\ inv[w].content \in Contents /\ RowCount[inv[w].content] \in Nat
  BY <1>1, ConstantsAssumption DEF TableInv, WriterInv, Base, QueueBase, BusyInv
<1>3. Phase[r] = "open" /\ Written[r] < Declared[r] /\ Declared' = Declared
  BY <1>1, <1>2 DEF Phase, Written, Declared, HasWriter, Writing
<1>4. Written' = [Written EXCEPT ![r] = @ + 1]
  BY <1>1 DEF Written
<1>5. \A q \in Reports \ {r} : HasWriter(q)' <=> HasWriter(q)
  BY <1>1 DEF HasWriter, Writing
<1>6. \E p \in {"open", "closed"} : Phase' = [Phase EXCEPT ![r] = p]
  BY <1>1, <1>2, <1>5 DEF Phase
<1> QED
  BY <1>3, <1>4, <1>6 DEF Ledger!Append

LEMMA NextLedger ==
  Base /\ TableInv /\ [Next]_vars => [Ledger!Next]_Ledger!vars
<1> SUFFICES ASSUME Base, TableInv, [Next]_vars
             PROVE  [Ledger!Next]_Ledger!vars
  OBVIOUS
<1>1. TableStep /\ KeepsRecords
  BY StepKinds
<1>2. CASE QuietStep
  BY <1>2, QuietLedger
<1>3. ASSUME NEW w \in Workers, NEW r \in Reports, OpenStep(w, r)
      PROVE  Ledger!Next
  BY <1>1, <1>3, OpenLedger DEF Ledger!Next
<1>4. ASSUME NEW w \in Workers, RowStep(w)
      PROVE  Ledger!Next
  <2>1. inv[w].report \in Reports
    BY <1>4, RowEffect
  <2> QED
    BY <1>4, <2>1, RowLedger DEF Ledger!Next
<1> QED
  BY <1>1, <1>2, <1>3, <1>4 DEF TableStep

(* The pipeline implements the ledger, with any number of executions and   *)
(* under any faults.                                                       *)
THEOREM ImplementsLedger == Spec => LedgerSpec
<1>1. Init => Ledger!Init
  BY InitLedger
<1>2. Base /\ TableInv /\ [Next]_vars => [Ledger!Next]_Ledger!vars
  BY NextLedger
<1> QED
  BY <1>1, <1>2, TableInvariant, PTL DEF Spec, LedgerSpec, Ledger!Spec
=============================================================================
