--------------------------- MODULE EtlDedupProofs ---------------------------
(***************************************************************************)
(* Theorems about duplicate ingestion: how many REPORTs one file can get.  *)
(* They rest on one lemma, CopySteps, that says how a step can change the  *)
(* reports of a file and the executions that may still add to them.        *)
(***************************************************************************)
EXTENDS EtlTableProofs

-----------------------------------------------------------------------------
(* What a step can do to the copies of a file                              *)

\* Execution v is past its check only if it was, and at the same record.
NoNewcomer(v) == inv'[v].pc = "put" => inv[v].pc = "put" /\ Record(v)' = Record(v)

\* No report is stored, none leaves the index, nobody passes the check.
CopyQuiet ==
  /\ reports' = reports /\ gsi3 \subseteq gsi3'
  /\ \A v \in Workers : NoNewcomer(v)

\* w passes the check.
CheckStep(w) ==
  /\ inv[w].pc = "check" /\ ~ Seen(Record(w).etag)
  /\ reports' = reports /\ gsi3' = gsi3
  /\ Record(w)' = Record(w)
  /\ \A v \in Workers \ {w} : NoNewcomer(v)

\* w stores a report and is no longer past the check.
PutStep(w, r) ==
  /\ StoreReport(w, r)
  /\ inv'[w].pc # "put"
  /\ \A v \in Workers \ {w} : NoNewcomer(v)

CopyStep ==
  \/ CopyQuiet
  \/ \E w \in Workers : CheckStep(w)
  \/ \E w \in Workers, r \in Reports : PutStep(w, r)

\* One execution changes, to one that is not past its check.
LEMMA LeavesCheck ==
  ASSUME Base, NEW w \in Workers, UNCHANGED event,
         \E i : i.pc # "put" /\ inv' = [inv EXCEPT ![w] = i]
  PROVE  inv'[w].pc # "put" /\ \A v \in Workers : NoNewcomer(v)
<1>1. PICK i : i.pc # "put" /\ inv' = [inv EXCEPT ![w] = i]
  OBVIOUS
<1>2. inv'[w] = i /\ \A v \in Workers \ {w} : inv'[v] = inv[v]
  BY <1>1 DEF Base, QueueBase
<1> QED
  BY <1>1, <1>2 DEF NoNewcomer, Record

LEMMA LeavingIsCopyQuiet ==
  ASSUME Base, NEW w \in Workers, UNCHANGED <<event, reports, gsi3>>,
         \E i : i.pc # "put" /\ inv' = [inv EXCEPT ![w] = i]
  PROVE  CopyQuiet
  BY LeavesCheck DEF CopyQuiet

LEMMA FailIsCopyQuiet ==
  ASSUME Base, NEW w \in Workers, Fail(w)
  PROVE  CopyQuiet
<1>1. \E i : i.pc # "put" /\ inv' = [inv EXCEPT ![w] = i]
  BY RaiseLeaves DEF Fail
<1> QED
  BY <1>1, LeavingIsCopyQuiet DEF Fail, table

LEMMA EndIsCopyQuiet ==
  ASSUME Base, NEW w \in Workers, inv[w].pc # "idle", EndRecord(w),
         UNCHANGED <<event, table>>
  PROVE  CopyQuiet
<1>1. \E i : i.pc # "put" /\ inv' = [inv EXCEPT ![w] = i]
  BY EndRecordLeaves DEF Base
<1> QED
  BY <1>1, LeavingIsCopyQuiet DEF table

LEMMA StoringPuts ==
  ASSUME Base, NEW w \in Workers, NEW r \in Reports, StoreReport(w, r),
         \E i : i.pc # "put" /\ inv' = [inv EXCEPT ![w] = i]
  PROVE  PutStep(w, r)
<1>1. event' = event
  BY DEF StoreReport
<1> QED
  BY <1>1, LeavesCheck DEF PutStep

LEMMA CheckIsCheckStep ==
  ASSUME Base, NEW w \in Workers, NotSeen(w)
  PROVE  CheckStep(w)
<1> DEFINE i == [inv[w] EXCEPT !.pc = "put"]
<1>1. /\ inv[w].pc = "check" /\ ~ Seen(Record(w).etag)
      /\ reports' = reports /\ gsi3' = gsi3 /\ event' = event
      /\ inv' = [inv EXCEPT ![w] = i]
  BY DEF NotSeen, table, queue
<1>2. i.delivery = inv[w].delivery /\ i.pos = inv[w].pos
  BY DEF Base, QueueBase, Invocation
<1>3. inv'[w] = i /\ \A v \in Workers \ {w} : inv'[v] = inv[v]
  BY <1>1 DEF Base, QueueBase
<1>4. Record(w)' = Record(w)
  BY <1>1, <1>2, <1>3 DEF Record
<1>5. \A v \in Workers \ {w} : NoNewcomer(v)
  BY <1>1, <1>3 DEF NoNewcomer, Record
<1> QED
  BY <1>1, <1>4, <1>5 DEF CheckStep

LEMMA StepCopies ==
  ASSUME Base, NEW w \in Workers, Step(w)
  PROVE  CopyStep
<1>1. CASE Reject(w) \/ ParseError(w) \/ MissingObject(w)
  BY <1>1, FailIsCopyQuiet DEF Reject, ParseError, MissingObject, CopyStep
<1>2. CASE Download(w)
  <2> DEFINE i == [inv[w] EXCEPT !.pc = "check", !.content = Object(w), !.tries = 0]
  <2>1. i.pc = "check" /\ inv' = [inv EXCEPT ![w] = i]
    BY <1>2 DEF Download, Base, QueueBase, Invocation
  <2> QED
    BY <1>2, <2>1, LeavingIsCopyQuiet DEF Download, queue, table, CopyStep
<1>3. CASE ShortCircuit(w) \/ FinishRecord(w)
  BY <1>3, EndIsCopyQuiet DEF ShortCircuit, FinishRecord, CopyStep
<1>4. CASE NotSeen(w)
  BY <1>4, CheckIsCheckStep DEF CopyStep
<1>5. ASSUME NEW r \in Reports, PutReport(w, r)
      PROVE  CopyStep
  <2> DEFINE i == [inv[w] EXCEPT !.pc = "rows", !.report = r, !.next = 1]
  <2>1. i.pc = "rows" /\ inv' = [inv EXCEPT ![w] = i]
    BY <1>5 DEF PutReport, Base, QueueBase, Invocation
  <2> QED
    BY <1>5, <2>1, StoringPuts DEF PutReport, CopyStep
<1>6. CASE WriteItem(w)
  <2> DEFINE i == [inv[w] EXCEPT !.next = @ + 1]
  <2>1. i.pc = "rows" /\ inv' = [inv EXCEPT ![w] = i]
    BY <1>6 DEF WriteItem, StoreRow, Base, QueueBase, Invocation
  <2> QED
    BY <1>6, <2>1, LeavingIsCopyQuiet DEF WriteItem, StoreRow, CopyStep
<1> QED
  BY <1>1, <1>2, <1>3, <1>4, <1>5, <1>6 DEF Step

LEMMA FailureCopies ==
  ASSUME Base, NEW w \in Workers, Failure(w)
  PROVE  CopyStep
<1>1. CASE DownloadError(w)
  <2>1. CASE inv[w].tries + 1 < MaxDownloads
    <3> DEFINE i == [inv[w] EXCEPT !.tries = @ + 1]
    <3>1. inv' = [inv EXCEPT ![w] = i] /\ UNCHANGED <<reports, gsi3, event>>
      BY <1>1, <2>1, ConstantsAssumption
         DEF DownloadError, queue, table, Base, QueueBase, Invocation
    <3>2. i.pc = "download"
      BY <1>1 DEF DownloadError, Reading, Base, QueueBase, Invocation
    <3> QED
      BY <3>1, <3>2, LeavingIsCopyQuiet DEF CopyStep
  <2>2. CASE ~ (inv[w].tries + 1 < MaxDownloads)
    BY <1>1, <2>2, FailIsCopyQuiet DEF DownloadError, CopyStep
  <2> QED
    BY <2>1, <2>2
<1>2. CASE Abort(w)
  BY <1>2, FailIsCopyQuiet DEF Abort, CopyStep
<1>3. CASE WriteItemUnconfirmed(w)
  <2>1. \E i : i.pc # "put" /\ inv' = [inv EXCEPT ![w] = i]
    BY <1>3, RaiseLeaves DEF WriteItemUnconfirmed
  <2> QED
    BY <1>3, <2>1, LeavingIsCopyQuiet DEF WriteItemUnconfirmed, StoreRow, CopyStep
<1>4. ASSUME NEW r \in Reports, PutReportReplayed(w, r)
      PROVE  CopyStep
  <2>1. StoreReport(w, r) /\ EndRecord(w) /\ inv[w].pc # "idle"
    BY <1>4 DEF PutReportReplayed, StoreReport
  <2>2. \E i : i.pc # "put" /\ inv' = [inv EXCEPT ![w] = i]
    BY <2>1, EndRecordLeaves DEF Base
  <2> QED
    BY <2>1, <2>2, StoringPuts DEF CopyStep
<1>5. ASSUME NEW r \in Reports, PutReportLost(w, r)
      PROVE  CopyStep
  <2>1. \E i : i.pc # "put" /\ inv' = [inv EXCEPT ![w] = i]
    BY <1>5, RaiseLeaves DEF PutReportLost
  <2> QED
    BY <1>5, <2>1, StoringPuts DEF PutReportLost, CopyStep
<1> QED
  BY <1>1, <1>2, <1>3, <1>4, <1>5 DEF Failure

LEMMA OutsideCopies ==
  ASSUME Base, Environment
  PROVE  CopyQuiet
<1>1. ASSUME NEW k \in Keys, Expire(k) \/ \E c \in Contents : Upload(k, c)
      PROVE  CopyQuiet
  BY <1>1 DEF Expire, Upload, queue, table, CopyQuiet, NoNewcomer, Record
<1>2. ASSUME NEW r \in Reports, IndexCatchUp(r)
      PROVE  CopyQuiet
  BY <1>2 DEF IndexCatchUp, queue, CopyQuiet, NoNewcomer, Record
<1>3. ASSUME NEW d \in Deliveries, Deliver(d)
      PROVE  CopyQuiet
  <2>1. UNCHANGED <<reports, gsi3, inv>> /\ status[d] = "unused"
        /\ \A e \in Deliveries \ {d} : event'[e] = event[e]
    BY <1>3 DEF Deliver, table, Base, QueueBase
  <2>2. \A v \in Workers : inv[v].pc # "idle" => inv[v].delivery \in Deliveries \ {d}
    BY <2>1 DEF Base, QueueBase, BusyInv
  <2> QED
    BY <2>1, <2>2 DEF CopyQuiet, NoNewcomer, Record
<1> QED
  BY <1>1, <1>2, <1>3 DEF Environment

\* Every step is quiet for the copies of a file, lets one execution past
\* its check, or stores one report.
LEMMA CopySteps ==
  ASSUME Base, [Next]_vars
  PROVE  CopyStep
<1>1. CASE Environment
  BY <1>1, OutsideCopies DEF CopyStep
<1>2. ASSUME NEW w \in Workers, Step(w) \/ Failure(w)
      PROVE  CopyStep
  BY <1>2, StepCopies, FailureCopies
<1>3. ASSUME NEW w \in Workers, NEW d \in Deliveries, Start(w, d)
      PROVE  CopyStep
  <2>1. AtRecord(d, 1).pc # "put" /\ inv' = [inv EXCEPT ![w] = AtRecord(d, 1)]
    BY <1>3, AtRecordType DEF Start
  <2> QED
    BY <1>3, <2>1, LeavingIsCopyQuiet DEF Start, table, CopyStep
<1>4. CASE UNCHANGED vars
  BY <1>4 DEF vars, CopyStep, CopyQuiet, NoNewcomer, Record
<1> QED
  BY <1>1, <1>2, <1>3, <1>4 DEF Next

-----------------------------------------------------------------------------
(* Counting the copies                                                     *)

LEMMA FiniteCopies ==
  ASSUME NEW e
  PROVE  /\ IsFiniteSet(ReportsOf(e)) /\ Cardinality(ReportsOf(e)) \in Nat
         /\ IsFiniteSet(PastCheck(e)) /\ Cardinality(PastCheck(e)) \in Nat
         /\ Cardinality(PastCheck(e)) <= Cardinality(Workers)
         /\ Cardinality(Workers) \in Nat
<1>1. ReportsOf(e) \in SUBSET Reports /\ PastCheck(e) \in SUBSET Workers
  BY DEF ReportsOf, PastCheck
<1> QED
  BY <1>1, FiniteAssumption, FS_Subset, FS_CardinalityType

LEMMA FiniteCopiesNext ==
  ASSUME NEW e
  PROVE  /\ IsFiniteSet(ReportsOf(e)') /\ Cardinality(ReportsOf(e)') \in Nat
         /\ IsFiniteSet(PastCheck(e)') /\ Cardinality(PastCheck(e)') \in Nat
         /\ Cardinality(PastCheck(e)') <= Cardinality(Workers)
<1>1. ReportsOf(e)' \in SUBSET Reports /\ PastCheck(e)' \in SUBSET Workers
  BY DEF ReportsOf, PastCheck
<1> QED
  BY <1>1, FiniteAssumption, FS_Subset, FS_CardinalityType

\* With no report stored and nobody new past the check, copies get no more.
LEMMA FewerCopies ==
  ASSUME NEW e, ReportsOf(e)' = ReportsOf(e), PastCheck(e)' \subseteq PastCheck(e)
  PROVE  Copies(e)' <= Copies(e)
<1>1. Cardinality(PastCheck(e)') <= Cardinality(PastCheck(e))
  BY FiniteCopies, FS_Subset
<1>2. Copies(e)' = Cardinality(ReportsOf(e)) + Cardinality(PastCheck(e)')
  BY DEF Copies
<1>3. Copies(e) = Cardinality(ReportsOf(e)) + Cardinality(PastCheck(e))
  BY DEF Copies
<1> QED
  BY <1>1, <1>2, <1>3, FiniteCopies, FiniteCopiesNext

LEMMA QuietCopies ==
  ASSUME NEW e, CopyQuiet
  PROVE  Copies(e)' <= Copies(e)
  BY FewerCopies DEF CopyQuiet, NoNewcomer, ReportsOf, PastCheck

LEMMA CheckCopies ==
  ASSUME NEW w \in Workers, CheckStep(w), NEW e, e # Record(w).etag
  PROVE  Copies(e)' <= Copies(e)
<1>1. ReportsOf(e)' = ReportsOf(e)
  BY DEF CheckStep, ReportsOf
<1>2. PastCheck(e)' \subseteq PastCheck(e)
  BY DEF CheckStep, NoNewcomer, PastCheck
<1> QED
  BY <1>1, <1>2, FewerCopies

\* Storing a report turns its writer's claim into a copy.
LEMMA PutCopies ==
  ASSUME Base, NEW w \in Workers, NEW r \in Reports, PutStep(w, r), NEW e
  PROVE  Copies(e)' <= Copies(e)
<1> DEFINE rec == [owner |-> KeyOwner[Record(w).key], key |-> Record(w).key,
                   etag |-> Record(w).etag, count |-> RowCount[inv[w].content]]
<1>1. inv[w].pc = "put" /\ reports[r] = None /\ reports' = [reports EXCEPT ![r] = rec]
  BY DEF PutStep, StoreReport
<1>2. rec.etag = Record(w).etag
  OBVIOUS
<1>3. reports'[r] = rec /\ \A q \in Reports \ {r} : reports'[q] = reports[q]
  BY <1>1 DEF Base, StoreType
<1>4. PastCheck(e)' \subseteq PastCheck(e) \ {w}
  BY DEF PutStep, NoNewcomer, PastCheck
<1> HIDE DEF rec
<1>5. CASE e # Record(w).etag
  <2>1. ReportsOf(e)' = ReportsOf(e)
    BY <1>1, <1>2, <1>3, <1>5 DEF ReportsOf
  <2> QED
    BY <1>4, <2>1, FewerCopies
<1>6. CASE e = Record(w).etag
  <2>1. ReportsOf(e)' \subseteq ReportsOf(e) \cup {r} /\ r \notin ReportsOf(e)
    BY <1>1, <1>3 DEF ReportsOf
  <2>2. w \in PastCheck(e)
    BY <1>1, <1>6 DEF PastCheck
  <2>3. /\ IsFiniteSet(ReportsOf(e) \cup {r})
        /\ Cardinality(ReportsOf(e) \cup {r}) = Cardinality(ReportsOf(e)) + 1
    BY <2>1, FiniteCopies, FS_AddElement
  <2>4. Cardinality(ReportsOf(e)') <= Cardinality(ReportsOf(e)) + 1
    BY <2>1, <2>3, FS_Subset
  <2>5. /\ IsFiniteSet(PastCheck(e) \ {w})
        /\ Cardinality(PastCheck(e) \ {w}) = Cardinality(PastCheck(e)) - 1
    BY <2>2, FiniteCopies, FS_RemoveElement
  <2>6. Cardinality(PastCheck(e)') <= Cardinality(PastCheck(e)) - 1
    BY <1>4, <2>5, FS_Subset
  <2> QED
    BY <2>4, <2>6, FiniteCopies, FiniteCopiesNext DEF Copies
<1> QED
  BY <1>5, <1>6

-----------------------------------------------------------------------------
(* The theorems                                                            *)

LEMMA SeenStep ==
  ASSUME Base, [Next]_vars, NEW e \in Contents, Seen(e)
  PROVE  Copies(e)' <= Copies(e)
<1>1. CASE CopyQuiet
  BY <1>1, QuietCopies
<1>2. ASSUME NEW w \in Workers, CheckStep(w)
      PROVE  Copies(e)' <= Copies(e)
  <2>1. e # Record(w).etag
    BY <1>2 DEF CheckStep
  <2> QED
    BY <1>2, <2>1, CheckCopies
<1>3. ASSUME NEW w \in Workers, NEW r \in Reports, PutStep(w, r)
      PROVE  Copies(e)' <= Copies(e)
  BY <1>3, PutCopies
<1> QED
  BY <1>1, <1>2, <1>3, CopySteps DEF CopyStep

(* Once GSI3 shows an ETag, its reports and the executions that may still  *)
(* add one never get more (db.py:357-363), whatever fails.                 *)
THEOREM SeenStaysFrozen == Spec => SeenEtagFrozen
<1>1. Base /\ [Next]_vars =>
        [\A e \in Contents : Seen(e) => Copies(e)' <= Copies(e)]_vars
  BY SeenStep
<1> QED
  BY <1>1, BaseInvariant, PTL DEF Spec, SeenEtagFrozen

\* Without replication lag GSI3 shows every stored report.
ExactIndex ==
  "lag" \notin Faults => \A r \in Reports : reports[r] # None => r \in gsi3

\* The reports of a file and the executions past their check on it, counted
\* together, never exceed the executions.
CopiesBound ==
  "lag" \notin Faults => \A e \in Contents : Copies(e) <= Cardinality(Workers)

LEMMA InitCopies == Init => ExactIndex /\ CopiesBound
<1> SUFFICES ASSUME Init
             PROVE  ExactIndex /\ CopiesBound
  OBVIOUS
<1>1. ExactIndex
  BY DEF Init, ExactIndex
<1>2. ASSUME NEW e \in Contents
      PROVE  Copies(e) <= Cardinality(Workers)
  <2>1. ReportsOf(e) = {}
    BY DEF Init, ReportsOf
  <2>2. Cardinality(ReportsOf(e)) = 0
    BY <2>1, FS_EmptySet
  <2> QED
    BY <2>2, FiniteCopies DEF Copies
<1> QED
  BY <1>1, <1>2 DEF CopiesBound

LEMMA NextKeepsExact == Base /\ ExactIndex /\ [Next]_vars => ExactIndex'
<1> SUFFICES ASSUME Base, ExactIndex, [Next]_vars, "lag" \notin Faults,
                    NEW r \in Reports, reports'[r] # None
             PROVE  r \in gsi3'
  BY DEF ExactIndex
<1>1. CASE CopyQuiet
  BY <1>1 DEF CopyQuiet, ExactIndex
<1>2. ASSUME NEW w \in Workers, CheckStep(w)
      PROVE  r \in gsi3'
  BY <1>2 DEF CheckStep, ExactIndex
<1>3. ASSUME NEW w \in Workers, NEW q \in Reports, StoreReport(w, q)
      PROVE  r \in gsi3'
  <2>1. gsi3' = gsi3 \cup {q} /\ (r # q => reports'[r] = reports[r])
    BY <1>3 DEF StoreReport, Base, StoreType
  <2> QED
    BY <2>1 DEF ExactIndex
<1> QED
  BY <1>1, <1>2, <1>3, CopySteps DEF CopyStep, PutStep

LEMMA NextKeepsBound ==
  Base /\ ExactIndex /\ CopiesBound /\ [Next]_vars => CopiesBound'
<1> SUFFICES ASSUME Base, ExactIndex, CopiesBound, [Next]_vars,
                    "lag" \notin Faults, NEW e \in Contents
             PROVE  Copies(e)' <= Cardinality(Workers)
  BY DEF CopiesBound
<1>1. /\ Copies(e) <= Cardinality(Workers) /\ Copies(e) \in Nat
      /\ Copies(e)' \in Nat /\ Cardinality(Workers) \in Nat
  BY FiniteCopies, FiniteCopiesNext DEF CopiesBound, Copies
<1>2. ASSUME Copies(e)' <= Copies(e)
      PROVE  Copies(e)' <= Cardinality(Workers)
  BY <1>1, <1>2
<1>3. CASE CopyQuiet
  BY <1>2, <1>3, QuietCopies
<1>4. ASSUME NEW w \in Workers, CheckStep(w)
      PROVE  Copies(e)' <= Cardinality(Workers)
  <2>1. CASE e # Record(w).etag
    BY <1>2, <1>4, <2>1, CheckCopies
  <2>2. CASE e = Record(w).etag
    <3>1. gsi3 \cap ReportsOf(e) = {} /\ ReportsOf(e)' = ReportsOf(e)
      BY <1>4, <2>2 DEF CheckStep, Seen, ReportsOf
    <3>2. ReportsOf(e)' = {}
      BY <3>1 DEF ExactIndex, ReportsOf
    <3>3. Cardinality(ReportsOf(e)') = 0
      BY <3>2, FS_EmptySet
    <3> QED
      BY <3>3, FiniteCopiesNext DEF Copies
  <2> QED
    BY <2>1, <2>2
<1>5. ASSUME NEW w \in Workers, NEW r \in Reports, PutStep(w, r)
      PROVE  Copies(e)' <= Cardinality(Workers)
  BY <1>2, <1>5, PutCopies
<1> QED
  BY <1>3, <1>4, <1>5, CopySteps DEF CopyStep

LEMMA BoundIsEnough == CopiesBound => DuplicatesBoundedByConcurrency
<1> SUFFICES ASSUME CopiesBound, "lag" \notin Faults, NEW e \in Contents
             PROVE  Cardinality(ReportsOf(e)) <= Cardinality(Workers)
  BY DEF DuplicatesBoundedByConcurrency
<1>1. Copies(e) <= Cardinality(Workers)
  BY DEF CopiesBound
<1> QED
  BY <1>1, FiniteCopies DEF Copies

(* With an up-to-date index one file gets at most as many reports as there *)
(* are concurrent executions (infra/cdk_app.py:244), whatever is delivered *)
(* twice, retried, replayed or interrupted.                                *)
THEOREM DuplicatesAreBounded == Spec => []DuplicatesBoundedByConcurrency
<1>1. Init => ExactIndex /\ CopiesBound
  BY InitCopies
<1>2. Base /\ ExactIndex /\ CopiesBound /\ [Next]_vars => (ExactIndex /\ CopiesBound)'
  BY NextKeepsExact, NextKeepsBound
<1>3. CopiesBound => DuplicatesBoundedByConcurrency
  BY BoundIsEnough
<1> QED
  BY <1>1, <1>2, <1>3, BaseInvariant, PTL DEF Spec
=============================================================================
