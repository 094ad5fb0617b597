------------------------- MODULE ItemsOutcomeProofs -------------------------
(***************************************************************************)
(* What the callers of ItemsPlatform may rely on: an answer within a       *)
(* bounded number of steps of their own, and titles that are not lost      *)
(* unasked.                                                                *)
(***************************************************************************)
EXTENDS ItemRegisterProofs

USE TableAssumption, ApiAssumption, WebhookAssumption, PlatformAssumption

-----------------------------------------------------------------------------
(* The requests                                                            *)

\* Where a request may go from where it is.
Onward(r, to) ==
  \/ r.pc \in {"list", "read", "put", "audit"} /\ to.pc \in Replied
  \/ r.pc = "read" /\ to.pc = "put" /\ to.sends = r.sends
  \/ r.pc = "put" /\ to.pc = "audit"
  \/ r.pc = "put" /\ to.pc = "put" /\ to.sends = r.sends + 1

(* What a step makes of its request and of the others.                     *)
LEMMA RequestMoves ==
  ASSUME IInv, NEW q \in Requests, Arrive(q) \/ Serve(q) \/ Crash(q)
  PROVE  /\ \A p \in Requests \ {q} : req'[p] = req[p]
         /\ req[q].pc # "new" => Onward(req[q], req'[q])
<1>1. req \in [Requests -> RequestState] /\ req[q] \in RequestState
  BY DEF IInv, TypeOK, ApiTypeOK
<1>2. CASE Arrive(q)
  BY <1>1, <1>2 DEF Arrive
<1>3. CASE List(q)
  BY <1>1, <1>3 DEF List, Onward, Replied, RequestState
<1>4. CASE Get(q)
  BY <1>1, <1>4 DEF Get, Served, Onward, Replied, RequestState
<1>5. CASE Read(q)
  BY <1>1, <1>5 DEF Read, Onward, Replied, RequestState
<1>6. CASE Create(q)
  <2>1. req[q].pc = "put" /\ \E i \in Items, p \in {"audit", "conflict"} :
          req' = [req EXCEPT ![q].pc = p, ![q].item = i, ![q].sends = 1]
    BY <1>6 DEF Create
  <2>2. QED BY <1>1, <2>1 DEF Onward, Replied, RequestState
<1>7. CASE Put(q)
  <2>1. req[q].pc = "put" /\ \E p \in {"audit", "put"} :
          req' = [req EXCEPT ![q].pc = p, ![q].sends = @ + 1]
    BY <1>7 DEF Put
  <2>2. QED BY <1>1, <2>1 DEF Onward, RequestState
<1>8. CASE Audit(q)
  <2>1. req[q].pc = "audit" /\ \E p \in {Answer(q), "failed"} : req' = [req EXCEPT ![q].pc = p]
    BY <1>8 DEF Audit
  <2>2. Answer(q) \in {"ok", "failed"}
    BY DEF Answer, Served
  <2>3. QED BY <1>1, <2>1, <2>2 DEF Onward, Replied, RequestState
<1>9. CASE Crash(q)
  BY <1>1, <1>9 DEF Crash, Onward, Replied, RequestState
<1>10. QED BY <1>2, <1>3, <1>4, <1>5, <1>6, <1>7, <1>8, <1>9 DEF Serve

(* Each such move brings the answer nearer.                                *)
LEMMA RequestDrawsNear ==
  ASSUME IInv, NEW q \in Requests, Onward(req[q], req'[q])
  PROVE  StepsLeft(q)' < StepsLeft(q)
<1>1. req[q] \in RequestState /\ req[q].sends \in Nat /\ MaxSends \in Nat /\ MaxSends >= 1
  BY DEF IInv, TypeOK, ApiTypeOK, RequestState
<1>2. /\ req[q].pc = "read" => req[q].sends = 0
      /\ req[q].pc = "put" => req[q].sends < MaxSends
  BY DEF IInv, ReqOK
<1>3. /\ req[q].pc = "read" => StepsLeft(q) = MaxSends + 2
      /\ req[q].pc = "put" => StepsLeft(q) = MaxSends + 1 - req[q].sends
      /\ req[q].pc \in {"list", "audit"} => StepsLeft(q) = 1
  BY DEF StepsLeft
<1>4. /\ req'[q].pc = "put" => StepsLeft(q)' = MaxSends + 1 - req'[q].sends
      /\ req'[q].pc = "audit" => StepsLeft(q)' = 1
      /\ req'[q].pc \in Replied => StepsLeft(q)' = 0
  BY DEF StepsLeft, Replied
<1>5. QED BY <1>1, <1>2, <1>3, <1>4 DEF Onward

-----------------------------------------------------------------------------
(* The notices                                                             *)

\* Where an execution may go from where it is, at one item or to the next.
HookOnward(e, to) ==
  \/ /\ \/ e.pc \in {"parse", "scan", "get", "put", "audit", "comment"} /\ to.pc \in Answered
        \/ e.pc = "parse" /\ to.pc = "scan"
        \/ e.pc = "get" /\ to.pc = "audit"
        \/ e.pc = "get" /\ to.pc = "put" /\ to.sends = 0
        \/ e.pc = "put" /\ to.pc = "audit"
        \/ e.pc = "put" /\ to.pc = "put" /\ to.sends = e.sends + 1
     /\ e.pc # "scan" => to.left = e.left
  \/ e.pc = "scan" /\ to.pc = "get"
  \/ e.pc = "audit" /\ to.pc \in {"get", "comment"} /\ to.left = e.left \ {e.item}

(* What a step makes of its execution and of the others.                   *)
LEMMA HookMoves ==
  ASSUME IInv, NEW h \in Hooks, Receive(h) \/ Sync(h) \/ HookCrash(h)
  PROVE  /\ \A g \in Hooks \ {h} : hook'[g] = hook[g]
         /\ hook[h].pc # "new" => HookOnward(hook[h], hook'[h])
<1>1. hook \in [Hooks -> HookState] /\ hook[h] \in HookState
  BY DEF IInv, TypeOK, HookTypeOK
<1>2. CASE Receive(h)
  BY <1>1, <1>2 DEF Receive
<1>3. CASE Dispatch(h)
  <2>1. hook[h].pc = "parse" /\ \E p \in {"unhandled", "failed", "scan"} :
          hook' = [hook EXCEPT ![h].pc = p]
    BY <1>3 DEF Dispatch
  <2>2. QED BY <1>1, <2>1 DEF HookOnward, Answered, HookState
<1>4. CASE Scan(h)
  <2>1. hook[h].pc = "scan" /\ \E p \in {"unhandled", "get"} : \E found :
          hook' = [hook EXCEPT ![h].found = found, ![h].left = found, ![h].pc = p]
    BY <1>4 DEF Scan
  <2>2. QED BY <1>1, <2>1 DEF HookOnward, Answered, HookState
<1>5. CASE GetItem(h)
  <2>1. hook[h].pc = "get" /\ \E p \in {"audit", "put"} : \E i, n :
          hook' = [hook EXCEPT ![h].item = i, ![h].base = n, ![h].sends = 0, ![h].pc = p]
    BY <1>5 DEF GetItem
  <2>2. QED BY <1>1, <2>1 DEF HookOnward, HookState
<1>6. CASE PutStatus(h)
  <2>1. hook[h].pc = "put" /\ \E p \in {"audit", "put"} :
          hook' = [hook EXCEPT ![h].pc = p, ![h].sends = @ + 1]
    BY <1>6 DEF PutStatus
  <2>2. QED BY <1>1, <2>1 DEF HookOnward, HookState
<1>7. CASE AuditSync(h)
  <2>1. hook[h].pc = "audit" /\ \E p \in {"get", "comment"} :
          hook' = [hook EXCEPT ![h].left = hook[h].left \ {hook[h].item}, ![h].pc = p]
    BY <1>7 DEF AuditSync
  <2>2. QED BY <1>1, <2>1 DEF HookOnward, HookState
<1>8. CASE Comment(h)
  BY <1>1, <1>8 DEF Comment, HookOnward, Answered, HookState
<1>9. CASE HookCrash(h)
  BY <1>1, <1>9 DEF HookCrash, HookOnward, Answered, HookState
<1>10. QED BY <1>2, <1>3, <1>4, <1>5, <1>6, <1>7, <1>8, <1>9 DEF Sync

(* Each such move brings the end of the item nearer, or the item was left. *)
LEMMA HookDrawsNear ==
  ASSUME IInv, NEW h \in Hooks, HookOnward(hook[h], hook'[h])
  PROVE  \/ /\ SyncLeft(h)' < SyncLeft(h)
            /\ hook[h].pc # "scan" => hook'[h].left = hook[h].left
         \/ /\ hook[h].pc = "audit" /\ hook'[h].pc \in {"get", "comment"}
            /\ hook'[h].left \subseteq hook[h].left /\ hook'[h].left # hook[h].left
<1> DEFINE e == hook[h]
           to == hook'[h]
<1>1. e.sends \in Nat /\ MaxSends \in Nat /\ MaxSends >= 1
  BY DEF IInv, TypeOK, HookTypeOK, HookState
<1>2. /\ e.pc = "put" => e.sends < MaxSends
      /\ e.pc = "audit" => e.item \in e.left
  BY DEF IInv, HookOK, HookGood
<1>3. /\ e.pc = "parse" => SyncLeft(h) = MaxSends + 4
      /\ e.pc = "scan" => SyncLeft(h) = MaxSends + 3
      /\ e.pc = "get" => SyncLeft(h) = MaxSends + 2
      /\ e.pc = "put" => SyncLeft(h) = MaxSends + 1 - e.sends
      /\ e.pc \in {"audit", "comment"} => SyncLeft(h) = 1
  BY DEF SyncLeft
<1>4. /\ to.pc = "scan" => SyncLeft(h)' = MaxSends + 3
      /\ to.pc = "get" => SyncLeft(h)' = MaxSends + 2
      /\ to.pc = "put" => SyncLeft(h)' = MaxSends + 1 - to.sends
      /\ to.pc \in {"audit", "comment"} => SyncLeft(h)' = 1
      /\ to.pc \in Answered => SyncLeft(h)' = 0
  BY DEF SyncLeft, Answered
<1> HIDE DEF e, to
<1>5. HookOnward(e, to)
  BY DEF e, to
<1>6. CASE e.pc = "audit" /\ to.pc \in {"get", "comment"} /\ to.left = e.left \ {e.item}
  BY <1>2, <1>6 DEF e, to
<1>7. CASE ~ (e.pc = "audit" /\ to.pc \in {"get", "comment"} /\ to.left = e.left \ {e.item})
  <2>1. SyncLeft(h)' < SyncLeft(h)
    BY <1>1, <1>2, <1>3, <1>4, <1>5, <1>7 DEF HookOnward
  <2>2. e.pc # "scan" => to.left = e.left
    BY <1>5, <1>7 DEF HookOnward
  <2>3. QED BY <2>1, <2>2 DEF e, to
<1>8. QED BY <1>6, <1>7

(* Nobody who was asked keeps others waiting: each request and each notice *)
(* is answered within a number of its own steps that MaxSends and the      *)
(* items its scan found bound (db.py:103, handler.py:173).                 *)
THEOREM RepliesAlwaysDrawNear == Spec => RepliesDrawNear
<1>1. IInv /\ [Next]_vars =>
        [/\ \A q \in Requests : req[q].pc # "new" /\ req'[q] # req[q] =>
              StepsLeft(q)' < StepsLeft(q)
         /\ \A h \in Hooks : hook[h].pc # "new" /\ hook'[h] # hook[h] =>
              \/ /\ SyncLeft(h)' < SyncLeft(h)
                 /\ hook[h].pc # "scan" => hook'[h].left = hook[h].left
              \/ /\ hook[h].pc = "audit" /\ hook'[h].pc \in {"get", "comment"}
                 /\ hook'[h].left \subseteq hook[h].left /\ hook'[h].left # hook[h].left]_vars
  <2> SUFFICES ASSUME IInv, Next
               PROVE  /\ \A q \in Requests : req[q].pc # "new" /\ req'[q] # req[q] =>
                           StepsLeft(q)' < StepsLeft(q)
                      /\ \A h \in Hooks : hook[h].pc # "new" /\ hook'[h] # hook[h] =>
                           \/ /\ SyncLeft(h)' < SyncLeft(h)
                              /\ hook[h].pc # "scan" => hook'[h].left = hook[h].left
                           \/ /\ hook[h].pc = "audit" /\ hook'[h].pc \in {"get", "comment"}
                              /\ hook'[h].left \subseteq hook[h].left
                              /\ hook'[h].left # hook[h].left
    OBVIOUS
  <2>1. ASSUME NEW q \in Requests, req[q].pc # "new", req'[q] # req[q]
        PROVE  Onward(req[q], req'[q])
    BY <2>1, RequestMoves DEF Next, ApiNext, Ingest
  <2>2. ASSUME NEW h \in Hooks, hook[h].pc # "new", hook'[h] # hook[h]
        PROVE  HookOnward(hook[h], hook'[h])
    BY <2>2, HookMoves DEF Next, HookNext, Ingest
  <2>3. QED BY <2>1, <2>2, RequestDrawsNear, HookDrawsNear
<1>2. QED BY <1>1, Invariance, PTL DEF Spec, RepliesDrawNear
-----------------------------------------------------------------------------
(* Blank titles                                                            *)

\* A request that asked for a title of blanks.
Blanker(q) == q \in Requests /\ Op(q) = "update" /\ req[q].call.title = Spaces

\* Nobody who did is answered with success.
BlankersFail == \A q \in Requests : Blanker(q) => req[q].pc # "ok"

\* A blank title was stored by such a request, or made from another one.
BlanksTraced ==
  \A i \in Items : \A n \in 1..Len(versions[i]) : versions[i][n].title = Blank =>
    \E m \in 1..n : Blanker(versions[i][m].by)

(* The title of an update's record is the payload's, stripped, if it has   *)
(* one.                                                                    *)
LEMMA MergeTitle ==
  ASSUME NEW c \in Calls, NEW old \in Version
  PROVE  Merge(c, old).title = IF c.title = None THEN old.title ELSE Strip(c.title)
  BY DEF Merge, WithStatus, Version

(* A blank record comes of a request for it or of a blank record.          *)
LEMMA BlankRecord ==
  ASSUME NEW q \in Requests, NEW c \in Calls, c = req[q].call,
         c.op \in {"update", "delete"}, NEW old \in Version,
         old = versions[req[q].item][req[q].base]
  PROVE  /\ Record(q).title = Blank => Blanker(q) \/ old.title = Blank
         /\ Blanker(q) => Record(q).title = Blank
<1>1. CASE c.op = "update"
  <2>1. Record(q).title = IF c.title = None THEN old.title ELSE Strip(c.title)
    BY <1>1, MergeTitle DEF Record, Op
  <2>2. c.title # Blank /\ Spaces # None
    OBVIOUS
  <2>3. QED BY <1>1, <2>1, <2>2 DEF Strip, Blanker, Op
<1>2. CASE c.op = "delete"
  <2>1. Record(q) = WithStatus(old, "archived") /\ "archived" \in ItemStatus
    BY <1>2 DEF Record, Op, ItemStatus
  <2>2. Record(q).title = old.title /\ ~ Blanker(q)
    BY <1>2, <2>1, WithStatusIs DEF Blanker, Op
  <2>3. QED BY <2>2
<1>3. QED BY <1>1, <1>2

(* The request that asked for a blank title never comes to success: its    *)
(* record does not validate.                                               *)
LEMMA BlankerStaysFailed ==
  ASSUME IInv, CallsKept, BlankersFail, NEW q \in Requests,
         Arrive(q) \/ Serve(q) \/ Crash(q)
  PROVE  BlankersFail'
<1>1. \A p \in Requests \ {q} : req'[p] = req[p]
  BY RequestMoves
<1>2. \A p \in Requests \ {q} : Blanker(p)' => req'[p].pc # "ok"
  BY <1>1 DEF BlankersFail, Blanker, Op
<1>3. /\ req \in [Requests -> RequestState] /\ req[q] \in RequestState
      /\ ReqOK(q) /\ TableTypeOK
  BY DEF IInv, TypeOK, ApiTypeOK
<1>4. ASSUME Blanker(q)', req'[q].pc = "ok"
      PROVE  FALSE
  <2>1. CASE Arrive(q)
    <3>1. PICK c, p : /\ p = CASE c.op = "create" -> "put"
                              [] c.op = "list"   -> "list"
                              [] OTHER           -> "read"
                      /\ req' = [req EXCEPT ![q].call = c, ![q].item = c.item, ![q].pc = p]
      BY <2>1 DEF Arrive
    <3>2. p \in {"put", "list", "read"}
      BY <3>1
    <3>3. req'[q].pc = p
      BY <1>3, <3>1 DEF RequestState
    <3>4. QED BY <1>4, <3>2, <3>3
  <2>2. req[q].pc # "new" => req'[q].call = req[q].call
    BY DEF CallsKept
  <2>3. req[q].pc # "new" => Op(q) = "update" /\ Blanker(q) /\ req[q].call \in Calls
    BY <1>3, <1>4, <2>2 DEF Blanker, Op, ReqOK
  <2>4. CASE List(q)
    BY <1>3, <2>3, <2>4 DEF List, ReqOK, Op
  <2>5. CASE Get(q)
    <3>1. req[q].pc = "read" /\ Op(q) = "get"
      BY <2>5 DEF Get
    <3>2. QED BY <2>3, <3>1
  <2>6. CASE Read(q)
    BY <1>3, <1>4, <2>6 DEF Read
  <2>7. CASE Create(q)
    BY <2>3, <2>7 DEF Create
  <2>8. CASE Put(q)
    <3>1. PICK p \in {"audit", "put"} : req' = [req EXCEPT ![q].pc = p, ![q].sends = @ + 1]
      BY <2>8 DEF Put
    <3>2. QED BY <1>3, <1>4, <3>1 DEF RequestState
  <2>9. CASE Audit(q)
    <3>1. req[q].pc = "audit" /\ \E p \in {Answer(q), "failed"} : req' = [req EXCEPT ![q].pc = p]
      BY <2>9 DEF Audit
    <3>2. Answer(q) = "ok"
      BY <1>3, <1>4, <3>1
    <3>3. /\ req[q].item \in Items /\ req[q].base \in 1..Len(versions[req[q].item])
          /\ req[q].call.op = "update"
      BY <1>3, <2>3, <3>1 DEF ReqOK, Op
    <3>4. versions[req[q].item][req[q].base] \in Version
      <4>1. PICK s \in Seq(Version) : s = versions[req[q].item]
        BY <1>3, <3>3 DEF TableTypeOK
      <4>2. QED BY <3>3, <4>1, ElementOfSeq
    <3>5. Record(q).title = Blank
      BY <2>3, <3>1, <3>3, <3>4, BlankRecord
    <3>6. Answer(q) = "failed"
      BY <2>3, <3>1, <3>5 DEF Answer, Served
    <3>7. QED BY <3>2, <3>6
  <2>10. CASE Crash(q)
    BY <1>3, <1>4, <2>10 DEF Crash
  <2>11. QED BY <2>1, <2>4, <2>5, <2>6, <2>7, <2>8, <2>9, <2>10 DEF Serve
<1>5. QED BY <1>2, <1>4 DEF BlankersFail

(* Who wrote a version goes on to be what it was.                          *)
LEMMA BlankersKept ==
  ASSUME IInv, CallsKept, NEW i \in Items, NEW n \in 1..Len(versions[i]),
         Blanker(versions[i][n].by), NEW b, b = versions[i][n].by
  PROVE  Blanker(b)'
  BY AuthorsAsked DEF CallsKept, Blanker, Op

(* Steps that store nothing leave the traces.                              *)
LEMMA TracesSame ==
  ASSUME IInv, CallsKept, BlanksTraced, versions' = versions
  PROVE  BlanksTraced'
<1> SUFFICES ASSUME NEW i \in Items, NEW n \in 1..Len(versions[i]),
                    versions[i][n].title = Blank
             PROVE  \E m \in 1..n : Blanker(versions[i][m].by)'
  BY DEF BlanksTraced
<1>1. PICK m \in 1..n : Blanker(versions[i][m].by)
  BY DEF BlanksTraced
<1>2. m \in 1..Len(versions[i])
  BY LenProperties DEF IInv, TypeOK, TableTypeOK
<1>3. PICK b : b = versions[i][m].by
  OBVIOUS
<1>4. Blanker(b)'
  BY <1>1, <1>2, <1>3, BlankersKept
<1>5. Blanker(versions[i][m].by)'
  BY <1>3, <1>4
<1>6. QED BY <1>5

(* A version that is not blank, was asked to be, or was made from a blank  *)
(* one, leaves them too.                                                   *)
LEMMA TracesGrow ==
  ASSUME IInv, CallsKept, BlanksTraced, NEW i \in Items, NEW v \in Version, Grows(i, v),
         v.title = Blank => \/ Blanker(v.by)'
                            \/ \E b \in 1..Len(versions[i]) : versions[i][b].title = Blank
  PROVE  BlanksTraced'
<1>1. /\ Len(versions[i]) \in Nat /\ Len(versions'[i]) = Len(versions[i]) + 1
      /\ versions'[i][Len(versions[i]) + 1] = v
      /\ \A n \in 1..Len(versions[i]) : versions'[i][n] = versions[i][n]
      /\ \A j \in Items \ {i} : versions'[j] = versions[j]
  BY Growth DEF IInv, TypeOK
<1>2. ASSUME NEW j \in Items, NEW n \in 1..Len(versions[j]), versions[j][n].title = Blank
      PROVE  \E m \in 1..n : Blanker(versions[j][m].by)'
  <2>1. PICK m \in 1..n : Blanker(versions[j][m].by)
    BY <1>2 DEF BlanksTraced
  <2>2. m \in 1..Len(versions[j])
    BY LenProperties DEF IInv, TypeOK, TableTypeOK
  <2>3. PICK b : b = versions[j][m].by
    OBVIOUS
  <2>4. Blanker(b)'
    BY <2>1, <2>2, <2>3, BlankersKept
  <2>5. versions'[j][m] = versions[j][m]
    BY <1>1, <2>2
  <2>6. Blanker(versions[j][m].by)'
    BY <2>3, <2>4, <2>5
  <2>7. QED BY <2>6
<1>3. SUFFICES ASSUME NEW j \in Items, NEW n \in 1..Len(versions'[j]),
                      versions'[j][n].title = Blank
               PROVE  \E m \in 1..n : Blanker(versions[j][m].by)'
  BY DEF BlanksTraced
<1>4. CASE j # i
  BY <1>1, <1>2, <1>3, <1>4
<1>5. CASE j = i /\ n # Len(versions[i]) + 1
  <2>1. n \in 1..Len(versions[i])
    BY <1>1, <1>3, <1>5
  <2>2. QED BY <1>1, <1>2, <1>3, <1>5, <2>1
<1>6. CASE j = i /\ n = Len(versions[i]) + 1
  <2>1. versions'[i][n] = v /\ n \in 1..n
    BY <1>1, <1>6
  <2>2. CASE Blanker(v.by)'
    <3>1. Blanker(versions[i][n].by)'
      BY <2>1, <2>2
    <3>2. QED BY <1>6, <2>1, <3>1
  <2>3. CASE \E b \in 1..Len(versions[i]) : versions[i][b].title = Blank
    <3>1. PICK b \in 1..Len(versions[i]) : versions[i][b].title = Blank
      BY <2>3
    <3>2. PICK m \in 1..b : Blanker(versions[i][m].by)'
      BY <1>2, <3>1
    <3>3. m \in 1..n
      BY <1>1, <1>6, <3>1, <3>2
    <3>4. QED BY <1>6, <3>2, <3>3
  <2>4. QED BY <1>3, <1>6, <2>1, <2>2, <2>3
<1>7. QED BY <1>4, <1>5, <1>6

(* The puts of the requests.                                               *)
LEMMA PutTraced ==
  ASSUME IInv, CallsKept, BlanksTraced, NEW q \in Requests, Put(q)
  PROVE  BlanksTraced'
<1>1. /\ req[q].pc = "put" /\ Op(q) # "create" /\ ReqOK(q) /\ TableTypeOK
      /\ Overwrite(q, req[q].item, req[q].base, Record(q))
  BY DEF Put, IInv, TypeOK
<1>2. PICK c \in Calls : c = req[q].call /\ c.op \in {"update", "delete"}
  BY <1>1 DEF ReqOK, Op
<1>3. PICK i \in Items : i = req[q].item /\ req[q].base \in 1..Len(versions[i])
  BY <1>1, <1>2 DEF ReqOK
<1>4. PICK n \in 1..Len(versions[i]) : n = req[q].base
  BY <1>3
<1>5. PICK old \in Version : old = versions[i][n]
  BY <1>1, ElementOfSeq DEF TableTypeOK
<1>6. Record(q).title = Blank => Blanker(q) \/ old.title = Blank
  BY <1>2, <1>3, <1>4, <1>5, BlankRecord
<1>7. PICK v : v = [Record(q) EXCEPT !.by = q, !.base = req[q].base]
  OBVIOUS
<1>8. v \in Version /\ v.by = q
  BY <1>1, <1>7, RecordIs
<1>9. v.title = Record(q).title
  <2>1. Record(q) \in Version
    <3>1. CASE c.op = "update"
      BY <1>2, <1>3, <1>4, <1>5, <3>1, MergeIs DEF Record, Op
    <3>2. CASE c.op = "delete"
      <4>1. "archived" \in ItemStatus
        BY DEF ItemStatus
      <4>2. QED BY <1>2, <1>3, <1>4, <1>5, <3>2, <4>1, WithStatusIs DEF Record, Op
    <3>3. QED BY <1>2, <3>1, <3>2
  <2>2. QED BY <1>7, <2>1 DEF Version
<1>10. Grows(i, v)
  BY <1>1, <1>3, <1>7 DEF Overwrite, Grows
<1>11. Blanker(q) => Blanker(q)'
  BY <1>1 DEF CallsKept, Blanker, Op
<1>12. Blanker(q) => Blanker(v.by)'
  BY <1>8, <1>11
<1>13. QED BY <1>5, <1>6, <1>8, <1>9, <1>10, <1>12, TracesGrow

LEMMA CreateTraced ==
  ASSUME IInv, CallsKept, BlanksTraced, NEW q \in Requests, Create(q)
  PROVE  BlanksTraced'
<1>1. req[q].pc = "put" /\ Op(q) = "create" /\ ReqOK(q)
  BY DEF Create, IInv
<1>2. PICK i \in Items : StoreNewItem(q, User(q), i, req[q].call.title, req[q].call.body, req[q].call.status)
  BY DEF Create
<1>3. PICK c \in Calls : c = req[q].call /\ c.op = "create"
  BY <1>1 DEF ReqOK, Op
<1>4. /\ c.user \in Users /\ c.title \in Titles /\ c.body \in Bodies /\ c.status \in ItemStatus
      /\ c.title # Blank
  BY <1>3 DEF Call
<1>5. PICK v \in Version :
        v = [owner |-> c.user, title |-> c.title, body |-> c.body, status |-> c.status,
             gsi1pk |-> c.status, by |-> q, base |-> 0]
  BY <1>4 DEF Version
<1>6. Append(<<>>, v) = <<v>> /\ v.title # Blank
  BY <1>4, <1>5
<1>7. Grows(i, v)
  BY <1>2, <1>3, <1>5, <1>6 DEF StoreNewItem, User, Grows
<1>8. QED BY <1>6, <1>7, TracesGrow

(* The ETL's and the webhook's.                                            *)
LEMMA IngestTraced ==
  ASSUME IInv, CallsKept, BlanksTraced, Ingest
  PROVE  BlanksTraced'
<1>1. PICK r \in Rows : StoreNewItem(Etl, r.owner, r.item, r.title, r.body, "active")
  BY DEF Ingest
<1>2. /\ r.item \in Items /\ r.owner \in Users /\ r.title \in Titles /\ r.title # Blank
      /\ r.body \in Bodies /\ "active" \in ItemStatus
  BY DEF ItemStatus
<1>3. PICK v \in Version : v = [owner |-> r.owner, title |-> r.title, body |-> r.body, status |-> "active",
                               gsi1pk |-> "active", by |-> Etl, base |-> 0]
  BY <1>2 DEF Version
<1>4. Append(<<>>, v) = <<v>> /\ v.title # Blank
  BY <1>2, <1>3
<1>5. Grows(r.item, v)
  BY <1>1, <1>3, <1>4 DEF StoreNewItem, Grows
<1>6. QED BY <1>2, <1>4, <1>5, TracesGrow

LEMMA PutStatusTraced ==
  ASSUME IInv, CallsKept, BlanksTraced, NEW h \in Hooks, PutStatus(h)
  PROVE  BlanksTraced'
<1>1. /\ hook[h].pc = "put" /\ HookGood(h, hook[h]) /\ TableTypeOK /\ hook[h] \in HookState
      /\ Overwrite(h, hook[h].item, hook[h].base,
           WithStatus(versions[hook[h].item][hook[h].base], Target(hook[h].notice)))
  BY DEF PutStatus, IInv, TypeOK, HookOK, HookTypeOK
<1>2. PICK i \in Items, n \in Nat :
        i = hook[h].item /\ n = hook[h].base /\ n \in 1..Len(versions[i])
  BY <1>1 DEF HookGood, HookState
<1>3. PICK old \in Version : old = versions[i][n]
  BY <1>1, <1>2, ElementOfSeq DEF TableTypeOK
<1>4. Target(hook[h].notice) \in ItemStatus
  BY DEF Target, ItemStatus
<1>5. PICK w \in Version : /\ w = WithStatus(old, Target(hook[h].notice))
                           /\ w.title = old.title
  BY <1>4, WithStatusIs
<1>6. PICK v \in Version : v = [w EXCEPT !.by = h, !.base = n]
  BY DEF Version
<1>7. v.title = old.title
  BY <1>5, <1>6 DEF Version
<1>8. Grows(i, v)
  BY <1>1, <1>2, <1>3, <1>5, <1>6 DEF Overwrite, Grows
<1>9. QED BY <1>2, <1>3, <1>7, <1>8, TracesGrow

LEMMA NextTraces == IInv /\ BlankersFail /\ BlanksTraced /\ [Next]_vars
                      => BlankersFail' /\ BlanksTraced'
<1> SUFFICES ASSUME IInv, BlankersFail, BlanksTraced, [Next]_vars
             PROVE  BlankersFail' /\ BlanksTraced'
  OBVIOUS
<1>1. CallsKept
  BY NextKeepsCalls
<1>2. req' = req => BlankersFail'
  BY DEF BlankersFail, Blanker, Op
<1>3. versions' = versions => BlanksTraced'
  BY <1>1, TracesSame
<1>4. ASSUME NEW q \in Requests, Arrive(q) \/ Serve(q) \/ Crash(q)
      PROVE  BlankersFail' /\ BlanksTraced'
  <2>1. BlankersFail'
    BY <1>1, <1>4, BlankerStaysFailed
  <2>2. CASE Arrive(q) \/ List(q) \/ Get(q) \/ Read(q) \/ Audit(q) \/ Crash(q)
    BY <1>3, <2>1, <2>2 DEF Arrive, List, Get, Read, Audit, Crash
  <2>3. CASE Create(q) \/ Put(q)
    BY <1>1, <2>1, <2>3, CreateTraced, PutTraced
  <2>4. QED BY <1>4, <2>2, <2>3 DEF Serve
<1>5. ASSUME NEW h \in Hooks, Receive(h) \/ Sync(h) \/ HookCrash(h), UNCHANGED req
      PROVE  BlankersFail' /\ BlanksTraced'
  <2>1. CASE \/ Receive(h) \/ Dispatch(h) \/ Scan(h) \/ GetItem(h) \/ AuditSync(h)
             \/ Comment(h) \/ HookCrash(h)
    BY <1>2, <1>3, <1>5, <2>1
       DEF Receive, Dispatch, Scan, GetItem, AuditSync, Comment, HookCrash
  <2>2. CASE PutStatus(h)
    BY <1>1, <1>2, <1>5, <2>2, PutStatusTraced
  <2>3. QED BY <1>5, <2>1, <2>2 DEF Sync
<1>6. CASE Ingest
  BY <1>1, <1>2, <1>6, IngestTraced DEF Ingest
<1>7. CASE UNCHANGED vars
  BY <1>2, <1>3, <1>7 DEF vars
<1>8. QED BY <1>4, <1>5, <1>6, <1>7 DEF Next, ApiNext, HookNext

(* A title gets lost by an update with a title of blanks and by nothing    *)
(* else, and that update is never answered with success (entities.py:88,   *)
(* items.py:141), however stale the records are that others pass it on     *)
(* from.                                                                   *)
THEOREM BlanksAlwaysHaveACause == Spec => []BlanksHaveACause
<1>1. Init => BlankersFail /\ BlanksTraced
  <2> SUFFICES ASSUME Init PROVE BlankersFail /\ BlanksTraced
    OBVIOUS
  <2>1. BlankersFail
    BY DEF Init, ApiInit, BlankersFail
  <2>2. \A i \in Items : Len(versions[i]) = 0
    BY DEF Init, TableInit
  <2>3. BlanksTraced
    <3>1. \A i \in Items : \A n \in 1..Len(versions[i]) : FALSE
      BY <2>2
    <3>2. QED BY <3>1 DEF BlanksTraced
  <2>4. QED BY <2>1, <2>3
<1>2. IInv /\ BlankersFail /\ BlanksTraced /\ [Next]_vars => BlankersFail' /\ BlanksTraced'
  BY NextTraces
<1>3. BlankersFail /\ BlanksTraced => BlanksHaveACause
  BY DEF BlankersFail, BlanksTraced, Blanker, BlanksHaveACause
<1>4. QED BY <1>1, <1>2, <1>3, Invariance, PTL DEF Spec
=============================================================================
