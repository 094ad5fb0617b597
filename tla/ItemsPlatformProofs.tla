------------------------ MODULE ItemsPlatformProofs ------------------------
(***************************************************************************)
(* Proofs about ItemsPlatform, for any number of items, users, requests    *)
(* and notices and every combination of faults.                            *)
(***************************************************************************)
EXTENDS ItemsPlatform, SequenceTheorems, TLAPS

USE TableAssumption, ApiAssumption, WebhookAssumption, PlatformAssumption

-----------------------------------------------------------------------------
(* The inductive invariant                                                 *)

\* Where a request is, what it has read and what it has stored and audited.
ReqOK(q) ==
  LET r == req[q]
  IN  /\ r.pc # "new" => r.call \in Calls
      /\ r.pc = "list" => r.call.op = "list"
      /\ r.pc = "read" => r.call.op \in {"get", "update", "delete"} /\ r.item = r.call.item
      /\ r.pc \in {"put", "audit"} =>
           /\ r.call.op \in {"create", "update", "delete"}
           /\ r.call.op # "create" => /\ r.item \in Items
                                      /\ r.base \in 1..Len(versions[r.item])
                                      /\ versions[r.item][1].owner = r.call.user
      /\ r.pc \in {"new", "read"} => r.sends = 0
      /\ r.pc = "put" => r.sends < MaxSends
      /\ r.pc = "audit" => r.item \in Items /\ Wrote(q, r.item)
      /\ \A i \in Items : Wrote(q, i) =>
           \/ r.pc \in {"put", "audit", "failed", "conflict"}
           \/ r.pc = "ok" /\ Audited(q, r.item)
      /\ r.pc = "ok" /\ r.call.op \notin {"get", "list"} => \E i \in Items : Wrote(q, i)

\* The items that may have been found when pulse p was looked for.
Candidates(p) == {i \in Stored : Mentioned(i, Len(versions[i]), p)}

\* Where an execution of the webhook is in its loop, and what it leaves behind.
HookGood(h, e) ==
  /\ e.pc # "new" => e.notice \in Notices
  /\ e.pc \in {"parse", "scan", "get", "put", "audit"} => Configured /\ e.notice.signed
  /\ e.pc = "scan" => e.notice.pulse \in Pulses
  /\ e.pc \in {"get", "put", "audit"} => e.found \subseteq Candidates(e.notice.pulse)
  /\ e.left \subseteq e.found
  /\ e.pc \in {"put", "audit"} => e.item \in e.left
  /\ e.pc = "put" => e.base \in 1..Len(versions[e.item]) /\ e.sends < MaxSends
  /\ e.pc = "audit" => StaleReads \/ Wrote(h, e.item)
  /\ e.pc \in {"comment", "handled"} => e.left = {}
  /\ e.pc \in {"get", "put", "audit", "comment", "handled"} =>
       \A i \in e.found \ e.left : Audited(h, i) /\ (StaleReads \/ Wrote(h, i))
  /\ e.pc \in {"new", "parse", "scan", "unhandled", "refused"} =>
       \A i \in Items : ~ Audited(h, i) /\ ~ Wrote(h, i)
  /\ \A i \in Items : Wrote(h, i) /\ ~ Audited(h, i) =>
       e.item = i /\ e.pc \in {"put", "audit", "failed"}

HookOK(h) == HookGood(h, hook[h])

\* What the versions of an item have to do with each other and their authors.
History == IndexFollowsStatus /\ OwnersOnly /\ FreshUpdatesMerge

\* An audited request has stored something.
AuditInv == \A e \in audit : e.by \in Requests => Wrote(e.by, e.item)

IInv ==
  /\ TypeOK
  /\ \A q \in Requests : ReqOK(q)
  /\ \A h \in Hooks : HookOK(h)
  /\ History
  /\ AuditInv

-----------------------------------------------------------------------------
(* How the table grows                                                     *)

\* One version is stored, or none.
Grows(i, v) == versions' = [versions EXCEPT ![i] = Append(@, v)]

(* A version that is stored leaves the others where they are.              *)
LEMMA Growth ==
  ASSUME TableTypeOK, NEW i \in Items, NEW v \in Version, Grows(i, v)
  PROVE  /\ versions' \in [Items -> Seq(Version)]
         /\ Len(versions[i]) \in Nat /\ Len(versions'[i]) = Len(versions[i]) + 1
         /\ versions'[i][Len(versions[i]) + 1] = v
         /\ \A n \in 1..Len(versions[i]) : versions'[i][n] = versions[i][n]
         /\ \A j \in Items \ {i} : versions'[j] = versions[j]
<1>1. versions[i] \in Seq(Version) /\ versions'[i] = Append(versions[i], v)
  BY DEF TableTypeOK, Grows
<1>2. Append(versions[i], v) \in Seq(Version)
  BY <1>1
<1>3. /\ Len(versions'[i]) = Len(versions[i]) + 1
      /\ versions'[i][Len(versions[i]) + 1] = v
      /\ \A n \in 1..Len(versions[i]) : versions'[i][n] = versions[i][n]
  BY <1>1, AppendProperties
<1>4. QED BY <1>1, <1>2, <1>3 DEF TableTypeOK, Grows

(* It adds its author to the item's authors.                               *)
LEMMA GrowthWrote ==
  ASSUME TableTypeOK, NEW i \in Items, NEW v \in Version, Grows(i, v)
  PROVE  \A a, j : j \in Items => (Wrote(a, j)' <=> Wrote(a, j) \/ (a = v.by /\ j = i))
<1> SUFFICES ASSUME NEW a, NEW j \in Items
             PROVE  Wrote(a, j)' <=> Wrote(a, j) \/ (a = v.by /\ j = i)
  OBVIOUS
<1>1. CASE j # i
  BY <1>1, Growth DEF Wrote
<1>2. CASE j = i
  <2>1. /\ Len(versions[i]) \in Nat /\ Len(versions'[i]) = Len(versions[i]) + 1
        /\ versions'[i][Len(versions[i]) + 1] = v
        /\ \A n \in 1..Len(versions[i]) : versions'[i][n] = versions[i][n]
    BY Growth
  <2>2. \A n \in 1..(Len(versions[i]) + 1) : n \in 1..Len(versions[i]) \/ n = Len(versions[i]) + 1
    BY <2>1
  <2>3. Wrote(a, j)' => Wrote(a, j) \/ (a = v.by /\ j = i)
    BY <1>2, <2>1, <2>2 DEF Wrote
  <2>4. Wrote(a, j) => Wrote(a, j)'
    BY <1>2, <2>1 DEF Wrote
  <2>5. a = v.by => Wrote(a, j)'
    BY <1>2, <2>1 DEF Wrote
  <2>6. QED BY <1>2, <2>3, <2>4, <2>5
<1>3. QED BY <1>1, <1>2

\* What a step does to the table is author a's doing, if anyone's.
StepOf(a) ==
  /\ \/ versions' = versions
     \/ \E i \in Items : \E v \in Version : v.by = a /\ Grows(i, v)
  /\ audit \subseteq audit'
  /\ \A e \in audit' \ audit : e.by = a

(* What others have stored and audited stays as it was.                    *)
LEMMA StepOfWrote ==
  ASSUME TableTypeOK, NEW a, StepOf(a)
  PROVE  /\ \A b, j : j \in Items => (Wrote(b, j) => Wrote(b, j)')
         /\ \A b, j : j \in Items /\ b # a => (Wrote(b, j)' => Wrote(b, j))
         /\ \A b, j : Audited(b, j) => Audited(b, j)'
         /\ \A b, j : b # a => (Audited(b, j)' => Audited(b, j))
<1>1. \A b, j : Audited(b, j) => Audited(b, j)'
  BY DEF StepOf, Audited
<1>2. \A b, j : b # a => (Audited(b, j)' => Audited(b, j))
  BY DEF StepOf, Audited
<1>3. CASE versions' = versions
  BY <1>1, <1>2, <1>3 DEF Wrote
<1>4. ASSUME NEW i \in Items, NEW v \in Version, v.by = a, Grows(i, v)
      PROVE  /\ \A b, j : j \in Items => (Wrote(b, j) => Wrote(b, j)')
             /\ \A b, j : j \in Items /\ b # a => (Wrote(b, j)' => Wrote(b, j))
  BY <1>4, GrowthWrote
<1>5. QED BY <1>1, <1>2, <1>3, <1>4 DEF StepOf

(* The versions of an item stay where they are.                            *)
LEMMA StepOfVersions ==
  ASSUME TableTypeOK, NEW a, StepOf(a), NEW i \in Items
  PROVE  /\ Len(versions[i]) \in Nat /\ Len(versions'[i]) \in Nat
         /\ Len(versions[i]) <= Len(versions'[i])
         /\ \A n \in 1..Len(versions[i]) : versions'[i][n] = versions[i][n]
         /\ i \in Stored => i \in Stored'
<1>1. versions[i] \in Seq(Version) /\ Len(versions[i]) \in Nat
  BY LenProperties DEF TableTypeOK
<1>2. CASE versions' = versions
  BY <1>1, <1>2 DEF Stored
<1>3. ASSUME NEW j \in Items, NEW v \in Version, Grows(j, v)
      PROVE  /\ Len(versions'[i]) \in Nat /\ Len(versions[i]) <= Len(versions'[i])
             /\ \A n \in 1..Len(versions[i]) : versions'[i][n] = versions[i][n]
             /\ i \in Stored => i \in Stored'
  <2>1. CASE i = j
    <3>1. /\ Len(versions'[i]) = Len(versions[i]) + 1
          /\ \A n \in 1..Len(versions[i]) : versions'[i][n] = versions[i][n]
      BY <1>3, <2>1, Growth
    <3>2. versions'[i] # <<>>
      BY <1>1, <3>1
    <3>3. QED BY <1>1, <3>1, <3>2 DEF Stored
  <2>2. CASE i # j
    BY <1>1, <1>3, <2>2, Growth DEF Stored
  <2>3. QED BY <2>1, <2>2
<1>4. QED BY <1>1, <1>2, <1>3 DEF StepOf

(* What once mentioned a pulse remains among its candidates.               *)
LEMMA CandidatesStay ==
  ASSUME TableTypeOK, NEW a, StepOf(a), NEW p
  PROVE  Candidates(p) \subseteq Candidates(p)'
<1> SUFFICES ASSUME NEW i \in Items, i \in Stored, Mentioned(i, Len(versions[i]), p)
             PROVE  i \in Stored' /\ Mentioned(i, Len(versions[i]), p)'
  BY DEF Candidates, Stored
<1>1. /\ Len(versions[i]) \in Nat /\ Len(versions'[i]) \in Nat
      /\ Len(versions[i]) <= Len(versions'[i])
      /\ \A n \in 1..Len(versions[i]) : versions'[i][n] = versions[i][n]
      /\ i \in Stored'
  BY StepOfVersions
<1>2. PICK m \in 1..Len(versions[i]) : Matches(versions[i][m].body, p)
  BY DEF Mentioned
<1>3. m \in 1..Len(versions'[i]) /\ Matches(versions'[i][m].body, p)
  BY <1>1, <1>2
<1> QED BY <1>1, <1>3 DEF Mentioned

(* What others do leaves a request as it was.                              *)
LEMMA ReqStable ==
  ASSUME TypeOK, NEW a, StepOf(a), NEW q \in Requests, q # a, ReqOK(q), req'[q] = req[q]
  PROVE  ReqOK(q)'
<1> DEFINE r == req[q]
<1>1. TableTypeOK /\ r \in RequestState
  BY DEF TypeOK, ApiTypeOK
<1>2. \A i \in Items : Wrote(q, i)' <=> Wrote(q, i)
  BY <1>1, StepOfWrote
<1>3. \A i : Audited(q, i) => Audited(q, i)'
  BY <1>1, StepOfWrote
<1>4. r.pc \in {"put", "audit"} /\ r.call.op # "create" =>
        /\ r.item \in Items
        /\ r.base \in 1..Len(versions'[r.item])
        /\ versions'[r.item][1].owner = r.call.user
  <2> SUFFICES ASSUME r.pc \in {"put", "audit"}, r.call.op # "create"
               PROVE  /\ r.item \in Items
                      /\ r.base \in 1..Len(versions'[r.item])
                      /\ versions'[r.item][1].owner = r.call.user
    OBVIOUS
  <2>1. /\ r.item \in Items /\ r.base \in 1..Len(versions[r.item])
        /\ versions[r.item][1].owner = r.call.user
    BY DEF ReqOK
  <2>2. /\ Len(versions[r.item]) \in Nat /\ Len(versions'[r.item]) \in Nat
        /\ Len(versions[r.item]) <= Len(versions'[r.item])
        /\ \A n \in 1..Len(versions[r.item]) : versions'[r.item][n] = versions[r.item][n]
    BY <1>1, <2>1, StepOfVersions
  <2>3. QED BY <2>1, <2>2
<1>5. r.pc = "audit" => r.item \in Items /\ Wrote(q, r.item)'
  BY <1>2 DEF ReqOK
<1>6. \A i \in Items : Wrote(q, i)' =>
        \/ r.pc \in {"put", "audit", "failed", "conflict"}
        \/ r.pc = "ok" /\ Audited(q, r.item)'
  BY <1>2, <1>3 DEF ReqOK
<1>7. r.pc = "ok" /\ r.call.op \notin {"get", "list"} => \E i \in Items : Wrote(q, i)'
  BY <1>2 DEF ReqOK
<1>8. QED
  BY <1>4, <1>5, <1>6, <1>7 DEF ReqOK

(* What others do leaves an execution of the webhook as it was.            *)
LEMMA HookStable ==
  ASSUME TypeOK, NEW a, StepOf(a), NEW h \in Hooks, h # a, HookOK(h), hook'[h] = hook[h]
  PROVE  HookOK(h)'
<1> DEFINE e == hook[h]
<1>1. TableTypeOK /\ e \in HookState
  BY DEF TypeOK, HookTypeOK
<1>2. /\ \A i \in Items : Wrote(h, i)' <=> Wrote(h, i)
      /\ \A i : Audited(h, i)' <=> Audited(h, i)
  BY <1>1, StepOfWrote
<1>3. e.found \subseteq Items /\ e.left \subseteq e.found
  BY <1>1 DEF HookState, HookOK, HookGood
<1>5. e.pc \in {"get", "put", "audit"} => e.found \subseteq Candidates(e.notice.pulse)'
  <2>1. PICK p : p = e.notice.pulse /\ p = e.notice.pulse'
    OBVIOUS
  <2>2. e.pc \in {"get", "put", "audit"} => e.found \subseteq Candidates(p)
    BY <2>1 DEF HookOK, HookGood
  <2>3. Candidates(p) \subseteq Candidates(p)'
    BY <1>1, CandidatesStay
  <2>4. QED BY <2>1, <2>2, <2>3
<1>6. e.pc \in {"put", "audit"} => e.item \in Items
  BY <1>3 DEF HookOK, HookGood
<1>7. e.pc = "put" => e.base \in 1..Len(versions'[e.item]) /\ e.sends < MaxSends
  <2> SUFFICES ASSUME e.pc = "put" PROVE e.base \in 1..Len(versions'[e.item]) /\ e.sends < MaxSends
    OBVIOUS
  <2>1. e.base \in 1..Len(versions[e.item]) /\ e.sends < MaxSends
    BY DEF HookOK, HookGood
  <2>2. /\ Len(versions[e.item]) \in Nat /\ Len(versions'[e.item]) \in Nat
        /\ Len(versions[e.item]) <= Len(versions'[e.item])
    BY <1>1, <1>6, StepOfVersions
  <2>3. QED BY <2>1, <2>2
<1>8. e.pc = "audit" => StaleReads \/ Wrote(h, e.item)'
  BY <1>2, <1>6 DEF HookOK, HookGood
<1>9. e.pc \in {"get", "put", "audit", "comment", "handled"} =>
        \A i \in e.found \ e.left : Audited(h, i)' /\ (StaleReads \/ Wrote(h, i)')
  BY <1>2, <1>3 DEF HookOK, HookGood
<1>10. /\ e.pc \in {"new", "parse", "scan", "unhandled", "refused"} =>
            \A i \in Items : ~ Audited(h, i)' /\ ~ Wrote(h, i)'
       /\ \A i \in Items : Wrote(h, i)' /\ ~ Audited(h, i)' =>
            e.item = i /\ e.pc \in {"put", "audit", "failed"}
  BY <1>2 DEF HookOK, HookGood
<1>11. QED
  BY <1>5, <1>7, <1>8, <1>9, <1>10 DEF HookOK, HookGood

\* What requests and executions have been asked to do stays as it is.
CallsKept ==
  /\ \A q \in Requests : req[q].pc # "new" => req'[q].call = req[q].call
  /\ \A h \in Hooks : hook[h].pc # "new" => hook'[h].notice = hook[h].notice

(* An author has been asked for something.                                 *)
LEMMA AuthorsAsked ==
  ASSUME IInv, NEW i \in Items, NEW n \in 1..Len(versions[i])
  PROVE  /\ versions[i][n] \in Version
         /\ versions[i][n].by \in Requests => req[versions[i][n].by].pc # "new"
         /\ versions[i][n].by \in Hooks => hook[versions[i][n].by].pc # "new"
<1>1. Wrote(versions[i][n].by, i)
  BY DEF Wrote
<1>2. versions[i] \in Seq(Version)
  BY DEF IInv, TypeOK, TableTypeOK
<1>3. versions[i][n] \in Version
  BY <1>2, ElementOfSeq
<1>4. ASSUME versions[i][n].by \in Requests PROVE req[versions[i][n].by].pc # "new"
  BY <1>1, <1>4 DEF IInv, ReqOK
<1>5. ASSUME versions[i][n].by \in Hooks PROVE hook[versions[i][n].by].pc # "new"
  BY <1>1, <1>5 DEF IInv, HookOK, HookGood
<1>6. QED BY <1>3, <1>4, <1>5

(* What holds of a stored version goes on to hold of it.                   *)
LEMMA OldVersions ==
  ASSUME IInv, CallsKept, NEW i \in Items, NEW n \in 1..Len(versions[i]),
         NEW v, v = versions[i][n]
  PROVE  /\ v.gsi1pk = v.status
         /\ v.owner = versions[i][1].owner
         /\ v.by \in Requests => req'[v.by].call.user = v.owner
         /\ v.by \in Hooks =>
              /\ Configured /\ hook'[v.by].notice.signed
              /\ Mentioned(i, n - 1, hook[v.by].notice.pulse)
              /\ hook'[v.by].notice = hook[v.by].notice
         /\ n # 1 /\ v.base = n - 1 => Merged(versions[i][n - 1], v)
         /\ v.by \in Requests => req'[v.by].call = req[v.by].call
<1>1. /\ v.by \in Requests => req[v.by].pc # "new"
      /\ v.by \in Hooks => hook[v.by].pc # "new"
  BY AuthorsAsked
<1>2. /\ v.by \in Requests => req'[v.by].call = req[v.by].call
      /\ v.by \in Hooks => hook'[v.by].notice = hook[v.by].notice
  BY <1>1 DEF CallsKept
<1>3. v.gsi1pk = v.status
  BY DEF IInv, History, IndexFollowsStatus
<1>4. /\ v.owner = versions[i][1].owner
      /\ v.by \in Requests => req[v.by].call.user = v.owner
      /\ v.by \in Hooks =>
           /\ Configured /\ hook[v.by].notice.signed
           /\ Mentioned(i, n - 1, hook[v.by].notice.pulse)
  BY DEF IInv, History, OwnersOnly
<1>5. n # 1 => n \in 2..Len(versions[i])
  BY LenProperties DEF IInv, TypeOK, TableTypeOK
<1>6. n # 1 /\ v.base = n - 1 => Merged(versions[i][n - 1], v)
  BY <1>5 DEF IInv, History, FreshUpdatesMerge
<1>7. QED BY <1>2, <1>3, <1>4, <1>6

(* A write goes on to have merged what it was made from.                   *)
LEMMA MergedStays ==
  ASSUME NEW old, NEW new, Merged(old, new),
         new.by \in Requests => req'[new.by].call = req[new.by].call
  PROVE  Merged(old, new)'
BY DEF Merged

(* Steps that store no version keep the history right.                     *)
LEMMA HistorySame ==
  ASSUME IInv, CallsKept, versions' = versions
  PROVE  History'
<1>1. IndexFollowsStatus'
  BY DEF IInv, History, IndexFollowsStatus
<1>2. OwnersOnly'
  <2> SUFFICES ASSUME NEW i \in Items, NEW n \in 1..Len(versions[i]),
                      NEW w, w = versions[i][n]
               PROVE  /\ w.owner = versions[i][1].owner
                      /\ w.by \in Requests => req'[w.by].call.user = w.owner
                      /\ w.by \in Hooks =>
                           /\ Configured /\ hook'[w.by].notice.signed
                           /\ \E m \in 1..(n - 1) :
                                Matches(versions[i][m].body, hook'[w.by].notice.pulse)
    BY DEF OwnersOnly, Mentioned
  <2> QED BY OldVersions DEF Mentioned
<1>3. FreshUpdatesMerge'
  <2> SUFFICES ASSUME NEW i \in Items, NEW n \in 2..Len(versions[i]),
                      versions[i][n].base = n - 1
               PROVE  Merged(versions[i][n - 1], versions[i][n])'
    BY DEF FreshUpdatesMerge
  <2>1. n \in 1..Len(versions[i]) /\ n # 1
    BY LenProperties DEF IInv, TypeOK, TableTypeOK
  <2>2. PICK old, new : old = versions[i][n - 1] /\ new = versions[i][n]
    OBVIOUS
  <2>3. /\ Merged(old, new)
        /\ new.by \in Requests => req'[new.by].call = req[new.by].call
    BY <2>1, <2>2, OldVersions
  <2>4. Merged(old, new)'
    BY <2>3, MergedStays
  <2>5. versions'[i][n - 1] = old /\ versions'[i][n] = new
    BY <2>2
  <2>6. QED BY <2>4, <2>5 DEF Merged
<1>4. QED BY <1>1, <1>2, <1>3 DEF History

(* So do those that store a good one.                                      *)
LEMMA HistoryGrows ==
  ASSUME IInv, CallsKept, NEW i \in Items, NEW v \in Version, Grows(i, v),
         v.gsi1pk = v.status,
         versions[i] # <<>> => v.owner = versions[i][1].owner,
         v.by \in Requests => req[v.by].pc # "new" /\ req[v.by].call.user = v.owner,
         v.by \in Hooks => /\ hook[v.by].pc # "new" /\ Configured /\ hook[v.by].notice.signed
                           /\ Mentioned(i, Len(versions[i]), hook[v.by].notice.pulse),
         versions[i] # <<>> /\ v.base = Len(versions[i]) => Merged(versions[i][Len(versions[i])], v)
  PROVE  History'
<1> DEFINE len == Len(versions[i])
<1>1. /\ len \in Nat /\ Len(versions'[i]) = len + 1 /\ versions'[i][len + 1] = v
      /\ \A n \in 1..len : versions'[i][n] = versions[i][n]
      /\ \A j \in Items \ {i} : versions'[j] = versions[j]
  BY Growth DEF IInv, TypeOK
<1>2. len = 0 <=> versions[i] = <<>>
  BY EmptySeq DEF IInv, TypeOK, TableTypeOK
<1>3. /\ v.by \in Requests => req'[v.by].call = req[v.by].call
      /\ v.by \in Hooks => hook'[v.by].notice = hook[v.by].notice
  BY DEF CallsKept
<1>4. \A n \in 1..Len(versions'[i]) : n \in 1..len \/ n = len + 1
  BY <1>1
<1>5. IndexFollowsStatus'
  <2> SUFFICES ASSUME NEW j \in Items, NEW n \in 1..Len(versions'[j])
               PROVE  versions'[j][n].gsi1pk = versions'[j][n].status
    BY DEF IndexFollowsStatus
  <2>1. CASE j # i
    BY <1>1, <2>1 DEF IInv, History, IndexFollowsStatus
  <2>2. CASE j = i /\ n \in 1..len
    BY <1>1, <2>2 DEF IInv, History, IndexFollowsStatus
  <2>3. CASE j = i /\ n = len + 1
    BY <1>1, <2>3
  <2>4. QED BY <1>4, <2>1, <2>2, <2>3
<1>6. OwnersOnly'
  <2> SUFFICES ASSUME NEW j \in Items, NEW n \in 1..Len(versions'[j]),
                      NEW w, w = versions'[j][n]
               PROVE  /\ w.owner = versions'[j][1].owner
                      /\ w.by \in Requests => req'[w.by].call.user = w.owner
                      /\ w.by \in Hooks => /\ Configured /\ hook'[w.by].notice.signed
                                            /\ \E m \in 1..(n - 1) : Matches(versions'[j][m].body,
                                                              hook'[w.by].notice.pulse)
    BY DEF OwnersOnly, Mentioned
  <2>1. CASE j # i
    <3>1. versions'[j] = versions[j] /\ n \in 1..Len(versions[j]) /\ w = versions[j][n]
      BY <1>1, <2>1
    <3>2. /\ w.owner = versions[j][1].owner
          /\ w.by \in Requests => req'[w.by].call.user = w.owner
          /\ w.by \in Hooks => /\ Configured /\ hook'[w.by].notice.signed
                                /\ Mentioned(j, n - 1, hook[w.by].notice.pulse)
                                /\ hook'[w.by].notice = hook[w.by].notice
      BY <3>1, OldVersions
    <3>3. QED BY <3>1, <3>2 DEF Mentioned
  <2>2. CASE j = i /\ n \in 1..len
    <3>1. /\ w = versions[i][n] /\ versions'[j][1] = versions[i][1]
          /\ n \in 1..Len(versions[i])
          /\ \A m \in 1..(n - 1) : versions'[j][m] = versions[i][m]
      BY <1>1, <2>2
    <3>2. /\ w.owner = versions[i][1].owner
          /\ w.by \in Requests => req'[w.by].call.user = w.owner
          /\ w.by \in Hooks => /\ Configured /\ hook'[w.by].notice.signed
                                /\ Mentioned(i, n - 1, hook[w.by].notice.pulse)
                                /\ hook'[w.by].notice = hook[w.by].notice
      BY <3>1, OldVersions
    <3>3. QED BY <2>2, <3>1, <3>2 DEF Mentioned
  <2>3. CASE j = i /\ n = len + 1
    <3>1. w = v
      BY <1>1, <2>3
    <3>2. w.owner = versions'[j][1].owner
      <4>1. CASE len = 0
        BY <1>1, <2>3, <3>1, <4>1
      <4>2. CASE len # 0
        BY <1>1, <1>2, <2>3, <3>1, <4>2
      <4>3. QED BY <4>1, <4>2
    <3>3. n - 1 = len /\ \A m \in 1..len : versions'[j][m] = versions[i][m]
      BY <1>1, <2>3
    <3>4. w.by \in Hooks => \E m \in 1..len : Matches(versions[i][m].body,
                                                      hook[w.by].notice.pulse)
      BY <3>1 DEF Mentioned
    <3>5. w.by \in Hooks => \E m \in 1..(n - 1) : Matches(versions'[j][m].body,
                                                          hook'[w.by].notice.pulse)
      BY <1>3, <3>1, <3>3, <3>4
    <3>6. QED BY <1>3, <2>3, <3>1, <3>2, <3>5
  <2>4. QED BY <1>4, <2>1, <2>2, <2>3
<1>7. FreshUpdatesMerge'
  <2> SUFFICES ASSUME NEW j \in Items, NEW n \in 2..Len(versions'[j]),
                      versions'[j][n].base = n - 1
               PROVE  Merged(versions[j][n - 1], versions[j][n])'
    BY DEF FreshUpdatesMerge
  <2>0. Len(versions[j]) \in Nat /\ Len(versions'[j]) \in Nat
    BY <1>1, LenProperties DEF IInv, TypeOK, TableTypeOK
  <2>1. CASE j # i \/ n # len + 1
    <3>1. n \in 1..Len(versions[j]) /\ n - 1 \in 1..Len(versions[j]) /\ n # 1
      BY <1>1, <2>0, <2>1
    <3>2. versions'[j][n] = versions[j][n] /\ versions'[j][n - 1] = versions[j][n - 1]
      BY <1>1, <3>1
    <3>3. /\ Merged(versions[j][n - 1], versions[j][n])
          /\ versions[j][n].by \in Requests =>
               req'[versions[j][n].by].call = req[versions[j][n].by].call
      BY <3>1, <3>2, OldVersions
    <3>4. QED BY <3>2, <3>3 DEF Merged
  <2>2. CASE j = i /\ n = len + 1
    <3>1. len \in 1..len /\ n - 1 = len /\ versions[i] # <<>>
      BY <1>1, <1>2, <2>0, <2>2
    <3>2. versions'[i][n] = v /\ versions'[i][n - 1] = versions[i][len]
      BY <1>1, <2>2, <3>1
    <3>3. Merged(versions[i][len], v)
      BY <2>2, <3>1, <3>2
    <3>4. QED BY <1>3, <2>2, <3>2, <3>3 DEF Merged
  <2>3. QED BY <2>1, <2>2
<1>8. QED BY <1>5, <1>6, <1>7 DEF History

(* What a step must show when it is a request's.                           *)
LEMMA RequestStep ==
  ASSUME IInv, TypeOK', NEW q \in Requests, StepOf(q), UNCHANGED hook,
         \A p \in Requests \ {q} : req'[p] = req[p],
         ReqOK(q)', History', \A e \in audit' \ audit : Wrote(q, e.item)'
  PROVE  IInv'
<1>1. TypeOK /\ TableTypeOK /\ audit \subseteq AuditEvent
  BY DEF IInv, TypeOK, TableTypeOK
<1>2. ASSUME NEW p \in Requests PROVE ReqOK(p)'
  BY <1>1, ReqStable DEF IInv
<1>3. ASSUME NEW h \in Hooks PROVE HookOK(h)'
  BY <1>1, HookStable DEF IInv
<1>4. AuditInv'
  <2>1. \A e \in audit : e.item \in Items
    BY <1>1 DEF AuditEvent
  <2>2. \A e \in audit : e.by \in Requests => Wrote(e.by, e.item)'
    BY <1>1, <2>1, StepOfWrote DEF IInv, AuditInv
  <2>3. QED BY <2>2 DEF AuditInv, StepOf
<1>5. QED BY <1>2, <1>3, <1>4 DEF IInv

(* What a step must show when it is a webhook execution's.                 *)
LEMMA HookStep ==
  ASSUME IInv, TypeOK', NEW h \in Hooks, StepOf(h), UNCHANGED req,
         \A g \in Hooks \ {h} : hook'[g] = hook[g],
         HookOK(h)', History'
  PROVE  IInv'
<1>1. TypeOK /\ TableTypeOK /\ audit \subseteq AuditEvent
  BY DEF IInv, TypeOK, TableTypeOK
<1>2. ASSUME NEW q \in Requests PROVE ReqOK(q)'
  BY <1>1, ReqStable DEF IInv
<1>3. ASSUME NEW g \in Hooks PROVE HookOK(g)'
  BY <1>1, HookStable DEF IInv
<1>4. AuditInv'
  <2>1. \A e \in audit : e.item \in Items
    BY <1>1 DEF AuditEvent
  <2>2. \A e \in audit : e.by \in Requests => Wrote(e.by, e.item)'
    BY <1>1, <2>1, StepOfWrote DEF IInv, AuditInv
  <2>3. QED BY <2>2 DEF AuditInv, StepOf
<1>5. QED BY <1>2, <1>3, <1>4 DEF IInv

(* The ETL stores an item.                                                 *)
LEMMA IngestStep ==
  ASSUME IInv, Ingest
  PROVE  IInv'
<1>1. TypeOK /\ TableTypeOK
  BY DEF IInv, TypeOK
<1>2. PICK r \in Rows : StoreNewItem(Etl, r.owner, r.item, r.title, r.body, "active")
  BY DEF Ingest
<1> DEFINE v == [owner |-> r.owner, title |-> r.title, body |-> r.body, status |-> "active",
                 gsi1pk |-> "active", by |-> Etl, base |-> 0]
<1>3. /\ r.item \in Items /\ r.owner \in Users /\ r.title \in Titles /\ r.body \in Bodies
      /\ "active" \in ItemStatus
  BY DEF ItemStatus
<1>4. v \in Version
  BY <1>3 DEF Version
<1>5. /\ versions[r.item] = <<>> /\ versions' = [versions EXCEPT ![r.item] = <<v>>]
      /\ created' = Append(created, r.item)
  BY <1>2 DEF StoreNewItem
<1>6. v.by = Etl /\ v.gsi1pk = v.status
  OBVIOUS
<1> HIDE DEF v
<1>7. Grows(r.item, v)
  <2>1. Append(<<>>, v) = <<v>>
    OBVIOUS
  <2>2. QED BY <1>5, <2>1 DEF Grows
<1>8. UNCHANGED <<audit, req, hook>>
  BY DEF Ingest
<1>9. StepOf(Etl)
  BY <1>3, <1>4, <1>6, <1>7, <1>8 DEF StepOf
<1>10. TypeOK'
  <2>1. versions' \in [Items -> Seq(Version)]
    BY <1>1, <1>3, <1>4, <1>7, Growth
  <2>2. created' \in Seq(Items)
    BY <1>3, <1>5 DEF IInv, TypeOK, TableTypeOK
  <2>3. QED BY <1>8, <2>1, <2>2 DEF IInv, TypeOK, TableTypeOK, ApiTypeOK, HookTypeOK
<1>11. History'
  <2>1. CallsKept
    BY <1>8 DEF CallsKept
  <2>2. QED BY <1>3, <1>4, <1>5, <1>6, <1>7, <2>1, HistoryGrows
<1>12. ASSUME NEW q \in Requests PROVE ReqOK(q)'
  BY <1>1, <1>8, <1>9, ReqStable DEF IInv
<1>13. ASSUME NEW h \in Hooks PROVE HookOK(h)'
  BY <1>1, <1>8, <1>9, HookStable DEF IInv
<1>14. AuditInv'
  <2>1. \A e \in audit : e.item \in Items
    BY DEF IInv, TypeOK, TableTypeOK, AuditEvent
  <2>2. QED BY <1>1, <1>8, <1>9, <2>1, StepOfWrote DEF IInv, AuditInv
<1>15. QED BY <1>10, <1>11, <1>12, <1>13, <1>14 DEF IInv

(* Most steps of a request touch only its own locals.                      *)
LEMMA RequestLocal ==
  ASSUME IInv, NEW q \in Requests, UNCHANGED <<versions, created, audit, hook>>,
         NEW r \in RequestState, req' = [req EXCEPT ![q] = r],
         req[q].pc # "new" => r.call = req[q].call,
         ReqOK(q)'
  PROVE  IInv'
<1>1. TypeOK'
  BY DEF IInv, TypeOK, TableTypeOK, ApiTypeOK, HookTypeOK
<1>2. \A p \in Requests \ {q} : req'[p] = req[p]
  BY DEF IInv, TypeOK, ApiTypeOK
<1>3. StepOf(q)
  BY DEF StepOf
<1>4. CallsKept
  BY <1>2 DEF CallsKept, IInv, TypeOK, ApiTypeOK
<1>5. History'
  BY <1>4, HistorySame
<1>6. QED BY <1>1, <1>2, <1>3, <1>5, RequestStep

(* So do most steps of an execution of the webhook.                        *)
LEMMA HookLocal ==
  ASSUME IInv, NEW h \in Hooks, UNCHANGED <<versions, created, audit, req>>,
         NEW e \in HookState, hook' = [hook EXCEPT ![h] = e],
         hook[h].pc # "new" => e.notice = hook[h].notice,
         HookOK(h)'
  PROVE  IInv'
<1>1. TypeOK'
  BY DEF IInv, TypeOK, TableTypeOK, ApiTypeOK, HookTypeOK
<1>2. \A g \in Hooks \ {h} : hook'[g] = hook[g]
  BY DEF IInv, TypeOK, HookTypeOK
<1>3. StepOf(h)
  BY DEF StepOf
<1>4. CallsKept
  BY <1>2 DEF CallsKept, IInv, TypeOK, HookTypeOK
<1>5. History'
  BY <1>4, HistorySame
<1>6. QED BY <1>1, <1>2, <1>3, <1>5, HookStep

-----------------------------------------------------------------------------
(* The requests' steps                                                     *)

(* Where the locals alone change, the invariant asks only of them.         *)
LEMMA ReqOKLocal ==
  ASSUME NEW q \in Requests, ReqOK(q), UNCHANGED <<versions, audit>>,
         NEW r, r = req'[q],
         r.call \in Calls,
         r.pc = "list" => r.call.op = "list",
         r.pc = "read" => /\ r.call.op \in {"get", "update", "delete"} /\ r.item = r.call.item
                          /\ r.sends = 0,
         r.pc \notin {"audit", "new"},
         r.pc = "put" =>
           /\ r.call.op \in {"create", "update", "delete"} /\ r.sends < MaxSends
           /\ r.call.op # "create" => /\ r.item \in Items
                                      /\ r.base \in 1..Len(versions[r.item])
                                      /\ versions[r.item][1].owner = r.call.user,
         r.pc \notin {"put", "failed"} => \A i \in Items : ~ Wrote(q, i),
         r.pc = "ok" => r.call.op \in {"get", "list"}
  PROVE  ReqOK(q)'
<1>1. \A i \in Items : Wrote(q, i)' <=> Wrote(q, i)
  BY DEF Wrote
<1>2. QED BY <1>1 DEF ReqOK

(* So it does of a request that has just stored something.                *)
LEMMA ReqOKStored ==
  ASSUME NEW q \in Requests, NEW r, r = req'[q],
         r.call \in Calls, r.call.op \in {"create", "update", "delete"},
         r.pc \in {"put", "audit", "conflict"},
         r.pc = "put" => r.sends < MaxSends,
         r.item \in Items, \A j \in Items : j = r.item => Wrote(q, j)',
         r.call.op # "create" => /\ r.base \in 1..Len(versions'[r.item])
                                 /\ versions'[r.item][1].owner = r.call.user
  PROVE  ReqOK(q)'
<1>1. r.item \in Items /\ Wrote(q, req[q].item)'
  OBVIOUS
<1>2. /\ r.pc \notin {"new", "list", "read", "ok"}
      /\ r.pc \in {"put", "audit", "failed", "conflict"}
  OBVIOUS
<1>3. QED BY <1>1, <1>2 DEF ReqOK

(* A request arrives.                                                      *)
LEMMA ArriveInv ==
  ASSUME IInv, NEW q \in Requests, Arrive(q), UNCHANGED hook
  PROVE  IInv'
<1>1. PICK c \in Calls : req' = [req EXCEPT ![q].call = c, ![q].item = c.item,
                          ![q].pc = CASE c.op = "create" -> "put"
                                      [] c.op = "list"   -> "list"
                                      [] OTHER           -> "read"]
  BY DEF Arrive
<1> DEFINE pc == CASE c.op = "create" -> "put" [] c.op = "list" -> "list" [] OTHER -> "read"
           r == [req[q] EXCEPT !.call = c, !.item = c.item, !.pc = pc]
<1>2. /\ c \in Call /\ req[q] \in RequestState /\ req[q].pc = "new" /\ ReqOK(q)
      /\ UNCHANGED <<versions, created, audit>>
  BY DEF Arrive, IInv, TypeOK, ApiTypeOK
<1>3. /\ c.op \in {"create", "list", "get", "update", "delete"}
      /\ c.item \in Items \cup {None}
  BY <1>2 DEF Call
<1>4. /\ c.op = "create" => pc = "put"
      /\ c.op = "list" => pc = "list"
      /\ c.op \in {"get", "update", "delete"} => pc = "read"
  BY <1>3
<1> HIDE DEF pc
<1>5. /\ r \in RequestState /\ r.call = c /\ r.item = c.item /\ r.pc = pc
      /\ r.sends = req[q].sends
  BY <1>2, <1>3, <1>4 DEF RequestState
<1>6. req' = [req EXCEPT ![q] = r]
  BY <1>1, <1>2 DEF pc, IInv, TypeOK, ApiTypeOK
<1>7. r = req'[q]
  BY <1>6 DEF IInv, TypeOK, ApiTypeOK
<1>8. req[q].sends = 0 /\ \A i \in Items : ~ Wrote(q, i)
  BY <1>2 DEF ReqOK
<1> HIDE DEF r
<1>9. ReqOK(q)'
  BY <1>2, <1>3, <1>4, <1>5, <1>7, <1>8, ReqOKLocal, SMTT(60)
<1>10. QED
  BY <1>2, <1>5, <1>6, <1>9, RequestLocal

(* What get_item finds is a version of an item of that owner; it misses a  *)
(* stored one only if it may be stale.                                     *)
LEMMA VisibleIs ==
  ASSUME TableTypeOK, NEW u, NEW i \in Items, NEW n \in Visible(u, i)
  PROVE  /\ n \in Nat
         /\ n # 0 => n \in 1..Len(versions[i]) /\ versions[i][1].owner = u
         /\ n = 0 => StaleReads \/ versions[i] = <<>> \/ versions[i][1].owner # u
<1>1. versions[i] \in Seq(Version) /\ Len(versions[i]) \in Nat
  BY LenProperties DEF TableTypeOK
<1>2. Len(versions[i]) = 0 <=> versions[i] = <<>>
  BY <1>1, EmptySeq
<1>3. CASE Len(versions[i]) = 0 \/ versions[i][1].owner # u
  <2>1. n = 0
    BY <1>3 DEF Visible
  <2>2. QED BY <1>2, <1>3, <2>1
<1>4. CASE Len(versions[i]) # 0 /\ versions[i][1].owner = u
  <2>1. n \in (IF StaleReads THEN 0..Len(versions[i]) ELSE {Len(versions[i])})
    BY <1>4 DEF Visible
  <2>2. CASE StaleReads
    BY <1>1, <1>4, <2>1, <2>2
  <2>3. CASE ~ StaleReads
    BY <1>1, <1>4, <2>1, <2>3
  <2>4. QED BY <2>2, <2>3
<1>5. QED BY <1>3, <1>4

(* A request reads one item.                                               *)
LEMMA GetInv ==
  ASSUME IInv, NEW q \in Requests, Get(q), UNCHANGED hook
  PROVE  IInv'
<1>1. PICK n \in Visible(User(q), req[q].item) :
        req' = [req EXCEPT ![q].pc = IF n = 0 THEN "notfound"
                                     ELSE Served(versions[req[q].item][n]),
                           ![q].base = n]
  BY DEF Get
<1> DEFINE pc == IF n = 0 THEN "notfound" ELSE Served(versions[req[q].item][n])
           r == [req[q] EXCEPT !.pc = pc, !.base = n]
<1>2. /\ req[q] \in RequestState /\ req[q].pc = "read" /\ ReqOK(q) /\ TableTypeOK
      /\ req[q].call.op = "get" /\ UNCHANGED <<versions, created, audit>>
  BY DEF Get, Op, IInv, TypeOK, ApiTypeOK
<1>3. req[q].call \in Calls /\ req[q].item \in Items
  BY <1>2 DEF ReqOK
<1>4. n \in Nat
  BY <1>2, <1>3, VisibleIs
<1>5. pc \in {"notfound", "ok", "failed"}
  BY DEF Served
<1>6. req' = [req EXCEPT ![q] = r] /\ r = req'[q]
  BY <1>1 DEF IInv, TypeOK, ApiTypeOK
<1> HIDE DEF pc
<1>7. /\ r \in RequestState /\ r.call = req[q].call /\ r.item = req[q].item /\ r.pc = pc
      /\ r.sends = req[q].sends
  BY <1>2, <1>4, <1>5 DEF RequestState, Replied
<1>8. \A i \in Items : ~ Wrote(q, i)
  BY <1>2 DEF ReqOK
<1> HIDE DEF r
<1>9. ReqOK(q)'
  BY <1>2, <1>3, <1>5, <1>6, <1>7, <1>8, ReqOKLocal, SMTT(60)
<1>10. QED
  BY <1>2, <1>6, <1>7, <1>9, RequestLocal

(* A request reads the item it is to rewrite.                              *)
LEMMA ReadInv ==
  ASSUME IInv, NEW q \in Requests, Read(q), UNCHANGED hook
  PROVE  IInv'
<1>1. PICK n \in Visible(User(q), req[q].item) :
        req' = [req EXCEPT ![q].pc = IF n = 0 THEN "notfound" ELSE "put", ![q].base = n]
  BY DEF Read
<1> DEFINE pc == IF n = 0 THEN "notfound" ELSE "put"
           r == [req[q] EXCEPT !.pc = pc, !.base = n]
<1>2. /\ req[q] \in RequestState /\ req[q].pc = "read" /\ ReqOK(q) /\ TableTypeOK
      /\ req[q].call.op # "get" /\ UNCHANGED <<versions, created, audit>>
  BY DEF Read, Op, IInv, TypeOK, ApiTypeOK
<1>3. /\ req[q].call \in Calls /\ req[q].item \in Items /\ req[q].sends = 0
      /\ req[q].call.op \in {"update", "delete"}
  BY <1>2 DEF ReqOK
<1>4. /\ n \in Nat
      /\ n # 0 => /\ n \in 1..Len(versions[req[q].item])
                  /\ versions[req[q].item][1].owner = req[q].call.user
  <2> DEFINE u == User(q)
             i == req[q].item
  <2>1. TableTypeOK /\ i \in Items /\ n \in Visible(u, i) /\ u = req[q].call.user
    BY <1>2, <1>3 DEF User
  <2> HIDE DEF u, i
  <2>2. n \in Nat /\ (n # 0 => n \in 1..Len(versions[i]) /\ versions[i][1].owner = u)
    BY <2>1, VisibleIs
  <2>3. QED BY <2>1, <2>2 DEF i
<1>5. pc \in {"notfound", "put"} /\ (pc = "put" => n # 0)
  OBVIOUS
<1>6. req' = [req EXCEPT ![q] = r] /\ r = req'[q]
  BY <1>1 DEF IInv, TypeOK, ApiTypeOK
<1> HIDE DEF pc
<1>7. /\ r \in RequestState /\ r.call = req[q].call /\ r.item = req[q].item /\ r.pc = pc
      /\ r.sends = req[q].sends /\ r.base = n
  BY <1>2, <1>4, <1>5 DEF RequestState, Replied
<1>8. \A i \in Items : ~ Wrote(q, i)
  BY <1>2 DEF ReqOK
<1> HIDE DEF r
<1>9. ReqOK(q)'
  BY <1>2, <1>3, <1>4, <1>5, <1>6, <1>7, <1>8, ReqOKLocal, SMTT(60)
<1>10. QED
  BY <1>2, <1>6, <1>7, <1>9, RequestLocal

(* A request lists items.                                                  *)
LEMMA ListInv ==
  ASSUME IInv, NEW q \in Requests, List(q), UNCHANGED hook
  PROVE  IInv'
<1>1. /\ req[q] \in RequestState /\ req[q].pc = "list" /\ ReqOK(q)
      /\ UNCHANGED <<versions, created, audit>>
  BY DEF List, IInv, TypeOK, ApiTypeOK
<1>2. /\ req[q].call \in Calls /\ req[q].call.op = "list"
      /\ \A i \in Items : ~ Wrote(q, i)
  BY <1>1 DEF ReqOK
<1>3. PICK S \in Sightings(User(q)) :
        \/ req' = [req EXCEPT ![q].pc = "ok",
                              ![q].page = Page(S, req[q].item, PageLimit)]
        \/ req' = [req EXCEPT ![q].pc = "failed"]
  BY DEF List
<1>4. Page(S, req[q].item, PageLimit) \in SUBSET Items
  BY DEF Page, Sightings
<1>5. CASE req' = [req EXCEPT ![q].pc = "ok", ![q].page = Page(S, req[q].item, PageLimit)]
  <2> DEFINE r == [req[q] EXCEPT !.pc = "ok", !.page = Page(S, req[q].item, PageLimit)]
  <2>1. req' = [req EXCEPT ![q] = r] /\ r = req'[q]
    BY <1>5 DEF IInv, TypeOK, ApiTypeOK
  <2>2. r \in RequestState /\ r.call = req[q].call /\ r.pc = "ok"
    BY <1>1, <1>4 DEF RequestState, Replied
  <2> HIDE DEF r
  <2>3. ReqOK(q)'
    BY <1>1, <1>2, <2>1, <2>2, ReqOKLocal, SMTT(60)
  <2>4. QED BY <1>1, <2>1, <2>2, <2>3, RequestLocal
<1>6. CASE req' = [req EXCEPT ![q].pc = "failed"]
  <2> DEFINE r == [req[q] EXCEPT !.pc = "failed"]
  <2>1. req' = [req EXCEPT ![q] = r] /\ r = req'[q]
    BY <1>6 DEF IInv, TypeOK, ApiTypeOK
  <2>2. r \in RequestState /\ r.call = req[q].call /\ r.pc = "failed"
    BY <1>1 DEF RequestState, Replied
  <2> HIDE DEF r
  <2>3. ReqOK(q)'
    BY <1>1, <1>2, <2>1, <2>2, ReqOKLocal, SMTT(60)
  <2>4. QED BY <1>1, <2>1, <2>2, <2>3, RequestLocal
<1>7. QED BY <1>3, <1>5, <1>6

(* A request dies.                                                         *)
LEMMA CrashInv ==
  ASSUME IInv, NEW q \in Requests, Crash(q), UNCHANGED hook
  PROVE  IInv'
<1> DEFINE r == [req[q] EXCEPT !.pc = "failed"]
<1>1. /\ req[q] \in RequestState /\ req[q].pc # "new" /\ ReqOK(q)
      /\ UNCHANGED <<versions, created, audit>>
      /\ req' = [req EXCEPT ![q] = r] /\ r = req'[q]
  BY DEF Crash, IInv, TypeOK, ApiTypeOK
<1>2. r \in RequestState /\ r.call = req[q].call /\ r.pc = "failed"
  BY <1>1 DEF RequestState, Replied
<1>3. req[q].call \in Calls
  BY <1>1 DEF ReqOK
<1> HIDE DEF r
<1>4. ReqOK(q)'
  BY <1>1, <1>2, <1>3, ReqOKLocal, SMTT(60)
<1>5. QED BY <1>1, <1>2, <1>4, RequestLocal

(* The record under another status.                                        *)
LEMMA WithStatusIs ==
  ASSUME NEW old \in Version, NEW s \in ItemStatus
  PROVE  LET new == WithStatus(old, s)
         IN  /\ new \in Version /\ new.status = s /\ new.gsi1pk = s
             /\ new.owner = old.owner /\ new.title = old.title /\ new.body = old.body
BY DEF WithStatus, Version

(* The record of an update keeps the owner and what the payload leaves out.*)
LEMMA MergeIs ==
  ASSUME NEW c \in Calls, NEW old \in Version
  PROVE  LET new == Merge(c, old)
         IN  /\ new \in Version /\ new.gsi1pk = new.status /\ new.owner = old.owner
             /\ c.title = None => new.title = old.title
             /\ c.body = None => new.body = old.body
             /\ c.status = None => new.status = old.status
<1> DEFINE title == IF c.title = None THEN old.title ELSE Strip(c.title)
           body == Default(c.body, old.body)
           s == Default(c.status, old.status)
           mid == [old EXCEPT !.title = title, !.body = body]
<1>1. title \in Titles /\ (c.title = None => title = old.title)
  BY DEF Call, Strip, Version
<1>2. s \in ItemStatus /\ (c.status = None => s = old.status)
  BY DEF Call, Default, Version
<1>6. body \in Bodies /\ (c.body = None => body = old.body)
  BY DEF Call, Default, Version
<1> HIDE DEF title, body, s
<1>3. /\ mid \in Version /\ mid.owner = old.owner /\ mid.title = title
      /\ mid.body = body /\ mid.status = old.status
  BY <1>1, <1>6 DEF Version
<1>4. Merge(c, old) = WithStatus(mid, s)
  BY DEF Merge, title, body, s
<1> HIDE DEF mid
<1>5. QED
  BY <1>1, <1>2, <1>3, <1>4, <1>6, WithStatusIs

(* The version a request is about to store.                                *)
LEMMA RecordIs ==
  ASSUME IInv, NEW q \in Requests, req[q].pc = "put", Op(q) # "create",
         NEW v, v = [Record(q) EXCEPT !.by = q, !.base = req[q].base]
  PROVE  /\ v \in Version /\ v.by = q /\ v.base = req[q].base /\ v.gsi1pk = v.status
         /\ req[q].item \in Items /\ versions[req[q].item] # <<>>
         /\ v.owner = versions[req[q].item][1].owner /\ v.owner = req[q].call.user
         /\ v.base = Len(versions[req[q].item]) =>
              Merged(versions[req[q].item][Len(versions[req[q].item])], v)
<1> DEFINE i == req[q].item
           c == req[q].call
           old == versions[i][req[q].base]
<1>1. ReqOK(q) /\ TableTypeOK
  BY DEF IInv, TypeOK
<1>2. /\ i \in Items /\ c \in Calls /\ req[q].base \in 1..Len(versions[i])
      /\ c.op \in {"update", "delete"} /\ versions[i][1].owner = c.user
  BY <1>1 DEF ReqOK, Op
<1>3. versions[i] # <<>> /\ old \in Version /\ req[q].base \in Nat
  BY <1>1, <1>2, ElementOfSeq, LenProperties DEF TableTypeOK
<1>4. old.owner = versions[i][1].owner
  BY <1>2 DEF IInv, History, OwnersOnly
<1>5. /\ Record(q) \in Version /\ Record(q).gsi1pk = Record(q).status
      /\ Record(q).owner = old.owner
      /\ c.title = None => Record(q).title = old.title
      /\ c.body = None => Record(q).body = old.body
      /\ c.op = "update" /\ c.status = None => Record(q).status = old.status
  <2>1. CASE c.op = "update"
    <3>1. Record(q) = Merge(c, old)
      BY <2>1 DEF Record, Op
    <3>2. QED BY <1>2, <1>3, <3>1, MergeIs
  <2>2. CASE c.op = "delete"
    <3>1. Record(q) = WithStatus(old, "archived") /\ "archived" \in ItemStatus
      BY <2>2 DEF Record, Op, ItemStatus
    <3>2. QED BY <1>3, <2>2, <3>1, WithStatusIs
  <2>3. QED BY <1>2, <2>1, <2>2
<1> DEFINE m == Record(q)
<1>6. q \in Authors
  OBVIOUS
<1> HIDE DEF m, i, c, old
<1>7. v = [m EXCEPT !.by = q, !.base = req[q].base] /\ m \in Version
  BY <1>5 DEF m
<1>8. /\ v \in Version /\ v.by = q /\ v.base = req[q].base /\ v.gsi1pk = m.gsi1pk
      /\ v.status = m.status /\ v.title = m.title /\ v.body = m.body /\ v.owner = m.owner
  BY <1>3, <1>6, <1>7 DEF Version
<1>9. q \notin Hooks
  OBVIOUS
<1>10. Merged(old, v)
  BY <1>5, <1>8, <1>9 DEF Merged, m, c
<1>11. QED
  BY <1>2, <1>3, <1>4, <1>5, <1>8, <1>10 DEF i, c, old, m

(* A put that is not the first is one the SDK repeats.                     *)
LEMMA PutInv ==
  ASSUME IInv, NEW q \in Requests, Put(q), UNCHANGED hook
  PROVE  IInv'
<1> DEFINE v == [Record(q) EXCEPT !.by = q, !.base = req[q].base]
           i == req[q].item
<1>1. /\ req[q].pc = "put" /\ Op(q) # "create" /\ audit' = audit /\ created' = created
      /\ versions' = [versions EXCEPT ![i] = Append(@, v)]
  BY DEF Put, Overwrite
<1>2. PICK p \in {"audit"} \cup (IF MayReplay(req[q].sends + 1) THEN {"put"} ELSE {}) :
        req' = [req EXCEPT ![q].pc = p, ![q].sends = @ + 1]
  BY DEF Put
<1>3. /\ req[q] \in RequestState /\ ReqOK(q) /\ TableTypeOK
  BY DEF IInv, TypeOK, ApiTypeOK
<1>4. /\ req[q].sends < MaxSends /\ req[q].sends \in Nat /\ req[q].call \in Calls
      /\ req[q].call.op \in {"update", "delete"} /\ req[q].base \in 1..Len(versions[i])
      /\ versions[i][1].owner = req[q].call.user
  BY <1>1, <1>3 DEF ReqOK, RequestState, Op
<1>5. /\ p \in {"audit", "put"}
      /\ p = "put" => req[q].sends + 1 < MaxSends
  BY DEF MayReplay
<1> DEFINE r == [req[q] EXCEPT !.pc = p, !.sends = req[q].sends + 1]
<1>6. req' = [req EXCEPT ![q] = r] /\ r = req'[q]
  BY <1>2 DEF IInv, TypeOK, ApiTypeOK
<1>7. req[q].sends + 1 \in 0..MaxSends
  BY <1>4
<1>8. /\ r \in RequestState /\ r.call = req[q].call /\ r.item = i /\ r.pc = p
      /\ r.base = req[q].base /\ r.sends = req[q].sends + 1
  BY <1>3, <1>5, <1>7 DEF RequestState
<1> HIDE DEF r, v
<1>9. /\ v \in Version /\ v.by = q /\ v.gsi1pk = v.status
      /\ i \in Items /\ versions[i] # <<>>
      /\ v.owner = versions[i][1].owner /\ v.owner = req[q].call.user
      /\ v.base = Len(versions[i]) => Merged(versions[i][Len(versions[i])], v)
  BY <1>1, RecordIs DEF v
<1>10. Grows(i, v)
  BY <1>1 DEF Grows
<1>11. TypeOK'
  <2>1. versions' \in [Items -> Seq(Version)]
    BY <1>3, <1>9, <1>10, Growth
  <2>2. req' \in [Requests -> RequestState]
    BY <1>6, <1>8 DEF IInv, TypeOK, ApiTypeOK
  <2>3. QED BY <1>1, <2>1, <2>2 DEF IInv, TypeOK, TableTypeOK, ApiTypeOK, HookTypeOK
<1>12. StepOf(q)
  BY <1>1, <1>9, <1>10 DEF StepOf
<1>13. CallsKept /\ \A x \in Requests \ {q} : req'[x] = req[x]
  BY <1>6, <1>8 DEF CallsKept, IInv, TypeOK, ApiTypeOK
<1>14. History'
  BY <1>1, <1>9, <1>10, <1>13, HistoryGrows
<1>15. ReqOK(q)'
  <2>1. \A j \in Items : j = i => Wrote(q, j)'
    BY <1>3, <1>9, <1>10, GrowthWrote
  <2>2. i \in Items /\ req[q].base \in 1..Len(versions'[i]) /\ versions'[i][1] = versions[i][1]
    <3>1. /\ Len(versions[i]) \in Nat /\ Len(versions'[i]) = Len(versions[i]) + 1
          /\ \A n \in 1..Len(versions[i]) : versions'[i][n] = versions[i][n]
      BY <1>3, <1>9, <1>10, Growth
    <3>2. QED BY <1>4, <1>9, <3>1
  <2> HIDE DEF i
  <2>3. /\ r.call \in Calls /\ r.call.op \in {"create", "update", "delete"}
        /\ r.pc \in {"put", "audit", "conflict"}
        /\ r.pc = "put" => r.sends < MaxSends
        /\ r.item \in Items /\ (\A j \in Items : j = r.item => Wrote(q, j)')
        /\ r.base \in 1..Len(versions'[r.item]) /\ versions'[r.item][1].owner = r.call.user
    BY <1>4, <1>5, <1>8, <2>1, <2>2 DEF i
  <2>4. QED BY <1>6, <2>3, ReqOKStored
<1>16. QED
  BY <1>1, <1>11, <1>12, <1>13, <1>14, <1>15, RequestStep

(* A request stores a new item.                                            *)
LEMMA CreateInv ==
  ASSUME IInv, NEW q \in Requests, Create(q), UNCHANGED hook
  PROVE  IInv'
<1>1. /\ req[q].pc = "put" /\ Op(q) = "create" /\ audit' = audit
      /\ req[q] \in RequestState /\ ReqOK(q) /\ TableTypeOK
  BY DEF Create, IInv, TypeOK, ApiTypeOK
<1>2. PICK i \in Items :
        /\ StoreNewItem(q, User(q), i, req[q].call.title, req[q].call.body, req[q].call.status)
        /\ req' \in { [req EXCEPT ![q].pc = p, ![q].item = i, ![q].sends = 1] :
                      p \in {"audit"} \cup (IF "replay" \in Faults THEN {"conflict"} ELSE {}) }
  BY DEF Create
<1>3. PICK p \in {"audit", "conflict"} :
        req' = [req EXCEPT ![q].pc = p, ![q].item = i, ![q].sends = 1]
  BY <1>2
<1> DEFINE r == [req[q] EXCEPT !.pc = p, !.item = i, !.sends = 1]
           c == req[q].call
           v == [owner |-> c.user, title |-> c.title, body |-> c.body, status |-> c.status,
                 gsi1pk |-> c.status, by |-> q, base |-> 0]
<1>4. c \in Calls /\ c.op = "create"
  BY <1>1 DEF ReqOK, Op
<1>5. c.user \in Users /\ c.title \in Titles /\ c.body \in Bodies /\ c.status \in ItemStatus
  BY <1>4 DEF Call
<1>6. v \in Version
  BY <1>5 DEF Version
<1>7. /\ versions[i] = <<>> /\ versions' = [versions EXCEPT ![i] = <<v>>]
      /\ created' = Append(created, i)
  BY <1>2 DEF StoreNewItem, User
<1>8. v.by = q /\ v.gsi1pk = v.status /\ v.owner = c.user
  OBVIOUS
<1>9. req' = [req EXCEPT ![q] = r] /\ r = req'[q]
  BY <1>3 DEF IInv, TypeOK, ApiTypeOK
<1>10. /\ r \in RequestState /\ r.call = c /\ r.item = i /\ r.pc = p /\ r.sends = 1
  <2>1. 1 \in 0..MaxSends
    OBVIOUS
  <2>2. p \in {"new", "list", "read", "put", "audit"} \cup Replied
    BY DEF Replied
  <2>3. QED BY <1>1, <2>1, <2>2 DEF RequestState
<1> HIDE DEF r, v
<1>11. Grows(i, v)
  <2>1. Append(<<>>, v) = <<v>>
    OBVIOUS
  <2>2. QED BY <1>7, <2>1 DEF Grows
<1>12. StepOf(q)
  BY <1>1, <1>6, <1>8, <1>11 DEF StepOf
<1>13. CallsKept /\ \A x \in Requests \ {q} : req'[x] = req[x]
  BY <1>9, <1>10 DEF CallsKept, IInv, TypeOK, ApiTypeOK
<1>14. TypeOK'
  <2>1. versions' \in [Items -> Seq(Version)]
    BY <1>1, <1>6, <1>11, Growth
  <2>2. created' \in Seq(Items) /\ req' \in [Requests -> RequestState]
    BY <1>7, <1>9, <1>10 DEF IInv, TypeOK, TableTypeOK, ApiTypeOK
  <2>3. QED BY <1>1, <2>1, <2>2 DEF IInv, TypeOK, TableTypeOK, ApiTypeOK, HookTypeOK
<1>15. History'
  <2>1. v.by \notin Hooks
    BY <1>8
  <2>2. req[q].pc # "new" /\ req[q].call.user = v.owner
    BY <1>1, <1>8
  <2>3. QED BY <1>6, <1>7, <1>8, <1>11, <1>13, <2>1, <2>2, HistoryGrows
<1>16. ReqOK(q)'
  <2>1. \A j \in Items : j = i => Wrote(q, j)'
    BY <1>1, <1>6, <1>8, <1>11, GrowthWrote
  <2>2. QED BY <1>4, <1>9, <1>10, <2>1, ReqOKStored
<1>17. QED
  BY <1>1, <1>12, <1>13, <1>14, <1>15, <1>16, RequestStep

(* A request appends its audit event.                                      *)
LEMMA AuditStep ==
  ASSUME IInv, NEW q \in Requests, Audit(q), UNCHANGED hook
  PROVE  IInv'
<1>1. /\ req[q].pc = "audit" /\ UNCHANGED <<versions, created>>
      /\ AppendAudit(q, req[q].item, AuditAction(q), User(q))
      /\ req[q] \in RequestState /\ ReqOK(q) /\ TableTypeOK
  BY DEF Audit, IInv, TypeOK, ApiTypeOK
<1>2. PICK p \in {Answer(q), "failed"} : req' = [req EXCEPT ![q].pc = p]
  BY DEF Audit
<1>3. p \in {"ok", "failed"}
  BY DEF Answer, Served
<1> DEFINE r == [req[q] EXCEPT !.pc = p]
           c == req[q].call
           i == req[q].item
           e == [item |-> i, action |-> AuditAction(q), actor |-> c.user, by |-> q]
<1>4. c \in Calls /\ c.op \in {"create", "update", "delete"} /\ i \in Items /\ Wrote(q, i)
  BY <1>1 DEF ReqOK
<1>5. c.user \in Users
  BY <1>4 DEF Call
<1>6. AuditAction(q) \in {"item.created", "item.updated", "item.deleted"}
  BY <1>4 DEF AuditAction, Op
<1>7. e \in AuditEvent
  BY <1>4, <1>5, <1>6 DEF AuditEvent
<1>8. audit' = audit \cup {e} /\ e.by = q /\ e.item = i
  BY <1>1 DEF AppendAudit, User
<1>9. req' = [req EXCEPT ![q] = r] /\ r = req'[q]
  BY <1>2 DEF IInv, TypeOK, ApiTypeOK
<1>10. /\ r \in RequestState /\ r.call = c /\ r.item = i /\ r.pc = p
  BY <1>1, <1>3 DEF RequestState, Replied
<1> HIDE DEF r, e
<1>11. StepOf(q)
  BY <1>1, <1>8 DEF StepOf
<1>12. CallsKept /\ \A x \in Requests \ {q} : req'[x] = req[x]
  BY <1>9, <1>10 DEF CallsKept, IInv, TypeOK, ApiTypeOK
<1>13. TypeOK'
  <2>1. req' \in [Requests -> RequestState]
    BY <1>9, <1>10 DEF IInv, TypeOK, ApiTypeOK
  <2>2. QED BY <1>1, <1>7, <1>8, <2>1 DEF IInv, TypeOK, TableTypeOK, ApiTypeOK, HookTypeOK
<1>14. History'
  BY <1>1, <1>12, HistorySame
<1>15. \A a, j : Wrote(a, j)' <=> Wrote(a, j)
  BY <1>1 DEF Wrote
<1>16. Audited(q, req[q].item)'
  BY <1>8, <1>9, <1>10 DEF Audited
<1>17. ReqOK(q)'
  <2>1. /\ r.pc \in {"ok", "failed"} /\ r.call \in Calls
        /\ \E j \in Items : Wrote(q, j)'
    BY <1>3, <1>4, <1>10, <1>15
  <2>2. QED BY <1>9, <1>16, <2>1 DEF ReqOK
<1>18. \A x \in audit' \ audit : Wrote(q, x.item)'
  BY <1>4, <1>8, <1>15
<1>19. QED
  BY <1>1, <1>11, <1>12, <1>13, <1>14, <1>17, <1>18, RequestStep

-----------------------------------------------------------------------------
(* The webhook's steps                                                     *)

(* Where the locals alone change, the invariant asks only of them.         *)
LEMMA HookOKLocal ==
  ASSUME NEW h \in Hooks, UNCHANGED <<versions, audit>>,
         NEW e, e = hook'[h], HookGood(h, e)
  PROVE  HookOK(h)'
<1>1. \A i : (Wrote(h, i)' <=> Wrote(h, i)) /\ (Audited(h, i)' <=> Audited(h, i))
  BY DEF Wrote, Audited
<1>2. Stored' = Stored
  BY DEF Stored
<1>3. QED BY <1>1, <1>2 DEF HookOK, HookGood, Candidates, Mentioned

(* A notice arrives.                                                       *)
LEMMA ReceiveInv ==
  ASSUME IInv, NEW h \in Hooks, Receive(h), UNCHANGED req
  PROVE  IInv'
<1>1. /\ hook[h] \in HookState /\ hook[h].pc = "new" /\ HookGood(h, hook[h])
      /\ UNCHANGED <<versions, created, audit>>
  BY DEF Receive, HookOK, IInv, TypeOK, HookTypeOK
<1>2. PICK n \in Notices :
        hook' = [hook EXCEPT ![h].notice = n,
                             ![h].pc = IF Authentic(n) /\ n.kind # "invalid" THEN "parse"
                                       ELSE "refused"]
  BY DEF Receive
<1> DEFINE pc == IF Authentic(n) /\ n.kind # "invalid" THEN "parse" ELSE "refused"
           e == [hook[h] EXCEPT !.notice = n, !.pc = pc]
<1>3. pc \in {"parse", "refused"} /\ (pc = "parse" => Configured /\ n.signed)
  BY DEF Authentic
<1>4. hook' = [hook EXCEPT ![h] = e] /\ e = hook'[h]
  BY <1>2 DEF IInv, TypeOK, HookTypeOK
<1> HIDE DEF pc
<1>5. /\ e \in HookState /\ e.notice = n /\ e.pc = pc /\ e.left = hook[h].left
      /\ e.found = hook[h].found
  BY <1>1, <1>3 DEF HookState, Answered
<1> HIDE DEF e
<1>6. HookGood(h, e)
  BY <1>1, <1>3, <1>5 DEF HookGood
<1>7. HookOK(h)'
  BY <1>1, <1>4, <1>6, HookOKLocal
<1>8. QED BY <1>1, <1>4, <1>5, <1>7, HookLocal

(* It is found to be one of those that matter, or not.                     *)
LEMMA DispatchInv ==
  ASSUME IInv, NEW h \in Hooks, Dispatch(h), UNCHANGED req
  PROVE  IInv'
<1> DEFINE n == hook[h].notice
           pc == IF Shapeless(n) THEN "failed"
                 ELSE IF Relevant(n) THEN "scan" ELSE "unhandled"
           e == [hook[h] EXCEPT !.pc = pc]
<1>1. /\ hook[h] \in HookState /\ hook[h].pc = "parse" /\ HookGood(h, hook[h])
      /\ UNCHANGED <<versions, created, audit>>
  BY DEF Dispatch, HookOK, IInv, TypeOK, HookTypeOK
<1>2. n \in Notices /\ Configured /\ n.signed
  BY <1>1 DEF HookGood
<1>3. pc \in {"unhandled", "failed", "scan"} /\ (pc = "scan" => n.pulse \in Pulses)
  BY <1>2 DEF Notice, Relevant
<1>4. hook' = [hook EXCEPT ![h] = e] /\ e = hook'[h]
  BY DEF Dispatch, IInv, TypeOK, HookTypeOK
<1> HIDE DEF pc
<1>5. /\ e \in HookState /\ e.notice = n /\ e.pc = pc /\ e.left = hook[h].left
      /\ e.found = hook[h].found
  BY <1>1, <1>3 DEF HookState, Answered
<1> HIDE DEF e
<1>6. HookGood(h, e)
  BY <1>1, <1>2, <1>3, <1>5 DEF HookGood
<1>7. HookOK(h)'
  BY <1>1, <1>4, <1>6, HookOKLocal
<1>8. QED BY <1>1, <1>4, <1>5, <1>7, HookLocal

(* The table is scanned.                                                   *)
LEMMA ScanInv ==
  ASSUME IInv, NEW h \in Hooks, Scan(h), UNCHANGED req
  PROVE  IInv'
<1>1. /\ hook[h] \in HookState /\ hook[h].pc = "scan" /\ HookGood(h, hook[h])
      /\ UNCHANGED <<versions, created, audit>>
  BY DEF Scan, HookOK, IInv, TypeOK, HookTypeOK
<1> DEFINE n == hook[h].notice
<1>2. PICK S \in Examined : \E F \in Filtered(S, n.pulse) :
        hook' = [hook EXCEPT ![h].found = F, ![h].left = F,
                             ![h].pc = IF F = {} THEN "unhandled" ELSE "get"]
  BY DEF Scan
<1>11. PICK found \in Filtered(S, n.pulse) :
        hook' = [hook EXCEPT ![h].found = found, ![h].left = found,
                             ![h].pc = IF found = {} THEN "unhandled" ELSE "get"]
  BY <1>2
<1> DEFINE pc == IF found = {} THEN "unhandled" ELSE "get"
           e == [hook[h] EXCEPT !.found = found, !.left = found, !.pc = pc]
<1>3. n \in Notices /\ Configured /\ n.signed /\ n.pulse \in Pulses
  BY <1>1 DEF HookGood
<1>4. found \subseteq Candidates(n.pulse) /\ found \subseteq Items
  <2>1. TableTypeOK /\ found \subseteq S /\ S \subseteq Stored /\ Stored \subseteq Items
    BY DEF IInv, TypeOK, Examined, Filtered, Stored
  <2>2. ASSUME NEW i \in found
        PROVE  Mentioned(i, Len(versions[i]), n.pulse)
    <3>1. i \in S /\ i \in Items /\ versions[i] # <<>>
      BY <2>1 DEF Stored
    <3>2. versions[i] \in Seq(Version) /\ Len(versions[i]) \in Nat /\ Len(versions[i]) # 0
      BY <2>1, <3>1, EmptySeq, LenProperties DEF TableTypeOK
    <3>3. PICK m \in Scanned(i) : Matches(versions[i][m].body, n.pulse)
      BY <2>2, <3>1 DEF Filtered
    <3>4. m \in 1..Len(versions[i])
      BY <3>2 DEF Scanned
    <3>5. QED BY <3>3, <3>4 DEF Mentioned
  <2>3. QED BY <2>1, <2>2 DEF Candidates
<1>5. pc \in {"unhandled", "get"}
  OBVIOUS
<1>6. hook' = [hook EXCEPT ![h] = e] /\ e = hook'[h]
  BY <1>11 DEF IInv, TypeOK, HookTypeOK
<1> HIDE DEF pc
<1>7. e \in HookState /\ e.notice = n /\ e.pc = pc /\ e.left = found /\ e.found = found
  BY <1>1, <1>4, <1>5 DEF HookState, Answered
<1> HIDE DEF e
<1>8. HookGood(h, e)
  BY <1>1, <1>3, <1>4, <1>5, <1>7 DEF HookGood
<1>9. HookOK(h)'
  BY <1>1, <1>6, <1>8, HookOKLocal
<1>10. QED BY <1>1, <1>6, <1>7, <1>9, HookLocal

(* The loop comes to an item and reads it.                                 *)
LEMMA GetItemInv ==
  ASSUME IInv, NEW h \in Hooks, GetItem(h), UNCHANGED req
  PROVE  IInv'
<1>1. /\ hook[h] \in HookState /\ hook[h].pc = "get" /\ HookGood(h, hook[h])
      /\ UNCHANGED <<versions, created, audit>> /\ TableTypeOK
  BY DEF GetItem, HookOK, IInv, TypeOK, HookTypeOK
<1>2. PICK i \in hook[h].left : \E n \in Visible(versions[i][1].owner, i) :
        hook' = [hook EXCEPT ![h].item = i, ![h].base = n, ![h].sends = 0,
                             ![h].pc = IF n = 0 THEN "audit" ELSE "put"]
  BY DEF GetItem
<1>3. PICK n \in Visible(versions[i][1].owner, i) :
        hook' = [hook EXCEPT ![h].item = i, ![h].base = n, ![h].sends = 0,
                             ![h].pc = IF n = 0 THEN "audit" ELSE "put"]
  BY <1>2
<1>4. /\ hook[h].notice \in Notices /\ Configured /\ hook[h].notice.signed
      /\ hook[h].found \subseteq Candidates(hook[h].notice.pulse)
      /\ hook[h].left \subseteq hook[h].found /\ hook[h].found \subseteq Items
  BY <1>1 DEF HookGood, HookState
<1>5. i \in Items /\ versions[i] # <<>>
  BY <1>4 DEF Candidates, Stored
<1>6. n \in Nat /\ (n # 0 => n \in 1..Len(versions[i])) /\ (n = 0 => StaleReads)
  <2> DEFINE u == versions[i][1].owner
  <2>1. n \in Visible(u, i) /\ u = versions[i][1].owner
    OBVIOUS
  <2> HIDE DEF u
  <2>2. /\ n \in Nat /\ (n # 0 => n \in 1..Len(versions[i]))
        /\ n = 0 => StaleReads \/ versions[i] = <<>> \/ versions[i][1].owner # u
    BY <1>1, <1>5, <2>1, VisibleIs
  <2>3. QED BY <1>5, <2>1, <2>2
<1> DEFINE pc == IF n = 0 THEN "audit" ELSE "put"
           e == [hook[h] EXCEPT !.item = i, !.base = n, !.sends = 0, !.pc = pc]
<1>7. pc \in {"audit", "put"} /\ (pc = "put" => n # 0) /\ (pc = "audit" => n = 0)
  OBVIOUS
<1>8. hook' = [hook EXCEPT ![h] = e] /\ e = hook'[h]
  BY <1>3 DEF IInv, TypeOK, HookTypeOK
<1> HIDE DEF pc
<1>9. 0 \in 0..MaxSends /\ 0 < MaxSends
  OBVIOUS
<1>10. /\ e \in HookState /\ e.notice = hook[h].notice /\ e.pc = pc /\ e.base = n
       /\ e.left = hook[h].left /\ e.found = hook[h].found /\ e.item = i /\ e.sends = 0
  BY <1>1, <1>5, <1>6, <1>7, <1>9 DEF HookState
<1> HIDE DEF e
<1>11. HookGood(h, e)
  <2>1. \A j \in hook[h].found \ hook[h].left : Audited(h, j) /\ (StaleReads \/ Wrote(h, j))
    BY <1>1 DEF HookGood
  <2>2. \A j \in Items : ~ (Wrote(h, j) /\ ~ Audited(h, j))
    BY <1>1 DEF HookGood
  <2>3. QED BY <1>4, <1>6, <1>7, <1>9, <1>10, <2>1, <2>2 DEF HookGood
<1>12. HookOK(h)'
  BY <1>1, <1>8, <1>11, HookOKLocal
<1>13. QED BY <1>1, <1>8, <1>10, <1>12, HookLocal

(* An execution ends well, having done everything, or it dies.             *)
LEMMA HookEndInv ==
  ASSUME IInv, NEW h \in Hooks, Comment(h) \/ HookCrash(h), UNCHANGED req
  PROVE  IInv'
<1>1. /\ hook[h] \in HookState /\ hook[h].pc # "new" /\ HookGood(h, hook[h])
      /\ UNCHANGED <<versions, created, audit>>
  BY DEF Comment, HookCrash, HookOK, IInv, TypeOK, HookTypeOK
<1>2. PICK p \in {"handled", "failed"} :
        /\ p = "handled" => hook[h].pc = "comment"
        /\ p = "failed" => hook[h].pc \notin {"new", "unhandled", "refused"}
        /\ hook' = [hook EXCEPT ![h].pc = p]
  BY DEF Comment, HookCrash
<1> DEFINE e == [hook[h] EXCEPT !.pc = p]
<1>3. hook' = [hook EXCEPT ![h] = e] /\ e = hook'[h]
  BY <1>2 DEF IInv, TypeOK, HookTypeOK
<1>4. /\ e \in HookState /\ e.notice = hook[h].notice /\ e.pc = p /\ e.item = hook[h].item
      /\ e.left = hook[h].left /\ e.found = hook[h].found
  BY <1>1, <1>2 DEF HookState, Answered
<1> HIDE DEF e
<1>5. HookGood(h, e)
  <2>1. /\ hook[h].notice \in Notices /\ hook[h].left \subseteq hook[h].found
        /\ \A i \in Items : Wrote(h, i) /\ ~ Audited(h, i) =>
             hook[h].item = i /\ hook[h].pc \in {"put", "audit", "failed"}
    BY <1>1 DEF HookGood
  <2>2. p = "handled" =>
          /\ hook[h].left = {}
          /\ \A i \in hook[h].found : Audited(h, i) /\ (StaleReads \/ Wrote(h, i))
    BY <1>1, <1>2 DEF HookGood
  <2>3. CASE p = "handled"
    BY <1>2, <1>4, <2>1, <2>2, <2>3 DEF HookGood
  <2>4. CASE p = "failed"
    BY <1>4, <2>1, <2>4 DEF HookGood
  <2>5. QED BY <2>3, <2>4
<1>6. HookOK(h)'
  BY <1>1, <1>3, <1>5, HookOKLocal
<1>7. QED BY <1>1, <1>3, <1>4, <1>6, HookLocal

(* The loop stores an item under its new status.                           *)
LEMMA PutStatusInv ==
  ASSUME IInv, NEW h \in Hooks, PutStatus(h), UNCHANGED req
  PROVE  IInv'
<1>1. /\ hook[h] \in HookState /\ hook[h].pc = "put" /\ HookGood(h, hook[h]) /\ TableTypeOK
      /\ audit' = audit /\ created' = created
  BY DEF PutStatus, Overwrite, HookOK, IInv, TypeOK, HookTypeOK
<1>2. PICK i \in Items : i = hook[h].item
  BY <1>1 DEF HookGood, HookState
<1>3. /\ hook[h].notice \in Notices /\ Configured /\ hook[h].notice.signed
      /\ hook[h].found \subseteq Candidates(hook[h].notice.pulse)
      /\ hook[h].left \subseteq hook[h].found /\ hook[h].found \subseteq Items
      /\ i \in hook[h].left /\ hook[h].base \in 1..Len(versions[i])
      /\ hook[h].sends < MaxSends /\ hook[h].sends \in Nat
  BY <1>1, <1>2 DEF HookGood, HookState
<1> DEFINE old == versions[i][hook[h].base]
           s == Target(hook[h].notice)
           w == WithStatus(old, s)
           v == [w EXCEPT !.by = h, !.base = hook[h].base]
<1>4. versions' = [versions EXCEPT ![i] = Append(@, v)] /\ versions[i] # <<>>
  BY <1>1, <1>2 DEF PutStatus, Overwrite
<1>5. old \in Version /\ hook[h].base \in Nat
  BY <1>1, <1>3, ElementOfSeq, LenProperties DEF TableTypeOK
<1>6. old.owner = versions[i][1].owner
  BY <1>3 DEF IInv, History, OwnersOnly
<1>7. s \in ItemStatus
  BY DEF Target, ItemStatus
<1> HIDE DEF old, s
<1>8. /\ w \in Version /\ w.status = s /\ w.gsi1pk = s /\ w.owner = old.owner
      /\ w.title = old.title /\ w.body = old.body
  BY <1>5, <1>7, WithStatusIs
<1>9. h \in Authors /\ h \notin Requests
  OBVIOUS
<1> HIDE DEF w
<1>10. /\ v \in Version /\ v.by = h /\ v.base = hook[h].base /\ v.gsi1pk = w.gsi1pk
       /\ v.status = w.status /\ v.title = w.title /\ v.body = w.body /\ v.owner = w.owner
  BY <1>5, <1>8, <1>9 DEF Version
<1> HIDE DEF v
<1>11. Grows(i, v)
  BY <1>4 DEF Grows
<1>12. PICK p \in {"audit", "put"} :
         /\ p = "put" => hook[h].sends + 1 < MaxSends
         /\ hook' = [hook EXCEPT ![h].pc = p, ![h].sends = @ + 1]
  BY DEF PutStatus, MayReplay
<1> DEFINE e == [hook[h] EXCEPT !.pc = p, !.sends = hook[h].sends + 1]
<1>13. hook' = [hook EXCEPT ![h] = e] /\ e = hook'[h]
  BY <1>12 DEF IInv, TypeOK, HookTypeOK
<1>14. hook[h].sends + 1 \in 0..MaxSends
  BY <1>3
<1>15. /\ e \in HookState /\ e.notice = hook[h].notice /\ e.pc = p /\ e.item = i
       /\ e.left = hook[h].left /\ e.found = hook[h].found /\ e.base = hook[h].base
       /\ e.sends = hook[h].sends + 1
  BY <1>1, <1>2, <1>14 DEF HookState
<1> HIDE DEF e
<1>16. StepOf(h)
  BY <1>1, <1>10, <1>11 DEF StepOf
<1>17. CallsKept /\ \A g \in Hooks \ {h} : hook'[g] = hook[g]
  BY <1>13, <1>15 DEF CallsKept, IInv, TypeOK, HookTypeOK
<1>18. TypeOK'
  <2>1. versions' \in [Items -> Seq(Version)]
    BY <1>1, <1>10, <1>11, Growth
  <2>2. hook' \in [Hooks -> HookState]
    BY <1>13, <1>15 DEF IInv, TypeOK, HookTypeOK
  <2>3. QED BY <1>1, <2>1, <2>2 DEF IInv, TypeOK, TableTypeOK, ApiTypeOK, HookTypeOK
<1>19. History'
  <2>1. v.base = Len(versions[i]) => Merged(versions[i][Len(versions[i])], v)
    <3>1. Merged(old, v)
      BY <1>8, <1>9, <1>10 DEF Merged
    <3>2. QED BY <1>10, <3>1 DEF old
  <2>2. Mentioned(i, Len(versions[i]), hook[h].notice.pulse) /\ hook[h].pc # "new"
    BY <1>1, <1>3 DEF Candidates
  <2>3. QED BY <1>3, <1>4, <1>6, <1>8, <1>9, <1>10, <1>11, <1>17, <2>1, <2>2, HistoryGrows, SMTT(60)
<1>20. HookOK(h)'
  <2>1. \A j \in Items : Wrote(h, j)' <=> Wrote(h, j) \/ j = i
    BY <1>1, <1>10, <1>11, GrowthWrote
  <2>2. \A j : Audited(h, j)' <=> Audited(h, j)
    BY <1>1 DEF Audited
  <2>3. /\ hook[h].base \in 1..Len(versions'[i])
        /\ \A j \in Items : j \in Stored => j \in Stored'
    <3>1. Len(versions[i]) \in Nat /\ Len(versions'[i]) = Len(versions[i]) + 1
      BY <1>1, <1>10, <1>11, Growth
    <3>2. \A j \in Items : j \in Stored => j \in Stored'
      BY <1>1, <1>16, StepOfVersions
    <3>3. QED BY <1>3, <3>1, <3>2
  <2>4. /\ \A j \in hook[h].found \ hook[h].left : Audited(h, j) /\ (StaleReads \/ Wrote(h, j))
        /\ \A j \in Items : Wrote(h, j) /\ ~ Audited(h, j) => j = i
    BY <1>1, <1>2 DEF HookGood
  <2>5. \A j \in e.found \ e.left : Audited(h, j)' /\ (StaleReads \/ Wrote(h, j)')
    BY <1>3, <1>15, <2>1, <2>2, <2>4
  <2>6. \A j \in Items : Wrote(h, j)' /\ ~ Audited(h, j)' => e.item = j
    BY <1>15, <2>1, <2>2, <2>4
  <2>7. e.item \in Items /\ Wrote(h, hook[h].item)'
    BY <1>13, <1>15, <2>1
  <2>8. e.pc = "put" => e.base \in 1..Len(versions'[e.item]) /\ e.sends < MaxSends
    BY <1>12, <1>15, <2>3
  <2>9. /\ e.pc \in {"put", "audit"} /\ e.notice \in Notices /\ Configured /\ e.notice.signed
        /\ e.left \subseteq e.found /\ e.item \in e.left
    BY <1>3, <1>15
  <2>11. PICK f, pulse : f = hook[h].found /\ pulse = hook[h].notice.pulse
    OBVIOUS
  <2>12. f \subseteq Candidates(pulse)'
    BY <1>1, <1>3, <1>16, <2>11, CandidatesStay
  <2>13. hook'[h].found = f /\ hook'[h].notice.pulse = pulse
    BY <1>13, <1>15, <2>11
  <2>10. QED BY <1>13, <2>5, <2>6, <2>7, <2>8, <2>9, <2>12, <2>13 DEF HookOK, HookGood
<1>21. QED
  BY <1>16, <1>17, <1>18, <1>19, <1>20, HookStep

(* The loop audits an item and goes on to the next.                        *)
LEMMA AuditSyncInv ==
  ASSUME IInv, NEW h \in Hooks, AuditSync(h), UNCHANGED req
  PROVE  IInv'
<1>1. /\ hook[h] \in HookState /\ hook[h].pc = "audit" /\ HookGood(h, hook[h]) /\ TableTypeOK
      /\ versions' = versions /\ created' = created
  BY DEF AuditSync, HookOK, IInv, TypeOK, HookTypeOK
<1>2. PICK i \in Items : i = hook[h].item
  BY <1>1 DEF HookGood, HookState
<1> DEFINE left == hook[h].left \ {i}
           pc == IF left = {} THEN "comment" ELSE "get"
           x == [item |-> i, action |-> "monday.sync", actor |-> Webhook, by |-> h]
           e == [hook[h] EXCEPT !.left = left, !.pc = pc]
<1>3. /\ hook[h].notice \in Notices /\ Configured /\ hook[h].notice.signed
      /\ hook[h].found \subseteq Candidates(hook[h].notice.pulse)
      /\ hook[h].left \subseteq hook[h].found /\ hook[h].found \subseteq Items
      /\ StaleReads \/ Wrote(h, i)
      /\ \A j \in hook[h].found \ hook[h].left : Audited(h, j) /\ (StaleReads \/ Wrote(h, j))
      /\ \A j \in Items : Wrote(h, j) /\ ~ Audited(h, j) => j = i
  BY <1>1, <1>2 DEF HookGood, HookState
<1>4. x \in AuditEvent /\ x.by = h /\ x.item = i
  BY DEF AuditEvent
<1>5. audit' = audit \cup {x}
  BY <1>2 DEF AuditSync, AppendAudit
<1>6. hook' = [hook EXCEPT ![h] = e] /\ e = hook'[h]
  BY <1>2 DEF AuditSync, IInv, TypeOK, HookTypeOK
<1>7. pc \in {"comment", "get"} /\ (pc = "comment" => left = {})
  OBVIOUS
<1>8. left \subseteq hook[h].found /\ left \subseteq Items
  BY <1>3
<1>9. \A j \in hook[h].found \ left : j = i \/ j \in hook[h].found \ hook[h].left
  OBVIOUS
<1> HIDE DEF pc, left, x
<1>10. /\ e \in HookState /\ e.notice = hook[h].notice /\ e.pc = pc /\ e.item = hook[h].item
       /\ e.left = left /\ e.found = hook[h].found
  BY <1>1, <1>7, <1>8 DEF HookState
<1> HIDE DEF e
<1>11. StepOf(h)
  BY <1>1, <1>4, <1>5 DEF StepOf
<1>12. CallsKept /\ \A g \in Hooks \ {h} : hook'[g] = hook[g]
  BY <1>6, <1>10 DEF CallsKept, IInv, TypeOK, HookTypeOK
<1>13. TypeOK'
  <2>1. hook' \in [Hooks -> HookState]
    BY <1>6, <1>10 DEF IInv, TypeOK, HookTypeOK
  <2>2. QED BY <1>1, <1>4, <1>5, <2>1 DEF IInv, TypeOK, TableTypeOK, ApiTypeOK, HookTypeOK
<1>14. History'
  BY <1>1, <1>12, HistorySame
<1>15. HookOK(h)'
  <2>1. \A j : Wrote(h, j)' <=> Wrote(h, j)
    BY <1>1 DEF Wrote
  <2>2. \A j : Audited(h, j)' <=> Audited(h, j) \/ j = i
    BY <1>4, <1>5 DEF Audited
  <2>3. \A p : Candidates(p) \subseteq Candidates(p)'
    BY <1>1, <1>11, CandidatesStay
  <2>4. \A j \in e.found \ e.left : Audited(h, j)' /\ (StaleReads \/ Wrote(h, j)')
    BY <1>3, <1>9, <1>10, <2>1, <2>2
  <2>5. \A j \in Items : ~ (Wrote(h, j)' /\ ~ Audited(h, j)')
    BY <1>3, <2>1, <2>2
  <2>6. /\ e.pc \in {"comment", "get"} /\ (e.pc = "comment" => e.left = {})
        /\ e.notice \in Notices /\ Configured /\ e.notice.signed
        /\ e.left \subseteq e.found
    BY <1>3, <1>7, <1>8, <1>10
  <2>8. PICK f, p : f = hook[h].found /\ p = hook[h].notice.pulse
    OBVIOUS
  <2>9. f \subseteq Candidates(p)'
    BY <1>3, <2>3, <2>8
  <2>10. hook'[h].found = f /\ hook'[h].notice.pulse = p
    BY <1>6, <1>10, <2>8
  <2>7. QED BY <1>6, <2>4, <2>5, <2>6, <2>9, <2>10 DEF HookOK, HookGood
<1>16. QED
  BY <1>11, <1>12, <1>13, <1>14, <1>15, HookStep

-----------------------------------------------------------------------------
(* The theorems                                                            *)

(* The invariant holds at first.                                           *)
LEMMA InitIInv == Init => IInv
<1> SUFFICES ASSUME Init PROVE IInv
  OBVIOUS
<1> USE DEF Init, TableInit, ApiInit, HookInit
<1>1. \A a, i : i \in Items => ~ Wrote(a, i) /\ versions[i] = <<>>
  BY DEF Wrote
<1>2. \A a, i : ~ Audited(a, i)
  BY DEF Audited
<1>3. TypeOK
  <2>1. TableTypeOK
    BY DEF TableTypeOK
  <2>2. ApiTypeOK
    <3>1. 0 \in 0..MaxSends
      OBVIOUS
    <3>2. QED BY <3>1 DEF ApiTypeOK, RequestState
  <2>3. HookTypeOK
    <3>1. 0 \in 0..MaxSends
      OBVIOUS
    <3>2. QED BY <3>1 DEF HookTypeOK, HookState
  <2>4. QED BY <2>1, <2>2, <2>3 DEF TypeOK
<1>4. \A q \in Requests : ReqOK(q)
  BY <1>1 DEF ReqOK
<1>5. \A h \in Hooks : HookOK(h)
  BY <1>1, <1>2 DEF HookOK, HookGood
<1>6. History
  BY <1>1 DEF History, IndexFollowsStatus, OwnersOnly, FreshUpdatesMerge
<1>7. AuditInv
  BY DEF AuditInv
<1>8. QED BY <1>3, <1>4, <1>5, <1>6, <1>7 DEF IInv

(* Every step keeps it.                                                    *)
LEMMA NextIInv == IInv /\ [Next]_vars => IInv'
<1> SUFFICES ASSUME IInv, [Next]_vars PROVE IInv'
  OBVIOUS
<1>1. ASSUME NEW q \in Requests, Arrive(q) \/ Serve(q) \/ Crash(q), UNCHANGED hook PROVE IInv'
  BY <1>1, ArriveInv, ListInv, GetInv, ReadInv, CreateInv, PutInv, AuditStep, CrashInv DEF Serve
<1>2. ASSUME NEW h \in Hooks, Receive(h) \/ Sync(h) \/ HookCrash(h), UNCHANGED req PROVE IInv'
  BY <1>2, ReceiveInv, DispatchInv, ScanInv, GetItemInv, PutStatusInv, AuditSyncInv, HookEndInv
     DEF Sync
<1>3. CASE Ingest
  BY <1>3, IngestStep
<1>4. CASE UNCHANGED vars
  <2>1. TypeOK'
    BY <1>4 DEF vars, IInv, TypeOK, TableTypeOK, ApiTypeOK, HookTypeOK
  <2>2. /\ \A a, i : Wrote(a, i)' <=> Wrote(a, i)
        /\ \A a, i : Audited(a, i)' <=> Audited(a, i)
        /\ Stored' = Stored /\ UNCHANGED <<versions, created, audit, req, hook>>
    BY <1>4 DEF vars, Wrote, Audited, Stored
  <2>3. \A q \in Requests : ReqOK(q)'
    BY <2>2 DEF IInv, ReqOK
  <2>4. \A h \in Hooks : HookOK(h)'
    BY <2>2, HookOKLocal DEF IInv, HookOK
  <2>5. CallsKept
    BY <2>2 DEF CallsKept
  <2>6. History'
    BY <2>2, <2>5, HistorySame
  <2>7. AuditInv'
    BY <2>2 DEF IInv, AuditInv
  <2>8. QED BY <2>1, <2>3, <2>4, <2>6, <2>7 DEF IInv
<1>5. QED BY <1>1, <1>2, <1>3, <1>4 DEF Next, ApiNext, HookNext

(* Whatever the interleaving and the faults, a request and an execution of *)
(* the webhook find the table as their place in the code demands.          *)
THEOREM Invariance == Spec => []IInv
BY InitIInv, NextIInv, PTL DEF Spec

(* Every variable keeps its shape, and no put is sent too often.           *)
THEOREM TypeCorrect == Spec => []TypeOK
BY Invariance, PTL DEF IInv

(* GSI1 never lists an item under a status it has not (db.py:326).         *)
THEOREM IndexFollowsStatusAlways == Spec => []IndexFollowsStatus
BY Invariance, PTL DEF IInv, History

(* No caller writes another's item, no notice one it does not mirror.      *)
THEOREM OwnersOnlyAlways == Spec => []OwnersOnly
BY Invariance, PTL DEF IInv, History

(* A write from the latest version keeps what it does not name.            *)
THEOREM FreshUpdatesMergeAlways == Spec => []FreshUpdatesMerge
BY Invariance, PTL DEF IInv, History

(* Requests' audit events and stored writes match.                         *)
THEOREM AuditMatchesWritesAlways == Spec => []AuditMatchesWrites
<1>1. IInv => AuditMatchesWrites
  <2> SUFFICES ASSUME IInv, NEW q \in Requests
               PROVE  LET did == \E i \in Items : Wrote(q, i)
                      IN  /\ did => \/ req[q].pc \in {"put", "audit", "failed", "conflict"}
                                    \/ Audited(q, req[q].item)
                          /\ req[q].pc = "ok" /\ Op(q) \notin {"get", "list"} => did
                          /\ req[q].pc = "notfound" => ~ did
    BY DEF AuditMatchesWrites, IInv, AuditInv
  <2>1. ReqOK(q)
    BY DEF IInv
  <2>2. QED BY <2>1 DEF ReqOK, Op
<1>2. QED BY <1>1, Invariance, PTL

(* A handled notice is complete, an unhandled one without effect.          *)
THEOREM SyncsAreCompleteAlways == Spec => []SyncsAreComplete
<1>1. IInv => SyncsAreComplete
  <2> SUFFICES ASSUME IInv, NEW h \in Hooks
               PROVE  /\ hook[h].pc = "handled" => \A i \in hook[h].found :
                           Audited(h, i) /\ (StaleReads \/ Wrote(h, i))
                      /\ hook[h].pc \in {"unhandled", "refused"} => \A i \in Items :
                           ~ Audited(h, i) /\ ~ Wrote(h, i)
                      /\ \A i \in Items : Wrote(h, i) /\ ~ Audited(h, i) =>
                           hook[h].item = i /\ hook[h].pc \in {"put", "audit", "failed"}
    BY DEF SyncsAreComplete
  <2>1. HookGood(h, hook[h])
    BY DEF IInv, HookOK
  <2>2. QED BY <2>1 DEF HookGood
<1>2. QED BY <1>1, Invariance, PTL
=============================================================================
