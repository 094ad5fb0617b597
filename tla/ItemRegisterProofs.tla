------------------------- MODULE ItemRegisterProofs -------------------------
(***************************************************************************)
(* The proof that ItemsPlatform implements ItemRegister.  A step stores    *)
(* one version, appends one audit event, or does neither; the first is an  *)
(* act of the register, the second a report, and the third a stutter,      *)
(* because a version's author is never asked anything else.                *)
(***************************************************************************)
EXTENDS ItemsPlatformProofs

-----------------------------------------------------------------------------
(* Entries as sequences                                                    *)

(* A function on 1..k is a sequence of length k.                           *)
LEMMA FunctionIsSeq ==
  ASSUME NEW k \in Nat, NEW h, h = [n \in 1..k |-> h[n]]
  PROVE  h \in Seq({h[n] : n \in 1..k}) /\ Len(h) = k
<1> DEFINE S == {h[n] : n \in 1..k}
<1>1. h \in [1..k -> S]
  OBVIOUS
<1>2. h \in Seq(S)
  BY <1>1, SeqDef
<1>3. DOMAIN h = 1..Len(h) /\ Len(h) \in Nat /\ DOMAIN h = 1..k
  BY <1>1, <1>2, LenProperties
<1>4. QED BY <1>2, <1>3

(* One more element, the others where they were: the sequence is appended. *)
LEMMA FunctionGrows ==
  ASSUME NEW k \in Nat, NEW h, h = [n \in 1..k |-> h[n]],
         NEW g, g = [n \in 1..(k + 1) |-> g[n]],
         \A n \in 1..k : g[n] = h[n]
  PROVE  g = Append(h, g[k + 1]) /\ Len(h) = k /\ Len(g) = k + 1
<1> DEFINE S == {g[n] : n \in 1..(k + 1)}
<1>1. h \in [1..k -> S] /\ g \in [1..(k + 1) -> S] /\ g[k + 1] \in S /\ k + 1 \in Nat
  <2>1. \A n \in 1..(k + 1) : g[n] \in S
    OBVIOUS
  <2> HIDE DEF S
  <2>2. k + 1 \in 1..(k + 1) /\ \A n \in 1..k : n \in 1..(k + 1)
    OBVIOUS
  <2>3. \A n \in 1..k : h[n] \in S
    BY <2>1, <2>2
  <2>4. h \in [1..k -> S]
    BY <2>3
  <2>5. g \in [1..(k + 1) -> S]
    BY <2>1
  <2>6. QED BY <2>1, <2>2, <2>4, <2>5
<1> HIDE DEF S
<1>2. h \in Seq(S) /\ g \in Seq(S)
  BY <1>1, SeqDef
<1>3. Len(h) = k /\ Len(g) = k + 1
  BY <1>1, FunctionIsSeq
<1>4. /\ Append(h, g[k + 1]) \in Seq(S) /\ Len(Append(h, g[k + 1])) = k + 1
      /\ \A n \in 1..k : Append(h, g[k + 1])[n] = h[n]
      /\ Append(h, g[k + 1])[k + 1] = g[k + 1]
  BY <1>1, <1>2, <1>3, AppendProperties
<1>5. \A n \in 1..Len(g) : g[n] = Append(h, g[k + 1])[n]
  <2>1. \A n \in 1..Len(g) : n \in 1..k \/ n = k + 1
    BY <1>3
  <2>2. QED BY <1>4, <2>1
<1>6. g = Append(h, g[k + 1])
  BY <1>2, <1>3, <1>4, <1>5, SeqEqual
<1>7. QED BY <1>3, <1>6

-----------------------------------------------------------------------------
(* The entries of the platform                                             *)

(* The entry of a stored version goes on to be what it was.                *)
LEMMA EntryKept ==
  ASSUME IInv, CallsKept, NEW i \in Items, NEW n \in 1..Len(versions[i]),
         NEW v, v = versions[i][n]
  PROVE  EntryOf(v)' = EntryOf(v)
<1>1. v.by \in Requests => req'[v.by].call = req[v.by].call
  BY OldVersions
<1>2. Act(v.by)' = Act(v.by) /\ Actor(v.by)' = Actor(v.by)
  BY <1>1 DEF Act, Actor, Op, User
<1>3. QED BY <1>2 DEF EntryOf

(* An item's history has an entry for each version.                        *)
LEMMA HistoriesAre ==
  ASSUME TableTypeOK, NEW i \in Items
  PROVE  /\ Len(versions[i]) \in Nat
         /\ Histories[i] = [n \in 1..Len(versions[i]) |-> Histories[i][n]]
         /\ \A n \in 1..Len(versions[i]) : Histories[i][n] = EntryOf(versions[i][n])
         /\ Len(Histories[i]) = Len(versions[i])
         /\ versions[i] # <<>> => Histories[i] # <<>>
         /\ versions[i] = <<>> => Histories[i] = <<>>
<1>1. versions[i] \in Seq(Version) /\ Len(versions[i]) \in Nat
  BY LenProperties DEF TableTypeOK
<1> DEFINE h == Histories[i]
           k == Len(versions[i])
<1>2. h = [n \in 1..k |-> EntryOf(versions[i][n])]
  BY DEF Histories
<1> HIDE DEF h
<1>3. h = [n \in 1..k |-> h[n]] /\ \A n \in 1..k : h[n] = EntryOf(versions[i][n])
  BY <1>2
<1>4. Len(h) = k /\ h \in Seq({h[n] : n \in 1..k})
  BY <1>1, <1>3, FunctionIsSeq
<1>5. (versions[i] = <<>> <=> k = 0) /\ (h = <<>> <=> Len(h) = 0)
  BY <1>1, <1>4, EmptySeq
<1>6. QED BY <1>1, <1>3, <1>4, <1>5 DEF h

(* A step that stores no version leaves the histories alone.               *)
LEMMA HistoriesSame ==
  ASSUME IInv, CallsKept, versions' = versions
  PROVE  Histories' = Histories
<1>1. ASSUME NEW i \in Items, NEW n \in 1..Len(versions[i])
      PROVE  EntryOf(versions[i][n])' = EntryOf(versions[i][n])
  <2> DEFINE v == versions[i][n]
  <2>1. PICK u : u = v
    OBVIOUS
  <2>2. EntryOf(u)' = EntryOf(u)
    BY <2>1, EntryKept
  <2>3. v' = v
    OBVIOUS
  <2>4. QED BY <2>1, <2>2, <2>3 DEF EntryOf
<1>2. QED BY <1>1 DEF Histories

(* A version that is stored adds its entry to its item's history.          *)
LEMMA HistoriesGrow ==
  ASSUME IInv, CallsKept, NEW i \in Items, NEW v \in Version, Grows(i, v)
  PROVE  /\ Histories' = [Histories EXCEPT ![i] = Append(@, EntryOf(v)')]
         /\ Len(Histories'[i]) = Len(Histories[i]) + 1
         /\ Histories'[i][Len(Histories'[i])] = EntryOf(v)'
<1> DEFINE h == Histories[i]
           g == Histories'[i]
<1>1. TableTypeOK
  BY DEF IInv, TypeOK
<1>k. PICK k : k = Len(versions[i])
  OBVIOUS
<1>2. /\ k \in Nat /\ Len(versions'[i]) = k + 1 /\ versions'[i][k + 1] = v
      /\ \A n \in 1..k : versions'[i][n] = versions[i][n]
      /\ \A j \in Items \ {i} : versions'[j] = versions[j]
  BY <1>k, <1>1, Growth
<1>3. h = [n \in 1..k |-> h[n]] /\ \A n \in 1..k : h[n] = EntryOf(versions[i][n])
  BY <1>k, <1>1, HistoriesAre
<1>4. ASSUME NEW j \in Items, NEW n \in 1..Len(versions[j]), versions'[j][n] = versions[j][n]
      PROVE  EntryOf(versions[j][n])' = EntryOf(versions[j][n])
  <2>1. PICK u : u = versions[j][n]
    OBVIOUS
  <2>2. EntryOf(u)' = EntryOf(u)
    BY <2>1, EntryKept
  <2>3. versions[j][n]' = u
    BY <1>4, <2>1
  <2>4. EntryOf(versions[j][n])' = EntryOf(u)'
    BY <2>3 DEF EntryOf
  <2>5. QED BY <2>1, <2>2, <2>4
<1>5. \A n \in 1..k : g[n] = h[n]
  BY <1>k, <1>2, <1>3, <1>4 DEF Histories
<1>6. g[k + 1] = EntryOf(v)'
  <2>1. g[k + 1] = EntryOf(versions[i][k + 1])'
    BY <1>2 DEF Histories
  <2>2. QED BY <1>2, <2>1 DEF EntryOf
<1>7. g = [n \in 1..(k + 1) |-> g[n]]
  BY <1>2 DEF Histories
<1> HIDE DEF h, g
<1>8. g = Append(h, EntryOf(v)') /\ Len(h) = k /\ Len(g) = k + 1
  <2>1. k \in Nat /\ h = [n \in 1..k |-> h[n]]
    BY <1>2, <1>3 DEF h
  <2>2. \A n \in 1..k : g[n] = h[n]
    BY <1>5 DEF h
  <2>3. g = Append(h, g[k + 1]) /\ Len(h) = k /\ Len(g) = k + 1
    BY <1>7, <2>1, <2>2, FunctionGrows
  <2>4. QED BY <1>6, <2>3
<1>9. ASSUME NEW j \in Items \ {i} PROVE Histories'[j] = Histories[j]
  <2>1. \A n \in 1..Len(versions[j]) : EntryOf(versions[j][n])' = EntryOf(versions[j][n])
    BY <1>2, <1>4
  <2>2. QED BY <1>2, <2>1 DEF Histories
<1>10. Histories' = [Histories EXCEPT ![i] = Append(@, EntryOf(v)')]
  BY <1>8, <1>9 DEF Histories, h, g
<1>11. QED BY <1>6, <1>8, <1>10 DEF h, g

-----------------------------------------------------------------------------
(* The steps                                                               *)

(* A step that stores nothing and audits nothing is a stutter.             *)
LEMMA QuietStep ==
  ASSUME IInv, CallsKept, UNCHANGED <<versions, audit>>
  PROVE  UNCHANGED Register!vars
<1>1. Histories' = Histories
  BY HistoriesSame
<1>2. Reported' = Reported
  BY DEF Reported
<1>3. QED BY <1>1, <1>2 DEF Register!vars

(* A step that stores a version enters its entry.                          *)
LEMMA EnterStep ==
  ASSUME IInv, CallsKept, NEW i \in Items, NEW v \in Version, Grows(i, v),
         UNCHANGED audit, EntryOf(v)' \in Register!Entry
  PROVE  Register!Enter(i) /\ Register!Latest(i)' = EntryOf(v)'
<1>1. TableTypeOK
  BY DEF IInv, TypeOK
<1>2. /\ Histories' = [Histories EXCEPT ![i] = Append(@, EntryOf(v)')]
      /\ Len(Histories'[i]) = Len(Histories[i]) + 1
      /\ Histories'[i][Len(Histories'[i])] = EntryOf(v)'
      /\ Len(Histories[i]) \in Nat
  BY <1>1, HistoriesGrow, HistoriesAre
<1>3. Register!Latest(i)' = EntryOf(v)'
  BY <1>2 DEF Register!Latest
<1>4. Reported' = Reported
  BY DEF Reported
<1>5. Len(Histories'[i]) > Len(Histories[i])
  BY <1>2
<1>6. QED BY <1>2, <1>3, <1>4, <1>5 DEF Register!Enter

(* So it does if the item is new.                                          *)
LEMMA FirstStep ==
  ASSUME IInv, CallsKept, NEW i \in Items, NEW v \in Version, Grows(i, v),
         UNCHANGED audit, EntryOf(v)' \in Register!Entry,
         versions[i] = <<>>, v.title # Blank
  PROVE  Register!First(i) /\ Register!Latest(i)' = EntryOf(v)'
<1>1. Register!Enter(i) /\ Register!Latest(i)' = EntryOf(v)'
  BY EnterStep
<1>2. Histories[i] = <<>>
  BY HistoriesAre DEF IInv, TypeOK
<1>3. EntryOf(v)'.title = v.title
  BY DEF EntryOf
<1>4. QED BY <1>1, <1>2, <1>3 DEF Register!First

(* An act on an item that exists starts from the entry of a version of it. *)
LEMMA AmendStep ==
  ASSUME IInv, CallsKept, NEW i \in Items, NEW v \in Version, Grows(i, v),
         UNCHANGED audit, EntryOf(v)' \in Register!Entry,
         NEW n \in 1..Len(versions[i]), v.owner = versions[i][n].owner,
         LET old == EntryOf(versions[i][n])
             new == EntryOf(v)'
         IN  Register!Updates(old, new) \/ Register!Deletes(old, new) \/ Register!Syncs(old, new)
  PROVE  Register!Next
<1> DEFINE old == EntryOf(versions[i][n])
           new == EntryOf(v)'
<1>1. Register!Enter(i) /\ Register!Latest(i)' = new
  BY EnterStep
<1>2. /\ Len(versions[i]) \in Nat /\ Histories[i][n] = old
      /\ Len(Histories[i]) = Len(versions[i])
      /\ versions[i] # <<>> => Histories[i] # <<>>
      /\ versions[i] = <<>> => Histories[i] = <<>>
  BY HistoriesAre DEF IInv, TypeOK
<1>3. Histories[i] # <<>>
  <2>1. Len(versions[i]) # 0
    BY <1>2
  <2>2. versions[i] # <<>>
    BY <2>1, EmptySeq
  <2>3. QED BY <1>2, <2>2
<1>4. old \in Register!Entries(i)
  BY <1>2 DEF Register!Entries
<1>5. new.owner = old.owner
  BY DEF EntryOf
<1> HIDE DEF old, new
<1>6. Register!Amend(i)
  BY <1>1, <1>3, <1>4, <1>5 DEF Register!Amend, old, new
<1>7. QED BY <1>6 DEF Register!Next

(* No step asks anything else of who was asked before.                     *)
LEMMA NextKeepsCalls == IInv /\ [Next]_vars => CallsKept
<1> SUFFICES ASSUME IInv, [Next]_vars PROVE CallsKept
  OBVIOUS
<1>1. req \in [Requests -> RequestState] /\ hook \in [Hooks -> HookState]
  BY DEF IInv, TypeOK, ApiTypeOK, HookTypeOK
<1>2. ASSUME NEW q \in Requests, Arrive(q) \/ Serve(q) \/ Crash(q), UNCHANGED hook
      PROVE  CallsKept
  <2>1. CASE Arrive(q)
    BY <1>1, <1>2, <2>1 DEF Arrive, CallsKept, RequestState
  <2>2. CASE List(q)
    BY <1>1, <1>2, <2>2 DEF List, CallsKept, RequestState
  <2>3. CASE Get(q)
    BY <1>1, <1>2, <2>3 DEF Get, CallsKept, RequestState
  <2>4. CASE Read(q)
    BY <1>1, <1>2, <2>4 DEF Read, CallsKept, RequestState
  <2>5. CASE Create(q)
    <3>1. PICK i \in Items, p \in {"audit", "conflict"} :
            req' = [req EXCEPT ![q].pc = p, ![q].item = i, ![q].sends = 1]
      BY <2>5 DEF Create
    <3>2. QED BY <1>1, <1>2, <3>1 DEF CallsKept, RequestState
  <2>6. CASE Put(q)
    <3>1. PICK p \in {"audit", "put"} : req' = [req EXCEPT ![q].pc = p, ![q].sends = @ + 1]
      BY <2>6 DEF Put
    <3>2. QED BY <1>1, <1>2, <3>1 DEF CallsKept, RequestState
  <2>7. CASE Audit(q)
    BY <1>1, <1>2, <2>7 DEF Audit, CallsKept, RequestState
  <2>8. CASE Crash(q)
    BY <1>1, <1>2, <2>8 DEF Crash, CallsKept, RequestState
  <2>9. QED BY <1>2, <2>1, <2>2, <2>3, <2>4, <2>5, <2>6, <2>7, <2>8 DEF Serve
<1>3. ASSUME NEW h \in Hooks, Receive(h) \/ Sync(h) \/ HookCrash(h), UNCHANGED req
      PROVE  CallsKept
  <2>1. CASE Receive(h)
    BY <1>1, <1>3, <2>1 DEF Receive, CallsKept, HookState
  <2>2. CASE Dispatch(h)
    BY <1>1, <1>3, <2>2 DEF Dispatch, CallsKept, HookState
  <2>3. CASE Scan(h)
    BY <1>1, <1>3, <2>3 DEF Scan, CallsKept, HookState
  <2>4. CASE GetItem(h)
    BY <1>1, <1>3, <2>4 DEF GetItem, CallsKept, HookState
  <2>5. CASE PutStatus(h)
    <3>1. PICK p \in {"audit", "put"} :
            hook' = [hook EXCEPT ![h].pc = p, ![h].sends = @ + 1]
      BY <2>5 DEF PutStatus
    <3>2. QED BY <1>1, <1>3, <3>1 DEF CallsKept, HookState
  <2>6. CASE AuditSync(h)
    BY <1>1, <1>3, <2>6 DEF AuditSync, CallsKept, HookState
  <2>7. CASE Comment(h)
    BY <1>1, <1>3, <2>7 DEF Comment, CallsKept, HookState
  <2>8. CASE HookCrash(h)
    BY <1>1, <1>3, <2>8 DEF HookCrash, CallsKept, HookState
  <2>9. QED BY <1>3, <2>1, <2>2, <2>3, <2>4, <2>5, <2>6, <2>7, <2>8 DEF Sync
<1>4. CASE UNCHANGED <<req, hook>>
  BY <1>4 DEF CallsKept
<1>5. QED BY <1>2, <1>3, <1>4 DEF Next, ApiNext, HookNext, Ingest, vars

USE TableAssumption, ApiAssumption, WebhookAssumption, PlatformAssumption

(* The ETL's put is the register's Ingest.                                 *)
LEMMA IngestRegister ==
  ASSUME IInv, CallsKept, Ingest
  PROVE  Register!Next
<1>1. PICK r \in Rows : StoreNewItem(Etl, r.owner, r.item, r.title, r.body, "active")
  BY DEF Ingest
<1> DEFINE v == [owner |-> r.owner, title |-> r.title, body |-> r.body, status |-> "active",
                 gsi1pk |-> "active", by |-> Etl, base |-> 0]
<1>2. /\ r.item \in Items /\ r.owner \in Users /\ r.title \in Titles /\ r.title # Blank
      /\ r.body \in Bodies /\ "active" \in ItemStatus
  BY DEF ItemStatus
<1>3. v \in Version
  BY <1>2 DEF Version
<1>4. versions[r.item] = <<>> /\ versions' = [versions EXCEPT ![r.item] = <<v>>]
  BY <1>1 DEF StoreNewItem
<1>5. /\ v.by = Etl /\ v.owner = r.owner /\ v.title = r.title /\ v.body = r.body
      /\ v.status = "active"
  OBVIOUS
<1> HIDE DEF v
<1>6. Grows(r.item, v)
  <2>1. Append(<<>>, v) = <<v>>
    OBVIOUS
  <2>2. QED BY <1>4, <2>1 DEF Grows
<1> DEFINE new == EntryOf(v)'
<1>7. /\ new = [owner |-> r.owner, title |-> r.title, body |-> r.body, status |-> "active",
                 act |-> "ingest", actor |-> Etl]
      /\ new \in Register!Entry
  BY <1>2, <1>5 DEF EntryOf, Act, Actor, Register!Entry
<1>8. UNCHANGED audit
  BY DEF Ingest
<1>9. Register!First(r.item) /\ Register!Latest(r.item)' = new
  BY <1>2, <1>3, <1>4, <1>5, <1>6, <1>7, <1>8, FirstStep
<1>10. Register!Ingest(r.item)
  BY <1>7, <1>9 DEF Register!Ingest
<1>11. QED BY <1>2, <1>10 DEF Register!Next

(* A request's first put is the register's Create.                         *)
LEMMA CreateRegister ==
  ASSUME IInv, CallsKept, NEW q \in Requests, Create(q)
  PROVE  Register!Next
<1>1. req[q].pc = "put" /\ Op(q) = "create" /\ audit' = audit /\ ReqOK(q)
  BY DEF Create, IInv
<1>2. PICK i \in Items : StoreNewItem(q, User(q), i, req[q].call.title, req[q].call.body, req[q].call.status)
  BY DEF Create
<1>3. PICK c \in Calls : c = req[q].call /\ c = req'[q].call /\ c.op = "create"
  BY <1>1 DEF ReqOK, Op, CallsKept
<1>4. /\ c.user \in Users /\ c.title \in Titles /\ c.body \in Bodies /\ c.status \in ItemStatus
      /\ c.title # Blank
  BY <1>3 DEF Call
<1>5. PICK v \in Version :
        v = [owner |-> c.user, title |-> c.title, body |-> c.body, status |-> c.status,
             gsi1pk |-> c.status, by |-> q, base |-> 0]
  BY <1>4 DEF Version
<1>6. versions[i] = <<>> /\ versions' = [versions EXCEPT ![i] = <<v>>]
  BY <1>2, <1>3, <1>5 DEF StoreNewItem, User
<1>7. /\ v.by = q /\ v.owner = c.user /\ v.title = c.title /\ v.body = c.body
      /\ v.status = c.status
  BY <1>5
<1>8. Grows(i, v)
  <2>1. Append(<<>>, v) = <<v>>
    OBVIOUS
  <2>2. QED BY <1>6, <2>1 DEF Grows
<1> DEFINE new == EntryOf(v)'
<1>9. new = [owner |-> c.user, title |-> c.title, body |-> c.body, status |-> c.status,
             act |-> "create", actor |-> c.user]
  BY <1>3, <1>7 DEF EntryOf, Act, Actor, Op, User
<1>10. new \in Register!Entry
  BY <1>4, <1>9 DEF Register!Entry, Register!Name
<1>11. Register!First(i) /\ Register!Latest(i)' = new
  BY <1>1, <1>4, <1>5, <1>6, <1>7, <1>8, <1>10, FirstStep
<1>12. Register!Create(i)
  BY <1>9, <1>11 DEF Register!Create
<1>13. QED BY <1>12 DEF Register!Next

(* A request's put of a record is an update or a delete of the register.   *)
LEMMA PutRegister ==
  ASSUME IInv, CallsKept, NEW q \in Requests, Put(q)
  PROVE  Register!Next
<1>1. /\ req[q].pc = "put" /\ Op(q) # "create" /\ audit' = audit /\ ReqOK(q) /\ TableTypeOK
      /\ Overwrite(q, req[q].item, req[q].base, Record(q))
  BY DEF Put, IInv, TypeOK
<1>2. PICK c \in Calls : c = req[q].call /\ c = req'[q].call /\ c.op \in {"update", "delete"}
  BY <1>1 DEF ReqOK, Op, CallsKept
<1>3. PICK v : v = [Record(q) EXCEPT !.by = q, !.base = req[q].base]
  OBVIOUS
<1>4. PICK i \in Items, n \in Nat : i = req[q].item /\ n = req[q].base /\ n \in 1..Len(versions[i])
  <2>1. req[q].item \in Items /\ req[q].base \in 1..Len(versions[req[q].item])
    BY <1>1, <1>2 DEF ReqOK
  <2>2. Len(versions[req[q].item]) \in Nat
    BY <1>1, <2>1, LenProperties DEF TableTypeOK
  <2>3. req[q].base \in Nat
    BY <2>1, <2>2
  <2>4. QED BY <2>1, <2>3
<1>5. PICK old \in Version : old = versions[i][n]
  BY <1>1, <1>4, ElementOfSeq DEF TableTypeOK
<1>6. v \in Version /\ v.by = q /\ v.owner = versions[i][1].owner /\ v.owner = c.user
  <2>1. IInv /\ q \in Requests /\ req[q].pc = "put" /\ Op(q) # "create"
    BY <1>1
  <2>2. /\ v \in Version /\ v.by = q /\ v.owner = versions[req[q].item][1].owner
        /\ v.owner = req[q].call.user
    BY <1>3, <2>1, RecordIs
  <2>3. QED BY <1>2, <1>4, <2>2
<1>7. v.owner = old.owner
  BY <1>4, <1>5, <1>6 DEF IInv, History, OwnersOnly
<1>8. c.op = "delete" => v.title = old.title /\ v.body = old.body /\ v.status = "archived"
  <2> SUFFICES ASSUME c.op = "delete"
               PROVE  v.title = old.title /\ v.body = old.body /\ v.status = "archived"
    OBVIOUS
  <2>1. Record(q) = WithStatus(old, "archived")
    BY <1>2, <1>4, <1>5 DEF Record, Op
  <2>2. "archived" \in ItemStatus
    BY DEF ItemStatus
  <2>3. /\ Record(q) \in Version /\ Record(q).title = old.title
        /\ Record(q).body = old.body /\ Record(q).status = "archived"
    BY <2>1, <2>2, WithStatusIs
  <2>4. QED BY <1>3, <2>3 DEF Version
<1>9. Grows(i, v)
  BY <1>1, <1>3, <1>4 DEF Overwrite, Grows
<1>10. EntryOf(v)' = [owner |-> c.user, title |-> v.title, body |-> v.body, status |-> v.status,
                      act |-> c.op, actor |-> c.user]
  BY <1>2, <1>6 DEF EntryOf, Act, Actor, Op, User
<1>11. EntryOf(v)' \in Register!Entry
  BY <1>2, <1>6, <1>10 DEF Register!Entry, Register!Name, Version
<1> DEFINE was == EntryOf(versions[i][n])
           new == EntryOf(v)'
<1>12. was.owner = old.owner /\ was.title = old.title /\ was.body = old.body
  BY <1>5 DEF EntryOf
<1>13. /\ new.act = c.op /\ new.actor = c.user
       /\ new.title = v.title /\ new.body = v.body /\ new.status = v.status
  BY <1>10
<1> HIDE DEF was, new
<1>14. Register!Updates(was, new) \/ Register!Deletes(was, new) \/ Register!Syncs(was, new)
  BY <1>2, <1>6, <1>7, <1>8, <1>12, <1>13 DEF Register!Updates, Register!Deletes
<1>15. QED
  BY <1>1, <1>4, <1>5, <1>6, <1>7, <1>9, <1>11, <1>14, AmendStep DEF was, new

(* The webhook's put is the register's sync.                               *)
LEMMA PutStatusRegister ==
  ASSUME IInv, CallsKept, NEW h \in Hooks, PutStatus(h)
  PROVE  Register!Next
<1>1. /\ hook[h].pc = "put" /\ audit' = audit /\ HookGood(h, hook[h]) /\ TableTypeOK
      /\ hook[h] \in HookState
      /\ Overwrite(h, hook[h].item, hook[h].base,
           WithStatus(versions[hook[h].item][hook[h].base], Target(hook[h].notice)))
  BY DEF PutStatus, IInv, TypeOK, HookOK, HookTypeOK
<1>2. PICK i \in Items, n \in Nat :
        i = hook[h].item /\ n = hook[h].base /\ n \in 1..Len(versions[i])
  BY <1>1 DEF HookGood, HookState
<1>3. PICK old \in Version : old = versions[i][n]
  BY <1>1, <1>2, ElementOfSeq DEF TableTypeOK
<1>4. Target(hook[h].notice) \in ItemStatus
  BY DEF Target, ItemStatus
<1>5. PICK w \in Version : /\ w = WithStatus(old, Target(hook[h].notice))
                           /\ w.owner = old.owner /\ w.title = old.title /\ w.body = old.body
  BY <1>4, WithStatusIs
<1>6. PICK v \in Version : v = [w EXCEPT !.by = h, !.base = n]
  BY DEF Version
<1>7. /\ v.by = h /\ v.owner = old.owner /\ v.title = old.title /\ v.body = old.body
      /\ v.status = w.status
  BY <1>5, <1>6 DEF Version
<1>8. Grows(i, v)
  BY <1>1, <1>2, <1>3, <1>5, <1>6 DEF Overwrite, Grows
<1>9. EntryOf(v)' = [owner |-> old.owner, title |-> old.title, body |-> old.body,
                     status |-> v.status, act |-> "sync", actor |-> Webhook]
  BY <1>7 DEF EntryOf, Act, Actor
<1>10. EntryOf(v)' \in Register!Entry
  BY <1>9 DEF Register!Entry, Register!Name, Version
<1> DEFINE was == EntryOf(versions[i][n])
           new == EntryOf(v)'
<1>11. was.owner = old.owner /\ was.title = old.title /\ was.body = old.body
  BY <1>3 DEF EntryOf
<1>12. Register!Syncs(was, new)
  BY <1>9, <1>11 DEF Register!Syncs
<1> HIDE DEF was, new
<1>13. Register!Updates(was, new) \/ Register!Deletes(was, new) \/ Register!Syncs(was, new)
  BY <1>12
<1>14. QED
  BY <1>1, <1>2, <1>3, <1>7, <1>8, <1>10, <1>13, AmendStep DEF was, new

(* An event that is reported was done, and reporting it twice is a stutter.*)
LEMMA ReportStep ==
  ASSUME IInv, CallsKept, UNCHANGED versions, NEW i \in Items,
         NEW e, audit' = audit \cup {e},
         e.item = i,
         Register!Reportable(i, [item |-> e.item, action |-> e.action, actor |-> e.actor])
  PROVE  [Register!Next]_Register!vars
<1>1. Histories' = Histories
  BY HistoriesSame
<1>2. PICK event : event = [item |-> e.item, action |-> e.action, actor |-> e.actor]
  OBVIOUS
<1>3. Reported' = Reported \cup {event}
  BY <1>2 DEF Reported
<1>4. CASE event \in Reported
  <2>1. Reported' = Reported
    BY <1>3, <1>4
  <2>2. QED BY <1>1, <2>1 DEF Register!vars
<1>5. CASE event \notin Reported
  <2>1. event \in Reported' \ Reported
    BY <1>3, <1>5
  <2>2. Register!Report(i)
    BY <1>1, <1>2, <1>3, <2>1 DEF Register!Report
  <2>3. QED BY <2>2 DEF Register!Next
<1>6. QED BY <1>4, <1>5

(* A request's audit event reports its own act.                            *)
LEMMA AuditRegister ==
  ASSUME IInv, CallsKept, NEW q \in Requests, Audit(q)
  PROVE  [Register!Next]_Register!vars
<1>1. /\ req[q].pc = "audit" /\ versions' = versions /\ ReqOK(q) /\ TableTypeOK
      /\ AppendAudit(q, req[q].item, AuditAction(q), User(q))
  BY DEF Audit, IInv, TypeOK
<1>2. PICK c \in Calls, i \in Items :
        /\ c = req[q].call /\ i = req[q].item /\ c.op \in {"create", "update", "delete"}
        /\ Wrote(q, i)
  BY <1>1 DEF ReqOK
<1>3. PICK e : e = [item |-> i, action |-> AuditAction(q), actor |-> c.user, by |-> q]
  OBVIOUS
<1>4. audit' = audit \cup {e}
  BY <1>1, <1>2, <1>3 DEF AppendAudit, User
<1>5. PICK n \in 1..Len(versions[i]) : versions[i][n].by = q
  BY <1>2 DEF Wrote
<1> DEFINE entry == EntryOf(versions[i][n])
<1>6. entry \in Register!Entries(i)
  BY <1>1, HistoriesAre DEF Register!Entries
<1>7. entry.act = c.op /\ entry.actor = c.user
  BY <1>2, <1>5 DEF EntryOf, Act, Actor, Op, User
<1>8. AuditAction(q) = Register!Name[c.op] /\ c.op \in DOMAIN Register!Name
  BY <1>2 DEF AuditAction, Op, Register!Name
<1> HIDE DEF entry
<1>9. Register!Reportable(i, [item |-> e.item, action |-> e.action, actor |-> e.actor])
  BY <1>3, <1>6, <1>7, <1>8 DEF Register!Reportable
<1>10. QED BY <1>1, <1>3, <1>4, <1>9, ReportStep

(* The webhook's reports an item it found, updated or not.                 *)
LEMMA AuditSyncRegister ==
  ASSUME IInv, CallsKept, NEW h \in Hooks, AuditSync(h)
  PROVE  [Register!Next]_Register!vars
<1>1. /\ hook[h].pc = "audit" /\ versions' = versions /\ HookGood(h, hook[h]) /\ TableTypeOK
      /\ AppendAudit(h, hook[h].item, "monday.sync", Webhook) /\ hook[h] \in HookState
  BY DEF AuditSync, IInv, TypeOK, HookOK, HookTypeOK
<1>2. PICK i \in Items : i = hook[h].item /\ versions[i] # <<>>
  BY <1>1 DEF HookGood, HookState, Candidates, Stored
<1>3. PICK e : e = [item |-> i, action |-> "monday.sync", actor |-> Webhook, by |-> h]
  OBVIOUS
<1>4. audit' = audit \cup {e}
  BY <1>1, <1>2, <1>3 DEF AppendAudit
<1>5. Histories[i] # <<>>
  BY <1>1, <1>2, HistoriesAre
<1>6. Register!Reportable(i, [item |-> e.item, action |-> e.action, actor |-> e.actor])
  BY <1>3, <1>5 DEF Register!Reportable, Register!Name
<1>7. UNCHANGED versions /\ e.item = i
  BY <1>1, <1>3
<1>8. QED BY <1>4, <1>6, <1>7, ReportStep

-----------------------------------------------------------------------------
(* The theorem                                                             *)

(* The empty table is the empty register.                                  *)
LEMMA InitRegister == Init => Register!Init
<1> SUFFICES ASSUME Init PROVE Register!Init
  OBVIOUS
<1>1. IInv
  BY InitIInv
<1>2. \A i \in Items : Histories[i] = <<>>
  BY <1>1, HistoriesAre DEF Init, TableInit, IInv, TypeOK
<1>3. Histories = [i \in Items |-> <<>>]
  BY <1>2 DEF Histories
<1>4. Reported = {}
  BY DEF Init, TableInit, Reported
<1>5. QED BY <1>3, <1>4 DEF Register!Init

(* Every step is one of the register's or a stutter.                       *)
LEMMA NextRegister == IInv /\ [Next]_vars => [Register!Next]_Register!vars
<1> SUFFICES ASSUME IInv, [Next]_vars PROVE [Register!Next]_Register!vars
  OBVIOUS
<1>1. CallsKept
  BY NextKeepsCalls
<1>2. CASE UNCHANGED <<versions, audit>>
  BY <1>1, <1>2, QuietStep
<1>3. ASSUME NEW q \in Requests, Arrive(q) \/ Serve(q) \/ Crash(q)
      PROVE  [Register!Next]_Register!vars
  <2>1. CASE Arrive(q) \/ List(q) \/ Get(q) \/ Read(q) \/ Crash(q)
    BY <1>2, <2>1 DEF Arrive, List, Get, Read, Crash
  <2>2. CASE Create(q) \/ Put(q)
    BY <1>1, <2>2, CreateRegister, PutRegister
  <2>3. CASE Audit(q)
    BY <1>1, <2>3, AuditRegister
  <2>4. QED BY <1>3, <2>1, <2>2, <2>3 DEF Serve
<1>4. ASSUME NEW h \in Hooks, Receive(h) \/ Sync(h) \/ HookCrash(h)
      PROVE  [Register!Next]_Register!vars
  <2>1. CASE Receive(h) \/ Dispatch(h) \/ Scan(h) \/ GetItem(h) \/ Comment(h) \/ HookCrash(h)
    BY <1>2, <2>1 DEF Receive, Dispatch, Scan, GetItem, Comment, HookCrash
  <2>2. CASE PutStatus(h)
    BY <1>1, <2>2, PutStatusRegister
  <2>3. CASE AuditSync(h)
    BY <1>1, <2>3, AuditSyncRegister
  <2>4. QED BY <1>4, <2>1, <2>2, <2>3 DEF Sync
<1>5. CASE Ingest
  BY <1>1, <1>5, IngestRegister
<1>6. CASE UNCHANGED vars
  BY <1>2, <1>6 DEF vars
<1>7. QED BY <1>3, <1>4, <1>5, <1>6 DEF Next, ApiNext, HookNext

(* The platform implements the register: whatever the interleaving, the    *)
(* stale reads and the faults, every stored version is one of the five     *)
(* acts, done by somebody entitled to it (db.py:326, items.py:125), and    *)
(* every audit event reports an act that was done (db.py:398).             *)
THEOREM ImplementsRegister == Spec => RegisterSpec
<1>1. Init => Register!Init
  BY InitRegister
<1>2. IInv /\ [Next]_vars => [Register!Next]_Register!vars
  BY NextRegister
<1>3. QED BY <1>1, <1>2, Invariance, PTL DEF Spec, RegisterSpec, Register!Spec
=============================================================================
