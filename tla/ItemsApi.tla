------------------------------ MODULE ItemsApi ------------------------------
(***************************************************************************)
(* Concurrent requests to the /items routes (app/api/items.py): create,    *)
(* list, get, update and soft delete.  Each request is a Lambda execution  *)
(* that reads, writes and audits in separate calls to the table.           *)
(***************************************************************************)
EXTENDS ItemTable

CONSTANTS
  Requests,  \* client requests; they are authors of versions
  Calls,     \* what a request may ask for, see Call
  Spaces,    \* a title of blanks only, which the schema's min_length accepts
  Blank,     \* the empty title
  PageLimit  \* the limit of GET /items

\* The fields a payload leaves out are None; a list's item is its cursor.
Call == [op : {"create", "list", "get", "update", "delete"}, user : Users,
         item : Items \cup {None}, title : Titles \cup {None},
         body : Bodies \cup {None}, status : ItemStatus \cup {None}]

ASSUME ApiAssumption ==
  /\ {Spaces, Blank} \subseteq Titles
  /\ \A c \in Calls :
       /\ c \in Call
       /\ c.op = "create" => /\ c.item = None /\ c.title \in Titles
                             /\ c.body \in Bodies /\ c.status \in ItemStatus
       /\ c.op \in {"get", "update", "delete"} => c.item \in Items
       /\ c.title # Blank
  /\ PageLimit \in Nat \ {0}
  /\ None \notin ItemStatus
  /\ None \notin Calls

VARIABLE req   \* req[q]: what request q is doing

Replied == {"ok", "notfound", "conflict", "failed"}

RequestState ==
  [pc   : {"new", "list", "read", "put", "audit"} \cup Replied,
   call : Calls \cup {None},
   item : Items \cup {None},
   base : Nat,              \* the version get_item returned
   sends: 0..MaxSends,      \* sends of its put so far
   page : SUBSET Items]     \* the items a list is answered with

ApiTypeOK == req \in [Requests -> RequestState]

ApiInit ==
  req = [q \in Requests |-> [pc |-> "new", call |-> None, item |-> None,
                             base |-> 0, sends |-> 0, page |-> {}]]

-----------------------------------------------------------------------------
Op(q) == req[q].call.op
User(q) == req[q].call.user

Arrive(q) ==
  /\ req[q].pc = "new"
  /\ \E c \in Calls :
       req' = [req EXCEPT ![q].call = c, ![q].item = c.item,
                          ![q].pc = CASE c.op = "create" -> "put"
                                      [] c.op = "list"   -> "list"
                                      [] OTHER           -> "read"]
  /\ UNCHANGED <<versions, created, audit>>

\* The routes answer with Item.model_validate, whose title is not empty.
Served(record) == IF record.title = Blank THEN "failed" ELSE "ok"

\* GET /items/{id}: 404 if the caller has no such item.
Get(q) ==
  /\ req[q].pc = "read" /\ Op(q) = "get"
  /\ \E n \in Visible(User(q), req[q].item) :
       req' = [req EXCEPT ![q].pc = IF n = 0 THEN "notfound"
                                    ELSE Served(versions[req[q].item][n]),
                          ![q].base = n]
  /\ UNCHANGED <<versions, created, audit>>

\* How an answer with item i of user u may turn out.
Outcomes(u, i) == {Served(versions[i][n]) : n \in Visible(u, i) \ {0}}

\* GET /items: one page below the cursor; one item that does not validate
\* fails the whole page.
List(q) ==
  /\ req[q].pc = "list"
  /\ \E S \in Sightings(User(q)) :
       LET page == Page(S, req[q].item, PageLimit)
       IN  \/ /\ \A i \in page : "ok" \in Outcomes(User(q), i)
              /\ req' = [req EXCEPT ![q].pc = "ok", ![q].page = page]
           \/ /\ \E i \in page : "failed" \in Outcomes(User(q), i)
              /\ req' = [req EXCEPT ![q].pc = "failed"]
  /\ UNCHANGED <<versions, created, audit>>

\* MUTANT: the item is looked up without the caller's partition.
ReadAnyOwner(q) ==
  /\ req[q].pc = "read" /\ Op(q) # "get"
  /\ \E n \in 0..Len(versions[req[q].item]) :
       req' = [req EXCEPT ![q].pc = IF n = 0 THEN "notfound" ELSE "put", ![q].base = n]
  /\ UNCHANGED <<versions, created, audit>>

\* get_item of update_item and of update_item_status; 404 if it finds nothing.
Read(q) ==
  /\ req[q].pc = "read" /\ Op(q) # "get"
  /\ \E n \in Visible(User(q), req[q].item) :
       req' = [req EXCEPT ![q].pc = IF n = 0 THEN "notfound" ELSE "put", ![q].base = n]
  /\ UNCHANGED <<versions, created, audit>>

\* POST /items; the id is fresh, so only the SDK's own replay can conflict,
\* which the route answers with 409 and no audit event.
Create(q) ==
  /\ req[q].pc = "put" /\ Op(q) = "create"
  /\ \E i \in Items :
       /\ StoreNewItem(q, User(q), i, req[q].call.title, req[q].call.body, req[q].call.status)
       /\ req' \in { [req EXCEPT ![q].pc = p, ![q].item = i, ![q].sends = 1] :
                     p \in {"audit"} \cup (IF "replay" \in Faults THEN {"conflict"} ELSE {}) }
  /\ UNCHANGED audit

Default(field, old) == IF field = None THEN old ELSE field

\* ItemUpdate strips the title after it has checked its length.
Strip(title) == IF title = Spaces THEN Blank ELSE title

\* MUTANT: a title left out of the payload is cleared.
MergeClearing(c, old) ==
  WithStatus([old EXCEPT !.title = IF c.title = None THEN Blank ELSE Strip(c.title),
                         !.body = Default(c.body, old.body)],
             Default(c.status, old.status))

\* MUTANT: the index partition is left as it was read.
MergeKeepingIndex(c, old) ==
  [old EXCEPT !.title = Strip(Default(c.title, old.title)),
              !.body = Default(c.body, old.body),
              !.status = Default(c.status, old.status)]

\* The record PUT /items/{id} rebuilds from the payload and what it read.
Merge(c, old) ==
  WithStatus([old EXCEPT !.title = IF c.title = None THEN old.title ELSE Strip(c.title),
                         !.body = Default(c.body, old.body)],
             Default(c.status, old.status))

Record(q) ==
  LET old == versions[req[q].item][req[q].base]
  IN  IF Op(q) = "update" THEN Merge(req[q].call, old) ELSE WithStatus(old, "archived")

\* MUTANT: the put is sent again for as long as its answer is lost.
PutForever(q) ==
  /\ req[q].pc = "put" /\ Op(q) # "create"
  /\ Overwrite(q, req[q].item, req[q].base, Record(q))
  /\ req' \in { [req EXCEPT ![q].pc = p, ![q].sends = @ + 1] : p \in {"audit", "put"} }
  /\ UNCHANGED audit

\* MUTANT: a put whose answer is lost is made again from a new read.
PutReread(q) ==
  /\ req[q].pc = "put" /\ Op(q) # "create"
  /\ Overwrite(q, req[q].item, req[q].base, Record(q))
  /\ req' \in { [req EXCEPT ![q].pc = p] :
                p \in {"audit"} \cup (IF "replay" \in Faults THEN {"read"} ELSE {}) }
  /\ UNCHANGED audit

\* PUT and DELETE store the whole record; the SDK may have to send it again.
Put(q) ==
  /\ req[q].pc = "put" /\ Op(q) # "create"
  /\ Overwrite(q, req[q].item, req[q].base, Record(q))
  /\ req' \in { [req EXCEPT ![q].pc = p, ![q].sends = @ + 1] :
                p \in {"audit"} \cup (IF MayReplay(req[q].sends + 1) THEN {"put"} ELSE {}) }
  /\ UNCHANGED audit

\* MUTANT: the routes that overwrite an item share one action.
AuditActionShared(q) == IF Op(q) = "create" THEN "item.created" ELSE "item.updated"

AuditAction(q) == CASE Op(q) = "create" -> "item.created"
                    [] Op(q) = "update" -> "item.updated"
                    [] Op(q) = "delete" -> "item.deleted"

\* MUTANT: the record is answered without being validated.
AnswerUnchecked(q) == "ok"

\* DELETE answers with nothing.
Answer(q) == IF Op(q) = "update" THEN Served(Record(q)) ELSE "ok"

\* MUTANT: the event is appended before the record is stored.
AuditEarly(q) ==
  /\ req[q].pc \in {"put", "audit"} /\ req[q].item # None
  /\ AppendAudit(q, req[q].item, AuditAction(q), User(q))
  /\ req' = [req EXCEPT ![q].pc = Answer(q)]
  /\ UNCHANGED <<versions, created>>

\* MUTANT: the answer is not sent when it does not validate.
AuditStuck(q) ==
  /\ req[q].pc = "audit" /\ Answer(q) = "ok"
  /\ AppendAudit(q, req[q].item, AuditAction(q), User(q))
  /\ req' = [req EXCEPT ![q].pc = Answer(q)]
  /\ UNCHANGED <<versions, created>>

\* The event is stored; the answer may still be lost.
Audit(q) ==
  /\ req[q].pc = "audit"
  /\ AppendAudit(q, req[q].item, AuditAction(q), User(q))
  /\ req' \in { [req EXCEPT ![q].pc = p] :
                p \in {Answer(q)} \cup (IF "crash" \in Faults THEN {"failed"} ELSE {}) }
  /\ UNCHANGED <<versions, created>>

Crash(q) ==
  /\ "crash" \in Faults
  /\ req[q].pc \in {"list", "read", "put", "audit"}
  /\ req' = [req EXCEPT ![q].pc = "failed"]
  /\ UNCHANGED <<versions, created, audit>>

Serve(q) == List(q) \/ Get(q) \/ Read(q) \/ Create(q) \/ Put(q) \/ Audit(q)

ApiNext == \E q \in Requests : Arrive(q) \/ Serve(q) \/ Crash(q)
=============================================================================
