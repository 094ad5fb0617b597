--------------------------- MODULE ItemsPlatform ---------------------------
(***************************************************************************)
(* Everybody who writes ITEM records, on one table: the requests of the    *)
(* API, the executions of the Monday webhook, and the ETL, of which only   *)
(* the items it stores are seen here (EtlPipeline has the rest).           *)
(***************************************************************************)
EXTENDS ItemsApi, MondayWebhook

CONSTANTS
  Etl,  \* the author of the ETL's items
  Rows  \* what they may be: an id, an owner, a title and a body

ASSUME PlatformAssumption ==
  /\ Authors = Requests \cup Hooks \cup {Etl}
  /\ Requests \cap Hooks = {}
  /\ Etl \notin Requests \cup Hooks
  /\ Rows \subseteq [item : Items, owner : Users, title : Titles \ {Blank}, body : Bodies]

vars == <<versions, created, audit, req, hook>>

(* Every variable has its shape; in particular no put is sent more than    *)
(* MaxSends times.                                                         *)
TypeOK == TableTypeOK /\ ApiTypeOK /\ HookTypeOK

Init == TableInit /\ ApiInit /\ HookInit

\* write_to_dynamodb stores active items and appends no audit event.
Ingest ==
  /\ \E r \in Rows : StoreNewItem(Etl, r.owner, r.item, r.title, r.body, "active")
  /\ UNCHANGED <<audit, req, hook>>

Next ==
  \/ ApiNext /\ UNCHANGED hook
  \/ HookNext /\ UNCHANGED req
  \/ Ingest

Spec == Init /\ [][Next]_vars

\* An execution that has begun runs on; nobody has to post anything.
FairSpec ==
  /\ Spec
  /\ \A q \in Requests : WF_vars(Serve(q) /\ UNCHANGED hook)
  /\ \A h \in Hooks : WF_vars(Sync(h) /\ UNCHANGED req)

-----------------------------------------------------------------------------
(* Properties                                                              *)

Wrote(a, i) == \E n \in 1..Len(versions[i]) : versions[i][n].by = a

Audited(a, i) == \E e \in audit : e.by = a /\ e.item = i

(* GSI1 lists an item under the status it has, whichever writer stored it  *)
(* last and from however old a copy (items.py:125, db.py:326).             *)
IndexFollowsStatus ==
  \A i \in Items : \A n \in 1..Len(versions[i]) :
    versions[i][n].gsi1pk = versions[i][n].status

\* Some version of item i, the n-th or an older one, mentions pulse p.
Mentioned(i, n, p) == \E m \in 1..n : Matches(versions[i][m].body, p)

(* A caller's writes only reach the caller's own items, a signed notice's  *)
(* only items whose body had mentioned its pulse before the write, though  *)
(* a PUT may have replaced the body since the scan (handler.py:163-180),   *)
(* an unsigned notice's none, and no write moves an item to another owner. *)
OwnersOnly ==
  \A i \in Items : \A n \in 1..Len(versions[i]) :
    LET v == versions[i][n]
    IN  /\ v.owner = versions[i][1].owner
        /\ v.by \in Requests => req[v.by].call.user = v.owner
        /\ v.by \in Hooks => LET e == hook[v.by].notice
                             IN  Configured /\ e.signed /\ Mentioned(i, n - 1, e.pulse)

\* What version "new", made by its author, changes against "old".
Merged(old, new) ==
  /\ new.by \in Requests =>
       LET c == req[new.by].call
       IN  /\ c.title = None => new.title = old.title
           /\ c.body = None => new.body = old.body
           /\ c.op = "update" /\ c.status = None => new.status = old.status
  /\ new.by \in Hooks => new.title = old.title /\ new.body = old.body

(* A write made from the latest version leaves alone the fields its        *)
(* payload or notice does not name: an update is lost only by overtaking   *)
(* another between its read and its put (or by reading a stale copy).      *)
FreshUpdatesMerge ==
  \A i \in Items : \A n \in 2..Len(versions[i]) :
    versions[i][n].base = n - 1 => Merged(versions[i][n - 1], versions[i][n])

(* Every audit event of a request stands for a stored write of it, every   *)
(* acknowledged writing request has both, and a stored write goes          *)
(* unaudited only while its request is under way or when it died or was    *)
(* answered 409.                                                           *)
AuditMatchesWrites ==
  /\ \A e \in audit : e.by \in Requests => Wrote(e.by, e.item)
  /\ \A q \in Requests :
       LET did == \E i \in Items : Wrote(q, i)
       IN  /\ did => \/ req[q].pc \in {"put", "audit", "failed", "conflict"}
                     \/ Audited(q, req[q].item)
           /\ req[q].pc = "ok" /\ Op(q) \notin {"get", "list"} => did
           /\ req[q].pc = "notfound" => ~ did

(* A handled notice has every item of its scan audited, and, unless its    *)
(* lookup missed the item (which only a stale read can), updated; one that *)
(* was not handled has changed nothing (handler.py:176-187).               *)
SyncsAreComplete ==
  \A h \in Hooks :
    /\ hook[h].pc = "handled" => \A i \in hook[h].found :
         Audited(h, i) /\ (StaleReads \/ Wrote(h, i))
    /\ hook[h].pc \in {"unhandled", "refused"} => \A i \in Items :
         ~ Audited(h, i) /\ ~ Wrote(h, i)
    /\ \A i \in Items : Wrote(h, i) /\ ~ Audited(h, i) =>
         hook[h].item = i /\ hook[h].pc \in {"put", "audit", "failed"}

(* An item whose title is gone owes that to an update with a title of      *)
(* blanks, which was not answered with success; every other route, every   *)
(* sync and every upload at most passes a blank title on (entities.py:88,  *)
(* items.py:141).                                                          *)
BlanksHaveACause ==
  \A i \in Items : \A n \in 1..Len(versions[i]) : versions[i][n].title = Blank =>
    \E m \in 1..n : LET q == versions[i][m].by
                    IN  /\ q \in Requests /\ req[q].pc # "ok"
                        /\ Op(q) = "update" /\ req[q].call.title = Spaces

\* The entry of the register that a version stands for, and the log.
Act(a) == IF a \in Requests THEN Op(a) ELSE IF a \in Hooks THEN "sync" ELSE "ingest"
Actor(a) == IF a \in Requests THEN User(a) ELSE IF a \in Hooks THEN Webhook ELSE Etl
EntryOf(v) == [owner |-> v.owner, title |-> v.title, body |-> v.body, status |-> v.status,
               act |-> Act(v.by), actor |-> Actor(v.by)]
Histories == [i \in Items |-> [n \in 1..Len(versions[i]) |-> EntryOf(versions[i][n])]]
Reported == {[item |-> e.item, action |-> e.action, actor |-> e.actor] : e \in audit}

Register == INSTANCE ItemRegister WITH
  Statuses <- ItemStatus, history <- Histories, log <- Reported

(* The platform implements the register, whatever it has read before it    *)
(* writes: an owner or the webhook acts on an item that exists, a delete   *)
(* and a sync keep a title and a body the item had together, the owner     *)
(* never changes, and the audit trail reports nothing that nobody did      *)
(* (db.py:326, handler.py:180).                                            *)
RegisterSpec == Register!Spec

\* The steps request q has left at most, and those of execution h at its item.
StepsLeft(q) ==
  CASE req[q].pc = "read" -> MaxSends + 2
    [] req[q].pc = "put" -> MaxSends + 1 - req[q].sends
    [] req[q].pc \in {"list", "audit"} -> 1
    [] OTHER -> 0

SyncLeft(h) ==
  CASE hook[h].pc = "parse" -> MaxSends + 4
    [] hook[h].pc = "scan" -> MaxSends + 3
    [] hook[h].pc = "get" -> MaxSends + 2
    [] hook[h].pc = "put" -> MaxSends + 1 - hook[h].sends
    [] hook[h].pc \in {"audit", "comment"} -> 1
    [] OTHER -> 0

(* Every step of a request brings its answer nearer, replays included, and *)
(* every step of an execution either the end of its item or, with the item *)
(* behind it, that of the items its one scan found.  Nothing another one   *)
(* does puts either off (db.py:103, handler.py:173).                       *)
RepliesDrawNear ==
  [][/\ \A q \in Requests : req[q].pc # "new" /\ req'[q] # req[q] =>
          StepsLeft(q)' < StepsLeft(q)
     /\ \A h \in Hooks : hook[h].pc # "new" /\ hook'[h] # hook[h] =>
          \/ /\ SyncLeft(h)' < SyncLeft(h)
             /\ hook[h].pc # "scan" => hook'[h].left = hook[h].left
          \/ /\ hook[h].pc = "audit" /\ hook'[h].pc \in {"get", "comment"}
             /\ hook'[h].left \subseteq hook[h].left /\ hook'[h].left # hook[h].left]_vars

(* Every request that has arrived is answered, and every notice.           *)
EveryRequestReplies ==
  /\ \A q \in Requests : req[q].pc # "new" ~> req[q].pc \in Replied
  /\ \A h \in Hooks : hook[h].pc # "new" ~> hook[h].pc \in Answered

-----------------------------------------------------------------------------
(* Claims of the source's comments                                         *)

(* items.py:107: "Only fields present in the payload are changed."         *)
OnlyPresentFieldsChange ==
  \A i \in Items : \A n \in 2..Len(versions[i]) :
    Merged(versions[i][n - 1], versions[i][n])

(* entities.py:64: an Item's title has at least one character, so that     *)
(* every stored item can be read back through the API.                     *)
EveryItemServable ==
  \A i \in Items : \A n \in 1..Len(versions[i]) : versions[i][n].title # Blank

Older(i, j) ==
  \E m, n \in DOMAIN created : m < n /\ created[m] = i /\ created[n] = j

(* items.py:76: "List the caller's items, newest first."; a page runs from *)
(* its greatest id down.                                                   *)
NewestFirst ==
  \A q \in Requests : \A i, j \in req[q].page : i < j => Older(i, j)

(* handler.py:8 and docs/architecture.md:160: a notice is looked up and    *)
(* its item updated.  A scan that finds nothing means that there is        *)
(* nothing to find.                                                        *)
NoticesReachTheirItems ==
  [][\A h \in Hooks : hook[h].pc = "scan" /\ hook'[h].pc = "unhandled" =>
       \A i \in Stored : hook[h].notice.pulse \notin Mentions[versions[i][Len(versions[i])].body]]_vars
=============================================================================
