----------------------------- MODULE ItemTable -----------------------------
(***************************************************************************)
(* The ITEM and AUDIT records of the single table and the operations of    *)
(* app/db.py on them.  A record is kept with its whole history, newest     *)
(* last: an eventually consistent read returns some point of it.  "by" and *)
(* "base" are not stored by the code; they say who wrote a version and     *)
(* which version it was made from.  Nor is "created", the order in which   *)
(* the items were stored.                                                  *)
(***************************************************************************)
EXTENDS Naturals, Sequences, FiniteSets

CONSTANTS
  Items,       \* the uuid4 supply for ITEM ids; numbers, for keys are ordered
  Users,       \* owner subs
  Webhook,     \* the actor the webhook signs its audit events with
  Authors,     \* whoever may write a version
  Titles,      \* titles as stored
  Bodies,      \* bodies as stored
  StaleReads,  \* whether a query may miss the latest writes
  MaxSends,    \* sends of one put by the SDK (max_attempts of _client_kwargs)
  Faults,      \* see FaultKinds
  None         \* an absent field, item or user

(* "crash":  an exception or a timeout ends an execution between two calls *)
(* "replay": a put is applied, its answer is lost and the SDK sends it     *)
(*           again                                                         *)
FaultKinds == {"crash", "replay"}

ASSUME TableAssumption ==
  /\ Items \subseteq Nat
  /\ StaleReads \in BOOLEAN
  /\ MaxSends \in Nat \ {0}
  /\ Faults \subseteq FaultKinds
  /\ None \notin Items \cup Titles \cup Bodies

VARIABLES
  versions,  \* versions[i]: what was stored under item i, <<>> before it is
  created,   \* the items in the order of their creation
  audit      \* the AUDIT events, append-only

ItemStatus == {"pending", "active", "archived"}

\* The timestamps are left out, and what no put changes after the first.
Version == [owner : Users, title : Titles, body : Bodies, status : ItemStatus,
            gsi1pk : ItemStatus, by : Authors, base : Nat]

AuditEvent ==
  [item : Items, action : {"item.created", "item.updated", "item.deleted", "monday.sync"},
   actor : Users \cup {Webhook}, by : Authors]

TableTypeOK ==
  /\ versions \in [Items -> Seq(Version)]
  /\ created \in Seq(Items)
  /\ audit \subseteq AuditEvent

TableInit ==
  /\ versions = [i \in Items |-> <<>>]
  /\ created = <<>>
  /\ audit = {}

Stored == {i \in Items : versions[i] # <<>>}

\* get_item queries the owner's partition without ConsistentRead: the points
\* of i's history it may see, 0 standing for "no such item".
Visible(u, i) ==
  LET now == Len(versions[i])
  IN  IF now = 0 \/ versions[i][1].owner # u THEN {0}
      ELSE IF StaleReads THEN 0..now ELSE {now}

\* The sets of u's items that one query of u's partition may return.
Sightings(u) ==
  { S \in SUBSET {i \in Items : Visible(u, i) # {0}} :
      \A i \in Items \ S : 0 \in Visible(u, i) }

\* One page of list_items: of the ids seen, those below the cursor, greatest
\* first (ScanIndexForward is FALSE and the id leads the sort key).
Page(seen, cursor, limit) ==
  LET after == {i \in seen : cursor # None => i < cursor}
  IN  {i \in after : Cardinality({j \in after : j > i}) < limit}

StoreNewItem(q, u, i, title, body, status) ==
  /\ versions[i] = <<>>
  /\ versions' = [versions EXCEPT ![i] =
       <<[owner |-> u, title |-> title, body |-> body, status |-> status,
          gsi1pk |-> status, by |-> q, base |-> 0]>>]
  /\ created' = Append(created, i)

\* A put of a whole record made from version n, with attribute_exists(SK).
Overwrite(q, i, n, record) ==
  /\ versions[i] # <<>>
  /\ versions' = [versions EXCEPT ![i] =
       Append(@, [record EXCEPT !.by = q, !.base = n])]
  /\ UNCHANGED created

\* update_item_status: the record as it was read, under another status.
WithStatus(record, s) == [record EXCEPT !.status = s, !.gsi1pk = s]

\* Whether a put that was applied may be sent again, being sent "sends" times.
MayReplay(sends) == "replay" \in Faults /\ sends < MaxSends

AppendAudit(q, i, action, actor) ==
  audit' = audit \cup {[item |-> i, action |-> action, actor |-> actor, by |-> q]}
=============================================================================
