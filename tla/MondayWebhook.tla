--------------------------- MODULE MondayWebhook ---------------------------
(***************************************************************************)
(* The webhook Lambda (lambdas/webhook_monday/handler.py): it verifies a   *)
(* notice, scans the table for items that mirror its pulse, and sets and   *)
(* audits the status of one after the other.  Nothing orders notices or    *)
(* tells a second delivery from the first.                                 *)
(***************************************************************************)
EXTENDS ItemTable

CONSTANTS
  Hooks,        \* executions of the Lambda; they are authors of versions
  Pulses,       \* ids of Monday items
  Notices,      \* what may be posted, any number of times and in any order
  Mentions,     \* Mentions[b]: the ids of Monday items that body b contains
  SearchesMaps, \* whether the store's contains() looks into a map
  ScanLimit,    \* records one scan examines
  Others,       \* how many REPORT, USER and upload records a scan may come upon
  Configured    \* whether MONDAY_WEBHOOK_SECRET is set

\* A notice is "shapeless" if it is JSON but no object, or if it has no type
\* and its event is null.
\* "underway" and "finished" stand for the labels _normalise_status knows,
\* "malformed" for a column value that is not an object, None for no label.
Notice == [signed : BOOLEAN, pulse : Pulses \cup {None},
           kind : {"invalid", "shapeless", "challenge", "create_pulse",
                   "change_column_value", "update_status", "unsupported"},
           label : {"underway", "finished", "other", "malformed", None}]

ASSUME WebhookAssumption ==
  /\ Notices \subseteq Notice
  /\ Mentions \in [Bodies -> SUBSET Pulses]
  /\ Others \subseteq Nat
  /\ SearchesMaps \in BOOLEAN
  /\ ScanLimit \in Nat
  /\ Configured \in BOOLEAN
  /\ None \notin Pulses \cup Notices

VARIABLE hook   \* hook[h]: what execution h is doing

Answered == {"handled", "unhandled", "refused", "failed"}

HookState ==
  [pc     : {"new", "parse", "scan", "get", "put", "audit", "comment"} \cup Answered,
   notice : Notices \cup {None},
   found  : SUBSET Items,          \* what the scan returned
   left   : SUBSET Items,          \* what the loop has not come to yet
   item   : Items \cup {None},     \* the item it is at
   base   : Nat,                   \* the version get_item returned
   sends  : 0..MaxSends]           \* sends of the put so far

HookTypeOK == hook \in [Hooks -> HookState]

HookInit ==
  hook = [h \in Hooks |-> [pc |-> "new", notice |-> None, found |-> {}, left |-> {},
                           item |-> None, base |-> 0, sends |-> 0]]

-----------------------------------------------------------------------------
\* MUTANT: the signature is not verified.
AuthenticAnyway(n) == Configured

\* The secret is there and the signature fits, else 500 or 401; a body that
\* is no JSON is answered 400.
Authentic(n) == Configured /\ n.signed

\* _normalise_status; create_pulse passes the label "created".
Target(n) ==
  IF n.kind = "create_pulse" THEN "pending"
  ELSE IF n.label = "finished" THEN "archived"
  ELSE IF n.label = "underway" THEN "active" ELSE "pending"

\* A supported type with a pulse and, unless it creates the pulse, a label.
Relevant(n) ==
  /\ n.kind \in {"create_pulse", "change_column_value", "update_status"}
  /\ n.pulse # None
  /\ n.kind = "create_pulse" \/ n.label # None

\* What the handler reads from with .get() is no object.
Shapeless(n) ==
  \/ n.kind = "shapeless"
  \/ Relevant(n) /\ n.kind = "change_column_value" /\ n.label = "malformed"

Receive(h) ==
  /\ hook[h].pc = "new"
  /\ \E n \in Notices :
       hook' = [hook EXCEPT ![h].notice = n,
                            ![h].pc = IF Authentic(n) /\ n.kind # "invalid" THEN "parse"
                                      ELSE "refused"]
  /\ UNCHANGED <<versions, created, audit>>

\* The challenge and whatever is not Relevant are acknowledged; a payload or
\* a column value that is not an object raises.
Dispatch(h) ==
  LET n == hook[h].notice
  IN  /\ hook[h].pc = "parse"
      /\ hook' = [hook EXCEPT ![h].pc =
                    IF Shapeless(n) THEN "failed"
                    ELSE IF Relevant(n) THEN "scan" ELSE "unhandled"]
      /\ UNCHANGED <<versions, created, audit>>

\* What the filter contains(Body, pulse) lets through.  Body is a map, and
\* DynamoDB's contains() is true only of strings, sets and lists.
Matches(body, p) == SearchesMaps /\ p \in Mentions[body]

\* The points of a stored item's history that a scan may see.
Scanned(i) == IF StaleReads THEN 1..Len(versions[i]) ELSE {Len(versions[i])}

\* What of the examined items the filter may let through.
Filtered(S, p) ==
  { F \in SUBSET S : \A i \in S : \E n \in Scanned(i) :
      i \in F <=> Matches(versions[i][n].body, p) }

\* The scan examines ScanLimit records before it filters, and its first page
\* is its last.  An item is missed only if AUDIT and other records are
\* examined in its place.
Examined ==
  { S \in SUBSET Stored :
      /\ Cardinality(S) <= ScanLimit
      /\ \/ S = Stored \/ StaleReads
         \/ \E n \in Others : Cardinality(S) + Cardinality(audit) + n >= ScanLimit }

Scan(h) ==
  /\ hook[h].pc = "scan"
  /\ \E S \in Examined : \E found \in Filtered(S, hook[h].notice.pulse) :
       hook' = [hook EXCEPT ![h].found = found, ![h].left = found,
                            ![h].pc = IF found = {} THEN "unhandled" ELSE "get"]
  /\ UNCHANGED <<versions, created, audit>>

\* update_item_status reads the item; finding none, it returns None, which
\* the loop does not look at.
GetItem(h) ==
  /\ hook[h].pc = "get"
  /\ \E i \in hook[h].left :
       \E n \in Visible(versions[i][1].owner, i) :
         hook' = [hook EXCEPT ![h].item = i, ![h].base = n, ![h].sends = 0,
                              ![h].pc = IF n = 0 THEN "audit" ELSE "put"]
  /\ UNCHANGED <<versions, created, audit>>

\* MUTANT: only the status is rewritten, not its copy in the index.
PutStatusOnly(h) ==
  /\ hook[h].pc = "put"
  /\ Overwrite(h, hook[h].item, hook[h].base,
       [versions[hook[h].item][hook[h].base] EXCEPT !.status = Target(hook[h].notice)])
  /\ hook' \in { [hook EXCEPT ![h].pc = p, ![h].sends = @ + 1] :
                 p \in {"audit"} \cup (IF MayReplay(hook[h].sends + 1) THEN {"put"} ELSE {}) }
  /\ UNCHANGED audit

\* MUTANT: the loop goes on without auditing what it stored.
PutUnaudited(h) ==
  LET left == hook[h].left \ {hook[h].item}
  IN  /\ hook[h].pc = "put"
      /\ Overwrite(h, hook[h].item, hook[h].base,
           WithStatus(versions[hook[h].item][hook[h].base], Target(hook[h].notice)))
      /\ hook' = [hook EXCEPT ![h].left = left,
                              ![h].pc = IF left = {} THEN "comment" ELSE "get"]
      /\ UNCHANGED audit

PutStatus(h) ==
  /\ hook[h].pc = "put"
  /\ Overwrite(h, hook[h].item, hook[h].base,
       WithStatus(versions[hook[h].item][hook[h].base], Target(hook[h].notice)))
  /\ hook' \in { [hook EXCEPT ![h].pc = p, ![h].sends = @ + 1] :
                 p \in {"audit"} \cup (IF MayReplay(hook[h].sends + 1) THEN {"put"} ELSE {}) }
  /\ UNCHANGED audit

AuditSync(h) ==
  LET left == hook[h].left \ {hook[h].item}
  IN  /\ hook[h].pc = "audit"
      /\ AppendAudit(h, hook[h].item, "monday.sync", Webhook)
      /\ hook' = [hook EXCEPT ![h].left = left,
                              ![h].pc = IF left = {} THEN "comment" ELSE "get"]
      /\ UNCHANGED <<versions, created>>

\* MondayClient posts a comment or raises, which the handler swallows.
Comment(h) ==
  /\ hook[h].pc = "comment"
  /\ hook' = [hook EXCEPT ![h].pc = "handled"]
  /\ UNCHANGED <<versions, created, audit>>

HookCrash(h) ==
  /\ "crash" \in Faults
  /\ hook[h].pc \in {"scan", "get", "put", "audit", "comment"}
  /\ hook' = [hook EXCEPT ![h].pc = "failed"]
  /\ UNCHANGED <<versions, created, audit>>

Sync(h) == Dispatch(h) \/ Scan(h) \/ GetItem(h) \/ PutStatus(h) \/ AuditSync(h) \/ Comment(h)

HookNext == \E h \in Hooks : Receive(h) \/ Sync(h) \/ HookCrash(h)
=============================================================================
