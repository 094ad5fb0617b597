---------------------------- MODULE ItemRegister ----------------------------
(***************************************************************************)
(* What the platform promises of its items, with no requests, executions,  *)
(* index or stale reads: an append-only history of each item, in which     *)
(* every entry is one of five acts of somebody entitled to it, and a log   *)
(* that reports no act nobody did.  An act may start from an entry other   *)
(* than the latest: nothing is promised about writers that overtake each   *)
(* other.  Nor is an act promised its place in the log.                    *)
(***************************************************************************)
EXTENDS Naturals, Sequences

CONSTANTS
  Items, Users, Titles, Bodies, Statuses,
  Blank,    \* the title no item is created with
  Webhook,  \* who acts for Monday.com
  Etl       \* who acts for the uploaded files

VARIABLES
  history,  \* history[i]: the entries of item i, oldest first
  log       \* the acts that were reported

vars == <<history, log>>

Init ==
  /\ history = [i \in Items |-> <<>>]
  /\ log = {}

\* The acts, by the names under which they are reported.
Name == [create |-> "item.created", update |-> "item.updated",
         delete |-> "item.deleted", sync |-> "monday.sync"]

Entry == [owner : Users, title : Titles, body : Bodies, status : Statuses,
          act : {"ingest"} \cup DOMAIN Name, actor : Users \cup {Webhook, Etl}]

Entries(i) == {history[i][n] : n \in 1..Len(history[i])}
Latest(i) == history[i][Len(history[i])]

\* Item i gets one more entry, which one the acts below say.
Enter(i) ==
  /\ Len(history'[i]) > Len(history[i])
  /\ history' = [history EXCEPT ![i] = Append(@, Latest(i)')]
  /\ Latest(i)' \in Entry
  /\ UNCHANGED log

First(i) == history[i] = <<>> /\ Enter(i) /\ Latest(i)'.title # Blank

Create(i) ==
  /\ First(i)
  /\ LET new == Latest(i)' IN new.act = "create" /\ new.actor = new.owner

Ingest(i) ==
  /\ First(i)
  /\ LET new == Latest(i)' IN new.act = "ingest" /\ new.actor = Etl /\ new.status = "active"

\* An act on an item that exists: it is made from some entry, which need not
\* be the latest, and never changes the owner.
Updates(old, new) == new.act = "update" /\ new.actor = old.owner

\* Deleting is archiving: the record stays.
Deletes(old, new) ==
  /\ new.act = "delete" /\ new.actor = old.owner
  /\ new.title = old.title /\ new.body = old.body /\ new.status = "archived"

\* Monday.com sets the status and nothing else.
Syncs(old, new) ==
  /\ new.act = "sync" /\ new.actor = Webhook
  /\ new.title = old.title /\ new.body = old.body

Amend(i) ==
  /\ history[i] # <<>>
  /\ Enter(i)
  /\ \E old \in Entries(i) :
       LET new == Latest(i)'
       IN  new.owner = old.owner /\ (Updates(old, new) \/ Deletes(old, new) \/ Syncs(old, new))

\* An act of the API is reported after it was done, under its own name; one
\* of Monday.com is reported of an item that exists.
Reportable(i, event) ==
  \/ \E entry \in Entries(i) :
       /\ entry.act \in DOMAIN Name
       /\ event = [item |-> i, action |-> Name[entry.act], actor |-> entry.actor]
  \/ history[i] # <<>> /\ event = [item |-> i, action |-> Name["sync"], actor |-> Webhook]

Report(i) ==
  /\ \E event \in log' \ log : log' = log \cup {event} /\ Reportable(i, event)
  /\ UNCHANGED history

Next == \E i \in Items : Create(i) \/ Ingest(i) \/ Amend(i) \/ Report(i)

Spec == Init /\ [][Next]_vars
=============================================================================
