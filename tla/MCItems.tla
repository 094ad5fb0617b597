------------------------------ MODULE MCItems ------------------------------
(***************************************************************************)
(* Small instances of ItemsPlatform for TLC: a few items of two users, the *)
(* calls that tell the routes apart, and notices of one or two pulses.     *)
(***************************************************************************)
EXTENDS ItemsPlatform, TLC

CONSTANTS alice, bob, t1, t2, p1, linked, plain

\* A body that names the pulse p1, and one that names none.
MCMentions == [b \in Bodies |-> IF b = linked THEN {p1} ELSE {}]

Asked(op, u, i) ==
  [op |-> op, user |-> u, item |-> i, title |-> None, body |-> None, status |-> None]

Creation(u, b) ==
  [Asked("create", u, None) EXCEPT !.title = t1, !.body = b, !.status = "active"]
Listing(u, i) == Asked("list", u, i)
Fetch(u, i) == Asked("get", u, i)
Retitle(u, i, t) == [Asked("update", u, i) EXCEPT !.title = t]
Rewrite(u, i, b) == [Asked("update", u, i) EXCEPT !.body = b]
Restate(u, i, s) == [Asked("update", u, i) EXCEPT !.status = s]
Deletion(u, i) == Asked("delete", u, i)

\* Calls on an item that one user, the other or the ETL may have stored.
OneItem ==
  { Creation(alice, linked), Creation(bob, linked), Retitle(alice, 1, t2), Retitle(bob, 1, t2),
    Rewrite(alice, 1, plain), Restate(alice, 1, "pending"), Deletion(alice, 1),
    Fetch(alice, 1) }

\* The same with a new title of blanks.
BlankTitles ==
  { Creation(alice, plain), Retitle(alice, 1, Spaces), Restate(alice, 1, "pending") }

\* Every route but the lookup, with an item that does not validate in the way
\* and one that ceases to name the pulse.
EveryRoute ==
  { Creation(alice, linked), Listing(alice, None), Retitle(alice, 1, Spaces),
    Rewrite(alice, 2, plain), Deletion(alice, 1) }

\* Creations and lists of pages.
Listings == { Creation(alice, plain), Listing(alice, None), Listing(alice, 2) }

Posted(signed, kind, pulse, label) ==
  [signed |-> signed, kind |-> kind, pulse |-> pulse, label |-> label]

\* A task is begun and finished, and somebody posts without the secret.
Task ==
  { Posted(TRUE, "change_column_value", p1, "underway"),
    Posted(TRUE, "update_status", p1, "finished"),
    Posted(FALSE, "update_status", p1, "finished") }

\* Everything the handler tells apart.
AllNotices ==
  { Posted(TRUE, "update_status", p1, "finished"), Posted(FALSE, "update_status", p1, "finished"),
    Posted(TRUE, "invalid", None, None), Posted(TRUE, "shapeless", None, None),
    Posted(TRUE, "challenge", None, None), Posted(TRUE, "unsupported", p1, "other"),
    Posted(TRUE, "create_pulse", p1, None), Posted(TRUE, "create_pulse", None, None),
    Posted(TRUE, "change_column_value", p1, "malformed") }

\* The ETL stores one item, which leaves ids for the requests.
EtlRow(i) == { [item |-> i, owner |-> alice, title |-> t1, body |-> linked] }
FirstRow == EtlRow(1)
SecondRow == EtlRow(2)

Symmetry == Permutations(Requests) \cup Permutations(Hooks)
=============================================================================
