----------------------------- MODULE JwksCache -----------------------------
(***************************************************************************)
(* Token verification (app/auth.py) in the threads of one process, which   *)
(* share the cache of the user pool's signing keys.  The pool numbers its  *)
(* keys as it publishes them and withdraws the oldest first; "withdrawn",  *)
(* "known", "by" and "from" are not in the code and say when, and who      *)
(* fetched what.                                                           *)
(***************************************************************************)
EXTENDS Naturals, FiniteSets

CONSTANTS
  Threads,  \* of the pool in which current_user runs
  Users,    \* subs
  Tokens,   \* what an Authorization header may hold
  TTL,      \* _JWKS_TTL_SECONDS
  MaxTime,  \* bound of the clock
  MaxKey,   \* bound of the keys ever published
  None      \* no entry, token or thread

\* "good": jwt.decode finds signature, expiry, audience and issuer right.
Token == [form : {"absent", "malformed", "nokid", "signed"},
          kid : 1..MaxKey, sub : Users, good : BOOLEAN]

ASSUME JwksAssumption ==
  /\ Tokens \subseteq Token
  /\ TTL \in Nat \ {0}
  /\ MaxTime \in Nat
  /\ MaxKey \in Nat \ {0}
  /\ None \notin Tokens \cup Threads

VARIABLES
  now,        \* time.monotonic()
  oldest,     \* the pool publishes the keys oldest..newest
  newest,
  withdrawn,  \* withdrawn[k]: when key k was withdrawn, None before that
  cache,      \* _JWKS_CACHE's entry of the pool, or None
  check       \* check[c]: what thread c is doing

Time == 0..MaxTime
KeySet == SUBSET (1..MaxKey)
Published == oldest..newest

Entry == [at : Time, keys : KeySet, by : Threads]

Verdicts == {"accepted", "denied", "nokey", "unavailable"}

CheckState ==
  [pc    : {"idle", "stamp", "lookup", "fetch", "store", "find"} \cup Verdicts,
   token : Tokens \cup {None},
   known : BOOLEAN,                \* its key was published when it arrived
   round : {1, 2},                 \* call of _get_jwks
   began : Time,                   \* now of that call
   keys  : KeySet,                 \* the keys in hand
   from  : Threads \cup {None}]    \* who fetched them

\* A thread between two requests: _get_jwks's locals are gone.
Idle == [pc |-> "idle", token |-> None, known |-> FALSE, round |-> 1, began |-> 0,
         keys |-> {}, from |-> None]

JwksTypeOK ==
  /\ now \in Time
  /\ oldest \in 1..MaxKey /\ newest \in 1..MaxKey /\ oldest <= newest
  /\ withdrawn \in [1..MaxKey -> Time \cup {None}]
  /\ cache \in Entry \cup {None}
  /\ check \in [Threads -> CheckState]

JwksInit ==
  /\ now = 0 /\ oldest = 1 /\ newest = 1
  /\ withdrawn = [k \in 1..MaxKey |-> None]
  /\ cache = None
  /\ check = [c \in Threads |-> Idle]

pool == <<now, oldest, newest, withdrawn>>

-----------------------------------------------------------------------------
(* Time passes and the pool rotates its keys.                              *)

Tick ==
  /\ now < MaxTime
  /\ now' = now + 1
  /\ UNCHANGED <<oldest, newest, withdrawn, cache, check>>

Publish ==
  /\ newest < MaxKey
  /\ newest' = newest + 1
  /\ UNCHANGED <<now, oldest, withdrawn, cache, check>>

Withdraw ==
  /\ oldest < newest
  /\ oldest' = oldest + 1
  /\ withdrawn' = [withdrawn EXCEPT ![oldest] = now]
  /\ UNCHANGED <<now, newest, cache, check>>

-----------------------------------------------------------------------------
(* One verification.                                                       *)

\* _extract_bearer and the header's kid; the next request of the thread.
Arrive(c) ==
  /\ check[c].pc \in {"idle"} \cup Verdicts
  /\ \E t \in Tokens :
       check' = [check EXCEPT ![c] =
         IF t.form = "signed"
         THEN [Idle EXCEPT !.pc = "stamp", !.token = t, !.known = t.kid \in Published]
         ELSE [Idle EXCEPT !.pc = "denied"]]
  /\ UNCHANGED <<pool, cache>>

\* _get_jwks reads the clock once, before it looks at the cache.
Stamp(c) ==
  /\ check[c].pc = "stamp"
  /\ check' = [check EXCEPT ![c].pc = "lookup", ![c].began = now]
  /\ UNCHANGED <<pool, cache>>

Live(began) == cache # None /\ began < cache.at + TTL

Lookup(c) ==
  /\ check[c].pc = "lookup"
  /\ check' = IF Live(check[c].began)
              THEN [check EXCEPT ![c].pc = "find", ![c].keys = cache.keys, ![c].from = cache.by]
              ELSE [check EXCEPT ![c].pc = "fetch"]
  /\ UNCHANGED <<pool, cache>>

\* The pool answers with what it publishes at that moment.
Fetch(c) ==
  /\ check[c].pc = "fetch"
  /\ check' = [check EXCEPT ![c].pc = "store", ![c].keys = Published, ![c].from = c]
  /\ UNCHANGED <<pool, cache>>

\* 503, or 401 when it is the refetch.
FetchFails(c) ==
  /\ check[c].pc = "fetch"
  /\ check' = [check EXCEPT ![c] =
       IF check[c].round = 1 THEN [Idle EXCEPT !.pc = "unavailable"] ELSE [@ EXCEPT !.pc = "nokey"]]
  /\ UNCHANGED <<pool, cache>>

\* MUTANT: the entry is dated when the answer has come.
StoreLate(c) ==
  /\ check[c].pc = "store"
  /\ cache' = [at |-> now, keys |-> check[c].keys, by |-> c]
  /\ check' = [check EXCEPT ![c].pc = "find"]
  /\ UNCHANGED pool

\* The entry is dated before the fetch, and replaces whatever is there.
Store(c) ==
  /\ check[c].pc = "store"
  /\ cache' = [at |-> check[c].began, keys |-> check[c].keys, by |-> c]
  /\ check' = [check EXCEPT ![c].pc = "find"]
  /\ UNCHANGED pool

\* jwt.decode with the key that was found.
Decode(c) ==
  /\ check[c].pc = "find"
  /\ check[c].token.kid \in check[c].keys
  /\ check' = [check EXCEPT ![c] =
       IF check[c].token.good THEN [@ EXCEPT !.pc = "accepted"] ELSE [Idle EXCEPT !.pc = "denied"]]
  /\ UNCHANGED <<pool, cache>>

\* MUTANT: the cache is not dropped before the second call.
MissKeeping(c) ==
  /\ check[c].pc = "find"
  /\ check[c].token.kid \notin check[c].keys
  /\ check' = [check EXCEPT ![c].pc = IF check[c].round = 1 THEN "stamp" ELSE "nokey",
                            ![c].round = 2]
  /\ UNCHANGED <<pool, cache>>

\* MUTANT: every miss drops the cache and calls _get_jwks again.
MissForever(c) ==
  /\ check[c].pc = "find"
  /\ check[c].token.kid \notin check[c].keys
  /\ check' = [check EXCEPT ![c].pc = "stamp", ![c].round = 2,
                            ![c].keys = {}, ![c].from = None]
  /\ cache' = None
  /\ UNCHANGED pool

\* MUTANT: a second refetch, should the first one miss.
MissTwice(c) ==
  /\ check[c].pc = "find"
  /\ check[c].token.kid \notin check[c].keys
  /\ IF check[c].round <= 2
     THEN /\ check' = [check EXCEPT ![c].pc = "stamp", ![c].round = @ + 1]
          /\ cache' = None
     ELSE /\ check' = [check EXCEPT ![c].pc = "nokey"]
          /\ UNCHANGED cache
  /\ UNCHANGED pool

\* The cache is dropped for everybody and _get_jwks called once more; a
\* second miss is a 401.
Miss(c) ==
  /\ check[c].pc = "find"
  /\ check[c].token.kid \notin check[c].keys
  /\ \/ /\ check[c].round = 1
        /\ check' = [check EXCEPT ![c].pc = "stamp", ![c].round = 2,
                                  ![c].keys = {}, ![c].from = None]
        /\ cache' = None
     \/ /\ check[c].round = 2
        /\ check' = [check EXCEPT ![c].pc = "nokey"]
        /\ UNCHANGED cache
  /\ UNCHANGED pool

Verify(c) ==
  \/ Stamp(c) \/ Lookup(c) \/ Fetch(c) \/ FetchFails(c) \/ Store(c) \/ Decode(c) \/ Miss(c)

JwksNext == Tick \/ Publish \/ Withdraw \/ \E c \in Threads : Arrive(c) \/ Verify(c)
=============================================================================
