----------------------- MODULE PresignedUploadsProofs -----------------------
(***************************************************************************)
(* Proofs about PresignedUploads, for any number of threads, tokens, keys  *)
(* and uploads, any TTL and any expiry.                                    *)
(***************************************************************************)
EXTENDS PresignedUploads, TLAPS

USE JwksAssumption, UploadAssumption

-----------------------------------------------------------------------------
(* The inductive invariant                                                 *)

\* Where a thread holds the token it verifies.
Busy == {"stamp", "lookup", "fetch", "store", "find", "accepted", "nokey"}

\* Such a thread has a token.
TokenInv == \A c \in Threads : check[c].pc \in Busy => check[c].token \in Tokens

\* Nothing is dated later than now, and keys are withdrawn from the oldest on.
ClockInv ==
  /\ \A k \in oldest..MaxKey : withdrawn[k] = None
  /\ cache # None => cache.at <= now
  /\ \A c \in Threads : check[c].began <= now

\* The keys of an entry were published when it is dated or later, and those a
\* thread looks into less than one TTL before it read the clock.
DateInv ==
  /\ cache # None => \A k \in cache.keys : withdrawn[k] = None \/ cache.at <= withdrawn[k]
  /\ \A c \in Threads :
       /\ check[c].pc = "store" =>
            \A k \in check[c].keys : withdrawn[k] = None \/ check[c].began <= withdrawn[k]
       /\ check[c].pc \in {"find", "accepted"} =>
            \A k \in check[c].keys : withdrawn[k] = None \/ check[c].began < withdrawn[k] + TTL
       /\ check[c].pc = "accepted" => check[c].token.kid \in check[c].keys

\* The token's key was published when it arrived and still is.
Good(c) == check[c].known /\ check[c].token.kid \in Published

\* Between its drop of the cache and its second lookup a thread finds nothing
\* of its own there, and what it fetches then has every good token's key.
RefetchInv ==
  \A c \in Threads :
    /\ check[c].pc \in Busy /\ check[c].known => check[c].token.kid <= newest
    /\ check[c].pc \in {"stamp", "lookup", "fetch"} => check[c].from = None
    /\ check[c].round = 2 /\ check[c].pc \in {"stamp", "lookup", "fetch", "store"} =>
         cache = None \/ cache.by # c
    /\ check[c].round = 2 /\ check[c].pc \in {"store", "find"} =>
         (check[c].from = c /\ Good(c) => check[c].token.kid \in check[c].keys)
    /\ check[c].pc = "nokey" => check[c].round = 2 /\ (Good(c) => check[c].from # c)

\* A URL that is out has its event, and an object its URL.
GrantInv ==
  /\ \A u \in Uploads : grant[u].pc = "released" =>
       [upload |-> u, actor |-> grant[u].owner] \in audit
  /\ \A u \in Uploads : grant[u].pc \in {"signed", "released"} => grant[u].owner \in Users
  /\ \A o \in bucket : grant[o.upload].pc = "released" /\ grant[o.upload].owner = o.owner

IInv == TypeOK /\ TokenInv /\ ClockInv /\ DateInv /\ RefetchInv /\ GrantInv

-----------------------------------------------------------------------------
(* Type correctness                                                        *)

(* The locals of a thread that verifies nothing have their types.          *)
LEMMA IdleState == Idle \in CheckState
BY DEF Idle, CheckState, Verdicts, Time, KeySet

(* So do those of a thread that has just answered.                         *)
LEMMA VerdictState ==
  ASSUME NEW p \in Verdicts
  PROVE  [Idle EXCEPT !.pc = p] \in CheckState
<1> HIDE DEF Idle
<1> QED BY IdleState DEF CheckState

(* So do those of a thread that begins a verification.                     *)
LEMMA FreshState ==
  ASSUME NEW t \in Tokens, NEW b \in BOOLEAN
  PROVE  [Idle EXCEPT !.pc = "stamp", !.token = t, !.known = b] \in CheckState
<1> HIDE DEF Idle
<1> QED BY IdleState DEF CheckState

(* An unused grant and a lost one have their types.                        *)
LEMMA GrantTypes == Unused \in Grant /\ Lost \in Grant
BY DEF Unused, Lost, Grant

(* The initial state has its shape.                                        *)
LEMMA InitTypeOK == Init => TypeOK
BY IdleState, GrantTypes
   DEF Init, TypeOK, JwksInit, JwksTypeOK, Time, Entry, Event, Object

(* The steps of the clock and of the pool keep the shape.                  *)
LEMMA PoolTypeOK ==
  ASSUME TypeOK, Tick \/ Publish \/ Withdraw, UNCHANGED <<grant, audit, bucket>>
  PROVE  TypeOK'
<1> USE DEF TypeOK, JwksTypeOK
<1>1. CASE Tick BY <1>1 DEF Tick, Time, CheckState, Entry
<1>2. CASE Publish BY <1>2 DEF Publish
<1>3. CASE Withdraw BY <1>3 DEF Withdraw, Time
<1>4. QED BY <1>1, <1>2, <1>3

(* The steps of a verification keep the shape.                             *)
LEMMA CheckTypeOK ==
  ASSUME TypeOK, NEW c \in Threads, Arrive(c) \/ Verify(c), UNCHANGED <<grant, audit, bucket>>
  PROVE  TypeOK'
<1> USE DEF TypeOK, JwksTypeOK, pool
<1> DEFINE i == check[c]
<1>0. /\ i \in CheckState
      /\ oldest \in Nat /\ newest \in Nat /\ newest <= MaxKey /\ oldest >= 1
  OBVIOUS
<1>i. Idle \in CheckState
  BY IdleState
<1>p. Published \in KeySet
  BY <1>0 DEF Published, KeySet
<1>1. CASE Arrive(c)
  <2>1. PICK t \in Tokens : check' = [check EXCEPT ![c] =
          IF t.form = "signed"
          THEN [Idle EXCEPT !.pc = "stamp", !.token = t, !.known = t.kid \in Published]
          ELSE [Idle EXCEPT !.pc = "denied"]]
    BY <1>1 DEF Arrive
  <2>2. CASE t.form = "signed"
    <3> DEFINE b == t.kid \in Published
    <3>0. b \in BOOLEAN
      OBVIOUS
    <3>1. check'[c] = [Idle EXCEPT !.pc = "stamp", !.token = t, !.known = b]
      BY <2>1, <2>2
    <3> HIDE DEF b
    <3>2. check'[c] \in CheckState
      BY <3>0, <3>1, FreshState, Zenon
    <3>3. QED BY <1>1, <2>1, <3>2 DEF Arrive
  <2>3. CASE t.form # "signed"
    <3>1. check'[c] = [Idle EXCEPT !.pc = "denied"]
      BY <2>1, <2>3
    <3>2. check'[c] \in CheckState
      BY <3>1, VerdictState DEF Verdicts
    <3>3. QED BY <1>1, <2>1, <3>2 DEF Arrive
  <2>4. QED BY <2>2, <2>3
<1>2. CASE Stamp(c)
  <2>1. [i EXCEPT !.pc = "lookup", !.began = now] \in CheckState
    BY <1>0 DEF CheckState
  <2>2. check' = [check EXCEPT ![c] = [i EXCEPT !.pc = "lookup", !.began = now]]
    BY <1>2 DEF Stamp
  <2>3. QED BY <1>2, <2>1, <2>2 DEF Stamp
<1>3. CASE Lookup(c)
  <2>1. CASE Live(i.began)
    <3>1. cache.keys \in KeySet /\ cache.by \in Threads
      BY <2>1 DEF Live, Entry
    <3>2. [i EXCEPT !.pc = "find", !.keys = cache.keys, !.from = cache.by] \in CheckState
      BY <1>0, <3>1 DEF CheckState
    <3>3. check' = [check EXCEPT ![c] =
             [i EXCEPT !.pc = "find", !.keys = cache.keys, !.from = cache.by]]
      BY <1>3, <2>1 DEF Lookup
    <3>4. QED BY <1>3, <3>2, <3>3 DEF Lookup
  <2>2. CASE ~ Live(i.began)
    <3>1. [i EXCEPT !.pc = "fetch"] \in CheckState
      BY <1>0 DEF CheckState
    <3>2. check' = [check EXCEPT ![c] = [i EXCEPT !.pc = "fetch"]]
      BY <1>3, <2>2 DEF Lookup
    <3>3. QED BY <1>3, <3>1, <3>2 DEF Lookup
  <2>3. QED BY <2>1, <2>2
<1>4. CASE Fetch(c)
  <2>1. [i EXCEPT !.pc = "store", !.keys = Published, !.from = c] \in CheckState
    BY <1>0, <1>p DEF CheckState
  <2>2. check' = [check EXCEPT ![c] = [i EXCEPT !.pc = "store", !.keys = Published, !.from = c]]
    BY <1>4 DEF Fetch
  <2>3. QED BY <1>4, <2>1, <2>2 DEF Fetch
<1>5. CASE FetchFails(c)
  <2>1. [i EXCEPT !.pc = "nokey"] \in CheckState
    BY <1>0 DEF CheckState, Verdicts
  <2>2. check'[c] \in CheckState
    BY <1>5, <2>1, VerdictState DEF FetchFails, Verdicts
  <2>3. QED BY <1>5, <2>2 DEF FetchFails
<1>6. CASE Store(c)
  <2>1. [i EXCEPT !.pc = "find"] \in CheckState
    BY <1>0 DEF CheckState
  <2>2. check' = [check EXCEPT ![c] = [i EXCEPT !.pc = "find"]]
    BY <1>6 DEF Store
  <2>3. cache' \in Entry
    BY <1>0, <1>6 DEF Store, Entry, CheckState
  <2>4. QED BY <1>6, <2>1, <2>2, <2>3 DEF Store
<1>7. CASE Decode(c)
  <2>1. [i EXCEPT !.pc = "accepted"] \in CheckState
    BY <1>0 DEF CheckState, Verdicts
  <2>2. check'[c] \in CheckState
    BY <1>7, <2>1, VerdictState DEF Decode, Verdicts
  <2>3. QED BY <1>7, <2>2 DEF Decode
<1>8. CASE Miss(c)
  <2>1. [i EXCEPT !.pc = "stamp", !.round = 2, !.keys = {}, !.from = None] \in CheckState
    BY <1>0 DEF CheckState, KeySet
  <2>2. [i EXCEPT !.pc = "nokey"] \in CheckState
    BY <1>0 DEF CheckState, Verdicts
  <2>3. check'[c] \in CheckState
    BY <1>8, <2>1, <2>2 DEF Miss
  <2>4. QED BY <1>8, <2>3 DEF Miss
<1>9. QED
  BY <1>1, <1>2, <1>3, <1>4, <1>5, <1>6, <1>7, <1>8 DEF Verify

(* The steps of the route and of its clients keep the shape.               *)
LEMMA ServeTypeOK ==
  ASSUME TypeOK, TokenInv, GrantInv, Serve
  PROVE  TypeOK'
<1> USE DEF TypeOK, JwksTypeOK, pool
<1>1. ASSUME NEW u \in Uploads, NEW c \in Threads, Sign(c, u)
      PROVE  TypeOK'
  <2>1. check[c].token.sub \in Users
    BY <1>1 DEF Sign, TokenInv, Busy, Token
  <2>2. [pc |-> "signed", owner |-> check[c].token.sub, expires |-> now + Expiry] \in Grant
    BY <2>1 DEF Grant, Time
  <2>3. grant' \in [Uploads -> Grant] /\ check' \in [Threads -> CheckState]
    BY <1>1, <2>2, IdleState DEF Sign
  <2>4. QED BY <1>1, <2>3 DEF Sign
<1>2. ASSUME NEW u \in Uploads, Release(u)
      PROVE  TypeOK'
  <2>1. [grant[u] EXCEPT !.pc = "released"] \in Grant
    BY DEF Grant
  <2>2. grant' \in [Uploads -> Grant]
    BY <1>2, <2>1, GrantTypes DEF Release
  <2>3. grant[u].owner \in Users
    BY <1>2 DEF Release, GrantInv
  <2>4. audit' \subseteq Event
    BY <1>2, <2>3 DEF Release, Event
  <2>5. QED BY <1>2, <2>2, <2>4 DEF Release
<1>3. ASSUME NEW u \in Uploads, ReleaseFails(u)
      PROVE  TypeOK'
  BY <1>3, GrantTypes DEF ReleaseFails
<1>4. ASSUME NEW u \in Uploads, NEW content \in Contents, PutObject(u, content)
      PROVE  TypeOK'
  BY <1>4 DEF PutObject, Object, GrantInv
<1>5. QED BY <1>1, <1>2, <1>3, <1>4 DEF Serve

(* Every step keeps the shape.                                             *)
LEMMA NextTypeOK ==
  ASSUME TypeOK, TokenInv, GrantInv, [Next]_vars
  PROVE  TypeOK'
<1>1. CASE UNCHANGED vars
  BY <1>1 DEF vars, TypeOK, JwksTypeOK
<1>2. CASE JwksNext /\ UNCHANGED <<grant, audit, bucket>>
  BY <1>2, PoolTypeOK, CheckTypeOK DEF JwksNext
<1>3. CASE Serve
  BY <1>3, ServeTypeOK
<1>4. QED BY <1>1, <1>2, <1>3 DEF Next

-----------------------------------------------------------------------------
(* The steps of the clock and of the pool                                  *)

(* A tick leaves everything where it is in time, or further back.          *)
LEMMA TickInv ==
  ASSUME IInv, Tick
  PROVE  TokenInv' /\ ClockInv' /\ DateInv' /\ RefetchInv'
<1> USE DEF IInv, Tick
<1>1. now \in Nat /\ cache \in Entry \cup {None} /\ check \in [Threads -> CheckState]
  BY DEF TypeOK, JwksTypeOK, Time
<1>2. TokenInv'
  BY DEF TokenInv
<1>3. ClockInv'
  BY <1>1 DEF ClockInv, Entry, CheckState, Time
<1>4. DateInv'
  BY DEF DateInv
<1>5. RefetchInv'
  BY DEF RefetchInv, Good, Published
<1>6. QED BY <1>2, <1>3, <1>4, <1>5

(* A new key is none that a thread has known.                              *)
LEMMA PublishInv ==
  ASSUME IInv, Publish
  PROVE  TokenInv' /\ ClockInv' /\ DateInv' /\ RefetchInv'
<1> USE DEF IInv, Publish
<1>1. oldest \in Nat /\ newest \in Nat /\ newest' = newest + 1
  BY DEF TypeOK, JwksTypeOK
<1>2. \A c \in Threads : check[c].pc \in Busy => check[c].token.kid \in Nat
  BY DEF TokenInv, Token
<1>3. TokenInv' /\ ClockInv' /\ DateInv'
  BY DEF TokenInv, ClockInv, DateInv
<1>4. RefetchInv'
  <2>1. \A c \in Threads : check[c].pc \in Busy /\ check[c].known => check[c].token.kid <= newest
    BY DEF RefetchInv
  <2>2. \A c \in Threads : check[c].pc \in Busy /\ Good(c)' => Good(c)
    BY <1>1, <1>2, <2>1 DEF Good, Published
  <2>3. QED BY <1>1, <1>2, <2>2 DEF RefetchInv, Busy
<1>5. QED BY <1>3, <1>4

(* A key is withdrawn no earlier than anything that names it.              *)
LEMMA WithdrawInv ==
  ASSUME IInv, Withdraw
  PROVE  TokenInv' /\ ClockInv' /\ DateInv' /\ RefetchInv'
<1> USE DEF IInv, Withdraw
<1>1. /\ oldest \in 1..MaxKey /\ newest \in Nat /\ oldest' = oldest + 1 /\ now \in Nat
      /\ withdrawn \in [1..MaxKey -> Time \cup {None}]
      /\ cache \in Entry \cup {None} /\ check \in [Threads -> CheckState]
  BY DEF TypeOK, JwksTypeOK, Time
<1>2. \A k \in 1..MaxKey : withdrawn'[k] = withdrawn[k] \/ withdrawn'[k] = now
  BY <1>1
<1>3. TokenInv'
  BY DEF TokenInv
<1>4. ClockInv'
  BY <1>1 DEF ClockInv
<1>5. DateInv'
  <2>1. cache # None => cache.keys \in KeySet /\ cache.at \in Nat /\ cache.at <= now
    BY <1>1 DEF Entry, Time, ClockInv
  <2>2. \A c \in Threads : check[c].keys \in KeySet /\ check[c].began \in Nat /\ check[c].began <= now
    BY <1>1 DEF CheckState, Time, ClockInv
  <2>3. now < now + TTL
    BY <1>1
  <2>4. cache # None => \A k \in cache.keys : withdrawn'[k] = None \/ cache.at <= withdrawn'[k]
    BY <1>2, <2>1 DEF DateInv, KeySet
  <2>5. ASSUME NEW c \in Threads, NEW k \in check[c].keys
        PROVE  /\ check[c].pc = "store" => withdrawn'[k] = None \/ check[c].began <= withdrawn'[k]
               /\ check[c].pc \in {"find", "accepted"} =>
                    withdrawn'[k] = None \/ check[c].began < withdrawn'[k] + TTL
    <3>1. k \in 1..MaxKey
      BY <2>2 DEF KeySet
    <3>2. CASE withdrawn'[k] = withdrawn[k]
      BY <3>2 DEF DateInv
    <3>3. CASE withdrawn'[k] = now
      BY <1>1, <2>2, <2>3, <3>3
    <3>4. QED BY <1>2, <3>1, <3>2, <3>3
  <2>6. QED BY <2>4, <2>5 DEF DateInv
<1>6. RefetchInv'
  <2>1. \A c \in Threads : check[c].pc \in Busy => check[c].token.kid \in Nat
    BY DEF TokenInv, Token
  <2>2. \A c \in Threads : check[c].pc \in Busy /\ Good(c)' => Good(c)
    BY <1>1, <2>1 DEF Good, Published
  <2>3. QED BY <2>2 DEF RefetchInv, Busy
<1>7. QED BY <1>3, <1>4, <1>5, <1>6

-----------------------------------------------------------------------------
(* The steps of a verification keep the invariant                          *)

(* What one thread's step must show of the thread, where it leaves the     *)
(* cache alone, drops it, or stores an entry of its own.                   *)
LEMMA ThreadStep ==
  ASSUME IInv, TypeOK', UNCHANGED pool, NEW c \in Threads,
         \A d \in Threads \ {c} : check'[d] = check[d],
         \/ cache' = cache
         \/ cache' = None
         \/ /\ cache' # None /\ cache'.by = c /\ cache'.at <= now
            /\ \A k \in cache'.keys : withdrawn[k] = None \/ cache'.at <= withdrawn[k],
         NEW j, j = check'[c],
         j.pc \in Busy => j.token \in Tokens,
         j.began <= now,
         j.pc = "store" => \A k \in j.keys : withdrawn[k] = None \/ j.began <= withdrawn[k],
         j.pc \in {"find", "accepted"} =>
           \A k \in j.keys : withdrawn[k] = None \/ j.began < withdrawn[k] + TTL,
         j.pc = "accepted" => j.token.kid \in j.keys,
         j.pc \in Busy /\ j.known => j.token.kid <= newest,
         j.pc \in {"stamp", "lookup", "fetch"} => j.from = None,
         j.round = 2 /\ j.pc \in {"stamp", "lookup", "fetch", "store"} =>
           cache' = None \/ cache'.by # c,
         j.round = 2 /\ j.pc \in {"store", "find"} =>
           (j.from = c /\ j.known /\ j.token.kid \in Published => j.token.kid \in j.keys),
         j.pc = "nokey" =>
           j.round = 2 /\ (j.known /\ j.token.kid \in Published => j.from # c)
  PROVE  TokenInv' /\ ClockInv' /\ DateInv' /\ RefetchInv'
<1> USE DEF pool
<1>1. /\ TokenInv /\ ClockInv /\ DateInv /\ RefetchInv
      /\ now' = now /\ oldest' = oldest /\ newest' = newest /\ withdrawn' = withdrawn
  BY DEF IInv
<1>2. TokenInv'
  BY <1>1 DEF TokenInv
<1>3. ClockInv'
  BY <1>1 DEF ClockInv
<1>4. DateInv'
  BY <1>1 DEF DateInv
<1>5. RefetchInv'
  <2> SUFFICES ASSUME NEW d \in Threads
               PROVE  /\ check'[d].pc \in Busy /\ check'[d].known => check'[d].token.kid <= newest
                      /\ check'[d].pc \in {"stamp", "lookup", "fetch"} => check'[d].from = None
                      /\ check'[d].round = 2 /\ check'[d].pc \in {"stamp", "lookup", "fetch", "store"} =>
                           cache' = None \/ cache'.by # d
                      /\ check'[d].round = 2 /\ check'[d].pc \in {"store", "find"} =>
                           (check'[d].from = d /\ Good(d)' => check'[d].token.kid \in check'[d].keys)
                      /\ check'[d].pc = "nokey" => check'[d].round = 2 /\ (Good(d)' => check'[d].from # d)
    BY <1>1 DEF RefetchInv
  <2>1. Good(d)' <=> check'[d].known /\ check'[d].token.kid \in Published
    BY <1>1 DEF Good, Published
  <2>2. CASE d = c
    BY <2>1, <2>2
  <2>3. CASE d # c
    <3>1. check'[d] = check[d]
      BY <2>3
    <3>2. Good(d)' <=> Good(d)
      BY <2>1, <3>1 DEF Good
    <3>3. cache = None \/ cache.by # d => cache' = None \/ cache'.by # d
      BY <2>3
    <3>4. QED BY <1>1, <3>1, <3>2, <3>3 DEF RefetchInv
  <2>4. QED BY <2>2, <2>3
<1>6. QED BY <1>2, <1>3, <1>4, <1>5

(* A token that arrives comes with a key the pool has published, or with   *)
(* no claim to be known.                                                   *)
LEMMA ArriveInv ==
  ASSUME IInv, TypeOK', NEW c \in Threads, Arrive(c)
  PROVE  TokenInv' /\ ClockInv' /\ DateInv' /\ RefetchInv'
<1> USE DEF IInv, TypeOK, JwksTypeOK
<1> DEFINE j == check'[c]
<1>0. /\ UNCHANGED pool /\ cache' = cache /\ now \in Nat /\ oldest \in Nat /\ newest \in Nat
      /\ \A d \in Threads \ {c} : check'[d] = check[d]
  BY DEF Arrive, Time
<1>1. Idle \in CheckState /\ Idle.began = 0 /\ Idle.round = 1 /\ Idle.from = None
  BY IdleState DEF Idle
<1>2. PICK t \in Tokens : check' = [check EXCEPT ![c] =
        IF t.form = "signed"
        THEN [Idle EXCEPT !.pc = "stamp", !.token = t, !.known = t.kid \in Published]
        ELSE [Idle EXCEPT !.pc = "denied"]]
  BY DEF Arrive
<1>3. CASE t.form = "signed"
  <2>1. j = [Idle EXCEPT !.pc = "stamp", !.token = t, !.known = t.kid \in Published]
    BY <1>2, <1>3
  <2>2. /\ j.pc = "stamp" /\ j.token = t /\ j.began = 0 /\ j.round = 1 /\ j.from = None
        /\ j.known => t.kid \in Published
    BY <1>1, <2>1 DEF CheckState
  <2>3. j.known => t.kid <= newest
    BY <1>0, <2>2 DEF Published
  <2> HIDE DEF j
  <2>4. j = check'[c]
    BY DEF j
  <2>5. QED BY <1>0, <2>2, <2>3, <2>4, ThreadStep, SMTT(60)
<1>4. CASE t.form # "signed"
  <2>1. j = [Idle EXCEPT !.pc = "denied"]
    BY <1>2, <1>4
  <2>2. j.pc = "denied" /\ j.began = 0
    BY <1>1, <2>1 DEF CheckState
  <2> HIDE DEF j
  <2>3. j = check'[c]
    BY DEF j
  <2>4. QED BY <1>0, <2>2, <2>3, ThreadStep, SMTT(60) DEF Busy
<1>5. QED BY <1>3, <1>4

(* What the invariant says of one thread.                                  *)
LEMMA ThreadFacts ==
  ASSUME IInv, NEW c \in Threads, check[c].pc \in Busy
  PROVE  /\ check[c] \in CheckState /\ check[c].token \in Tokens
         /\ check[c].token.kid \in Nat
         /\ now \in Nat /\ oldest \in 1..MaxKey /\ newest \in 1..MaxKey
         /\ cache \in Entry \cup {None} /\ check \in [Threads -> CheckState]
         /\ check[c].began \in Nat /\ check[c].began <= now
         /\ check[c].known => check[c].token.kid <= newest
BY DEF IInv, TypeOK, JwksTypeOK, TokenInv, Token, ClockInv, RefetchInv, CheckState, Time

(* The clock is read.                                                      *)
LEMMA StampInv ==
  ASSUME IInv, TypeOK', NEW c \in Threads, Stamp(c)
  PROVE  TokenInv' /\ ClockInv' /\ DateInv' /\ RefetchInv'
<1> DEFINE i == check[c]
           j == check'[c]
<1>1. i.pc = "stamp" /\ i.pc \in Busy /\ UNCHANGED pool
  BY DEF Stamp, Busy
<1>2. /\ i \in CheckState /\ i.token \in Tokens /\ i.token.kid \in Nat
      /\ now \in Nat /\ i.began \in Nat /\ i.began <= now
      /\ i.known => i.token.kid <= newest
      /\ check \in [Threads -> CheckState]
  BY <1>1, ThreadFacts
<1>3. cache' = cache /\ \A d \in Threads \ {c} : check'[d] = check[d]
  BY <1>2 DEF Stamp
<1>4. /\ j.pc = "lookup" /\ j.began = now /\ j.token = i.token /\ j.known = i.known
      /\ j.round = i.round /\ j.from = i.from
  <2>1. j = [i EXCEPT !.pc = "lookup", !.began = now]
    BY <1>2 DEF Stamp
  <2>2. QED BY <1>1, <1>2, <2>1 DEF CheckState
<1>5. i.from = None /\ (i.round = 2 => cache = None \/ cache.by # c)
  BY <1>1, <1>2 DEF IInv, RefetchInv
<1> HIDE DEF j
<1>6. j = check'[c]
  BY DEF j
<1>7. QED
  BY <1>1, <1>2, <1>3, <1>4, <1>5, <1>6, ThreadStep, SMTT(60)

(* The pool answers with keys that it has not withdrawn.                   *)
LEMMA FetchInv ==
  ASSUME IInv, TypeOK', NEW c \in Threads, Fetch(c)
  PROVE  TokenInv' /\ ClockInv' /\ DateInv' /\ RefetchInv'
<1> DEFINE i == check[c]
           j == check'[c]
<1>1. i.pc = "fetch" /\ i.pc \in Busy /\ UNCHANGED pool
  BY DEF Fetch, Busy
<1>2. /\ i \in CheckState /\ i.token \in Tokens /\ i.token.kid \in Nat
      /\ now \in Nat /\ i.began \in Nat /\ i.began <= now
      /\ i.known => i.token.kid <= newest
      /\ check \in [Threads -> CheckState]
  BY <1>1, ThreadFacts
<1>3. cache' = cache /\ \A d \in Threads \ {c} : check'[d] = check[d]
  BY <1>2 DEF Fetch
<1>4. /\ j.pc = "store" /\ j.began = i.began /\ j.token = i.token /\ j.known = i.known
      /\ j.round = i.round /\ j.keys = Published
  <2>1. j = [i EXCEPT !.pc = "store", !.keys = Published, !.from = c]
    BY <1>2 DEF Fetch
  <2>2. QED BY <1>1, <1>2, <2>1 DEF CheckState
<1>5. /\ i.round = 2 => cache = None \/ cache.by # c
      /\ \A k \in Published : withdrawn[k] = None
  BY <1>1, <1>2 DEF IInv, RefetchInv, ClockInv, Published, TypeOK, JwksTypeOK
<1> HIDE DEF j
<1>6. j = check'[c]
  BY DEF j
<1>7. QED
  BY <1>1, <1>2, <1>3, <1>4, <1>5, <1>6, ThreadStep, SMTT(60)

(* An entry that is found is less than one TTL old.                        *)
LEMMA LookupInv ==
  ASSUME IInv, TypeOK', NEW c \in Threads, Lookup(c)
  PROVE  TokenInv' /\ ClockInv' /\ DateInv' /\ RefetchInv'
<1> DEFINE i == check[c]
           j == check'[c]
<1>1. i.pc = "lookup" /\ i.pc \in Busy /\ UNCHANGED pool /\ cache' = cache
  BY DEF Lookup, Busy
<1>2. /\ i \in CheckState /\ i.token \in Tokens /\ i.token.kid \in Nat
      /\ now \in Nat /\ i.began \in Nat /\ i.began <= now
      /\ i.known => i.token.kid <= newest
      /\ check \in [Threads -> CheckState] /\ cache \in Entry \cup {None}
  BY <1>1, ThreadFacts
<1>3. \A d \in Threads \ {c} : check'[d] = check[d]
  BY <1>2 DEF Lookup
<1>4. i.from = None /\ (i.round = 2 => cache = None \/ cache.by # c)
  BY <1>1 DEF IInv, RefetchInv
<1>5. CASE Live(i.began)
  <2>1. /\ cache # None /\ i.began < cache.at + TTL /\ cache.at \in Nat
        /\ cache.keys \in KeySet
    BY <1>2, <1>5 DEF Live, Entry, Time
  <2>2. j = [i EXCEPT !.pc = "find", !.keys = cache.keys, !.from = cache.by]
    BY <1>2, <1>5 DEF Lookup
  <2>3. /\ j.pc = "find" /\ j.began = i.began /\ j.token = i.token /\ j.known = i.known
        /\ j.round = i.round /\ j.keys = cache.keys /\ j.from = cache.by
    BY <1>2, <2>2 DEF CheckState
  <2>4. ASSUME NEW k \in cache.keys
        PROVE  withdrawn[k] = None \/ i.began < withdrawn[k] + TTL
    <3>1. withdrawn[k] = None \/ cache.at <= withdrawn[k]
      BY <2>1 DEF IInv, DateInv
    <3>2. withdrawn[k] \in Nat \cup {None}
      BY <2>1 DEF IInv, TypeOK, JwksTypeOK, KeySet, Time
    <3>3. QED BY <1>2, <2>1, <3>1, <3>2
  <2> HIDE DEF j
  <2>5. j = check'[c]
    BY DEF j
  <2>6. QED
    BY <1>1, <1>2, <1>3, <1>4, <2>1, <2>3, <2>4, <2>5, ThreadStep, SMTT(60)
<1>6. CASE ~ Live(i.began)
  <2>1. j = [i EXCEPT !.pc = "fetch"]
    BY <1>2, <1>6 DEF Lookup
  <2>2. /\ j.pc = "fetch" /\ j.began = i.began /\ j.token = i.token /\ j.known = i.known
        /\ j.round = i.round /\ j.from = i.from
    BY <1>2, <2>1 DEF CheckState
  <2> HIDE DEF j
  <2>3. j = check'[c]
    BY DEF j
  <2>4. QED
    BY <1>1, <1>2, <1>3, <1>4, <2>2, <2>3, ThreadStep, SMTT(60)
<1>7. QED BY <1>5, <1>6

(* The refetch that fails has nobody's keys in hand.                       *)
LEMMA FetchFailsInv ==
  ASSUME IInv, TypeOK', NEW c \in Threads, FetchFails(c)
  PROVE  TokenInv' /\ ClockInv' /\ DateInv' /\ RefetchInv'
<1> DEFINE i == check[c]
           j == check'[c]
<1>1. i.pc = "fetch" /\ i.pc \in Busy /\ UNCHANGED pool /\ cache' = cache
  BY DEF FetchFails, Busy
<1>2. /\ i \in CheckState /\ i.token \in Tokens /\ i.token.kid \in Nat
      /\ now \in Nat /\ i.began \in Nat /\ i.began <= now
      /\ i.known => i.token.kid <= newest
      /\ check \in [Threads -> CheckState]
  BY <1>1, ThreadFacts
<1>3. \A d \in Threads \ {c} : check'[d] = check[d]
  BY <1>2 DEF FetchFails
<1>4. i.from = None /\ None \notin Threads
  BY <1>1 DEF IInv, RefetchInv
<1>5. CASE i.round = 1
  <2>1. j = [Idle EXCEPT !.pc = "unavailable"]
    BY <1>2, <1>5 DEF FetchFails
  <2>2. Idle \in CheckState /\ Idle.began = 0
    BY IdleState DEF Idle
  <2>3. j.pc = "unavailable" /\ j.began = 0
    BY <2>1, <2>2 DEF CheckState
  <2> HIDE DEF j
  <2>4. j = check'[c]
    BY DEF j
  <2>5. QED BY <1>1, <1>2, <1>3, <2>3, <2>4, ThreadStep, SMTT(60) DEF Busy
<1>6. CASE i.round = 2
  <2>1. j = [i EXCEPT !.pc = "nokey"]
    BY <1>2, <1>6 DEF FetchFails
  <2>2. /\ j.pc = "nokey" /\ j.began = i.began /\ j.token = i.token /\ j.known = i.known
        /\ j.round = 2 /\ j.from = i.from
    BY <1>2, <1>6, <2>1 DEF CheckState
  <2> HIDE DEF j
  <2>3. j = check'[c]
    BY DEF j
  <2>4. QED BY <1>1, <1>2, <1>3, <1>4, <2>2, <2>3, ThreadStep, SMTT(60)
<1>7. i.round \in {1, 2}
  BY <1>2 DEF CheckState
<1>8. QED BY <1>5, <1>6, <1>7

(* The entry that is stored is dated no later than its keys.               *)
LEMMA StoreInv ==
  ASSUME IInv, TypeOK', NEW c \in Threads, Store(c)
  PROVE  TokenInv' /\ ClockInv' /\ DateInv' /\ RefetchInv'
<1> DEFINE i == check[c]
           j == check'[c]
<1>1. i.pc = "store" /\ i.pc \in Busy /\ UNCHANGED pool
  BY DEF Store, Busy
<1>2. /\ i \in CheckState /\ i.token \in Tokens /\ i.token.kid \in Nat
      /\ now \in Nat /\ i.began \in Nat /\ i.began <= now
      /\ i.known => i.token.kid <= newest
      /\ check \in [Threads -> CheckState]
  BY <1>1, ThreadFacts
<1>3. /\ \A d \in Threads \ {c} : check'[d] = check[d]
      /\ cache'.at = i.began /\ cache'.keys = i.keys /\ cache'.by = c
  BY <1>2 DEF Store
<1>4. /\ j.pc = "find" /\ j.began = i.began /\ j.token = i.token /\ j.known = i.known
      /\ j.round = i.round /\ j.keys = i.keys /\ j.from = i.from
  <2>1. j = [i EXCEPT !.pc = "find"]
    BY <1>2 DEF Store
  <2>2. QED BY <1>2, <2>1 DEF CheckState
<1>5. /\ \A k \in i.keys : withdrawn[k] = None \/ i.began <= withdrawn[k]
      /\ i.round = 2 => (i.from = c /\ i.known /\ i.token.kid \in Published => i.token.kid \in i.keys)
  BY <1>1 DEF IInv, DateInv, RefetchInv, Good
<1>6. \A k \in i.keys : withdrawn[k] = None \/ i.began < withdrawn[k] + TTL
  <2>1. \A k \in i.keys : withdrawn[k] \in Nat \cup {None}
    BY <1>2 DEF IInv, TypeOK, JwksTypeOK, CheckState, KeySet, Time
  <2>2. QED BY <1>2, <1>5, <2>1
<1>7. \/ cache' = None
      \/ /\ cache' # None /\ cache'.by = c /\ cache'.at <= now
         /\ \A k \in cache'.keys : withdrawn[k] = None \/ cache'.at <= withdrawn[k]
  BY <1>2, <1>3, <1>5
<1> HIDE DEF j
<1>8. j = check'[c]
  BY DEF j
<1>9. QED
  BY <1>1, <1>2, <1>3, <1>4, <1>5, <1>6, <1>7, <1>8, ThreadStep, SMTT(60)

(* A token is accepted on a key that was looked up in time.                *)
LEMMA DecodeInv ==
  ASSUME IInv, TypeOK', NEW c \in Threads, Decode(c)
  PROVE  TokenInv' /\ ClockInv' /\ DateInv' /\ RefetchInv'
<1> DEFINE i == check[c]
           j == check'[c]
<1>1. i.pc = "find" /\ i.pc \in Busy /\ UNCHANGED pool /\ cache' = cache
  BY DEF Decode, Busy
<1>2. /\ i \in CheckState /\ i.token \in Tokens /\ i.token.kid \in Nat
      /\ now \in Nat /\ i.began \in Nat /\ i.began <= now
      /\ i.known => i.token.kid <= newest
      /\ check \in [Threads -> CheckState]
  BY <1>1, ThreadFacts
<1>3. \A d \in Threads \ {c} : check'[d] = check[d]
  BY <1>2 DEF Decode
<1>4. /\ i.token.kid \in i.keys
      /\ \A k \in i.keys : withdrawn[k] = None \/ i.began < withdrawn[k] + TTL
  BY <1>1 DEF Decode, IInv, DateInv
<1>5. CASE i.token.good
  <2>1. j = [i EXCEPT !.pc = "accepted"]
    BY <1>2, <1>5 DEF Decode
  <2>2. /\ j.pc = "accepted" /\ j.began = i.began /\ j.token = i.token /\ j.known = i.known
        /\ j.keys = i.keys
    BY <1>2, <2>1 DEF CheckState
  <2> HIDE DEF j
  <2>3. j = check'[c]
    BY DEF j
  <2>4. QED BY <1>1, <1>2, <1>3, <1>4, <2>2, <2>3, ThreadStep, SMTT(60)
<1>6. CASE ~ i.token.good
  <2>1. j = [Idle EXCEPT !.pc = "denied"]
    BY <1>2, <1>6 DEF Decode
  <2>2. Idle \in CheckState /\ Idle.began = 0
    BY IdleState DEF Idle
  <2>3. j.pc = "denied" /\ j.began = 0
    BY <2>1, <2>2 DEF CheckState
  <2> HIDE DEF j
  <2>4. j = check'[c]
    BY DEF j
  <2>5. QED BY <1>1, <1>2, <1>3, <2>3, <2>4, ThreadStep, SMTT(60) DEF Busy
<1>7. QED BY <1>5, <1>6

(* A first miss leaves the cache empty, a second one had its own fetch or  *)
(* somebody else's.                                                        *)
LEMMA MissInv ==
  ASSUME IInv, TypeOK', NEW c \in Threads, Miss(c)
  PROVE  TokenInv' /\ ClockInv' /\ DateInv' /\ RefetchInv'
<1> DEFINE i == check[c]
           j == check'[c]
<1>1. i.pc = "find" /\ i.pc \in Busy /\ i.token.kid \notin i.keys /\ UNCHANGED pool
  BY DEF Miss, Busy
<1>2. /\ i \in CheckState /\ i.token \in Tokens /\ i.token.kid \in Nat
      /\ now \in Nat /\ i.began \in Nat /\ i.began <= now
      /\ i.known => i.token.kid <= newest
      /\ check \in [Threads -> CheckState]
  BY <1>1, ThreadFacts
<1>3. \A d \in Threads \ {c} : check'[d] = check[d]
  BY <1>2 DEF Miss
<1>4. CASE i.round = 1
  <2>1. check' = [check EXCEPT ![c].pc = "stamp", ![c].round = 2,
                              ![c].keys = {}, ![c].from = None]
    BY <1>4 DEF Miss
  <2>2. /\ j.pc = "stamp" /\ j.began = i.began /\ j.token = i.token /\ j.known = i.known
        /\ j.from = None /\ cache' = None
    BY <1>2, <1>4, <2>1 DEF CheckState, Miss
  <2> HIDE DEF j
  <2>3. j = check'[c]
    BY DEF j
  <2>4. QED BY <1>1, <1>2, <1>3, <2>2, <2>3, ThreadStep, SMTT(60)
<1>5. CASE i.round = 2
  <2>1. j = [i EXCEPT !.pc = "nokey"]
    BY <1>2, <1>5 DEF Miss
  <2>2. /\ j.pc = "nokey" /\ j.began = i.began /\ j.token = i.token /\ j.known = i.known
        /\ j.round = 2 /\ j.from = i.from /\ cache' = cache
    BY <1>2, <1>5, <2>1 DEF CheckState, Miss
  <2>3. i.known /\ i.token.kid \in Published => i.from # c
    BY <1>1, <1>5 DEF IInv, RefetchInv, Good
  <2> HIDE DEF j
  <2>4. j = check'[c]
    BY DEF j
  <2>5. QED BY <1>1, <1>2, <1>3, <2>2, <2>3, <2>4, ThreadStep, SMTT(60)
<1>6. i.round \in {1, 2}
  BY <1>2 DEF CheckState
<1>7. QED BY <1>4, <1>5, <1>6

-----------------------------------------------------------------------------
(* The route, and the theorems                                             *)

(* The steps of the route and of the clients leave threads idle at most.   *)
LEMMA ServeInv ==
  ASSUME IInv, TypeOK', Serve
  PROVE  TokenInv' /\ ClockInv' /\ DateInv' /\ RefetchInv'
<1>1. ASSUME NEW u \in Uploads, NEW c \in Threads, Sign(c, u)
      PROVE  TokenInv' /\ ClockInv' /\ DateInv' /\ RefetchInv'
  <2> DEFINE j == check'[c]
  <2>1. /\ UNCHANGED pool /\ cache' = cache
        /\ \A d \in Threads \ {c} : check'[d] = check[d]
    BY <1>1 DEF Sign, IInv, TypeOK, JwksTypeOK
  <2>2. j.pc = "idle" /\ j.began = 0 /\ now \in Nat
    BY <1>1 DEF Sign, Idle, IInv, TypeOK, JwksTypeOK, Time
  <2> HIDE DEF j
  <2>3. j = check'[c]
    BY DEF j
  <2>4. QED BY <2>1, <2>2, <2>3, ThreadStep, SMTT(60) DEF Busy
<1>2. CASE UNCHANGED <<pool, cache, check>>
  BY <1>2 DEF pool, IInv, TokenInv, ClockInv, DateInv, RefetchInv, Good, Published
<1>3. QED BY <1>1, <1>2 DEF Serve, Release, ReleaseFails, PutObject

(* A URL gets out only with its event, and keeps its owner.                *)
LEMMA GrantStep ==
  ASSUME IInv, [Next]_vars
  PROVE  GrantInv'
<1> USE DEF IInv, TypeOK
<1>1. CASE UNCHANGED <<grant, audit, bucket>>
  BY <1>1 DEF GrantInv
<1>2. ASSUME NEW u \in Uploads, NEW c \in Threads, Sign(c, u)
      PROVE  GrantInv'
  <2>1. check[c].token.sub \in Users
    BY <1>2 DEF Sign, TokenInv, Busy, Token
  <2>2. /\ grant'[u].pc = "signed" /\ grant'[u].owner \in Users
        /\ \A v \in Uploads \ {u} : grant'[v] = grant[v]
        /\ grant[u].pc = "unused" /\ audit' = audit /\ bucket' = bucket
    BY <1>2, <2>1 DEF Sign
  <2>3. \A o \in bucket : o.upload \in Uploads
    BY DEF Object
  <2>4. QED BY <2>2, <2>3 DEF GrantInv
<1>3. ASSUME NEW u \in Uploads, Release(u)
      PROVE  GrantInv'
  <2>1. /\ \A v \in Uploads \ {u} : grant'[v] = grant[v]
        /\ grant[u].pc = "signed" /\ bucket' = bucket
        /\ audit' = audit \cup {[upload |-> u, actor |-> grant[u].owner]}
        /\ \/ grant'[u] = [grant[u] EXCEPT !.pc = "released"]
           \/ grant'[u] = Lost
    BY <1>3 DEF Release
  <2>2. \/ grant'[u].pc = "released" /\ grant'[u].owner = grant[u].owner
        \/ grant'[u].pc = "lost"
    BY <2>1 DEF Grant, Lost, Unused
  <2>3. \A o \in bucket : o.upload \in Uploads
    BY DEF Object
  <2>4. QED BY <2>1, <2>2, <2>3 DEF GrantInv
<1>4. ASSUME NEW u \in Uploads, ReleaseFails(u)
      PROVE  GrantInv'
  <2>1. /\ \A v \in Uploads \ {u} : grant'[v] = grant[v]
        /\ grant[u].pc = "signed" /\ bucket' = bucket /\ audit' = audit
        /\ grant'[u].pc = "lost"
    BY <1>4 DEF ReleaseFails, Lost, Unused
  <2>2. \A o \in bucket : o.upload \in Uploads
    BY DEF Object
  <2>3. QED BY <2>1, <2>2 DEF GrantInv
<1>5. ASSUME NEW u \in Uploads, NEW content \in Contents, PutObject(u, content)
      PROVE  GrantInv'
  BY <1>5 DEF PutObject, GrantInv
<1>6. QED
  BY <1>1, <1>2, <1>3, <1>4, <1>5 DEF Next, Serve, vars

(* The invariant holds at first.                                           *)
LEMMA InitIInv == Init => IInv
<1> SUFFICES ASSUME Init PROVE IInv
  OBVIOUS
<1>1. TypeOK
  BY InitTypeOK
<1>2. \A c \in Threads : check[c].pc = "idle" /\ check[c].round = 1 /\ check[c].began = 0
  BY DEF Init, JwksInit, Idle
<1>3. TokenInv /\ DateInv /\ RefetchInv
  BY <1>2 DEF Init, JwksInit, TokenInv, DateInv, RefetchInv, Busy
<1>4. ClockInv /\ GrantInv
  BY <1>2 DEF Init, JwksInit, ClockInv, GrantInv, Unused
<1>5. QED BY <1>1, <1>3, <1>4 DEF IInv

(* Every step preserves the invariant.                                     *)
LEMMA NextIInv == IInv /\ [Next]_vars => IInv'
<1> SUFFICES ASSUME IInv, [Next]_vars PROVE IInv'
  OBVIOUS
<1>1. TypeOK'
  BY NextTypeOK DEF IInv
<1>2. GrantInv'
  BY GrantStep
<1>3. TokenInv' /\ ClockInv' /\ DateInv' /\ RefetchInv'
  <2>1. CASE UNCHANGED vars
    BY <2>1 DEF vars, IInv, TokenInv, ClockInv, DateInv, RefetchInv, Good, Published
  <2>2. CASE Tick \/ Publish \/ Withdraw
    BY <2>2, TickInv, PublishInv, WithdrawInv
  <2>3. ASSUME NEW c \in Threads, Arrive(c) \/ Verify(c)
        PROVE  TokenInv' /\ ClockInv' /\ DateInv' /\ RefetchInv'
    BY <1>1, <2>3, ArriveInv, StampInv, LookupInv, FetchInv, FetchFailsInv, StoreInv,
       DecodeInv, MissInv DEF Verify
  <2>4. CASE Serve
    BY <1>1, <2>4, ServeInv
  <2>5. QED BY <2>1, <2>2, <2>3, <2>4 DEF Next, JwksNext
<1>4. QED BY <1>1, <1>2, <1>3 DEF IInv

(* The invariant holds of every behaviour.                                 *)
THEOREM Invariance == Spec => []IInv
BY InitIInv, NextIInv, PTL DEF Spec

(* Every variable has its shape; in particular a verification calls        *)
(* _get_jwks at most twice.                                                *)
THEOREM TypeCorrect == Spec => []TypeOK
<1>1. IInv => TypeOK
  BY DEF IInv
<1> QED BY <1>1, Invariance, PTL

(* No token is accepted on a key that was withdrawn a TTL or more before   *)
(* its check read the clock, however many threads share the cache.         *)
THEOREM WithdrawnKeysExpireAlways == Spec => []WithdrawnKeysExpire
<1>1. IInv => WithdrawnKeysExpire
  BY DEF IInv, DateInv, WithdrawnKeysExpire
<1> QED BY <1>1, Invariance, PTL

(* A token whose key was published all along is refused for want of it     *)
(* only after a refetch that failed or found another thread's keys.        *)
THEOREM RefusalsHaveACauseAlways == Spec => []RefusalsHaveACause
<1>1. IInv => RefusalsHaveACause
  BY DEF IInv, RefetchInv, Good, RefusalsHaveACause
<1> QED BY <1>1, Invariance, PTL

(* Every stored object has the audit event of the user it belongs to.      *)
THEOREM UploadsAuditedAlways == Spec => []UploadsAudited
<1>1. IInv => UploadsAudited
  BY DEF IInv, TypeOK, Object, GrantInv, UploadsAudited
<1> QED BY <1>1, Invariance, PTL

-----------------------------------------------------------------------------
(* How many steps a check has left                                         *)

(* Reading a field of a thread's state: five steps a round, two rounds.    *)
LEMMA StepsLeftValue ==
  ASSUME NEW c \in Threads, check[c] \in CheckState
  PROVE  /\ check[c].pc = "stamp" => StepsLeft(c) = 5 + 5 * (2 - check[c].round)
         /\ check[c].pc = "lookup" => StepsLeft(c) = 4 + 5 * (2 - check[c].round)
         /\ check[c].pc = "fetch" => StepsLeft(c) = 3 + 5 * (2 - check[c].round)
         /\ check[c].pc = "store" => StepsLeft(c) = 2 + 5 * (2 - check[c].round)
         /\ check[c].pc = "find" => StepsLeft(c) = 1 + 5 * (2 - check[c].round)
         /\ check[c].pc \in Verdicts \cup {"idle"} => StepsLeft(c) = 0
BY DEF StepsLeft, Steps, CheckState, Verdicts

(* Each step of a thread that verifies a token leaves it fewer.            *)
LEMMA VerifyDrawsNear ==
  ASSUME TypeOK, TypeOK', NEW c \in Threads, Verify(c)
  PROVE  StepsLeft(c)' < StepsLeft(c)
<1> DEFINE i == check[c]
           j == check'[c]
<1>1. i \in CheckState /\ j \in CheckState
  BY DEF TypeOK, JwksTypeOK
<1>2. i.round \in {1, 2} /\ j.round \in {1, 2}
  BY <1>1 DEF CheckState
<1>3. /\ j.pc = "lookup" => StepsLeft(c)' = 4 + 5 * (2 - j.round)
      /\ j.pc = "stamp" => StepsLeft(c)' = 5 + 5 * (2 - j.round)
      /\ j.pc = "fetch" => StepsLeft(c)' = 3 + 5 * (2 - j.round)
      /\ j.pc = "store" => StepsLeft(c)' = 2 + 5 * (2 - j.round)
      /\ j.pc = "find" => StepsLeft(c)' = 1 + 5 * (2 - j.round)
      /\ j.pc \in Verdicts \cup {"idle"} => StepsLeft(c)' = 0
  BY <1>1 DEF StepsLeft, Steps, CheckState, Verdicts
<1>4. check \in [Threads -> CheckState]
  BY DEF TypeOK, JwksTypeOK
<1> HIDE DEF i, j
<1>5. CASE Stamp(c)
  <2>1. i.pc = "stamp" /\ j.pc = "lookup" /\ j.round = i.round
    BY <1>1, <1>4, <1>5 DEF Stamp, CheckState, i, j
  <2> QED BY <1>1, <1>2, <1>3, <2>1, StepsLeftValue DEF i
<1>6. CASE Lookup(c)
  <2>1. i.pc = "lookup" /\ j.pc \in {"find", "fetch"} /\ j.round = i.round
    BY <1>1, <1>4, <1>6 DEF Lookup, CheckState, i, j
  <2> QED BY <1>1, <1>2, <1>3, <2>1, StepsLeftValue DEF i
<1>7. CASE Fetch(c)
  <2>1. i.pc = "fetch" /\ j.pc = "store" /\ j.round = i.round
    BY <1>1, <1>4, <1>7 DEF Fetch, CheckState, i, j
  <2> QED BY <1>1, <1>2, <1>3, <2>1, StepsLeftValue DEF i
<1>8. CASE FetchFails(c)
  <2>1. i.pc = "fetch" /\ j.pc \in Verdicts
    BY <1>1, <1>4, <1>8 DEF FetchFails, CheckState, Idle, Verdicts, i, j
  <2> QED BY <1>1, <1>2, <1>3, <2>1, StepsLeftValue DEF i
<1>9. CASE Store(c)
  <2>1. i.pc = "store" /\ j.pc = "find" /\ j.round = i.round
    BY <1>1, <1>4, <1>9 DEF Store, CheckState, i, j
  <2> QED BY <1>1, <1>2, <1>3, <2>1, StepsLeftValue DEF i
<1>10. CASE Decode(c)
  <2>1. i.pc = "find" /\ j.pc \in Verdicts
    BY <1>1, <1>4, <1>10 DEF Decode, CheckState, Idle, Verdicts, i, j
  <2> QED BY <1>1, <1>2, <1>3, <2>1, StepsLeftValue DEF i
<1>11. CASE Miss(c)
  <2>1. i.pc = "find" /\ (\/ i.round = 1 /\ j.pc = "stamp" /\ j.round = 2
                          \/ j.pc \in Verdicts)
    BY <1>1, <1>4, <1>11 DEF Miss, CheckState, Verdicts, i, j
  <2> QED BY <1>1, <1>2, <1>3, <2>1, StepsLeftValue DEF i
<1> QED BY <1>5, <1>6, <1>7, <1>8, <1>9, <1>10, <1>11 DEF Verify

(* However the threads drop and refill the cache, a check is at most ten   *)
(* of its own steps from its verdict, and each brings it nearer.           *)
THEOREM VerdictsDrawNearAlways == Spec => VerdictsDrawNear
<1> DEFINE Near == \A c \in Threads :
             StepsLeft(c) > 0 /\ check'[c] # check[c] => StepsLeft(c)' < StepsLeft(c)
<1>1. TypeOK /\ TypeOK' /\ [Next]_vars => [Near]_vars
  <2> SUFFICES ASSUME TypeOK, TypeOK', Next,
                      NEW c \in Threads, StepsLeft(c) > 0, check'[c] # check[c]
               PROVE  StepsLeft(c)' < StepsLeft(c)
    OBVIOUS
  <2>1. check \in [Threads -> CheckState]
    BY DEF TypeOK, JwksTypeOK
  <2>2. check[c].pc \notin Verdicts \cup {"idle"}
    BY <2>1, StepsLeftValue
  <2>3. Verify(c)
    <3>1. CASE Serve
      <4>1. ~ \E u \in Uploads : \E d \in Threads : Sign(d, u) /\ d = c
        BY <2>2 DEF Sign, Verdicts
      <4>2. check'[c] = check[c]
        BY <2>1, <3>1, <4>1 DEF Serve, Sign, Release, ReleaseFails, PutObject
      <4> QED BY <4>2
    <3>2. CASE Tick \/ Publish \/ Withdraw
      BY <3>2 DEF Tick, Publish, Withdraw
    <3>3. ASSUME NEW d \in Threads, d # c, Arrive(d) \/ Verify(d)
          PROVE  FALSE
      BY <2>1, <3>3 DEF Arrive, Verify, Stamp, Lookup, Fetch, FetchFails, Store, Decode, Miss
    <3>4. ~ Arrive(c)
      BY <2>2 DEF Arrive
    <3> QED BY <3>1, <3>2, <3>3, <3>4 DEF Next, JwksNext
  <2> QED BY <2>3, VerifyDrawsNear
<1>2. QED BY <1>1, TypeCorrect, PTL DEF Spec, VerdictsDrawNear
=============================================================================
