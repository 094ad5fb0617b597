-------------------------- MODULE PresignedUploads --------------------------
(***************************************************************************)
(* POST /uploads/presign (app/api/upload.py, app/s3.py) behind the token   *)
(* check, and the clients that put objects through the URLs it signs.  S3  *)
(* answers for a URL, not for the token it was issued on.                  *)
(***************************************************************************)
EXTENDS JwksCache

CONSTANTS
  Uploads,   \* the uuid4 supply for upload ids
  Contents,  \* what clients may put
  Expiry     \* seconds a URL is good for

ASSUME UploadAssumption == Expiry \in Nat

VARIABLES
  grant,  \* grant[u]: the URL of upload u
  audit,  \* the "upload.presigned" events: upload and actor
  bucket  \* the versions of the objects under uploads/<owner>/<upload>/

vars == <<now, oldest, newest, withdrawn, cache, check, grant, audit, bucket>>

Grant == [pc : {"unused", "signed", "released", "lost"}, owner : Users \cup {None},
          expires : Nat]
Event == [upload : Uploads, actor : Users]
Object == [upload : Uploads, owner : Users, content : Contents]

(* Every variable has its shape.                                           *)
TypeOK ==
  /\ JwksTypeOK
  /\ grant \in [Uploads -> Grant]
  /\ audit \subseteq Event
  /\ bucket \subseteq Object

Unused == [pc |-> "unused", owner |-> None, expires |-> 0]
Lost == [Unused EXCEPT !.pc = "lost"]

Init ==
  /\ JwksInit
  /\ grant = [u \in Uploads |-> Unused]
  /\ audit = {}
  /\ bucket = {}

-----------------------------------------------------------------------------
\* MUTANT: the URL is handed out before the event is stored.
SignAndRelease(c, u) ==
  /\ check[c].pc = "accepted"
  /\ grant[u].pc = "unused"
  /\ grant' = [grant EXCEPT ![u] = [pc |-> "released", owner |-> check[c].token.sub,
                                    expires |-> now + Expiry]]
  /\ check' = [check EXCEPT ![c] = Idle]
  /\ UNCHANGED <<pool, cache, audit, bucket>>

\* The route, once the caller is known: a fresh id, a key that leads with
\* the caller's sub, and a URL, which is computed and not registered anywhere.
Sign(c, u) ==
  /\ check[c].pc = "accepted"
  /\ grant[u].pc = "unused"
  /\ grant' = [grant EXCEPT ![u] = [pc |-> "signed", owner |-> check[c].token.sub,
                                    expires |-> now + Expiry]]
  /\ check' = [check EXCEPT ![c] = Idle]
  /\ UNCHANGED <<pool, cache, audit, bucket>>

\* append_audit and the answer, which may be lost; or neither.
Release(u) ==
  /\ grant[u].pc = "signed"
  /\ audit' = audit \cup {[upload |-> u, actor |-> grant[u].owner]}
  /\ grant' \in { [grant EXCEPT ![u].pc = "released"], [grant EXCEPT ![u] = Lost] }
  /\ UNCHANGED <<pool, cache, check, bucket>>

ReleaseFails(u) ==
  /\ grant[u].pc = "signed"
  /\ grant' = [grant EXCEPT ![u] = Lost]
  /\ UNCHANGED <<pool, cache, check, audit, bucket>>

\* Until it expires a URL takes any number of puts; _owner_from_key reads
\* the owner out of the key.
PutObject(u, content) ==
  /\ grant[u].pc = "released"
  /\ now < grant[u].expires
  /\ bucket' = bucket \cup {[upload |-> u, owner |-> grant[u].owner, content |-> content]}
  /\ UNCHANGED <<pool, cache, check, grant, audit>>

Serve ==
  \E u \in Uploads :
    \/ \E c \in Threads : Sign(c, u)
    \/ Release(u) \/ ReleaseFails(u)
    \/ \E content \in Contents : PutObject(u, content)

Next ==
  \/ JwksNext /\ UNCHANGED <<grant, audit, bucket>>
  \/ Serve

Spec == Init /\ [][Next]_vars

-----------------------------------------------------------------------------
(* Properties                                                              *)

(* A token is accepted on a key that was still published less than one TTL *)
(* before its check read the clock, however the threads refresh and drop   *)
(* the cache and however long a fetch takes: _get_jwks dates the entry     *)
(* before it fetches (auth.py:74-81).                                      *)
WithdrawnKeysExpire ==
  \A c \in Threads : check[c].pc = "accepted" =>
    LET gone == withdrawn[check[c].token.kid]
    IN  gone = None \/ check[c].began < gone + TTL

(* A token whose key was published all along is refused for want of it     *)
(* only when the refetch failed, or found what another thread had stored   *)
(* between the drop and the second lookup (auth.py:133-141).               *)
RefusalsHaveACause ==
  \A c \in Threads :
    /\ check[c].pc = "nokey"
    /\ check[c].known /\ check[c].token.kid \in Published
    => check[c].round = 2 /\ check[c].from # c

(* Whatever is stored under a user's prefix, some audit event of that user *)
(* accounts for it, and the URL it came through was issued to them.        *)
UploadsAudited ==
  \A o \in bucket :
    /\ [upload |-> o.upload, actor |-> o.owner] \in audit
    /\ grant[o.upload].owner = o.owner

Steps == [stamp |-> 5, lookup |-> 4, fetch |-> 3, store |-> 2, find |-> 1]

\* Steps thread c has left at most: a second round of five after the first.
StepsLeft(c) ==
  IF check[c].pc \in DOMAIN Steps THEN Steps[check[c].pc] + 5 * (2 - check[c].round) ELSE 0

(* Every step of a check brings its verdict nearer and no other thread puts *)
(* it off, although each can drop the entry the other is about to look up: *)
(* no thread goes on dropping and refetching (auth.py:133-141).            *)
VerdictsDrawNear ==
  [][\A c \in Threads :
       StepsLeft(c) > 0 /\ check'[c] # check[c] => StepsLeft(c)' < StepsLeft(c)]_vars
=============================================================================
