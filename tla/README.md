# Verification of the serverless data platform

TLA+ models of the platform in `src/`: clients upload files to S3 through URLs the
API signs, and create items over an HTTP API; an ETL Lambda parses each upload
into one REPORT and many ITEM records of a single DynamoDB table; a webhook Lambda
mirrors Monday.com statuses onto the items. The modules below are translated from
the code, checked by TLC on small instances, and their safety properties proved
with TLAPS for instances of any size.

## 1. Inventory

| Part | Code | State it keeps | Operations | Reached by |
|---|---|---|---|---|
| Event delivery | `infra/cdk_app.py` 202-247, 320-337 | asynchronous requests, their attempts, the dead-letter queue | deliver, start, retry, dead-letter | S3 "Object Created" events |
| ETL pipeline | `lambdas/etl_parser/handler.py` | none of its own; local variables of a running execution | download, parse, REPORT upsert, item loop | event delivery; calls S3 and `app/db.py` |
| Data access | `app/db.py` | the table and GSI1-GSI3 | create/get/list/update items, upsert report, append audit, user profile | ETL, API and webhook |
| Items API | `app/api/items.py`, `app/models/entities.py` | none | create, list, get, update, soft delete | API Gateway; calls data access |
| Monday webhook | `lambdas/webhook_monday/` | none | signature check, challenge, scan, status synchronisation, best-effort comment | API Gateway, synchronously; calls data access and Monday |
| Authentication | `app/auth.py` | a per-process JWKS cache with a TTL of 600 s | verify a token, drop and refetch the cache | every API route |
| Uploads | `app/api/upload.py`, `app/s3.py` | none; a URL lives in the client's hands | sign a PUT URL and audit it, constant status answer | API Gateway; calls data access |
| Parsers | `lambdas/etl_parser/parsers/` | none | bytes to a list of rows | ETL pipeline |
| Application, settings, health, relational stub, migrations | `app/main.py`, `app/config.py`, `app/api/health.py`, `app/api/v1/`, `app/database.py`, `alembic/` | none | wiring and constant answers | - |

The parts share one thing, the table. No call of one part to another crosses a
process: an execution of any Lambda reads and writes the table in separate calls,
and every other execution may run between two of them. The JWKS cache is the only
state in memory; threads share it where the application runs under uvicorn
(`Dockerfile:8`, FastAPI runs the synchronous `current_user` in its thread pool),
while a Lambda container has one request at a time.

What is hard, part by part, and what makes the part correct:

* **Delivery and ETL.** S3 announces a version at least once, in any order; the queue
  retries a failed request; up to ten executions run at once; any of them may die after
  any call; the SDK may send an applied put again; GSI3 lags behind the table; a key can
  be overwritten or expire between its event and its download. Correct means: the rows
  of a report are the rows of one file, each once; a report is never reopened; an upload
  the index shows is not ingested again; the number of copies that concurrency can make
  is bounded; every request settles, and each record of one that is acknowledged has a
  report, of its own rows and under its own owner but for two named cases.
* **Items API.** Read, merge in memory, put back, audit: three calls without a version
  check, over eventually consistent reads. Correct means: only the caller's own items
  change, GSI1 never contradicts the status, an update changes only what it names, the
  audit trail matches the writes, every stored item can be read back, every request is
  answered.
* **Webhook.** Posts late, twice, out of order; a scan limited to 50 records before its
  filter; a loop that reads, stores and audits item after item while the API changes the
  same items. Correct means: only items whose body has named the pulse of a signed post
  change, only in their status; a handled post has done all it found, one that was not
  handled has changed nothing.
* **Authentication.** Threads refresh and drop one cache while the pool rotates its keys
  and a fetch may take long. Correct means: a withdrawn key is not accepted much longer
  than a TTL, a good token is not refused without a cause, and every check ends.
* **Uploads.** A URL is computed before its audit event is stored and before the answer
  is sent. Correct means: every object has its event and its owner.

The complete list of hazards, with the line where each bites and the properties
that answer it, is `"hazards"` in `PROJECT.json`.

## 2. Plan

| Step | Module | Contents | State |
|---|---|---|---|
| 1 | `IngestLedger` | abstract promise of ingestion | done |
| 2 | `EtlPipeline`, `MCEtl` | delivery, handler and its table accesses | done |
| 3 | `EtlPipelineProofs`, `EtlTableProofs`, `EtlDedupProofs`, `EtlAckProofs` | type correctness, the rows invariant, sealing, refinement, the bound on duplicates, what an acknowledgement is worth | done |
| 4 | `ItemTable`, `ItemsApi` | table operations and the API's routes | done |
| 5 | `MondayWebhook` | the webhook over the same table | done |
| 6 | `ItemsPlatform`, `MCItems` | composition of API, webhook and the ETL's items; the properties of all three | done |
| 7 | `ItemsPlatformProofs` | type correctness, `IndexFollowsStatus`, `OwnersOnly`, `FreshUpdatesMerge`, `AuditMatchesWrites`, `SyncsAreComplete` | done |
| 8 | `JwksCache`, `PresignedUploads`, `MCUploads` | token verification, and the upload route behind it | done |
| 9 | `PresignedUploadsProofs` | type correctness, `WithdrawnKeysExpire`, `RefusalsHaveACause`, `UploadsAudited`, `VerdictsDrawNear` | done |
| 10 | `ItemRegister`, `ItemRegisterProofs` | abstract promise of the items and their audit trail, and the refinement | done |
| 11 | `ItemsOutcomeProofs`, and the last section of `EtlPipelineProofs` | what ends, and how far it is from its end: `RepliesDrawNear`, `SettlingIsBounded`; `BlanksHaveACause` | done |

`EtlPipeline` comes first because the dedup of uploads is the platform's central
promise and the place where concurrency, retries and partial failure meet.

## 3. Modules

### `EtlPipeline` (with `IngestLedger`)

One TLA+ step is one call of the handler to S3 or DynamoDB with the local work
after it.

| Variable | In the code |
|---|---|
| `objects` | current version of each S3 key; a content stands for its ETag |
| `uploads` | the (key, etag) pairs S3 has announced or may announce, any number of times |
| `event`, `status`, `attempts` | the asynchronous requests: their records, where they are, how often they ran |
| `inv` | a running execution: `pc` names the next call (`download`, `check` = GSI3 query, `put` = REPORT put, `rows` = item loop), the rest are the handler's locals |
| `reports`, `gsi3`, `items` | the table's REPORTs, those the index shows, and the ITEMs of each report in the order they were stored |

| Action | Code |
|---|---|
| `Upload`, `Expire`, `Deliver` | a client's put through a presigned URL; the bucket's expiration; the S3 rule. External |
| `Start`, `Raise`, `EndRecord` | the handler's entry, its loop over records and its return; a raised exception, which queues the event again or dead-letters it |
| `Reject`, `Download`, `ParseError`, `MissingObject`, `DownloadError` | `process_record` 83-90, `_download_with_retry` 255-273, `parse_object` |
| `ShortCircuit`, `NotSeen` | the GSI3 query, `db.py` 357-363, and the handler's early return 149-155 |
| `PutReport`, `PutReportReplayed`, `PutReportLost` | the conditional put, `db.py` 385-394: answered; replayed by the SDK so that its own condition fails; applied with an exception at the caller |
| `WriteItem`, `WriteItemUnconfirmed`, `FinishRecord` | the item loop 157-176 and the return |
| `Abort` | an exception of a call that was not applied, a timeout, a crash |
| `IndexCatchUp` | the index replication. External |

Abstracted: bodies and titles (a row is its number), backoff delays (only the
number of attempts matters), the log, the returned summary. `RowCount` and
`Unparseable` stand for the parsers; `Files` says which contents clients may put
under which keys, so that a run can choose a key that is overwritten, or the same
bytes under keys of two owners. `Faults` chooses what can go wrong, so each
run says under which failures its properties hold. The query of GSI3 and the put
are separate steps, with any step of another execution between them.

`IngestLedger` says what a report's life is with all of that hidden: opened once
with a declared count, extended row by row up to it, closed for good, perhaps
short. `LedgerSpec` states that the pipeline implements it under the mapping
`Phase`, `Declared`, `Written`.

### `ItemTable`, `ItemsApi`, `MondayWebhook` and `ItemsPlatform`

`ItemTable` holds the ITEM records with their history (an eventually consistent
read returns a point of it), the order in which they were created, and the AUDIT
events, with the operations of `app/db.py` as operators. `by` and `base` of a
version are not stored by the code: they say who made it and from which version.

`ItemsApi` is any number of concurrent requests over it: `Arrive`; `List` and `Get` with
the validation of what they answer; `Read` (`get_item` and the 404); `Create`; `Put`
(the merged record, under `attribute_exists(SK)` only); `Audit` (the event and the
answer); `Crash`. `Merge` is `items.py` 115-126 with `Strip`, the validator that runs
after the length check. `Page` is `list_items`: ids are ordered, as uuids are, and an
item has one record, so a page is the greatest ids below the cursor. A body is a model
value, of which the webhook's scan sees the pulses it `Mentions`; timestamps are left
out. Creation happens under a fresh id, so a failed condition is always the SDK's own
replay; the route answers 409 and stores no audit event.

`MondayWebhook` is any number of concurrent executions of the webhook, one per
post: `Receive` (secret, signature, JSON), `Dispatch` (challenge, event type, label),
`Scan`, and per item found `GetItem`, `PutStatus`, `AuditSync`, then `Comment`;
`HookCrash`. `Shapeless` names the payloads on which the handler raises before
that. A scan has `Examined` at most `ScanLimit` records, among them the items' audit events
and `Others` (REPORT and USER records, and the audit events of uploads, which this table
does not keep one by one); of the examined items `Filtered` keeps those whose body, as
`Scanned`, mentions the pulse. A PUT may replace the body before the loop gets there.
Whether the filter can see into a body is `SearchesMaps`. In the deployed system it
cannot (see `WebhookNeverSyncs`): the run of that name sets it to `FALSE`, and the passing runs
to `TRUE`, so that the loop behind the scan, which would otherwise never run, is
checked as well. The theorems hold for both values.

`ItemsPlatform` puts requests, executions and the ETL's items (`Ingest`) on one
table and states the properties.

`ItemRegister` says what all of that promises, with the requests, their calls, the
index and the stale reads hidden: an append-only history of each item, whose
entries are five acts (`Create`, `Ingest`, `Updates`, `Deletes`, `Syncs`), each of
somebody entitled to it and, but for the first, made from some entry of that item;
and a log that reports no act nobody did. What the code does not promise, the
register does not either: an act may start from an old entry, and need not be
reported. `RegisterSpec` states that the platform implements it under the mapping
`Histories`, `Reported`, which drops who wrote a version from what and keeps whose
act it was.

### `JwksCache` and `PresignedUploads`

`JwksCache` is `verify_cognito_jwt` in the threads of a process. `_get_jwks` is cut
at every access to what threads share: `Stamp` reads the clock, `Lookup` the cache,
`Fetch` asks the pool, `Store` replaces the entry, dated by `Stamp`. `Miss` is the drop
of the whole cache and the second call; `Decode` and `FetchFails` are the ends. `Tick`,
`Publish` and `Withdraw` are external: time and the pool, which withdraws its oldest
key first. A thread serves one request after another, and `Idle` says that a
request's locals do not outlive it.

`PresignedUploads` adds the route: `Sign` (id, key, URL), `Release` (the audit event and
the answer, which may be lost), `ReleaseFails`, and clients' puts through a URL
(`PutObject`, external), which S3 takes until the URL expires, any number of times.

## 4. Runs

| Run | Shows | Bounds |
|---|---|---|
| `EtlFaults` | `TypeOK`, `RowsOnceInOrder`, `SealedReports`, `SeenEtagFrozen`, `LedgerSpec` under every failure but retryable download errors | 2 executions, 2 requests of 2 attempts, 1 key, 2 contents (2 rows and 1 row), 3 report ids |
| `EtlDedup` | `DuplicatesBoundedByConcurrency`, `AckedIsIngested` under deaths, lost answers and replays | 2 executions, 3 requests, 2 contents of 1 row; 2 keys of 2 owners, one put with both contents, the other with one of them; up-to-date index |
| `EtlProgress` | `AckedIsIngested`, here with all rows; `EveryDeliverySettles`, under fairness; `SettlingIsBounded` | batches of 2, 2 download attempts, 3 keys: a file of 2 rows, one no parser accepts, one under a key that is always refused |
| `EtlRace` (violation) | two executions both ingest one file | 2 executions, no failure |
| `EtlRetry` (violation) | an interrupted ingestion is acknowledged and never completed | 1 execution, 1 request, 3 attempts |
| `ItemsFaults` | `TypeOK`, `IndexFollowsStatus`, `OwnersOnly`, `FreshUpdatesMerge`, `AuditMatchesWrites`, `SyncsAreComplete`, `RepliesDrawNear` | 1 request of either user, the lookup and a new body among them, 2 posts, the ETL; 1 item, stale reads, crashes, 2 sends of a put |
| `ItemsReplies` | `SyncsAreComplete`, `BlanksHaveACause`, `RegisterSpec`, and `EveryRequestReplies` under fairness | 2 requests over every route but the lookup, 1 post of every kind, 3 items of which some cease to name the pulse, a scan of 3 records, pages of 1, crashes, titles of blanks |
| `ItemsLostUpdate` (violation) | an update undoes another's field | 3 requests, no failure, exact reads |
| `ItemsBlankTitle` (violation) | an item that no read can return | 2 requests |
| `ItemsNewestFirst` (violation) | a page that is not in order of creation | 3 requests, 3 items, no failure |
| `WebhookNeverSyncs` (violation) | a notice of a stored item is answered unhandled | 1 item, 1 post, no failure |
| `AuthUploads` | `TypeOK`, `WithdrawnKeysExpire`, `RefusalsHaveACause`, `UploadsAudited`, `VerdictsDrawNear` | 2 threads, 2 users, 2 keys, 1 withdrawal, TTL and clock of 1 tick, 1 upload |

Why the bounds suffice. Two executions are what a race needs, and with two requests of
two attempts each a retry can race the other request as well as follow it. In `EtlDedup`
a third request lets the overwritten key, its new version and the other owner's upload
all be delivered. A file of two rows has a state with some but not all rows stored, one
of one row tells files apart by their length. Three report ids allow one more than the
two executions could store, so that the bound on duplicates is not met for want of ids.
In `ItemsFaults` a request and two executions of the webhook are three writers of one
item, each of which can overtake the others and can have read any older version; two
requests against each other are in `ItemsReplies` and `ItemsLostUpdate`. Three items let
the webhook find two, die between them, and leave one to a request. There a scan
examines three records, so that a page falls short. In `AuthUploads` two threads can
each drop and replace the other's entry, the token of the second key is unknown to an
entry fetched before its publication, and one tick separates a withdrawal from the end
of its TTL; the theorems about the same properties hold for any clock and TTL. Where ids
run out, the remaining requests simply cannot store: runs that check liveness have one
id for every request that could need one (`EtlProgress`, `ItemsReplies`). Symmetry is
used only in the runs without liveness. Deadlock is not checked in the `Items` and
`Webhook` runs: when every request and post has its answer, nothing more happens. It is
checked in the `Etl` runs and in `AuthUploads`, where some step is always possible.

### What the violations show

* **`OneReportPerEtag`.** The handler's docstring and section 6 of
  `docs/data-model.md` call the conditional put the safeguard against a race. Its
  sort key holds a uuid made for the invocation, so it can only fail on the
  caller's own replayed write. `DuplicatesBoundedByConcurrency` and
  `SeenEtagFrozen` say what does hold: duplicates come only from executions that
  had passed the check already.
* **`RetryCompletes`.** The report precedes the items and the short-circuit looks
  at the report alone, so a retry never completes an interrupted ingestion.
  `SealedReports` is the same fact as an invariant of every step;
  `AckedIsIngested` says that nothing else leaves an acknowledged report short: where
  no execution dies, loses an answer or has a put replayed, its rows are all there or
  being written.
* **`OnlyPresentFieldsChange`.** The put's condition is `attribute_exists(SK)`, not
  a version, although the data model promises optimistic concurrency.
  `FreshUpdatesMerge` is what holds: an update made from the latest version
  changes only what it names.
* **`EveryItemServable`.** Length is checked before stripping, so a title of blanks
  is stored empty; `Item.model_validate` then fails on that PUT's answer and on
  every read of the item or of a list that holds it. `BlanksHaveACause` is what
  holds: nothing but such an update empties a title, and that update never
  succeeds in its caller's eyes.
* **`NewestFirst`.** The sort key begins with the random id, so descending order of
  the key is no order of time. The route does not pass on `last_evaluated_key`
  either: a client has to make its own cursor.
* **`NoticesReachTheirItems`.** `contains` is applied to a map. The docstring also
  speaks of GSI2, which is not used. With a filter that did search maps the same
  property would still fail once the table outgrows the scan's limit of 50 records:
  the limit counts records before the filter, with REPORTs, the audit events of items
  and of uploads among them (`Others`), and no second page is asked for (`Examined`).

One more disagreement is visible in `AuthUploads` and stated in `RefusalsHaveACause`
as an exception. `auth.py:135` says "Cache may be stale; drop and refetch once.", but
the second call of `_get_jwks` looks at the cache again: what another thread stored
between the drop and that lookup, perhaps fetched before the rotation, is taken for
the fresh set, and a good token is refused with 401. It takes threads, hence
uvicorn rather than Lambda.

## 5. Fairness

`EtlPipeline`: weak fairness of an execution's own steps (a started Lambda runs
until it returns, raises or is stopped), of starting each queued request (Lambda
drains the asynchronous queue) and of the index's replication. Nothing forces a
client, a delivery or a failure; failures are bounded because attempts are.
`ItemsPlatform`: weak fairness of the steps of a request or a post that has arrived;
no call waits for another, and each has its timeout (`db.py` 105-106, Lambda).
`PresignedUploads` states none. That a check comes to an end is said as a measure
instead, `VerdictsDrawNear`: each of its steps waits for nothing (`requests.get`
returns or times out after 5 seconds, `auth.py:78`), leaves it fewer steps, and no
step of another thread gives it more. As an action property it can be proved.

The other two systems have both. `EveryRequestReplies` and `EveryDeliverySettles` say
under fairness that the end comes, and `RepliesDrawNear` and `SettlingIsBounded` say
without it how far away the end can be: what an actor does itself always counts down,
and nothing anybody else does counts up. A request has at most `MaxSends + 2` steps, a
post `MaxSends + 4` and as many again for each item of its scan, whose set only
shrinks. A request of the queue has two turns for each attempt, one to wait and one to
run (`TurnsLeft`), and a running execution gets further with each step (`Further`): a
later record, call, download or row, all of them bounded. With fairness of the steps
this is the reason why the liveness properties hold; what is left to TLC is that
some step is enabled until the end.

## 6. Proofs

Assumed: the named assumptions on the constants (`ConstantsAssumption` of
`EtlPipeline`; `TableAssumption`, `ApiAssumption`, `WebhookAssumption` and
`PlatformAssumption`; `JwksAssumption` and `UploadAssumption`), which give types, keep
`None` apart from the values it is told from, and make the authors of versions
distinct; and, in `EtlDedupProofs` alone, `FiniteAssumption` (finitely many
executions and report ids, so that they can be counted). No bound on executions,
requests, posts, threads, keys, contents, rows, items, attempts or fault kinds.

* `EtlPipelineProofs!TypeCorrect`: `Spec => []TypeOK`. `TypeOK` is not inductive: that a
  start keeps `attempts` within `MaxAttempts` needs that a queued request has an attempt
  left (`QueueInv`), which needs that a failing execution's request is its own
  (`BusyInv`) and nobody else's (`ExclusiveInv`). `Base` is their conjunction with the
  types; one lemma per action, `NextKeepsBase`, then `BaseInvariant`.
* `RequestsDrawToAnEnd`: `Spec => SettlingIsBounded`, from `Base`. Only three things
  happen to an execution: it gets further (`GoingOnKeepsTurn`), it ends its record
  (`EndTakesTurn`), or it raises (`RaiseTakesTurn`); a turn taken is one fewer because a
  queued request has an attempt left.
* `EtlTableProofs!StepKinds`: given `Base`, every step of `Next` is quiet for the table,
  opens one report, or adds one row. The theorems below argue over these three kinds
  instead of the twenty actions.
* `RowsCorrect`: `Spec => []RowsOnceInOrder`. Strengthened by `WriterInv` (a writer is
  one row ahead of what is stored, for the report its record and content declare) and
  `OneWriterInv` (a report has one writer): `TableInv`.
* `ReportsStaySealed`: `Spec => SealedReports`, an action property from the same
  invariant.
* `ImplementsLedger`: `Spec => LedgerSpec`. Initial states map to initial states; a
  quiet step closes at most one report, because at most one execution changes; an open
  step is `Open`, a row step `Append`.
* `EtlDedupProofs!CopySteps`: every step is quiet for the copies of a file, lets one
  execution past its check, or turns one such execution into a report. `SeenStaysFrozen`
  (`Spec => SeenEtagFrozen`) follows, because nobody passes the check for an ETag the
  index shows. `DuplicatesAreBounded`: the bound on reports is not inductive, since
  executions past their check will add to them; `Copies` counts both. Without lag
  (`ExactIndex`) an execution passes the check only when the file has no report at all,
  and then the executions alone are counted.
* `AcknowledgedIsIngested`: `Spec => []AckedIsIngested`, under any faults. `SourceInv`
  says where everything comes from: objects, events, a downloaded content, an
  execution's key and a report's rows all go back to some upload. `AckInv` adds that
  what an acknowledged request or an execution has behind it, and what it is writing,
  has a report; and, where nothing can be interrupted, that no report is abandoned
  (`NoneAbandoned`). Both rest on `TableInv`. With an upload of the same ETag at either
  end, the two exceptions of `StandsFor` follow: if they differ in their key's owner the
  ETag is shared, if in their content the key was overwritten.
* `ItemsPlatformProofs!Invariance`: `Spec => []IInv`. `ReqOK` and `HookOK` say for each
  place in the code what a request or an execution has read, stored and audited (a read
  version exists, belongs to the caller and is still where it was; a loop has audited
  what it has passed; the items a scan found are `Candidates`, of which some version
  mentions the pulse, and stay so whatever PUT does to their bodies); `History` is the
  conjunction of the three properties of versions. Histories only grow, so what one
  actor relies on survives the others' steps: `ReqStable` and `HookStable` say so once
  for every step, in terms of `StepOf` (whose step it is), and each action's lemma
  proves the rest for its own actor. `HistoryGrows` asks of a stored version only that
  it is a good successor of the latest one.
* `ItemRegisterProofs!ImplementsRegister`: `Spec => RegisterSpec`, from `IInv`. An entry
  of the register names the act and its actor, which the model keeps with the request or
  post and not with the version: `CallsKept` (nobody is asked a second time) makes the
  entries of old versions stay what they are. Then every step is quiet (`QuietStep`),
  adds one entry (`EnterStep`, split into `FirstStep` for an item's first and
  `AmendStep` for one made from another), or reports one (`ReportStep`).
* `ItemsOutcomeProofs`. `RepliesAlwaysDrawNear`: `Onward` and `HookOnward` list where a
  step takes its own request or post (`RequestMoves`, `HookMoves`, which also say that
  it moves no other), and each of these moves lowers the measure.
  `BlanksAlwaysHaveACause`: strengthened by `BlanksTraced` (the cause, without its
  answer) and `BlankersFail` (the answer, for whoever asked for blanks, whether it has
  been stored yet or not).
* `PresignedUploadsProofs!Invariance`: `TokenInv`, `ClockInv`, `DateInv`, `RefetchInv`
  and `GrantInv`. `WithdrawnKeysExpire` rests on `DateInv`: the keys of an entry were
  published at its date or later, because it is dated before the fetch, and a lookup
  compares that date with its own. `RefusalsHaveACause` rests on `RefetchInv`: between
  its drop and its second lookup a thread finds no entry of its own.
  `VerdictsDrawNearAlways` needs the types only: one case for each step of a check, and
  no other thread's step touches it.

Model-checked only: the liveness properties (`EveryDeliverySettles`,
`EveryRequestReplies`), which need reasoning about `ENABLED` that the prover lacks, and
the violations. Every other property of a passing run is a theorem.

## 7. Not modelled

* **Parsers.** Pure functions from bytes to rows around csv, openpyxl and pdfplumber.
  The pipeline needs of them only how many rows they find and whether they raise
  (`RowCount`, `Unparseable`); what they compute cell by cell is third-party code.
* **Data access without a caller.** `upsert_user`, `get_user`, `list_items_by_status`,
  `list_items_for_report` and `query_by_pk`, like `generate_download_presigned_url` and
  `head_object` of `app/s3.py`, are called by nothing in `src/`. `IndexFollowsStatus`
  is the fact the status list would rely on. The decimal conversions change no
  step.
* **Authentication.** The signature check is python-jose's: a token says whether it
  would pass (`good`). `COGNITO_AUTH_BYPASS` (local development) skips the component
  altogether, and `require_group` is used by no route. API Gateway's own authorizer
  in front of the Lambda is not modelled; the model lets every token reach the code.
* **Application, settings, health, relational stub, migrations, alarms.** Wiring and
  constants.
* **Deployment.** The models take the wiring for what it is meant to be. Two lines of
  `infra/cdk_app.py` fall short of that: the uploads bucket (444-468) does not turn on
  EventBridge notifications, without which S3 sends no event to the rule of 320-337;
  and the webhook's environment (300-303) has no `MONDAY_API_TOKEN`, so that `Comment`
  always takes the branch whose exception is swallowed.
* **Contents.** ETags are taken as identities of contents. Two disagreements between an
  upload and what is filed for it are in the model, and `AckedIsIngested` names them as
  its exceptions: the download reads the current version of a key (`handler.py:262`), so
  the rows of an overwritten key are filed under the ETag of the version before; and the
  query for an ETag does not ask whose it is (`db.py:359`), so a second owner's upload of
  the same bytes gets no report of its own. `docs/data-model.md:99` says that one REPORT
  is created per upload event, its section 6 that an upload of a known ETag is skipped;
  the code does the latter, and no run counts that as a violation.
