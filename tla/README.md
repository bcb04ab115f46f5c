# TLA+ models of security-portfolio

Models of the stateful parts of this repository, checked with TLC on small instances, with theorems
proved by TLAPS for every value of the constants.

The repository holds one deployed program, the API gateway (`apps/gateway`, TypeScript on Fastify), a
static reviewer UI, a shared Python package, and five FastAPI services kept under
`_archive/planned-services`. The gateway is modelled as a whole; of the planned services, those whose
handlers share state that concurrent requests can spoil.

Contents: [Inventory](#inventory) · [Modules](#modules) · [How the models relate to the code](#how-the-models-relate-to-the-code) ·
[Runs](#runs) · [Bounds](#bounds) · [Fairness](#fairness) · [Proofs](#proofs) · [Findings](#findings) ·
[Not modelled](#not-modelled) · [Plan](#plan)

## Inventory

| Component | State | Operations | Hard behaviour | What makes it correct |
|---|---|---|---|---|
| Refresh-token service, `gateway/src/auth.ts` | in-memory maps of token records, of families and of revoked families | login, refresh, logout, revocation of a family | replays of old tokens, two tabs that refresh at once, a clock that moves, a restart that forgets everything while clients keep signed tokens | one live token per family; a detected reuse or a logout leaves none; nothing that was spent or revoked works again; no false alarms |
| Audit log, `gateway/src/audit.ts` | the newest 1000 events | emit, list | the oldest event is dropped silently | what was refused, attempted or revoked is in the trail until newer events fill it |
| Rate limiter, `gateway/src/rateLimit.ts` | a bucket (count, resetAt) per key | the onRequest hook | the instant a window closes, bursts on both sides of it, refused requests that are counted as well | fewer than two quotas in any interval shorter than a window; a refusal only after a spent quota; refused requests do not move the window |
| Permission check, `gateway/src/rbac.ts` and `shared_security_core/auth/rbac.py` | none | `hasPermission`, `has_permission` | two languages, one table of wildcards | both decide alike |
| Request pipeline and proxy, `gateway/src/app.ts`, `proxy.ts` | the requests in flight and their replies | hooks, authentication, permission, audit, forwarding | requests interleave at every await of an upstream call; the upstream fails before or in the middle of its body, or answers with a status that the gateway uses itself; the token expires meanwhile | every request past the hooks is answered, once; nothing unauthorized is forwarded; the trail explains every outcome, and tells a refusal of the gateway from one of a service |
| Threat intel: enrichment, `threat-intel-service` | tables finding_enrichments and cve_entries, a Celery queue, one database session per job | create, get, get_cve, the batch lookup of CVEs, the worker's task | handlers and workers interleave at awaits of seconds; check-then-insert; a task that is sent before its row is committed; a placeholder whose commit fails; a session that is unusable after a refused insert, for the rest of a batch too; crashes | a row is written once; a finding is queued once, but for a placeholder that a fault kept out; all work ends |
| Auth service, `auth-service` | tables users, sessions, audit_logs | login, refresh, logout, profile and password change, registration, update, deactivation | handlers run in a thread pool and interleave between statements; check-then-insert; stale rows; an effect and its audit event in two transactions, either of which may fail | names are unique; answers, effects and events agree; a login mixes no two states of an account; a deactivation is not undone by accident |
| Alert correlation, `alert-correlation-service` | tables alerts, incidents, incident_timeline_events | ingest, update, resolve; create and update an incident, add to a timeline | three commits per new incident and an exception or a crash between them; clients that add events of any type; reports that come again after triage; three handlers that close things | one alert per source; a report that comes again undoes nothing; what is resolved has its time; the timeline tells how a status came about |
| Threat intel: MITRE sync, `services/mitre_sync.py` | table mitre_attack_techniques, a queue of weekly messages, one transaction per sync | beat, take, download, a SELECT per technique, one commit | a failure anywhere; two weekly syncs at once after the workers were down, whose stale rows mix two releases; a crash that takes the message along | no release is loaded in part; only a sync that another release overtook leaves a mixed table, and the next one heals it; no technique vanishes |
| Threat intel: indicators | none that changes: nothing in the repository writes an indicator or a feed | queries | none | not modelled |
| Compliance service | none that changes | queries | none | not modelled |
| Shared core: access tokens, `shared_security_core/auth` | tokens in the hands of clients, a clock per service | sign, verify, `require_permission`, `require_role` | nobody is told of a changed role or a deactivation; dates cut to seconds; clocks that disagree and are set | a token speaks for an account no longer than a bound, and works for its lifetime |
| Shared core: AWS and logging helpers | none | wrappers | none of their own | not modelled |
| Reviewer UI, infrastructure | none | static pages, declarations | none | not modelled |

How they interact. A request to the gateway passes the CORS hook, the request-id hook and the rate
limiter in the order of their registration, then a handler that verifies the access token, checks the
permission, emits an audit event and, for the routes of `serviceRoutes`, calls the upstream service and
relays its answer. The handlers of `/auth/*` call the refresh-token service and emit audit events into
the same log. The planned services share PostgreSQL tables among the requests of one process, and the
threat-intel service shares its tables with a Celery worker that it feeds through Redis. They verify
tokens with the shared core, each by its own clock. Celery beat sends the weekly sync to the same workers. No service calls another, except that the enrichment fetches a finding by
HTTP, which the model treats as an environment that answers or does not.

## Modules

| Module | Models | Uses |
|---|---|---|
| `TokenFamily` | the contract of rotating refresh tokens, without a store: tokens are issued, one is live per family, a family can be killed | |
| `GatewayAuth` | `auth.ts` with `audit.ts`, the configuration of the secret, restarts and the clock | `AuditLog`; implements `TokenFamily` |
| `AuditLog` | the capped list of `audit.ts` | |
| `FixedWindow` | the bucket and its arithmetic in `rateLimit.ts`, the clock it is read by | |
| `RateLimit` | the hook on its own: hits, clock, restarts, and the instants of the requests let pass as a history | `FixedWindow` |
| `Rbac` | the two permission checks | |
| `Gateway` | the whole request pipeline: hooks, token check, permission, audit, upstream | `FixedWindow`, `Rbac`, `AuditLog` |
| `WriteOnce` | the contract of a table of rows that are written once | |
| `Enrichment` | the enrichment handlers, the batch lookup, the worker, sessions, queue, CVE cache, failing commits, crashes | implements `WriteOnce` |
| `MitreSync` | the weekly messages, the workers, the sync as one transaction over the table of techniques, failures, crashes | |
| `AuthService` | the handlers of the auth service over its tables, failing transactions, crashes | |
| `AccessTokens` | signing and verification of the planned services' tokens, with clocks, while the account changes | `Rbac` |
| `Alerts` | alerts, incidents and their timeline, the commits of `create_incident` and what cuts them short | |
| `AuditLogProofs` | lemmas about `AuditLog` | TLAPS |
| `GatewayAuthProofs` | theorems about `GatewayAuth`, and through the refinement what `TokenFamily` promises | `AuditLogProofs`, TLAPS |
| `GatewayProofs` | theorems about `Gateway`, `RateLimit` and `Rbac` | `AuditLogProofs`, TLAPS |
| `EnrichmentProofs`, `MitreSyncProofs`, `AuthServiceProofs`, `AccessTokensProofs`, `AlertsProofs` | theorems about the module they are named after | TLAPS |
| `MC*` | constants of the instances that TLC checks | |

`Gateway` composes what `RateLimit`, `Rbac` and `AuditLog` model alone, with the access token's part
of `auth.ts`. The refresh-token service stays apart from it: the handlers of `/auth/*` run without an
await between reading the store and writing it, so a handler is one action and its interleaving with
proxied requests is immaterial.

## How the models relate to the code

**GatewayAuth.** `refreshTokens`, `families` and `revokedFamilies` are the three maps of `AuthService`;
`events` is the audit log, `secret` the key of this boot, `now` the clock in milliseconds, `issued` every
refresh token a client may hold, `reply` the outcome of the last call. `Login`, `LoginFailed`,
`RefreshInvalid`, `RefreshReuse`, `RefreshRotate`, `Logout` and `LogoutInvalid` split the three handlers
along their returns. They are atomic because the code between entry and return does not await on anything that reads or
writes the maps. `Restart` empties the maps and keeps `issued`. A key is 0 when JWT_SECRET is in the environment, and n
when the process drew a random one at its n-th start (`FirstSecret`, `Restart`); the initial states have both cases.
JWT expiry is in whole seconds, the expiry of a record in milliseconds: `SecondOf` is the
conversion of the JWT library, and the constant `Second` is the number of ticks in a second.

**FixedWindow, RateLimit.** One action per hit; `Open`, `Counted` and `OverLimit` are the three
expressions of the hook. The clock moves forward tick by tick, `MaxNow` bounds it. `served` is a history variable: the instants of the
requests that the hook let pass, by client, in order.

**Gateway.** Each request is a small process: `new`, past the hooks, permitted, waiting for the
upstream's head, waiting for its body, answered. An action covers the code from one await to the next.
Requests differ in path, method, role, validity of the token and of the body. Upstream calls end in a
response, a timeout, a broken connection, or a body that is not what its header claims. A response has any status
(`UpstreamStatuses`), also one that the gateway itself refuses with; `by` keeps in an answered request who chose its status.

**Enrichment.** API requests and workers are actors that run the same function `enrich_finding`; an
actor's step covers the code between two awaits, as a process has one event loop. `rows` and `cache`
are the two tables with their unique keys. `job` holds an actor's progress and whether its session is
broken: after a refused insert without a rollback SQLAlchemy refuses every later statement. `BatchLookup` is the loop of
`batch_lookup_cves` (`First` to `BatchGoesOn`): one session for all CVEs, so a CVE that another job cached first spoils the rest. `queue` is
the Redis list: Celery acknowledges a message before it runs the task, so a crash of the worker loses it.
The commit of a row may fail for other reasons than its key (`CommitFails`, `NvdUnstored`: the database is gone, a `source_service` is longer than
its column). For a placeholder this comes after `delay()`, so that a finding is queued and has no row, as it does when the API process dies there;
the history variable `forgotten` counts both. `MaxFaults` bounds these faults; the failures that the code expects of NVD, of the source services
and of a `not_found` row are not bounded.

**AuthService.** Handlers are plain functions that FastAPI runs in threads. A step covers the code
from one database statement that matters to the next: the read with the checks on it, the commit of the
effect, the commit of the audit event. Updates write the columns that changed, which is what a
SQLAlchemy session does; the model keeps the row as it was read in `seen`. Passwords, roles and names
are members of small sets. Emails, role ids that do not exist and user-agents are left out; what they can do,
fail a commit, is in `CommitFails`, which a database error may cause for every handler. `Unserved` is the same for the statements before, and for the
commit of a logout; `AuditFails` for the transaction of the event, which may or may not have been applied when it raises. A commit of an effect is
either applied and acknowledged or not applied. `issued` gains a token when the handler answers. Tokens do not expire in this model;
`AccessTokens` is about that. `UpdateProfile` writes columns that no other handler reads, so what remains of it is its commit and its event. `committed` and `past` are history
variables that properties read and no action does.

**AccessTokens.** `Signed` and `VerifyToken` are the two functions of `jwt_handler.py`, with what PyJWT does to a date: it is
cut to whole seconds, and compared without a leeway to a clock that has fractions. `RequirePermission` and `RequireRole` are
the dependencies of `rbac.py`. `SetAccount` is any commit of the auth service that changes a role or an account's activity;
`Authenticate` and `CreateUserTokens` are the two halves of a login, as the role is read before the token is signed. Clocks are
true time plus a `skew` that NTP may change. `lastHeld` is a history variable.

**MitreSync.** A worker process runs `sync_mitre_attack_framework` in one transaction. `Select` is the query for one technique, any order
of the file; PostgreSQL at its default isolation shows what is committed by then. `Commit` is the flush: a row that was absent
is inserted and must still be absent (`Unique`), a row that was there gets the columns that differ from what was read (`Written`).
`Fail` stands for every exception: the code rolls back and reports 0. `stored`, `overtaken` and `mixed` are history variables.

**Alerts.** The handlers are coroutines without an await, so they run one after the other, and an action is
a whole handler, but for `create_incident`: its three commits are three actions, because it may be cut short
between them (`CreationStops`): by a crash, by an alert id that no INTEGER holds, by a database error. A handler with one commit has all of its
effect or none, so its failure is a step that changes nothing. `LoopFree` says that nothing else runs meanwhile. Rows are numbered by the serial columns, so
the tables are sequences and the timeline is in the order of its ids. `WithStatus` is the pair of assignments that three handlers
share. The answers are left out: every handler commits and then fails on its response, whose fields are declared `str`
and hold datetimes. `add_timeline_event` stores the type that the client sent, which may be one of the program's own (`EventTypes`); the history field `by`
tells the two apart, which no column does. `lost` is a history variable: the incidents whose creation was cut short.

## Runs

| Run | Question | Result |
|---|---|---|
| `auth_rotation` | With JWT_SECRET and without: do rotation, replay, logout, clock changes and one restart keep the store consistent, is the alarm honest and audited, and does the service implement `TokenFamily`? | holds |
| `auth_everywhere` | Does a detected reuse end every session of the user, as the UI says? | refuted |
| `rate_limit` | Is what passes in any interval bounded, and is every refusal earned? | holds |
| `gateway` | Two interleaved requests, services that answer 200, 403 or 429: audit, authorization, quotas, one answer, and an answer to each | holds |
| `enrichment` | Three requests, a worker, a crash or a failed commit: rows written once; queued once and with a row, but for a placeholder that the fault kept out; all work ends | holds |
| `enrichment_pending` | Is a pending row completed? | refuted |
| `enrichment_stored` | Does the last step store an enrichment? | refuted |
| `auth_service` | Three requests in threads, transactions that fail, a crash: unique names, answers, effects and audit events that agree, consistent logins, lasting deactivation | holds |
| `alerts` | Repeated reports, triage, incidents, creations cut short, events of clients: are alerts unique, does the timeline tell how a status came about? | holds |
| `auth_revoked` | Is a token refused after logout has revoked its session? | refuted |
| `mitre_sync` | Overlapping syncs, failures, a crash: no release in part, mixed rows only after an overtaken sync and healed by the next, all syncs end | holds |
| `access_tokens` | Does a token speak for an account no longer than its lifetime, the clocks and a login allow, and does it work that long? | holds |

The properties, each defined with a comment in its module:

* `SingleLive`, `RevokedFamilyDead`, `ReuseKillsFamily`, `StoreIsConsistent` (of `FamilyIndexComplete` and
  `StoreMatchesIssued`), `FalseReuseOnlyAtExpiry`, `LogoutEndsFamily` and the refinement `ContractSpec` speak of the token
  store; `AlarmOnlyOnOwnTokens` says that with a random secret no token of an earlier start raises the alarm,
  `RevokedFamiliesAudited` that a revoked family is in the trail until the trail is full. `FalseReuseOnlyAtExpiry` bounds a real oddity: the JWT is compared with the clock first
  (`auth.ts:112`) and its record, which expires up to a second later, after it (`auth.ts:121`); a clock that jumps forward between the two readings
  makes a genuine token look stolen, but only if it lands in or after the second in which the token expires.
* `BurstBound` looks at an interval wherever it begins, which the code never does: an interval shorter than a window takes in fewer than twice the quota of
  requests let pass, and one quota more per restart; two admissions that are `2 * RateLimitMax - 1` apart in the client's history are a window apart, and no closer two need be. `RefusalIsEarned` excludes the opposite error: a refused client that keeps trying would, if a refused
  hit moved the window, be refused without having been served.
* `TrailExplainsOutcomes` has two directions: what the gateway refused and what it attempted has its event (`OutcomesAreRecorded`), and an event tells of
  such an outcome (`EventsTellOutcomes`). A 403 or a 429 that a service answered is an attempt and no refusal.
  `OnlyAuthorizedInFlight` relates an upstream call to the caller's permissions, `InProgressWithinQuota` the two halves of the pipeline. `AnswerIsFinal` is an
  action property, `RequestsAreAnswered` liveness.
* `RowsAreWrittenOnce` is the refinement of `WriteOnce`. `QueueMatchesTable` holds only because a handler has
  no await between its check and the placeholder: a finding is queued once (`QueuedOnce`), and has a row when the
  request is over (`QueuedLeavesRow`), save for each placeholder whose commit failed or that a crash prevented (`forgotten`). `WorkDrains` is liveness.
* `LoginIsSnapshot` compares a token with the history of the account; `DeactivationSticks` forbids that
  a stale update revives an account, which holds because only changed columns are written;
  `TrailMatchesEffects` relates answers, tables and trail whatever fails: what a client is told to be done is stored and audited (`ConfirmedIsAudited`),
  a refused login is audited and any other refusal leaves no trace (`RefusalsAreAudited`), an effect without its event is one that nobody was told of
  (`EffectsAreAudited`), and no event tells of an effect that is not there (`TrailIsTruthful`).
* `AuthorityIsRecent` bounds the harm of a token that nobody can recall: what a service lets it do was allowed to the account at
  most `Staleness` ago, which is the lifetime, twice the error of the clocks and the duration of a login. `TokensLastTheirTtl` is the other
  side: but for the clocks and the second that is cut off, the token works for its lifetime.
* `WholeReleases` says that the techniques in the table are those of whole releases. `LastSyncWins` says that, short of an
  overtaken commit, every row is as one release describes it; `SyncHeals` that after one the next undisturbed sync repairs
  the rows; `SyncsOnlyAdvance` that no technique vanishes and only an overtaken sync goes back. `SyncsEnd` is liveness.
* `OneAlertPerSource` and `RedeliveryKeepsTriage` say that a report is idempotent, for the table and for what
  analysts did; `ResolvedHasTime` that three handlers agree on what closing means; `TimelineTellsHistory`
  replays the events of an incident and must arrive at its row (`TimelineTellsStatus`), and begins with the detection
  (`DetectionComesFirst`), which the three commits of a new incident guarantee, as no await
  separates them, unless the creation was cut short. Both read the program's events, and the detection comes before those of clients as well.
* The `TypeOK` of `GatewayAuth`, `Enrichment`, `AuthService`, `Alerts`, `MitreSync` and `AccessTokens` is checked by their runs and proved;
  that of `Gateway` and `LimiterTypeOK` of `RateLimit` are proved only.

## Bounds

Every bound is a named constant of its module.

* `auth_rotation`: two users would double the space without a new interaction, as families never share
  a record; families and jtis come from pools large enough for two sessions and their rotations.
  `MaxBoots` allows one restart, which suffices to have tokens of an earlier boot. `MaxNow` reaches past
  the expiry of a token, so that the second in which it expires is explored; `MaxDrift` 2 lets the clock jump across that second between the two
  readings of `refresh`, so that the false alarm occurs. `AuditCap` 2 lets the trail fill and drop
  events; the code's 1000 differs in scale only.
* `rate_limit`: a quota of two and a window of two ticks, so that three windows fit `MaxNow`: a client can be let pass six times without a
  restart and eight times with one, while `BurstBound` speaks of any four and any six in a row.
* `gateway`: two requests suffice for every pair of steps to interleave; properties relate at most two
  requests. A request emits one event at most, so
  with `AuditCap` 2 the trail never drops one here and `InTrail` excuses nothing; that events are dropped is in the proof. `UpstreamStatuses` has
  a success and the two refusals that the gateway answers with as well. Quota 1 per window makes the second
  request of a client meet the limit.
* `enrichment`: two findings that share a CVE, two CVEs, three requests, one worker, one fault (a crash or a failed commit): the
  smallest instance where the same finding is requested twice while another occupies the cache.
* `auth_service`: three requests reach create, read, deactivate, write on one account; a transaction may fail in each of them. The seed is the
  migration's administrator; the sequence of ids starts where the migration leaves it, or after a failed registration.
* `mitre_sync`: three techniques with two columns, so that a row can be mixed; three releases, so that a sync can be overtaken and
  healed by one of a third; two workers, three messages, one crash.
* `access_tokens`: a lifetime of three seconds of two ticks, clocks that are off by a tick, logins that last up to one; `MaxNow` leaves a whole
  lifetime after the last change. One token is enough, as no property relates two.
* `alerts`: two sources, two alerts and two incidents, so that an alert can move between incidents; three
  statuses, so that a change can be told from a reopening; four events, enough for a detection in each incident and
  two changes in one; `EventTypes` are the two types that the program writes, the only ones that could be mistaken. A creation may be cut short each time.

Symmetry is used where no liveness is checked (`auth_rotation`, `rate_limit`, `auth_service`, `alerts`), never with liveness.

## Fairness

* `Gateway`: weak fairness of the handlers of a request, as Node's event loop runs a continuation that is
  ready, and of the upstream's end, as undici has default timeouts on head and body. A request before the hooks owes nothing.
* `Enrichment`: weak fairness of the steps of API jobs and workers; httpx has timeouts, and a worker polls
  the queue. A crash and a failed commit are never fair.
* `MitreSync`: weak fairness of taking a message and of the work on it: workers poll Redis, the download has a timeout of 60
  seconds, the file bounds the loop, and every exception ends the task.
* `GatewayAuth`, `RateLimit`, `AuthService`, `AccessTokens`, `Alerts`: safety only; their handlers wait for nothing but clients or
  the database.

## Proofs

All in modules of their own, for every value of the constants that satisfies their named assumptions (`ASSUME` in `AuditLog`, `GatewayAuth`,
`FixedWindow`, `RateLimit`, `Rbac`, `Gateway`, `Enrichment`, `MitreSync`, `AuthService`, `AccessTokens` and `Alerts`). Most say that a
bound is a number and that two sets of names are disjoint; those that say more are about what the code starts from: unique names in the
accounts of the migration, tokens in circulation that were issued to active accounts, a window that is not empty.

Every invariant and every action property that a passing run checks is a theorem here; a run shows it on an instance and, by its mutants,
that the code could break it. The pattern is always the same: an inductive invariant, the actions reduced to a few shapes where there are many,
one lemma per shape, and the properties as consequences.

* `AuditLogProofs`: two lemmas about `Emit`, for events of any kind, on which both modules that keep a trail rest.
* `GatewayAuthProofs`: the inductive invariant is
  `IInv == TypeOK /\ SingleLive /\ RevokedFamilyDead /\ FamilyIndexComplete /\ StoreMatchesIssued`. `SingleLive`
  is not inductive alone: `RefreshRotate` adds a live record, so one must know that the rotated one was
  the only live one of its family, that a family that is revoked gains no record (`RevokedFamilyDead`),
  and that `Revoke`, which walks the index, reaches every record (`FamilyIndexComplete`).
  `StoreMatchesIssued` ties a record to the token that was signed for it, which the alarm's honesty and
  the refinement need. `IInv` is proved action by action; `TypeCorrect`, `RefreshIsExclusive`,
  `RevocationIsComplete`, `StoreIsSound`, `ReuseEndsSession`, `AlarmIsHonest`, `LogoutIsFinal` and `RevocationIsAudited`
  follow from it, for any number of users, tokens, restarts and any clock. `AlarmIsAboutOwnTokens` needs one fact more, `OwnTokensStored`: with
  a random secret, a token whose signature verifies was signed by this process and so has its record.
  `ImplementsContract` is the refinement of `TokenFamily`, step by step. What the contract promises is then proved of the service
  through the mapping: `OneUsableTokenPerFamily`, and `NothingRevives` for tokens and whole families.
* `GatewayProofs`, the pipeline: the inductive invariant adds `Cleared` to what is checked: a request past `requirePermission` keeps a token that
  grants its route, and only an allowlisted one goes upstream. All actions but the clock's are one shape (`StepShape`): a request that is not
  answered moves, with at most one event. `CallsAreAuthorized` follows from `Cleared` by `SameDecision`, the theorem that the TypeScript and the
  Python check decide alike for every set of grants; `TrailIsComplete` from `EmitRemembers` and the event that each outcome comes with, for any statuses of the services and any capacity of the trail; `AnswersAreFinal` from the shape.
  `ProgressIsBounded` counts: `QuotaInv` says that a client's k-th bucket closes at `k * Window` or later and that what is in progress came through the
  k buckets, all but the last of which gave one quota at most. Its lemmas are about division and about the cardinality of a set that gains one
  element (`OnlyHookAdmits`: only the hook adds to it, one request at a time).
* `GatewayProofs`, the limiter alone: `HistoryInv` reads the history from the bucket. The last `Spent` admissions came after the bucket was
  opened, those before came before, and of these all but a quota per boot had left the window when it was opened: a bucket is opened only when the
  one before is closed, and a restart forgets one bucket. `BurstsAreBounded` is the last conjunct of the invariant, which the
  others make inductive; `RefusalsAreEarned` is `EarnedInv`, as a refusal leaves the history and the instant alone.
* `EnrichmentProofs`: the actions reduce to a few shapes: an actor moves on and touches no message (`Quiet`), a request sends the message of a finding and holds
  it (`Sends`), it writes the row (`Settles`), its placeholder is lost (`Forgets`), or the API process dies. `Accounted` ties the messages ever sent to rows, holders
  and forgotten placeholders: a finding without a row and without a holder has been sent no more often than its placeholder was forgotten, and `Sends` needs one without a row while
  nobody holds anything. `QueueAndTableAgree` follows, for any number of clients, workers, findings and faults.
  `RowsImplementWriteOnce` is the refinement of `WriteOnce`: each step writes one absent row or none (`RowStep`).
* `MitreSyncProofs`: what a sync will write depends on what it read, so the invariant speaks of reads. `SeenIsListed` and
  `SeenIsPresent`: it read techniques of its file, and a row that it saw is still there. `LeftAloneIsRight`: a column that a sync
  would leave alone, because it looked right, is right still, unless the sync was overtaken; another sync's commit either wants the same value or overtakes it.
  `NoOlderRelease`: a sync that was not overtaken has no older release than the table. `CommitShape` then says what each column holds after a commit, and
  `SyncsAreAtomic`, `LastSyncStands`, `MixedRowsHeal` and `SyncsNeverRegress` follow, for any number of workers, releases, techniques and columns.
* `AuthServiceProofs`: the twenty actions and the stutter are first reduced to seven shapes (`StepShape`): a
  request enters, has its effect, is refused, is logged, stops on an error, the process dies, or nothing happens. The invariants are then
  proved by shape. `IInv` adds to the checked properties what makes them inductive: `HandlerKnowsAccount` (a
  handler past its checks holds the id of an account), `CommitIsRecorded` (an effect about to be logged is
  committed), `StartsBlank` (a request that has not begun has neither effect nor event), `PastHoldsPresent` and `LoginsReadPast` (a login on its way read a state that the account was
  in). `TypeCorrect`, `NamesStayApart`, `TrailAndEffectsAgree`, `TokensDescribeOneState` and
  `StaleUpdatesReviveNobody` follow, for any number of requests, accounts, failures and crashes.
* `AccessTokensProofs`: the inductive invariant adds to `TypeOK` that a login in progress was begun by an account in the role it read
  (`LoginHeld`) and that a token is dated by the signer's clock and was vouched for by such a login (`TokenInv`). `AuthorityExpires` and
  `TokensLast` then are arithmetic about a clock that is off by `MaxSkew` at most, for any lifetime, skew, delay and unit.
* `AlertsProofs`: the invariant has two halves, proved apart, as alerts and incidents meet only in the link. `AlertsInv`: a report adds an alert of a new source,
  and everything else changes alerts in place (`AlertsShape`), hence `ReportsAreDeduplicated`. `IncidentsInv`: the story that the
  timeline tells of an incident (`Tells`) stays when the event is of another incident or of another type (`StoryStays`), and goes on with a change of its status
  (`StoryGoesOn`). `EventsBelong` says that an incident that is being created has no event yet, so that its first one is the
  detection. `HistoryIsComplete`, `ResolutionIsDated` and `TriageSurvivesReports` follow, for any number of findings, incidents, events and creations that are cut short, and for any types of clients' events.

Only model-checked: liveness (`RequestsAreAnswered`, `WorkDrains`, `SyncsEnd`), which is out of the prover's reach, as is ENABLED.

## Findings

1. `auth.ts:123`: a reuse revokes one family; `gatewayControls.ts:31` promises "everywhere"
   (`auth_everywhere`).
2. `enrichment.py:76`: the placeholder of a queued finding makes the worker believe the finding is done;
   the row stays pending (`enrichment_pending`).
3. `cve_lookup.py:99`: enriching a finding whose CVE is cached fails for good, as the refused insert is
   swallowed without a rollback (`enrichment_stored`). `get_cve` answers 404 for the loser of a race for
   the same reason.
4. `auth-service/api/routes/auth.py:133`: logout marks a session that nothing reads (`auth_revoked`).

Noticed while reading, without a run:

* `config.ts:58` says that JWT_SECRET must be set outside local and demo mode, and `config.ts:57` asks for it in production only.
* `auth-service/api/routes/auth.py:223`: two password changes that were verified against the same old hash both succeed.
* `auth-service/services/auth.py:136`: `refresh_user_token` fails for every token (a string where SQLAlchemy 2 wants an attribute).
* `0001_init_auth.py:194`: the first registration after the migration fails on the seeded id.
* `incidents.py:177`, `alerts.py`: handlers commit and then fail on their response, whose datetimes are declared `str`; `incidents.py:178` counts
  alerts by the ids of the request, not by those that were found.
* `incidents.py:276`: `metadata=request.metadata` sets an attribute that is no column (`event_metadata` is), so what the client sent is dropped.
* `mitre_sync.py:104`: a failed sync returns 0, and the task reports it as a success.
* `cve_lookup.py:111`: a CVE that another job cached after the look-up is answered as not found.
* `threat_intel/services/enrichment.py:85` matches indicators that have expired; `indicators.py:100` leaves them out.
* `app.ts:49`: a preflight is answered before the request-id hook and the rate limiter.

## Not modelled

* Formatting, header filtering, URL building, RateLimit-* headers, logging: no property is about them.
* Password hashing and signatures: a password is right or wrong, a signed token cannot be made up.
* What a broker does with a `delay()` whose answer is lost: `QueueDown` is a message that was not taken.
* Growth of the rate limiter's Map and of the token store, which nothing bounds.
* Compliance, indicators, lists, searches and statistics: they only read, and nothing in the repository writes an indicator.
* What the columns of a technique or a CVE mean: a column is a value that is as a release has it or is not.
* Reviewer UI, Terraform, Docker: no state that changes.

## Plan

Done: the gateway as a whole, the enrichment with the batch lookup, the auth service, the alert correlation, the MITRE sync, the shared
access tokens. Every handler of the repository that writes is modelled, and all that is checked is proved, but for liveness. What is left:

1. the limiter inside the gateway: the bounds of `RateLimit` for the composed system, whose hook counts the same buckets, from one lemma about
   what a step of the pipeline does to them;
2. the safety half of liveness, as invariants: no message of `MitreSync` and no job of `Enrichment` is in a state in which none of its actions
   could run (ENABLED is out of reach, its guards are not).
