# Verification of the webhook delivery platform

TLA+ models of the parts of this repository in which several processes share
database rows, TLC runs that check them on small instances, and TLAPS proofs
that carry the main results to every instance. Module names are in
`CamelCase`, run names in `snake_case`; paths are relative to the repository
(`src/`). `PROJECT.json` maps each definition to the lines it models.

## 1. The system

Producers post events with an API key and an idempotency key. The API stores
the event and one delivery per subscribed endpoint in PostgreSQL, workers
lease due deliveries and post them to the receivers with a signature, and
operators pause, cancel, replay and recover. PostgreSQL is the queue and the
only coordination between replicas. A producer may use the SDK's outbox, which
relays messages from its own database.

Two facts of the database shape nearly every property. Isolation is READ
COMMITTED: each statement has its own snapshot, and only row locks exclude.
And `now()`, which `database_now` reads, is the time the *transaction began*: a
transaction that waited for a lock computes with an old time.

| Part | State | Operations | What makes it hard |
| --- | --- | --- | --- |
| Delivery queue (`services/delivery_service.py`, `worker.py`) | `deliveries`, `delivery_attempts`, in-flight tasks | claim, renew, send, finalize, release | leases expire under running workers; crashes; late finalization |
| Claim scheduler (`scheduling.py`) | global control row, tenant and endpoint rows | rank, lock, select | the statements of one claim see different snapshots |
| Circuit breaker and pause | `endpoint_quota_states` | open, half-open, probe, close, pause, recover | one probe whose end must be noticed on every path |
| Admission (`admission.py`) | `tenant_quota_states` | charge, saturation, limits | balances with old clocks, races for the last place |
| Ingestion and replay (`services/webhook_service.py`) | `events`, `replay_operations`, `deliveries` | ingest, single and bulk replay | repeats of a key, check-then-wait, payload purge |
| Endpoints (`services/webhook_service.py`) | `webhook_endpoints`, `endpoint_signing_secret_versions` | create, update, deactivate, rotate | two kinds of row locks taken in different orders |
| Outbox (`sdk/.../outbox.py`) | `webhook_outbox`, relays | enqueue, claim, send, finish | duplicate and late sends, skewed clocks, crash before the record |
| Organization deletion (`lifecycle.py`, `services/webhook_service.py`) | `organizations`, lifecycle operations | request, cancel, clean up in batches | rows loaded before the lock; claims and ingestion run beside it |
| Retention (`lifecycle.py`, purge and listing in `services/webhook_service.py`) | attempts, deliveries, policy | erase, purge, list | several maintenance processes; ids selected without a lock |
| Memberships and projects (`services/webhook_service.py`, `authorization.py`) | `organization_members`, `project_members` | invite, change, remove | the last-owner rule under concurrent changes |
| API keys and their usage (`api_key_auth.py`, `api_key_usage.py`) | `api_keys`, buffers in each process | create, rotate, revoke, flush | overlapping rotations; failed and overlapping flushes |
| Audit log and export (`audit.py`) | `administrative_audit_events` | append, page, export | rows become visible in the order of neither time nor id |
| Accounts and login (`services/user_service.py`, `login_throttle.py`) | `users`, `login_throttles` | register, login, update, deactivate | reads without locks; counting across processes |
| Request limiter (`middleware.py`) | `_hits` | check, evict | a bounded table |
| Worker process (`worker.py`) | tasks of one event loop | claim, deliver, stop | the order of a shutdown when calls fail |
| Receiver (`sdk/.../receiver.py`, `webhook_security.py`) | secrets, inbox | sign, verify, deduplicate | two schemes, late and repeated requests |

`PROJECT.json` lists every part with what is left out of it, and the hazards of
the code, each at its line, with the properties that would notice it or the reason
why none does.

## 2. Modules

Modules build on each other in this order:

    FairCandidates -> DeliveryQueue -> DeliveryQueueProofs -> QueueLimitsProofs
    TokenBucket    -> Admission     -> AdmissionProofs
    OutboxContract -> Outbox
    Outbox, Retention, AuditTrail   -> BatchProofs
    Endpoints, Receiver             -> EndpointsProofs
    OrganizationDeletion, WorkerProcess, ApiKeyUsage -> MaintenanceProofs
    Tenancy, ApiKeys                -> TenancyProofs
    Tenancy, ApiKeys, AuditTrail    -> MCTenancy
    Retention, ApiKeyUsage, WorkerProcess, LoginThrottle, RateLimiter,
    Receiver, Accounts              -> MCServices
    Accounts, RateLimiter, LoginThrottle -> AccessProofs

`MCDeliveryQueue`, `MCAdmission`, `MCOutbox`, `MCEndpoints` and
`MCOrganizationDeletion` add constant values and symmetry sets for TLC.
`MCTenancy` and `MCServices` put components that share no state into one run: the
variable `part` chooses one of them in the initial state, and the others stay as
they began. Each property speaks of the variables of one component.

In every module an operator that stands
before another of nearly its name and is used nowhere (`UnguardedFinish`
before `HoldsToken`) is a wrong variant of it: substituted, it must break the
property that watches over it. The variants are listed under `mutants`.

### DeliveryQueue

`row` is the `deliveries` table, `circuit` the pause and circuit columns of an
endpoint, `attempts` the attempt rows. `claim[t]` is the task that works under
lease token `t`; the token stands for the UUID, numbered by `issued`.

The claim is the one long transaction: `ClaimScan` (capacity and
candidates, with the ranking of `FairCandidates`), `ClaimLock` (`FOR UPDATE SKIP
LOCKED` by id, endpoint rows, second count), `ClaimHalfOpen` and `ClaimSelect`
(the iterations of the loop), `ClaimCommit`, `ClaimAbort`. It holds the global
row, so `tx` is a single record. `StartAttempt`, `EndAttempt`, `RenewLease`,
`Finalize`, `LoseLease`, `ReleaseClaim` and `Crash` are the life of a task;
`CancelDelivery`, `SetPaused` and `RecoverCircuit` are the operators. These
transactions lock the row they write first, so each is one action, with a `now`
from `TxNow(lag)`: at most `MaxTxAge` old and not before the task's previous
transaction.

Abstracted: a retry delay is any member of `RetryDelay`; the endpoint
rate tokens and the two cursors only decide whom the loop serves next and when
it stops, so the loop serves any endpoint and may stop early; the receiver's
answer is one of the results the code distinguishes.

### TokenBucket and Admission

`consume_tokens` on integers and whole seconds. In `Admission` a request is one
transaction whose `began` is its `now`; `holder` is the request that holds the
global row between steps. `IngestEvent` / `AdmitEvent` are the two lookups of
the key with everything that happens under the locks; `ReplayDelivery` /
`AdmitReplay` lock the source before the global row, `ReplayDeliveries` /
`LockReplays` / `CheckReplays` / `AdmitReplays` after it. The two orders can
deadlock; the database then aborts one request, which is `Disconnect`.
`PurgeEventPayload` is the retention worker, and `Deliver` stands for the whole of
`DeliveryQueue`: any pending delivery may end at any time, or never.

Abstracted: an event's type, mode and payload are one `Content`; an envelope
has size one; the fan-out is any list of endpoints. The `IntegrityError`
branch of `ingest_event` is not reachable while the second lookup runs under
the global lock, and is left out.

### Endpoints

Calls take their locks one by one: `LockEndpoint` (the row `FOR UPDATE`),
`LockTenant` (the quota row) and, in `InsertDeliveries`, the key-share lock of the
foreign key, which waits for a `FOR UPDATE`. `Commit` performs what the call
writes; `Abort` is a lost connection or a deadlock victim. A delivery is what it
snapshots: endpoint, version, creation time. The version half of
`_ensure_replayable` is `VersionLive`; the payload half is in `Admission`. The
bulk replay checks versions under the quota row and so is covered by the weaker
single replay, which checks before it waits.

### OutboxContract and Outbox

The contract: a message goes from absent to queued to sent or failed, is
reported sent only when the platform has its event, and a report is never
taken back. `Outbox` has relays with their own clocks (`Skew`), batches
leased at once, requests that are accepted after their sender gave up
(`inflight`), crashes, and relays slower than their lease. A claim
transaction is one action; one token number serves a batch because a token is
only compared with that of the same row.

### OrganizationDeletion

One organization. A request of an owner is `Authorize`, which loads the row,
`LockOrganization`, and `RequestDeletion` or the cancellation, which write only
the columns that differ from what was loaded, as the ORM does. A maintenance
transaction is `ClaimOperation`, `ClaimOrganization`, `CancelInactive`,
`HasLiveDelivery`, `DeleteDeliveryBatch`, the batch of events and the removal of the
empty organization, one action per statement, with a rollback at any of them.
Beside it run ingestion (`Authenticate`, `Store`) and the life of a delivery
reduced to claim, renewal and outcome. A row is locked while a transaction that
locked it is open.

### Tenancy, ApiKeys and AuditTrail

`Tenancy` splits a call after its permission check and at each row lock
(`MemberStep`, `ProjectStep`); users are deactivated and deleted meanwhile, and
`AbortCall` is every refusal and lost connection, and the database's choice when
two calls wait for each other. `loose` remembers project roles that were inserted
without the lock of the membership. `ApiKeys` has `create_api_key`, `RotateKey`,
`RevokeKey` and the predicate of authentication; digests and scopes are left out.
`AuditTrail` has writers whose rows carry the time their transaction began and an id
taken later, a walk by cursor, and the export statement by statement.

### The services

`Retention` is what happens to ended deliveries: erasure of response bodies by
policy, the operators' purge, and the listing of dead ones by offset.
`ApiKeyUsage` is the buffer of each API process and its flush in three steps.
`WorkerProcess` is one event loop from its start to its exit; a step is what
happens between two awaits. `LoginThrottle` is one account's row under
concurrent logins. `RateLimiter` is `_check` and `_make_room`. `Receiver` joins
the worker's signing and retrying, a network that delays and loses, and the SDK's
verification with the receiver's inbox; an HMAC is the pair of its key and what it
signs. `Accounts` has registration, login with the upgrade of old hashes, and
what users do to their own account.

## 3. Runs

States are distinct states found by TLC.

| Run | Shows | States |
| --- | --- | --- |
| `queue_workers` | Renewals, a crash and stalls: a finished row agrees with its last attempt, only the latest claim writes an outcome, and unexpired leases keep to the deployment, tenant and endpoint limits. | 753 585 |
| `queue_operators` | Cancel, pause, resume, recover and release in every interleaving with a claim: the probe is always unfinished, no delivery gets more attempt rows than the limit, no claim passes a pause or an open circuit. | 2 310 876 |
| `queue_liveness` | Under fairness every accepted delivery becomes terminal. | 56 872 |
| `admission` | Three concurrent calls of all kinds: inclusive limits hold, all accepted calls of one key got the same row, and with fresh transactions the tenant never gets more than burst plus rate times time. | 705 215 |
| `outbox` | Two relays, skewed, slow and crashing: the outbox implements its contract, and every enqueued message is reported. | 594 967 |
| `endpoints` | Creations and reactivations never exceed the limit; rotations against ingestions and replays leave one current version, which outlives what was signed with it. | 106 960 |
| `deletion` | Requests, cancellations and two cleaning workers against ingestion and claims: what was partly destroyed is never handed back, nothing is left behind, the grace period is kept, and every deletion ends. | 246 747 |
| `tenancy` | The last owner stays, project roles do not outlive memberships, the audit log explains the roles; keys form chains and rotation only shortens their lives; a walk misses nothing and an export not marked truncated is complete. | 1 908 465 |
| `services` | Response bodies are erased in the end, nothing is purged early, dead deliveries are all listed; uses of keys are reported; a worker stops, closing the database last; login and request budgets hold; a receiver carries an event out once; addresses and deactivation of accounts survive overlapping requests. | 333 579 |

Three more runs show where the code does not do what a document or a test says.
Each checks one property and TLC finds a counterexample; `findings` in
`PROJECT.json` quotes the sentence it contradicts:

| Run | What happens |
| --- | --- |
| `terminal_reset` | A delivery canceled between a claim's scan and its lock is leased again. |
| `probe_stuck` | A released probe is requeued behind an older delivery; the half-open circuit admits only the probe, the scheduler offers only the head, and the endpoint stops until an operator recovers it. |
| `deletion_state` | A cancellation that loaded the organization before the request committed cancels the operation and leaves `deletion_pending`, with nothing left to cancel. |

Three further properties are stated in the modules, do not hold, and belong to no
run; put into the configuration of the run named, each gives a counterexample:

* `ReplayHasPayload` (`admission`): a payload is purged between the replay's
  check and its insertion. `src/docs/phase7-tenant-lifecycle.md:30` says such a
  replay is rejected. `claim_due` raises on the missing envelope.
* `NoMutualWait` (`endpoints`): reactivation locks endpoint before tenant,
  ingestion tenant before endpoint. `src/docs/phase4-admission-fairness.md:138`
  gives the second order. The database aborts one of the calls.
* `LiveLeaseKept` (`deletion`): a claim that commits between the search for
  live leases and the selection of the batch loses its row under its lease.
  `src/docs/phase7-tenant-lifecycle.md:60` says the worker waits for live leases.

Several properties are stated with a condition the code needs. `OwnerKept`
excepts owners who delete their account, which `delete_user` does without the
last-owner check. `ProjectRoleNeedsMembership` excepts roles inserted without the
lock of the membership (`add_project_member`, `create_project`). `WalkComplete` is about
cursors with an id. `ExportComplete` is about limits below the cap of
`list_audit`; at the default limit of 1000 the export cannot see that the log is
longer. `DeadWalkComplete` excludes a purge during the walk. `UsageReported`
excepts keys of which a process noted a use older than one it had noted before (a
use carries the time its transaction began): when an overlapping flush of another process has set
the row back, the older use can be written and is then shown. `BudgetKept` is about spans shorter
than the window and the lockout by the time two logins take, since a login counts with the time
of its check. The second half of
`DatabaseClosedLast` excludes failed calls to the database. `SchemesVerify` is about
receivers that hold the legacy form of the secret, or receive the standard scheme; a
receiver with the standard form refuses legacy deliveries that are still in flight.
The hazards in `PROJECT.json` tell each of these at its line.

**Fresh transactions.** The queue runs, `admission` and `deletion` set `MaxTxAge = 0`: a
transaction has not waited when it takes its first lock, so the `now()` it
computes with is current. (A claim may still take longer than a clock step
between its scan and its commit.) The theorems about `CapacityRespected`, `AttemptsBounded` and `BudgetRespected` have the premise
`MaxTxAge = 0`. For `CapacityRespected` and `BudgetRespected` it is needed. With `MaxTxAge = 1`, TLC finds a renewal whose old `now()`
revives a lease that a claim has counted as expired, so that a global limit of
one is exceeded (`src/docs/phase4-admission-fairness.md` calls it exact); and a
charge whose old `now()` moves `refilled_at` back, so that a second is refilled
twice. The lease and circuit properties, and those of the deletion, are proved for
any age of transactions; the runs show them for fresh ones. The other
properties of `admission` do not depend on time; calls still interleave freely
between two ticks.

### Bounds

Every unbounded quantity has a named bound. `MaxClock` and `MaxTime` end the
clock; they exceed the sum of the lease, the retry delay and the circuit's
opening time that a scenario needs. `MaxTxAge` is how old a transaction may
get. `MaxClaims` and `MaxVersion` bound tokens and versions: three claims of two
deliveries allow a claim, a reclaim and a late finalization of the first.
`MaxFaults` and `MaxCrashes` bound failures to one where the property is about recovering
from it. `Environment`, `Faults` and `Kinds` select the outside events and calls of a run,
so that each question gets an instance of its own. A limit is one or two, so
that its boundary is reached at once. `Listing(Id, 2)` lists at most two
sources of a bulk replay. Faults after which something must still happen (a relay's
crash, a delayed retry) come early enough for the recovery to fit in the clock.
In `tenancy` two users and two calls are enough for two owners who demote
each other and for a call that waits while another commits; three keys make a
chain of two rotations; three audit rows with one row per page let rows of one
time fall on two pages. In `services` a limit of two requests and a table of two
windows for three clients reach refusal and eviction, two logins of at most two
failures reach the lock, and three deliveries for two slots keep one waiting.
`export` is run with one audit writer at a time, since the order of audit rows does not matter
to it, and the walk over dead deliveries without response bodies. Requests, keys, contents and endpoints of `Admission`
and `Endpoints`, and users and calls of `tenancy`, are interchangeable and reduced by symmetry; runs with liveness
properties use no symmetry.

Deadlock is not checked: each instance stops when its clock, its tokens and its calls
are used up.

### Fairness

`DeliveryQueue!Fairness`. The clock advances (strong, because `Tick` waits for
the claim transaction to end and for work within its lease), workers poll
(weak fairness of a scan), and a claim transaction ends. A row that is skipped
because it is locked, or a loop stopped by an empty rate budget, is not refused for ever: strong
fairness of locking all candidates and of the loop. A task
finishes what it began (strong, since its row may be locked again and again by
claims, and PostgreSQL grants row locks in turn). `queue_liveness` has no "stall":
the settings make a lease longer than an attempt, a heartbeat and the
finalization margin together, which `config.py` validates. It also has no release and
no crash: `probe_stuck` shows that a release can end progress, and a crash of the
probe's worker ends it in the same way.

`Outbox!Fairness`. `run_once` is called again and again, `send_event` has a
timeout, and time passes.

`OrganizationDeletion!Fairness`. Some worker process keeps running its lifecycle
loop, open transactions end, time passes, and an owner's request that waits for a row gets
the lock in turn (strong fairness: PostgreSQL queues for row locks).

`services`. Maintenance and the flush task run again and again, transactions end, and every
wait of the worker's loop has a timeout. Nothing is assumed of a receiver:
`StopEnds` holds although a delivery may hang for ever.

## 4. Proofs

The proofs hold for every number of deliveries, endpoints, workers, requests,
relays and messages and every setting allowed by the `ASSUME`s, which state what
`config.py` and the constructors validate (positive limits, an overlap of at
least maximum age plus margin).

* **Types.** `DeliveryQueueProofs!TypeCorrect` and
  `AdmissionProofs!AdmissionTypeCorrect`. The second includes that every balance
  lies between zero and its burst, whatever time a caller brings.
* **Lease fencing** (`DeliveryQueueProofs`). `LeaseInv` adds to `LeaseShape`,
  `AttemptNumbersUnique`, `OutcomeMatchesLastAttempt` and `OnlyLatestClaimFinalizes` what
  ties a task to its row: a token in the transaction belongs to one selected
  claim; a running claim's number is at most its row's, and equal while the row
  still carries its token; recorded numbers are at most the row's, and smaller
  while it is leased. The last point is why a finalization always adds a new number.
  The proof makes no use of time: it holds for any age of `now()`.
* **Circuit** (`DeliveryQueueProofs`). `CircuitInv` says the same of the stored circuit and of the copy
  inside the claim transaction, that the copy's probe is selected or
  unfinished, and that what is selected still passes. The locks of the
  claim keep the two from drifting apart. `ClaimsRespectCircuit` follows for
  `ClaimCommit`, the only step that hands out leases.
* **Limits of the queue** (`QueueLimitsProofs`, for `MaxTxAge = 0`). `LimitsInv` adds to
  `LeaseInv` what the claim transaction counted: the leases live at its `now`, with the
  places it still has, fit the global limit (`ScanCounts`), and beside the
  leases counted under the locks each tenant and endpoint has room for what was
  selected (`LockCounts`). Between two statements of a claim leases only end, which
  needs that a renewal has the current time and that the global row admits one claim at a time.
  It gives `CapacityCorrect`. `CandidatesUnfinished` and `NumbersBelowLimit` give
  `AttemptsCorrect`: a candidate may be canceled between scan and lock, but it has not ended
  by an attempt, so every number recorded for it is below the limit.
* **Idempotency** (`AdmissionProofs!OneAnswerCorrect`). `AnswerInv`: a key has at most one row of
  each table; an accepted call got the row of its key and content; a bulk replay past its second lookup
  holds the global row, under which its key stays free.
* **Admission limits** (`AdmissionProofs!AdmissionLimitsCorrect`). The checks and the insertion they
  allow happen under one lock, so `LimitsRespected` is inductive once the rows
  inserted are counted: a fan-out of n adds at most n to the backlog.
* **Budget** (`AdmissionProofs!BudgetCorrect`, for `MaxTxAge = 0`). `BudgetInv`: what
  was spent plus what is left was paid for by the burst and the refills up to
  `refilled_at`. `RetryAfterSuffices`, about `consume_tokens` alone: a caller who
  waits as long as it was told finds enough tokens, if nobody else took them, the
  cost fits the burst and the hint was not cut to its cap.
* **Outbox** (`BatchProofs`). `OutboxInv`: row columns agree, what a relay knows
  of a row is true, and claims of a row have different tokens.
  `OutboxImplementsContract` maps each step to a step of the contract or a stutter,
  with `status` taken from the rows.
* **Endpoints** (`EndpointsProofs`). `BaseInv`: the holder of an endpoint row is unique, the
  version a rotation read is still current, and who may add an active endpoint
  holds the quota row with room for one. It gives `EndpointLimitCorrect` and
  `OneCurrentVersionCorrect` for any age of transactions. `SnapshotsCovered`, which
  covers deliveries and the fan-out of running calls, gives
  `VersionOutlivesCorrect` and `ReplayBeforeRetirementCorrect` when
  `MaxTxAge <= Margin`: an ingestion may read a version, wait while a rotation
  that began earlier commits, and then insert. The condition is tight: with
  `MaxTxAge = 2` and `Margin = 1` TLC finds a delivery that outlives its version.
* **Organization deletion** (`MaintenanceProofs`). `DeletionInv` joins what the
  row locks keep apart (`LockDiscipline`), what a deletion in force has recorded
  (`OperationShape`: one active operation, running once something was
  destroyed), what an open maintenance transaction relies on
  (`MaintainerShape`) and what a request may have loaded. A stale request can
  leave the state wrong, as `deletion_state` shows, but it cannot cancel a running
  operation; this gives `DeletionIsFinal`, and with it `NothingLeft` and `GraceIsKept`.
* **Memberships** (`TenancyProofs`). `TenancyInv` ties each call to the rows it
  has locked: locks exclude, locked rows exist, and a call that is past
  `_ensure_not_last_owner` has locked another owner's row. It gives `OwnersRemain` and
  `ProjectRolesFollow` for any users and any number of calls.
* **Audit log and roles** (`TenancyProofs!AuditExplains`). Every step that changes a role appends
  the event that says so, with the role it read under the lock; the last event
  about a user decides (`RoleAfter`), and an appended event changes that of one user only.
* **API keys** (`TenancyProofs`). `KeyInv`: the lock of a key is exclusive, a rotation
  past its check holds a key that is not revoked and has no replacement, and a replaced
  key ends within an overlap of its replacement's creation. It gives `FamiliesAreChains`, `RevocationHolds` and
  `RotationShortens`.
* **Pages** (`BatchProofs`). What a page returns is the first n of a finite linear order. The
  lemmas about `First` (no more than n, all if fewer, nothing skipped, one asked for in excess tells whether
  there are more) serve three walks. `DeadWalkInv`: a dead delivery that the walk by offset
  has not met has at least `offset` others before it; deliveries that die meanwhile only add
  to them. `WalkInv`: what was committed when a walk by cursor began was returned or
  comes after the cursor; ids are unique, also those of rows not committed yet (`AuditLogInv`).
  `ExportInv`: each statement already run kept what survives it, or the export is marked
  truncated. They give `RetentionWalk`, `AuditWalk` and `AuditExport`; `PurgeInv` (what was
  selected without a lock may still go) gives `RetentionKept`.
* **Use of API keys** (`MaintenanceProofs!UsageRows`). `UsageInv`: the latest use a process noted is
  pending or in the batch of its flush unless the row is as late, and the row shows, or a
  flush that has read it will write, the latest use of some process.
* **Request limiter** (`AccessProofs!RateLimited`). `WindowInv` ties a window's count to the requests
  admitted since it began and bounds those of the window before.
* **Login throttle** (`AccessProofs!LoginBudget`). `RowInv` bounds the wrong credentials of a span by
  the row's count and the logins that are evaluated but not yet counted, differently for spans that
  begin after the row's window, after its last failure, or reach the logins in progress. `LockInv`:
  once locked, only logins that began before the lock can still count, and there are fewer of them
  with each that does. `NoRowInv` covers the time after a purge or before the first failure.
* **Worker** (`MaintenanceProofs!WorkerShutdown`). `ShutdownInv`: the loop knows of every running task until
  it has waited for all.
* **Receiver** (`EndpointsProofs`). `ReceiverInv`: the inbox holds exactly the events
  carried out; it gives `ReceiverOnce`, `ReceiverSuccess` and `ReceiverSchemes`.
* **Accounts** (`AccessProofs`). `AccountsInv`: stored addresses are normalized
  and unique, and so is what a request is about to store; it gives `AccountsAddresses` and
  `AccountsDeactivation`.

Only proved, and in no run: `TypeOK` of the queue and of admission, `LeaseShape`,
`AttemptNumbersUnique`, `CircuitShape`, `RowShape`, `OneValidClaim`,
`ReplayBeforeRetirement` and `RevocationIsFinal`. The theorems hold for every
instance, and the runs are kept for what adds to them.

Only model-checked: the liveness properties `EventuallyTerminal`, `EventuallyReported`,
`DeletionFinishes`, `ResponsesErased`, `UsageFlushed` and `StopEnds` (fairness and `ENABLED` are beyond
the prover), and the violations. Every safety property that a run checks is also
proved. `DatabaseClosedLast` and the other invariants of `services` and `tenancy` are proved of the
component's own specification; `MCServices` and `MCTenancy` only put these side by side.

## 5. Not modelled

* **The order of the selection loop**: the endpoint rate tokens and the persistent
  tenant and endpoint cursors of `scheduling.py`. `DeliveryQueue` lets the loop serve
  any eligible endpoint and stop early, which covers what the code does; how long
  a tenant waits for its turn is not stated.
* **Routers, schemas, exception handlers, configuration.** They validate one
  request and call one service. What a validation guarantees is an `ASSUME` or
  a guard where a model relies on it.
* **Request ids, body limits and security headers** of `middleware.py`, **items**,
  the **SDK's management client and CLI**: one row or one call at a time, with nothing
  shared between two of them.
* **URL and address checks**: pure predicates over strings and the answers of
  the resolver.
* **Password hashing, HMAC, canonical envelopes, sanitizing of audit metadata**:
  functions of one value. Where their use matters (which key signs, which
  hash is replaced) it is modelled, in `Receiver` and `Accounts`.
* **Metrics and traces**: they read state and change none. The collector's task is in
  `WorkerProcess`.
* **Migrations, scripts, portal**: run once, or by hand, or in the browser.
* **The platform behind the outbox**: `Outbox` takes from `Admission` that a key is
  accepted once (`OneAnswerPerKey`); the two are not composed in one run.
* **A purged payload in the queue**: deliveries of `DeliveryQueue` keep their payload,
  so what follows a replay without one is not shown.
