------------------------------ MODULE Endpoints ------------------------------
(***************************************************************************)
(* The endpoints of a project and the versions of their signing secrets    *)
(* (services/webhook_service.py, admission.py): endpoints are created,     *)
(* updated, deactivated and given a new secret while events fan out to     *)
(* them and deliveries are replayed.  Each call is a transaction that      *)
(* takes row locks one after the other: an endpoint row FOR UPDATE, the    *)
(* tenant's quota row FOR UPDATE, and, when a delivery is inserted, the    *)
(* FOR KEY SHARE of its foreign key to the endpoint, which waits for a FOR *)
(* UPDATE.  The endpoints and versions a call reads are not locked.  now() *)
(* is the time at which the transaction began.                             *)
(***************************************************************************)
EXTENDS Integers, FiniteSets

CONSTANTS
    Endpoint,       \* endpoint rows that may be created
    Request,        \* calls of the API
    NULL,
    EndpointLimit,  \* tenant_endpoints_per_project
    MaxAge,         \* webhook_max_delivery_age_seconds
    Margin,         \* worker_finalization_margin_seconds
    Overlap,        \* endpoint_secret_overlap_seconds
    Kinds,          \* calls that are made
    MaxTxAge,       \* bound on the age of a transaction
    MaxVersion,     \* bound on secret versions
    MaxClock        \* bound on the clock

ASSUME EndpointsAssumption ==
    /\ IsFiniteSet(Endpoint)
    /\ EndpointLimit \in Nat /\ MaxAge \in Nat \ {0} /\ Margin \in Nat
    /\ Overlap \in Nat /\ Overlap >= MaxAge + Margin
    /\ MaxTxAge \in Nat /\ MaxVersion \in Nat \ {0} /\ MaxClock \in Nat

Version == 1..MaxVersion

EndpointRow == [is_active : BOOLEAN, secret_version : Version]

ASSUME NullAssumption ==
    /\ NULL \notin Nat /\ NULL \notin Endpoint /\ NULL \notin Request
    /\ NULL \notin EndpointRow

VARIABLES
    clock,
    endpoint,     \* webhook_endpoints: a row for each endpoint that exists
    retire_at,    \* endpoint_signing_secret_versions.retire_at
    deliveries,   \* what each delivery snapshots
    tx,           \* the calls
    tenant        \* the call that holds the tenant's quota row

vars == <<clock, endpoint, retire_at, deliveries, tx, tenant>>

Snapshot == [endpoint : Endpoint, version : Version]
DeliveryRow == [of : Snapshot, created : Nat, replay : BOOLEAN]

Call == [kind : {"none", "create", "update", "rotate", "ingest", "replay"},
         step : {"idle", "begun", "limit", "ready", "done"},
         endpoint : Endpoint \union {NULL}, is_active : BOOLEAN, began : Nat,
         version : Version \union {NULL},     \* read under the endpoint lock
         fanout : SUBSET Snapshot]            \* deliveries to insert

NoCall == [kind |-> "none", step |-> "idle", endpoint |-> NULL, is_active |-> FALSE,
           began |-> 0, version |-> NULL, fanout |-> {}]

Done == [NoCall EXCEPT !.step = "done"]

Init ==
    /\ clock = 0
    /\ endpoint = [e \in Endpoint |-> NULL]
    /\ retire_at = [e \in Endpoint |-> [v \in Version |-> NULL]]
    /\ deliveries = {}
    /\ tx = [r \in Request |-> NoCall]
    /\ tenant = NULL
-----------------------------------------------------------------------------
Existing == {e \in Endpoint : endpoint[e] # NULL}
Active == {e \in Existing : endpoint[e].is_active}
Unfinished == {r \in Request : tx[r].step \notin {"idle", "done"}}

\* Calls that lock an endpoint row, and those past that lock.  Variant: a
\* rotation reads the row without locking it.
LocksEndpoint(r) == tx[r].kind \in {"update", "rotate"}
HoldsUpdated(r, e) ==
    /\ tx[r].kind = "update" /\ tx[r].endpoint = e
    /\ tx[r].step \in {"limit", "ready"}
HoldsEndpoint(r, e) ==
    /\ LocksEndpoint(r) /\ tx[r].endpoint = e
    /\ tx[r].step \in {"limit", "ready"}

\* No other call holds the row.
EndpointFree(r, e) == \A s \in Request \ {r} : ~HoldsEndpoint(s, e)

Begin(r, kind, e, active, fanout) ==
    /\ tx[r].step = "idle" /\ kind \in Kinds
    /\ tx' = [tx EXCEPT ![r] =
          [NoCall EXCEPT !.kind = kind, !.step = "begun", !.endpoint = e,
                         !.is_active = active, !.began = clock, !.fanout = fanout]]
    /\ UNCHANGED <<clock, endpoint, retire_at, deliveries, tenant>>

CreateEndpoint(r) == Begin(r, "create", NULL, TRUE, {})
UpdateEndpoint(r, e, active) == e \in Existing /\ Begin(r, "update", e, active, {})
RotateEndpointSecret(r, e) == e \in Existing /\ Begin(r, "rotate", e, FALSE, {})
IngestEvent(r) == Begin(r, "ingest", NULL, FALSE, {})

\* The half of _ensure_replayable about versions.
VersionLive(s) ==
    LET end == retire_at[s.endpoint][s.version] IN end # NULL => end > clock

\* replay_delivery checks its source before it asks for the quota row.
ReplayDelivery(r, d) ==
    VersionLive(d.of) /\ Begin(r, "replay", NULL, FALSE, {d.of})

\* _endpoint(lock=True): the row is read under its lock.  A reactivation goes
\* on to check_endpoint_limit.
LockEndpoint(r) ==
    LET call == tx[r]
        row == endpoint[call.endpoint]
        limited == call.kind = "update" /\ call.is_active /\ ~row.is_active
    IN  /\ LocksEndpoint(r) /\ call.step = "begun"
        /\ EndpointFree(r, call.endpoint)
        /\ tx' = [tx EXCEPT ![r].step = IF limited THEN "limit" ELSE "ready",
                            ![r].version = row.secret_version]
        /\ UNCHANGED <<clock, endpoint, retire_at, deliveries, tenant>>

\* Calls whose next step locks the tenant's quota row.
WantsTenant(r) ==
    \/ tx[r].kind \in {"create", "ingest", "replay"} /\ tx[r].step = "begun"
    \/ tx[r].step = "limit"

\* check_endpoint_limit.  Variant: the maximum may be exceeded by one.
LimitPassed(others) == Cardinality(others) > EndpointLimit
LimitReached(others) == Cardinality(others) >= EndpointLimit

\* The quota row is locked.  create and update count the active endpoints, an
\* ingestion reads the active endpoints it fans out to.
LockTenant(r) ==
    LET call == tx[r]
        refused == /\ call.kind \in {"create", "update"}
                   /\ LimitReached(Active \ {call.endpoint})
    IN  /\ WantsTenant(r) /\ tenant = NULL
        /\ \/ /\ refused
              /\ tx' = [tx EXCEPT ![r] = Done]
              /\ UNCHANGED tenant
           \/ /\ ~refused
              /\ tx' = [tx EXCEPT
                    ![r].step = "ready",
                    ![r].fanout = IF call.kind # "ingest" THEN @ ELSE
                       {[endpoint |-> e, version |-> endpoint[e].secret_version] :
                           e \in Active}]
              /\ tenant' = r
        /\ UNCHANGED <<clock, endpoint, retire_at, deliveries>>

\* Variant: the previous version retires when the new one is activated.
RetireAtOnce(now) == now
RetireAt(now) == now + Overlap

\* What each call writes before it commits.
InsertEndpoint(r) ==
    /\ tx[r].kind = "create"
    /\ \E new \in Endpoint \ Existing :
          endpoint' = [endpoint EXCEPT ![new] =
                          [is_active |-> TRUE, secret_version |-> 1]]
    /\ UNCHANGED <<retire_at, deliveries>>

WriteUpdate(r) ==
    /\ tx[r].kind = "update"
    /\ endpoint' = [endpoint EXCEPT ![tx[r].endpoint].is_active = tx[r].is_active]
    /\ UNCHANGED <<retire_at, deliveries>>

WriteRotation(r) ==
    LET call == tx[r]
    IN  /\ call.kind = "rotate"
        /\ call.version < MaxVersion
        /\ endpoint' = [endpoint EXCEPT ![call.endpoint].secret_version = call.version + 1]
        /\ retire_at' = [retire_at EXCEPT
                            ![call.endpoint][call.version] = RetireAt(call.began)]
        /\ UNCHANGED deliveries

InsertDeliveries(r) ==
    LET call == tx[r]
    IN  /\ call.kind \in {"ingest", "replay"}
        /\ \A s \in call.fanout : EndpointFree(r, s.endpoint)
        /\ deliveries' = deliveries \union
              {[of |-> s, created |-> call.began,
                replay |-> call.kind = "replay"] : s \in call.fanout}
        /\ UNCHANGED <<endpoint, retire_at>>

Commit(r) ==
    /\ tx[r].step = "ready"
    /\ InsertEndpoint(r) \/ WriteUpdate(r) \/ WriteRotation(r) \/ InsertDeliveries(r)
    /\ tx' = [tx EXCEPT ![r] = Done]
    /\ tenant' = IF tenant = r THEN NULL ELSE tenant
    /\ UNCHANGED clock

\* The connection breaks, or the database picks the call as the victim of a
\* deadlock: the transaction is rolled back.
Abort(r) ==
    /\ r \in Unfinished
    /\ tx' = [tx EXCEPT ![r] = Done]
    /\ tenant' = IF tenant = r THEN NULL ELSE tenant
    /\ UNCHANGED <<clock, endpoint, retire_at, deliveries>>

Tick ==
    /\ clock < MaxClock
    /\ \A r \in Unfinished : clock - tx[r].began < MaxTxAge
    /\ clock' = clock + 1
    /\ UNCHANGED <<endpoint, retire_at, deliveries, tx, tenant>>

Next ==
    \/ \E r \in Request :
          \/ CreateEndpoint(r) \/ IngestEvent(r)
          \/ \E e \in Endpoint :
                \/ RotateEndpointSecret(r, e)
                \/ \E active \in BOOLEAN : UpdateEndpoint(r, e, active)
          \/ \E d \in deliveries : ReplayDelivery(r, d)
          \/ LockEndpoint(r) \/ LockTenant(r) \/ Commit(r) \/ Abort(r)
    \/ Tick

Spec == Init /\ [][Next]_vars
-----------------------------------------------------------------------------
TypeOK ==
    /\ clock \in Nat
    /\ endpoint \in [Endpoint -> EndpointRow \union {NULL}]
    /\ retire_at \in [Endpoint -> [Version -> Nat \union {NULL}]]
    /\ deliveries \subseteq DeliveryRow
    /\ tx \in [Request -> Call]
    /\ tenant \in Request \union {NULL}

\* Endpoint creation and reactivation "serialize on tenant state": concurrent
\* calls never exceed the number of active endpoints of a project.
EndpointLimitRespected == Cardinality(Active) <= EndpointLimit

\* Concurrent rotations leave exactly one version of an endpoint without a
\* retirement time, and it is the one new deliveries are signed with.
OneCurrentVersion ==
    \A e \in Existing : \A v \in 1..endpoint[e].secret_version :
        (retire_at[e][v] = NULL) = (v = endpoint[e].secret_version)

\* "Rotation keeps the previous version valid for at least the maximum
\* delivery age": the version an accepted delivery snapshots outlives the
\* delivery, also when the event was accepted while the secret was rotated.
VersionOutlivesDelivery ==
    \A d \in deliveries :
        LET end == retire_at[d.of.endpoint][d.of.version]
        IN  end # NULL /\ ~d.replay => d.created + MaxAge <= end

\* A replay is never created with a version that had retired before it.
ReplayBeforeRetirement ==
    \A d \in deliveries :
        LET end == retire_at[d.of.endpoint][d.of.version]
        IN  end # NULL /\ d.replay => d.created < end

\* Why these hold (for the proofs).  Transactions are young, rows are locked
\* by one call, and what a call read under a lock is still so.
Young == \A r \in Unfinished : tx[r].began <= clock /\ clock <= tx[r].began + MaxTxAge

LockShape ==
    /\ \A r \in Unfinished : LocksEndpoint(r) => tx[r].endpoint \in Existing
    /\ \A r \in Request : tx[r].step = "limit" => tx[r].kind = "update"
    /\ \A r \in Request : tx[r].kind = "create" => tx[r].endpoint = NULL
    /\ \A r, s \in Request, e \in Endpoint :
          HoldsEndpoint(r, e) /\ HoldsEndpoint(s, e) => r = s
    /\ \A r \in Request :
          tx[r].kind = "rotate" /\ tx[r].step = "ready" =>
             tx[r].version = endpoint[tx[r].endpoint].secret_version

\* Versions that do not exist yet have no retirement time.
VersionShape ==
    \A e \in Endpoint, v \in Version :
        (e \in Existing => v > endpoint[e].secret_version) => retire_at[e][v] = NULL

\* A snapshot of a version that is still good for a delivery created then.
Covered(s, created, replay) ==
    LET end == retire_at[s.endpoint][s.version]
    IN  /\ s.endpoint \in Existing
        /\ s.version <= endpoint[s.endpoint].secret_version
        /\ end # NULL => IF replay THEN created < end ELSE created + MaxAge <= end

SnapshotsCovered ==
    /\ \A d \in deliveries : d.created <= clock /\ Covered(d.of, d.created, d.replay)
    /\ \A r \in Unfinished : \A s \in tx[r].fanout :
          Covered(s, tx[r].began, tx[r].kind = "replay")

\* A call that may add an active endpoint holds the quota row, and there is
\* room for one.
RoomForOne ==
    \A r \in Request : tx[r].step = "ready" =>
        /\ tx[r].kind = "create" =>
              tenant = r /\ Cardinality(Active) < EndpointLimit
        /\ tx[r].kind = "update" /\ tx[r].is_active =>
              \/ endpoint[tx[r].endpoint].is_active
              \/ tenant = r /\ Cardinality(Active \ {tx[r].endpoint}) < EndpointLimit

\* The lock a call waits for is held by another.
WaitsFor(r, s) ==
    /\ r # s /\ s \in Unfinished
    /\ \/ WantsTenant(r) /\ tenant = s
       \/ LocksEndpoint(r) /\ tx[r].step = "begun" /\ HoldsEndpoint(s, tx[r].endpoint)
       \/ /\ tx[r].kind \in {"ingest", "replay"} /\ tx[r].step = "ready"
          /\ \E x \in tx[r].fanout : HoldsEndpoint(s, x.endpoint)

\* "a consistent global-before-tenant-before-endpoint order": no two calls
\* wait for each other.  The code does not keep this: a reactivation holds the
\* endpoint when it waits for the quota row.
NoMutualWait == \A r, s \in Request : ~(WaitsFor(r, s) /\ WaitsFor(s, r))
=============================================================================
