----------------------------- MODULE Admission -----------------------------
(***************************************************************************)
(* Event ingestion and replay of one project: the requests that create     *)
(* deliveries (ingest_event, replay_delivery and replay_deliveries of      *)
(* app/services/webhook_service.py), the admission control they share      *)
(* (app/admission.py), and the retention worker that clears payloads       *)
(* (app/lifecycle.py).                                                     *)
(*                                                                         *)
(* Every request is one PostgreSQL transaction.  now() is the time the     *)
(* transaction BEGAN, so a request that waits for the global control row   *)
(* computes with a time that is up to MaxTxAge old when it gets the lock.  *)
(* What a request does while it holds the global row is one step, except   *)
(* the bulk replay, whose check of the event payloads and whose insert are *)
(* two statements that a concurrent payload purge may come between.        *)
(***************************************************************************)
EXTENDS Integers, Sequences, FiniteSets, FiniteSetsExt, TokenBucket

CONSTANTS
    Request,            \* API calls; a client's retry is a call of its own
    Key,                \* Idempotency-Key values
    Content,            \* event type, mode and payload, told apart by hash
    Endpoint,           \* active endpoints of the project
    NULL,
    Rate, Burst,        \* tenant_*_rate_per_second and tenant_*_burst
    TenantFanout,       \* tenant_fanout_per_event
    RetainedLimit,      \* tenant_retained_bytes, in envelopes
    GlobalMaxBacklog,   \* global_max_backlog
    OldestDueLimit,     \* global_oldest_due_admission_seconds
    BulkMax,            \* bulk_replay_max_deliveries
    RetryCap,           \* quota_retry_after_max_seconds
    PayloadRetention,   \* payload retention period of the organization
    Kinds,              \* kinds of request the instance exercises
    MaxTxAge,           \* bound: longest wait for the locks
    MaxClock            \* bound on the clock

Quota == {"event", "delivery", "replay"}

\* The answers that create or name nothing.
Refusal == {"conflict", "purged", "invalid", "lost", "fanout_per_event",
            "global_backlog", "oldest_due_age", "retained_bytes",
            "event_rate", "delivery_rate", "replay_rate", "bulk_replay_size"}

ASSUME FinitenessAssumption == IsFiniteSet(Request) /\ IsFiniteSet(Endpoint)
ASSUME QuotaAssumption ==
    /\ Rate \in [Quota -> Nat \ {0}]
    /\ Burst \in [Quota -> Nat \ {0}]
ASSUME LimitAssumption ==
    /\ TenantFanout \in Nat /\ RetainedLimit \in Nat /\ GlobalMaxBacklog \in Nat
    /\ OldestDueLimit \in Nat \ {0} /\ BulkMax \in Nat /\ RetryCap \in Nat
    /\ PayloadRetention \in Nat /\ MaxTxAge \in Nat /\ MaxClock \in Nat
ASSUME NullAssumption ==
    NULL \notin Request \union Key \union Content \union Refusal
ASSUME AnswerAssumption == Request \cap Refusal = {}

VARIABLES
    clock,
    tenant,       \* TenantQuotaState: one balance per quota
    event,        \* Event rows, named by the request that inserted them
    operation,    \* ReplayOperation rows, likewise
    deliveries,   \* Delivery rows in the order they were inserted
    request,      \* the calls and how far each transaction has come
    holder        \* the request that holds the global control row

vars == <<clock, tenant, event, operation, deliveries, request, holder>>

EventRow == [key : Key, content : Content, created : Nat, purged : BOOLEAN]
OperationRow == [key : Key \union {NULL}, sources : Seq(Nat)]
DeliveryRow == [event : Request, endpoint : Endpoint, due : Nat,
                status : {"pending", "succeeded", "dead"}, source : Nat]
ASSUME RowAssumption == NULL \notin EventRow \union OperationRow

Call == [kind : {"none", "event", "replay", "bulk"},
         key : Key \union {NULL}, content : Content \union {NULL},
         sources : Seq(Nat), began : Nat,
         phase : {"idle", "begun", "locked", "checked", "done"},
         answer : {NULL} \union Request \union Refusal]

NoCall == [kind |-> "none", key |-> NULL, content |-> NULL, sources |-> << >>,
           began |-> 0, phase |-> "idle", answer |-> NULL]

Init ==
    /\ clock = 0
    /\ tenant = [q \in Quota |-> [tokens |-> Burst[q], refilled_at |-> 0]]
    /\ event = [r \in Request |-> NULL]
    /\ operation = [r \in Request |-> NULL]
    /\ deliveries = << >>
    /\ request = [r \in Request |-> NoCall]
    /\ holder = NULL
-----------------------------------------------------------------------------
Id == DOMAIN deliveries
Backlog == {i \in Id : deliveries[i].status = "pending"}
Stored(table) == {r \in Request : table[r] # NULL}

\* The row an idempotency key already names, if there is one.
Existing(table, key) == {r \in Stored(table) : table[r].key = key}

\* Answer of a repeated key: the stored row, or a conflict.
Repeat(r, x, matches) ==
    [request[r] EXCEPT !.phase = "done",
                       !.answer = IF matches THEN x ELSE "conflict"]

Answered(r, answer) ==
    [request[r] EXCEPT !.phase = "done", !.answer = answer]

Unfinished == {r \in Request : request[r].phase \notin {"idle", "done"}}
Names(s) == {s[n] : n \in DOMAIN s}

\* Deliveries locked FOR UPDATE by a replay: the single replay locks its
\* source first, the bulk replay after the global row.
RowLocked(i) ==
    \E r \in Unfinished :
        /\ i \in Names(request[r].sources)
        /\ request[r].kind = "replay" \/ request[r].phase = "checked"

\* Names in sequence without repeats.
Listing(S, n) ==
    {s \in UNION {[1..k -> S] : k \in 0..n} :
        \A i, j \in DOMAIN s : s[i] = s[j] => i = j}

Copies(r, now, endpoints) ==
    [i \in DOMAIN endpoints |->
        [event |-> r, endpoint |-> endpoints[i], due |-> now,
         status |-> "pending", source |-> 0]]

Replays(now, sources) ==
    [i \in DOMAIN sources |->
        [deliveries[sources[i]] EXCEPT !.due = now, !.status = "pending",
                                       !.source = sources[i]]]
-----------------------------------------------------------------------------
(***************************************************************************)
(* Admission control: the reason a call is refused for, or NULL.           *)
(***************************************************************************)
Charge(q, cost, now) ==
    consume_tokens(tenant[q], Rate[q], Burst[q], cost, now, RetryCap)

Exhausted(q, cost, now) == Charge(q, cost, now).retry_after # NoRetry

\* A check that forgets the deliveries about to be inserted.
check_saturation_before(now, count) ==
    IF Cardinality(Backlog) > GlobalMaxBacklog THEN "global_backlog"
    ELSE IF \E i \in Backlog : now - deliveries[i].due >= OldestDueLimit
    THEN "oldest_due_age" ELSE NULL

check_saturation(now, count) ==
    IF Cardinality(Backlog) + count > GlobalMaxBacklog THEN "global_backlog"
    ELSE IF \E i \in Backlog : now - deliveries[i].due >= OldestDueLimit
    THEN "oldest_due_age" ELSE NULL

Retained == Cardinality({r \in Stored(event) : ~event[r].purged})

admit_event_locked(now, count) ==
    IF count > TenantFanout THEN "fanout_per_event"
    ELSE IF check_saturation(now, count) # NULL THEN check_saturation(now, count)
    ELSE IF Retained + 1 > RetainedLimit THEN "retained_bytes"
    ELSE IF Exhausted("event", 1, now) THEN "event_rate"
    ELSE IF Exhausted("delivery", count, now) THEN "delivery_rate" ELSE NULL

admit_replays_locked(now, count) ==
    IF count \notin 1..BulkMax THEN "bulk_replay_size"
    ELSE IF check_saturation(now, count) # NULL THEN check_saturation(now, count)
    ELSE IF Exhausted("replay", count, now) THEN "replay_rate"
    ELSE IF Exhausted("delivery", count, now) THEN "delivery_rate" ELSE NULL
-----------------------------------------------------------------------------

(***************************************************************************)
(* ingest_event.  The transaction begins when the API key is checked; a    *)
(* key that is already stored is answered without a lock.                  *)
(***************************************************************************)
Begin(r, call) ==
    /\ request[r].phase = "idle"
    /\ request' = [request EXCEPT ![r] = call]
    /\ UNCHANGED <<clock, tenant, event, operation, deliveries, holder>>

\* A comparison that looks at the key alone.
ContentIgnored(x, content) == TRUE

ContentMatches(x, content) == event[x].content = content

\* A call in its first step: it waits for the locks, or is answered at once.
NewCall(kind, key, content, sources, answer) ==
    [kind |-> kind, key |-> key, content |-> content, sources |-> sources,
     began |-> clock, phase |-> IF answer = NULL THEN "begun" ELSE "done",
     answer |-> answer]

IngestEvent(r, key, content) ==
    \/ /\ Existing(event, key) = {}
       /\ Begin(r, NewCall("event", key, content, << >>, NULL))
    \/ \E x \in Existing(event, key) :
          Begin(r, NewCall("event", key, content, << >>,
                     IF ContentMatches(x, content) THEN x ELSE "conflict"))

\* The global and tenant rows are locked, the key is looked up again, and the
\* event is charged for and inserted with its fan-out.  endpoints lists the
\* active endpoints that subscribe to the event type.
AdmitEvent(r, endpoints) ==
    LET call == request[r]
        now == call.began
        count == Len(endpoints)
        refusal == admit_event_locked(now, count)
    IN  /\ call.kind = "event" /\ call.phase = "begun" /\ holder = NULL
        /\ \/ \E x \in Existing(event, call.key) :
                 /\ request' = [request EXCEPT ![r] =
                                   Repeat(r, x, ContentMatches(x, call.content))]
                 /\ UNCHANGED <<tenant, event, deliveries>>
           \/ /\ Existing(event, call.key) = {}
              /\ refusal # NULL
              /\ request' = [request EXCEPT ![r] = Answered(r, refusal)]
              /\ UNCHANGED <<tenant, event, deliveries>>
           \/ /\ Existing(event, call.key) = {}
              /\ refusal = NULL
              /\ tenant' = [tenant EXCEPT
                    !["event"] = Balance(Charge("event", 1, now)),
                    !["delivery"] = Balance(Charge("delivery", count, now))]
              /\ event' = [event EXCEPT ![r] =
                    [key |-> call.key, content |-> call.content,
                     created |-> now, purged |-> FALSE]]
              /\ deliveries' = deliveries \o Copies(r, now, endpoints)
              /\ request' = [request EXCEPT ![r] = Answered(r, r)]
        /\ UNCHANGED <<clock, operation, holder>>
-----------------------------------------------------------------------------
(***************************************************************************)
(* Replay.  _ensure_replayable reads the event row without locking it.     *)
(***************************************************************************)
EnsureReplayable(i) == ~event[deliveries[i].event].purged

\* Charges for count replays and inserts them.
CreateReplays(r, key, sources, now) ==
    /\ tenant' = [tenant EXCEPT
          !["replay"] = Balance(Charge("replay", Len(sources), now)),
          !["delivery"] = Balance(Charge("delivery", Len(sources), now))]
    /\ deliveries' = deliveries \o Replays(now, sources)
    /\ operation' = [operation EXCEPT ![r] = [key |-> key, sources |-> sources]]
    /\ request' = [request EXCEPT ![r] = Answered(r, r)]

\* replay_delivery locks its source, whatever the status of it, and checks it
\* before it asks for the global row.
ReplayDelivery(r, i) ==
    /\ ~RowLocked(i)
    /\ Begin(r, NewCall("replay", NULL, NULL, <<i>>,
                  IF EnsureReplayable(i) THEN NULL ELSE "purged"))

AdmitReplay(r) ==
    LET call == request[r]
        refusal == admit_replays_locked(call.began, Len(call.sources))
    IN  /\ call.kind = "replay" /\ call.phase = "begun" /\ holder = NULL
        /\ \/ /\ refusal # NULL
              /\ request' = [request EXCEPT ![r] = Answered(r, refusal)]
              /\ UNCHANGED <<tenant, operation, deliveries>>
           \/ /\ refusal = NULL
              /\ CreateReplays(r, NULL, call.sources, call.began)
        /\ UNCHANGED <<clock, event, holder>>

ReplayDeliveries(r, key, sources) ==
    /\ Len(sources) \in 1..BulkMax
    /\ \/ /\ Existing(operation, key) = {}
          /\ Begin(r, NewCall("bulk", key, NULL, sources, NULL))
       \/ \E x \in Existing(operation, key) :
             Begin(r, NewCall("bulk", key, NULL, sources,
                        IF operation[x].sources = sources THEN x ELSE "conflict"))

\* The global and tenant rows are locked and the key is looked up again.
LockReplays(r) ==
    LET call == request[r]
    IN  /\ call.kind = "bulk" /\ call.phase = "begun" /\ holder = NULL
        /\ \/ \E x \in Existing(operation, call.key) :
                 /\ request' = [request EXCEPT ![r] =
                       Repeat(r, x, operation[x].sources = call.sources)]
                 /\ UNCHANGED holder
           \/ /\ Existing(operation, call.key) = {}
              /\ request' = [request EXCEPT ![r].phase = "locked"]
              /\ holder' = r
        /\ UNCHANGED <<clock, tenant, event, operation, deliveries>>

\* The sources are locked, which waits for single replays of them, and
\* checked: all dead, all with a payload.
CheckReplays(r) ==
    LET sources == Names(request[r].sources)
        refusal == IF \E i \in sources : deliveries[i].status # "dead"
                   THEN "invalid"
                   ELSE IF \E i \in sources : ~EnsureReplayable(i)
                   THEN "purged" ELSE NULL
    IN  /\ request[r].phase = "locked"
        /\ \A i \in sources : deliveries[i].status = "dead" => ~RowLocked(i)
        /\ \/ /\ refusal # NULL
              /\ request' = [request EXCEPT ![r] = Answered(r, refusal)]
              /\ holder' = NULL
           \/ /\ refusal = NULL
              /\ request' = [request EXCEPT ![r].phase = "checked"]
              /\ UNCHANGED holder
        /\ UNCHANGED <<clock, tenant, event, operation, deliveries>>

AdmitReplays(r) ==
    LET call == request[r]
        refusal == admit_replays_locked(call.began, Len(call.sources))
    IN  /\ call.phase = "checked"
        /\ holder' = NULL
        /\ \/ /\ refusal # NULL
              /\ request' = [request EXCEPT ![r] = Answered(r, refusal)]
              /\ UNCHANGED <<tenant, operation, deliveries>>
           \/ /\ refusal = NULL
              /\ CreateReplays(r, call.key, call.sources, call.began)
        /\ UNCHANGED <<clock, event>>

-----------------------------------------------------------------------------
(***************************************************************************)
(* The surroundings: connections that break, workers, the retention worker *)
(* and time.                                                               *)
(***************************************************************************)
\* The connection or the process breaks: the transaction is rolled back.
Disconnect(r) ==
    /\ r \in Unfinished
    /\ request' = [request EXCEPT ![r] = Answered(r, "lost")]
    /\ holder' = IF holder = r THEN NULL ELSE holder
    /\ UNCHANGED <<clock, tenant, event, operation, deliveries>>

\* A worker delivers (module DeliveryQueue); a replay that is checking the
\* row holds its lock.
Deliver(i, status) ==
    /\ i \in Backlog
    /\ ~RowLocked(i)
    /\ deliveries' = [deliveries EXCEPT ![i].status = status]
    /\ UNCHANGED <<clock, tenant, event, operation, request, holder>>

\* The lock of the event row that the worker takes waits for, and keeps out,
\* the insertion of a delivery of that event.
PurgeEventPayload(x) ==
    /\ x \in Stored(event)
    /\ ~event[x].purged
    /\ clock - event[x].created >= PayloadRetention
    /\ \A i \in Backlog : deliveries[i].event # x
    /\ event' = [event EXCEPT ![x].purged = TRUE]
    /\ UNCHANGED <<clock, tenant, operation, deliveries, request, holder>>

Tick ==
    /\ clock < MaxClock
    /\ \A r \in Unfinished : clock - request[r].began < MaxTxAge
    /\ clock' = clock + 1
    /\ UNCHANGED <<tenant, event, operation, deliveries, request, holder>>

Next ==
    \/ \E r \in Request, k \in Key :
          \/ /\ "event" \in Kinds
             /\ \E c \in Content : IngestEvent(r, k, c)
          \/ /\ "bulk" \in Kinds
             /\ \E s \in Listing(Id, 2) : ReplayDeliveries(r, k, s)
    \/ \E r \in Request :
          \/ \E s \in Listing(Endpoint, Cardinality(Endpoint)) : AdmitEvent(r, s)
          \/ "replay" \in Kinds /\ \E i \in Id : ReplayDelivery(r, i)
          \/ AdmitReplay(r)
          \/ LockReplays(r)
          \/ CheckReplays(r)
          \/ AdmitReplays(r)
          \/ Disconnect(r)
          \/ PurgeEventPayload(r)
    \/ \E i \in Id, status \in {"succeeded", "dead"} : Deliver(i, status)
    \/ Tick

Spec == Init /\ [][Next]_vars
-----------------------------------------------------------------------------
\* Type invariant; every balance stays between zero and its burst.
TypeOK ==
    /\ clock \in Nat
    /\ tenant \in [Quota -> [tokens : Nat, refilled_at : Nat]]
    /\ \A q \in Quota : tenant[q].tokens <= Burst[q]
    /\ event \in [Request -> EventRow \union {NULL}]
    /\ operation \in [Request -> OperationRow \union {NULL}]
    /\ deliveries \in Seq(DeliveryRow)
    /\ request \in [Request -> Call]
    /\ holder \in Request \union {NULL}

\* What a call carries fits its kind, and a replay names existing rows.
CallShape ==
    \A r \in Request :
        /\ request[r].kind = "event" => request[r].key \in Key /\ request[r].content \in Content
        /\ \A n \in DOMAIN request[r].sources : request[r].sources[n] \in Id

Spent(q) ==
    CASE q = "event" -> Cardinality(Stored(event))
      [] q = "delivery" -> Len(deliveries)
      [] q = "replay" -> Cardinality({i \in Id : deliveries[i].source # 0})

\* "API and worker replicas observe one shared budget": what was ever
\* accepted fits the burst plus the rate times the time that has passed.
BudgetRespected == \A q \in Quota : Spent(q) <= Burst[q] + Rate[q] * clock

\* Why it holds while no transaction outlives a clock step: what was spent
\* and what is left was paid for by the burst and the refills so far.
BudgetInv ==
    /\ \A r \in Unfinished : request[r].began = clock
    /\ \A q \in Quota :
          /\ tenant[q].refilled_at <= clock
          /\ Spent(q) + tenant[q].tokens <= Burst[q] + Rate[q] * tenant[q].refilled_at

\* The configured maxima are inclusive and hold whatever requests race:
\* the backlog of the deployment and the envelopes the tenant retains.
LimitsRespected ==
    /\ Cardinality(Backlog) <= GlobalMaxBacklog
    /\ Retained <= RetainedLimit

Accepted(r) == request[r].answer \in Request

\* All calls accepted under one key, first or repeated, concurrent or later,
\* were given the same row and carried the same content; the row exists.
OneAnswerPerKey ==
    /\ \A r, s \in Request :
          /\ Accepted(r) /\ Accepted(s)
          /\ request[r].kind = request[s].kind
          /\ request[r].kind # "replay"
          /\ request[r].key = request[s].key
          => /\ request[r].answer = request[s].answer
             /\ request[r].content = request[s].content
             /\ request[r].sources = request[s].sources
    /\ \A r \in Request : Accepted(r) =>
          request[r].answer \in Stored(IF request[r].kind = "event"
                                       THEN event ELSE operation)

NewReplays == {i \in DOMAIN deliveries' \ Id : deliveries'[i].source # 0}

\* "replay is rejected ... after the event payload has been purged": no step
\* inserts a replay of an event whose payload is gone.  The code does not keep
\* this: the single replay checks before it waits for the global row.
ReplayHasPayload ==
    [][\A i \in NewReplays : ~event[deliveries'[i].event].purged]_vars
=============================================================================
