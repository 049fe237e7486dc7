---------------------------- MODULE DeliveryQueue ----------------------------
(***************************************************************************)
(* The delivery queue: rows of `deliveries`, the circuit breaker in        *)
(* `endpoint_quota_states`, and the workers that claim, renew, finalize    *)
(* and release them (app/services/delivery_service.py, app/scheduling.py,  *)
(* app/worker.py), with the operator actions that touch the same rows.     *)
(*                                                                         *)
(* Transactions.  The database runs READ COMMITTED and now() is the START  *)
(* time of a transaction.  A transaction that reads and writes one locked  *)
(* row is one action, taken when it commits; its `now` may lie up to       *)
(* MaxTxAge before the clock, because it may have waited for its locks.    *)
(* The claim transaction is several actions, one per statement whose       *)
(* snapshot differs: scan, lock, the selection loop, commit.  It holds the *)
(* global row, so there is one at a time, and its row locks keep every     *)
(* other writer out of the rows it has locked.                             *)
(*                                                                         *)
(* Of the endpoint token budgets and the rotation cursors of the selection *)
(* loop only the effect is kept: any endpoint may be served next, and the  *)
(* loop may stop at any point, as when a budget is empty.                  *)
(***************************************************************************)
EXTENDS FairCandidates

CONSTANTS
  Delivery,             \* delivery ids, integers
  Endpoint,
  EndpointOf,           \* the endpoint of each delivery
  OrganizationOf,       \* the organization of each endpoint
  NULL,
  Preloaded,            \* deliveries accepted before the behaviour starts
  worker_lease_seconds,
  worker_batch_size,
  worker_global_concurrency,
  tenant_in_flight_deliveries,
  endpoint_concurrency,
  worker_candidate_scan_limit,
  webhook_max_attempts,
  webhook_max_delivery_age_seconds,
  endpoint_circuit_failure_threshold,
  endpoint_circuit_open_seconds,
  RetryDelay,           \* the delays jittered backoff and Retry-After give
  Environment,          \* which outside events happen
  MaxTime,              \* bound on the clock
  MaxTxAge,             \* how long a transaction may wait for its locks
  MaxClaims,            \* bound on the lease tokens issued
  MaxFaults             \* bound on crashes and shutdown releases

(* "stall": a worker, or the database under it, may stop for longer than a
   lease; "renew": an attempt may outlast a heartbeat interval *)
EnvironmentEvents ==
  {"stall", "renew", "crash", "release", "cancel", "pause", "recover"}

ASSUME DeliveryAssumption ==
  /\ Delivery \subseteq Int
  /\ IsFiniteSet(Delivery)
  /\ EndpointOf \in [Delivery -> Endpoint]
  /\ Preloaded \subseteq Delivery
  /\ NULL \notin Int
  /\ NULL \notin Delivery

ASSUME SettingsAssumption ==
  /\ worker_lease_seconds \in Nat \ {0}
  /\ worker_batch_size \in Nat \ {0}
  /\ worker_global_concurrency \in Nat \ {0}
  /\ tenant_in_flight_deliveries \in Nat \ {0}
  /\ endpoint_concurrency \in Nat \ {0}
  /\ worker_candidate_scan_limit \in Nat \ {0}
  /\ webhook_max_attempts \in Nat \ {0}
  /\ webhook_max_delivery_age_seconds \in Nat \ {0}
  /\ endpoint_circuit_failure_threshold \in Nat \ {0}
  /\ endpoint_circuit_open_seconds \in Nat \ {0}
  /\ RetryDelay \subseteq Nat

ASSUME BoundsAssumption ==
  /\ Environment \subseteq EnvironmentEvents
  /\ MaxTime \in Nat
  /\ MaxTxAge \in Nat
  /\ MaxClaims \in Nat
  /\ MaxFaults \in Nat

VARIABLES
  clock,     \* database time
  row,       \* the rows of `deliveries`
  circuit,   \* the circuit and pause columns of `endpoint_quota_states`
  claim,     \* in-flight ClaimedDelivery tasks, by lease token
  attempts,  \* the rows of `delivery_attempts`
  tx,        \* the claim transaction that holds the global row, if any
  issued,    \* lease tokens generated so far
  faults     \* crashes and releases so far

vars == <<clock, row, circuit, claim, attempts, tx, issued, faults>>

Token == 1..MaxClaims
Status == {"absent", "pending", "processing", "retry_scheduled",
           "succeeded", "dead", "canceled"}
TerminalStatus == {"succeeded", "dead", "canceled"}
Outcome == {"succeeded", "retry_scheduled", "dead"}
Result == {"succeeded", "retryable", "non_retryable", "max_delivery_age"}

Row == [status : Status,
        attempt_count : Nat,
        created_at : Nat,
        next_attempt_at : Nat,
        lease_token : Token \cup {NULL},
        lease_expires_at : Nat \cup {NULL}]

Circuit == [state : {"closed", "open", "half_open"},
            failures : Nat,
            open_until : Nat \cup {NULL},
            probe : Delivery \cup {NULL},
            paused : BOOLEAN]


NoClaim == [phase |-> "none", delivery |-> NULL, attempt_number |-> 0,
            lag |-> 0]

ActiveClaim == [phase : {"selected", "leased", "sending"} \cup Result,
                delivery : Delivery,
                attempt_number : Nat,
                lag : Nat]
Claim == ActiveClaim \cup {NoClaim}

Attempt == [delivery : Delivery, number : Nat, token : Token,
            outcome : Outcome]

Tx == [stage : {"none", "scanned", "locked"},
       now : Nat,
       available : Int,
       candidates : SUBSET Delivery,
       key : [Delivery -> Nat],
       locked : SUBSET Delivery,
       live : SUBSET Delivery,
       circuit : [Endpoint -> Circuit],
       token : [Delivery -> Token \cup {NULL}]]


ClosedCircuit == [state |-> "closed", failures |-> 0, open_until |-> NULL,
                  probe |-> NULL, paused |-> FALSE]

NoTx == [stage |-> "none", now |-> 0, available |-> 0, candidates |-> {},
         key |-> [d \in Delivery |-> 0], locked |-> {}, live |-> {},
         circuit |-> [e \in Endpoint |-> ClosedCircuit],
         token |-> [d \in Delivery |-> NULL]]

-----------------------------------------------------------------------------
(* now() of a transaction that takes effect at the clock and may have begun
   up to lag earlier *)
TxNow(lag) == {now \in 0..clock : clock - now <= lag}

DeliveriesOf(e) == {d \in Delivery : EndpointOf[d] = e}
Selected == {d \in Delivery : tx.token[d] # NULL}

(* rows the claim transaction has locked FOR UPDATE *)
RowFree(d) == d \notin tx.locked
EndpointFree(e) == \A d \in tx.locked : EndpointOf[d] # e

LiveAt(d, now) ==
  row[d].status = "processing" /\ row[d].lease_expires_at > now

DueAt(d, now) ==
  \/ /\ row[d].status \in {"pending", "retry_scheduled"}
     /\ row[d].next_attempt_at <= now
  \/ /\ row[d].status = "processing"
     /\ row[d].lease_expires_at <= now

Deadline(d) == row[d].created_at + webhook_max_delivery_age_seconds

Running(t) == claim[t].phase \notin {"none", "selected"}

(* a claim puts a row under a fresh lease; finalization and release lift it *)
LeasedRow(r, token, now) ==
  [r EXCEPT !.status = "processing",
            !.attempt_count = @ + 1,
            !.lease_token = token,
            !.lease_expires_at = now + worker_lease_seconds]

UnleasedRow(r, status, next_attempt_at) ==
  [r EXCEPT !.status = status,
            !.next_attempt_at = next_attempt_at,
            !.lease_token = NULL,
            !.lease_expires_at = NULL]

(* the guard of renewal and finalization: the row is still processing under
   this claim's token and its lease is unexpired at the transaction's now *)
HoldsLeaseOfAnyToken(t, now) == LiveAt(claim[t].delivery, now)

HoldsLease(t, now) ==
  LET r == row[claim[t].delivery]
  IN  /\ r.status = "processing"
      /\ r.lease_token = t
      /\ r.lease_expires_at > now

-----------------------------------------------------------------------------
Init ==
  /\ clock = 0
  /\ row = [d \in Delivery |->
               [status |-> IF d \in Preloaded THEN "pending" ELSE "absent",
                attempt_count |-> 0, created_at |-> 0,
                next_attempt_at |-> 0, lease_token |-> NULL,
                lease_expires_at |-> NULL]]
  /\ circuit = [e \in Endpoint |-> ClosedCircuit]
  /\ claim = [t \in Token |-> NoClaim]
  /\ attempts = {}
  /\ tx = NoTx
  /\ issued = 0
  /\ faults = 0

(* What the settings promise of a live worker: worker_lease_seconds exceeds
   the attempt timeout, a heartbeat and the finalization margin, so its lease
   outlives its attempt.  The claim transaction is short beside either. *)
NoWorkerStalls ==
  /\ tx.stage = "none"
  /\ \A t \in Token : Running(t) /\ HoldsLease(t, clock) =>
                       HoldsLease(t, clock + 1)

(* time moves on only while something waits for it *)
TimerAhead ==
  \/ \E d \in Delivery :
       \/ /\ row[d].status \in {"pending", "retry_scheduled"}
          /\ MaxOf(row[d].next_attempt_at, Deadline(d)) > clock
       \/ /\ row[d].status = "processing"
          /\ MaxOf(row[d].lease_expires_at, Deadline(d)) > clock
  \/ \E e \in Endpoint : /\ circuit[e].state = "open"
                         /\ circuit[e].open_until > clock

Tick ==
  /\ clock < MaxTime
  /\ "stall" \in Environment \/ (NoWorkerStalls /\ TimerAhead)
  /\ clock' = clock + 1
  /\ claim' = [t \in Token |->
                 IF Running(t)
                 THEN [claim[t] EXCEPT !.lag = MinOf(@ + 1, MaxTxAge)]
                 ELSE claim[t]]
  /\ UNCHANGED <<row, circuit, attempts, tx, issued, faults>>

(* event fan-out, or a replay, inserts a pending row *)
Accept(d) ==
  /\ row[d].status = "absent"
  /\ \E now \in TxNow(MaxTxAge) :
       row' = [row EXCEPT ![d].status = "pending", ![d].created_at = now,
                          ![d].next_attempt_at = now]
  /\ UNCHANGED <<clock, circuit, claim, attempts, tx, issued, faults>>

-----------------------------------------------------------------------------
(* claim_due, first part: with the global row locked, count the live leases
   and rank the due rows.  A scan that finds no capacity or no candidate
   returns without effect. *)
ClaimScan(requested) ==
  /\ tx.stage = "none"
  /\ \E now \in TxNow(MaxTxAge) :
       LET live == {d \in Delivery : LiveAt(d, now)}
           available == MinOf(requested,
                              worker_global_concurrency - Cardinality(live))
           key == [d \in Delivery |-> row[d].next_attempt_at]
           candidates == fair_candidate_ids(
                           {d \in Delivery : DueAt(d, now)},
                           key, EndpointOf, OrganizationOf,
                           MaxOf(available * 2, endpoint_concurrency),
                           worker_candidate_scan_limit)
       IN  /\ available > 0
           /\ candidates # {}
           /\ tx' = [NoTx EXCEPT !.stage = "scanned", !.now = now,
                                 !.available = available,
                                 !.candidates = candidates,
                                 !.key = [d \in Delivery |->
                                            IF d \in candidates THEN key[d]
                                            ELSE 0]]
  /\ UNCHANGED <<clock, row, circuit, claim, attempts, issued, faults>>

(* SELECT ... WHERE id IN candidates FOR UPDATE SKIP LOCKED: rows another
   transaction holds are skipped, and the statement does not look at the
   status again.  The endpoint rows are locked and read next, and the live
   leases are counted again for the tenant and endpoint caps. *)
ClaimLock(L) ==
  /\ tx.stage = "scanned"
  /\ L \subseteq tx.candidates
  /\ tx' = IF L = {} THEN NoTx
           ELSE [tx EXCEPT !.stage = "locked", !.locked = L,
                           !.circuit = circuit,
                           !.live = {d \in Delivery : LiveAt(d, tx.now)}]
  /\ UNCHANGED <<clock, row, circuit, claim, attempts, issued, faults>>

(* the locked deliveries of e not selected yet, and their head *)
Queue(e) == {d \in tx.locked : EndpointOf[d] = e /\ tx.token[d] = NULL}
IsHead(d) == /\ d \in Queue(EndpointOf[d])
             /\ \A x \in Queue(EndpointOf[d]) : Before(tx.key, d, x)

endpoint_count_of_leases(e) == Cardinality(tx.live \cap DeliveriesOf(e))

endpoint_count(e) ==
  Cardinality(tx.live \cap DeliveriesOf(e))
    + Cardinality(Selected \cap DeliveriesOf(e))

tenant_count(o) ==
  LET mine == {d \in Delivery : OrganizationOf[EndpointOf[d]] = o}
  IN  Cardinality(tx.live \cap mine) + Cardinality(Selected \cap mine)

(* the selection loop reaches endpoint e with work queued for it *)
VisitsPaused(e) ==
  /\ tx.stage = "locked"
  /\ Cardinality(Selected) < tx.available
  /\ tenant_count(OrganizationOf[e]) < tenant_in_flight_deliveries
  /\ Queue(e) # {}

Visits(e) ==
  /\ tx.stage = "locked"
  /\ Cardinality(Selected) < tx.available
  /\ tenant_count(OrganizationOf[e]) < tenant_in_flight_deliveries
  /\ Queue(e) # {}
  /\ ~tx.circuit[e].paused

(* an elapsed open circuit becomes half open, whether or not the delivery at
   the head is then selected *)
ClaimHalfOpen(e) ==
  /\ Visits(e)
  /\ tx.circuit[e].state = "open"
  /\ tx.circuit[e].open_until # NULL
  /\ tx.circuit[e].open_until <= tx.now
  /\ tx' = [tx EXCEPT !.circuit[e].state = "half_open",
                      !.circuit[e].open_until = NULL,
                      !.circuit[e].probe = NULL]
  /\ UNCHANGED <<clock, row, circuit, claim, attempts, issued, faults>>

(* the delivery at the head of its endpoint's queue is selected and given a
   fresh lease token; in a half-open circuit it becomes the probe *)
ClaimSelect(d) ==
  LET e == EndpointOf[d]
      c == tx.circuit[e]
  IN  /\ Visits(e)
      /\ IsHead(d)
      /\ c.state # "open"
      /\ c.state = "half_open" => c.probe \in {NULL, d}
      /\ endpoint_count(e) < endpoint_concurrency
      /\ issued < MaxClaims
      /\ issued' = issued + 1
      /\ tx' = [tx EXCEPT !.token[d] = issued + 1,
                          !.circuit[e].probe =
                             IF c.state = "half_open" THEN d ELSE @]
      /\ claim' = [claim EXCEPT ![issued + 1] =
                     [phase |-> "selected", delivery |-> d,
                      attempt_number |-> row[d].attempt_count + 1,
                      lag |-> 0]]
      /\ UNCHANGED <<clock, row, circuit, attempts, faults>>

(* the claim transaction commits: every selected row is leased, and its
   attempt starts *)
ClaimCommit ==
  /\ tx.stage = "locked"
  /\ row' = [d \in Delivery |->
               IF tx.token[d] = NULL THEN row[d]
               ELSE LeasedRow(row[d], tx.token[d], tx.now)]
  /\ circuit' = [e \in Endpoint |->
                   IF EndpointFree(e) THEN circuit[e] ELSE tx.circuit[e]]
  /\ claim' = [t \in Token |->
                 IF claim[t].phase = "selected"
                 THEN [claim[t] EXCEPT !.phase = "leased"]
                 ELSE claim[t]]
  /\ tx' = NoTx
  /\ UNCHANGED <<clock, attempts, issued, faults>>

(* the worker dies inside its claim transaction, which rolls back *)
ClaimAbort ==
  /\ "crash" \in Environment
  /\ faults < MaxFaults
  /\ tx.stage # "none"
  /\ tx' = NoTx
  /\ claim' = [t \in Token |->
                 IF claim[t].phase = "selected" THEN NoClaim ELSE claim[t]]
  /\ faults' = faults + 1
  /\ UNCHANGED <<clock, row, circuit, attempts, issued>>

-----------------------------------------------------------------------------
(* _heartbeat renews a live matching lease while the attempt runs *)
RenewLease(t) ==
  LET d == claim[t].delivery
  IN  /\ "renew" \in Environment
      /\ claim[t].phase \in {"leased", "sending"}
      /\ RowFree(d)
      /\ \E now \in TxNow(claim[t].lag) :
           /\ HoldsLease(t, now)
           /\ row' = [row EXCEPT ![d].lease_expires_at =
                                   now + worker_lease_seconds]
      /\ claim' = [claim EXCEPT ![t].lag = 0]
      /\ UNCHANGED <<clock, circuit, attempts, tx, issued, faults>>

(* _perform_attempt: a delivery past its age is not sent *)
StartAttempt(t) ==
  /\ claim[t].phase = "leased"
  /\ claim' = [claim EXCEPT
       ![t].phase = IF clock >= Deadline(claim[t].delivery)
                    THEN "max_delivery_age" ELSE "sending",
       ![t].lag = 0]
  /\ UNCHANGED <<clock, row, circuit, attempts, tx, issued, faults>>

(* the receiver, the network, the attempt deadline or a local check decides *)
EndAttempt(t, result) ==
  /\ claim[t].phase = "sending"
  /\ result # "max_delivery_age"
  /\ claim' = [claim EXCEPT ![t].phase = result, ![t].lag = 0]
  /\ UNCHANGED <<clock, row, circuit, attempts, tx, issued, faults>>

(* what finalization does to the endpoint's circuit *)
ResetCircuit(c) ==
  [c EXCEPT !.state = "closed", !.failures = 0, !.open_until = NULL,
            !.probe = NULL]

CircuitAfterFailure(c, d, finished) ==
  LET failures == c.failures + 1
  IN  IF \/ c.probe = d
         \/ /\ c.state = "closed"
            /\ failures >= endpoint_circuit_failure_threshold
      THEN [c EXCEPT !.state = "open", !.failures = failures,
                     !.open_until = finished + endpoint_circuit_open_seconds,
                     !.probe = NULL]
      ELSE [c EXCEPT !.failures = failures]

(* a probe that dies of old age gives the probe to the next claim *)
CircuitAfterAgeKeepsProbe(c, d, finished) == c

CircuitAfterAge(c, d, finished) ==
  IF c.probe = d
  THEN [c EXCEPT !.state = "open", !.open_until = finished, !.probe = NULL]
  ELSE c

CircuitAfter(c, d, result, finished) ==
  CASE result \in {"succeeded", "non_retryable"} -> ResetCircuit(c)
    [] result = "retryable" -> CircuitAfterFailure(c, d, finished)
    [] result = "max_delivery_age" -> CircuitAfterAge(c, d, finished)

OutcomeOfOneMore(d, result, attempt_number, finished, delay) ==
  IF result = "succeeded" THEN "succeeded"
  ELSE IF /\ result = "retryable"
          /\ attempt_number <= webhook_max_attempts
          /\ finished + delay < Deadline(d)
       THEN "retry_scheduled"
       ELSE "dead"

OutcomeOf(d, result, attempt_number, finished, delay) ==
  IF result = "succeeded" THEN "succeeded"
  ELSE IF /\ result = "retryable"
          /\ attempt_number < webhook_max_attempts
          /\ finished < Deadline(d)
          /\ finished + delay < Deadline(d)
       THEN "retry_scheduled"
       ELSE "dead"

(* _finalize: under the row lock and the endpoint lock, record the attempt,
   the outcome and the circuit *)
Finalize(t) ==
  LET d == claim[t].delivery
      e == EndpointOf[d]
      result == claim[t].phase
      number == claim[t].attempt_number
  IN  /\ result \in Result
      /\ RowFree(d)
      /\ EndpointFree(e)
      /\ \E finished \in TxNow(claim[t].lag), delay \in RetryDelay :
           LET outcome == OutcomeOf(d, result, number, finished, delay)
           IN  /\ HoldsLease(t, finished)
               /\ circuit' = [circuit EXCEPT ![e] =
                                CircuitAfter(@, d, result, finished)]
               /\ row' = [row EXCEPT ![d] = UnleasedRow(@, outcome,
                     IF outcome = "retry_scheduled" THEN finished + delay
                     ELSE finished)]
               /\ attempts' = attempts \cup
                     {[delivery |-> d, number |-> number, token |-> t,
                       outcome |-> outcome]}
      /\ claim' = [claim EXCEPT ![t] = NoClaim]
      /\ UNCHANGED <<clock, tx, issued, faults>>

(* renewal or finalization finds the lease expired, or the row no longer
   under this token: the worker gives the claim up without writing *)
LoseLease(t) ==
  /\ Running(t)
  /\ RowFree(claim[t].delivery)
  /\ \E now \in TxNow(claim[t].lag) : ~HoldsLease(t, now)
  /\ claim' = [claim EXCEPT ![t] = NoClaim]
  /\ UNCHANGED <<clock, row, circuit, attempts, tx, issued, faults>>

(* release_claim, at shutdown or after an unexpected error: the token must
   match but the lease may have expired.  A release that finds another token
   is LoseLease. *)
ReleaseClaim(t) ==
  LET d == claim[t].delivery
  IN  /\ "release" \in Environment
      /\ faults < MaxFaults
      /\ Running(t)
      /\ RowFree(d)
      /\ row[d].status = "processing"
      /\ row[d].lease_token = t
      /\ \E now \in TxNow(claim[t].lag) :
           row' = [row EXCEPT ![d] = UnleasedRow(@, "retry_scheduled", now)]
      /\ claim' = [claim EXCEPT ![t] = NoClaim]
      /\ faults' = faults + 1
      /\ UNCHANGED <<clock, circuit, attempts, tx, issued>>

(* the worker dies with the claim in flight; the row stays processing *)
Crash(t) ==
  /\ "crash" \in Environment
  /\ faults < MaxFaults
  /\ Running(t)
  /\ claim' = [claim EXCEPT ![t] = NoClaim]
  /\ faults' = faults + 1
  /\ UNCHANGED <<clock, row, circuit, attempts, tx, issued>>

-----------------------------------------------------------------------------
CircuitAfterCancelKeepsProbe(c, d, now) == c

CircuitAfterCancel(c, d, now) ==
  IF c.probe = d
  THEN [c EXCEPT !.probe = NULL, !.state = "open", !.open_until = now]
  ELSE c

(* cancel_delivery; canceling the probe hands the probe to the next claim *)
CancelDelivery(d) ==
  LET e == EndpointOf[d]
  IN  /\ "cancel" \in Environment
      /\ RowFree(d)
      /\ EndpointFree(e)
      /\ row[d].status \in {"pending", "retry_scheduled"}
      /\ \E now \in TxNow(MaxTxAge) :
           /\ row' = [row EXCEPT ![d].status = "canceled",
                                 ![d].next_attempt_at = now]
           /\ circuit' = [circuit EXCEPT ![e] = CircuitAfterCancel(@, d, now)]
      /\ UNCHANGED <<clock, claim, attempts, tx, issued, faults>>

(* pause_endpoint and resume_endpoint leave the circuit alone *)
SetPaused(e, paused) ==
  /\ "pause" \in Environment
  /\ EndpointFree(e)
  /\ circuit' = [circuit EXCEPT ![e].paused = paused]
  /\ UNCHANGED <<clock, row, claim, attempts, tx, issued, faults>>

(* recover_endpoint_circuit leaves the pause alone *)
RecoverCircuit(e) ==
  /\ "recover" \in Environment
  /\ EndpointFree(e)
  /\ circuit' = [circuit EXCEPT ![e] = [ClosedCircuit EXCEPT
                                          !.paused = circuit[e].paused]]
  /\ UNCHANGED <<clock, row, claim, attempts, tx, issued, faults>>

-----------------------------------------------------------------------------
ClaimSteps ==
  \/ \E requested \in 1..worker_batch_size : ClaimScan(requested)
  \/ \E L \in SUBSET Delivery : ClaimLock(L)
  \/ \E e \in Endpoint : ClaimHalfOpen(e)
  \/ \E d \in Delivery : ClaimSelect(d)
  \/ ClaimCommit
  \/ ClaimAbort

AttemptSteps(t) ==
  \/ RenewLease(t)
  \/ StartAttempt(t)
  \/ \E result \in Result : EndAttempt(t, result)
  \/ Finalize(t)
  \/ LoseLease(t)
  \/ ReleaseClaim(t)
  \/ Crash(t)

OperatorSteps ==
  \/ \E d \in Delivery : CancelDelivery(d)
  \/ \E e \in Endpoint, paused \in BOOLEAN : SetPaused(e, paused)
  \/ \E e \in Endpoint : RecoverCircuit(e)

Next ==
  \/ Tick
  \/ \E d \in Delivery : Accept(d)
  \/ ClaimSteps
  \/ \E t \in Token : AttemptSteps(t)
  \/ OperatorSteps

Spec == Init /\ [][Next]_vars

(* the steps of a live worker that has a claim in flight *)
WorkerProgress ==
  \E t \in Token : \/ StartAttempt(t)
                    \/ \E result \in Result : EndAttempt(t, result)
                    \/ Finalize(t)
                    \/ LoseLease(t)

(* Time passes, workers poll for ever, and a live worker finishes what it has
   begun.  A row another transaction holds is skipped, and an empty budget
   stops the selection loop, but neither lasts: what can be locked or selected
   again and again is in the end.  Row locks are granted in turn, so a
   finalization does not wait for ever behind one claim after another. *)
Fairness ==
  /\ SF_vars(Tick)
  /\ WF_vars(\E requested \in 1..worker_batch_size : ClaimScan(requested))
  /\ SF_vars(ClaimLock(tx.candidates))
  /\ SF_vars(\/ \E e \in Endpoint : ClaimHalfOpen(e)
             \/ \E d \in Delivery : ClaimSelect(d))
  /\ WF_vars(ClaimCommit)
  /\ SF_vars(WorkerProgress)

FairSpec == Spec /\ Fairness
-----------------------------------------------------------------------------
(* Every variable holds values of the columns and task fields it stands
   for. *)
TypeOK ==
  /\ clock \in Nat
  /\ row \in [Delivery -> Row]
  /\ circuit \in [Endpoint -> Circuit]
  /\ claim \in [Token -> Claim]
  /\ attempts \subseteq Attempt
  /\ tx \in Tx
  /\ issued \in 0..MaxClaims
  /\ faults \in Nat

(* A row carries a lease token and an expiry exactly while it is processing:
   claim_due sets both, and finalization, release and cancellation never
   leave one behind. *)
LeaseShape ==
  \A d \in Delivery :
    LET leased == row[d].status = "processing"
    IN  /\ leased <=> row[d].lease_token # NULL
        /\ leased <=> row[d].lease_expires_at # NULL

(* A delivery never gets two attempt rows with one number, whatever crashes,
   stale workers and reclaims happen: the insert in _finalize cannot hit
   uq_attempts_delivery_number. *)
AttemptNumbersUnique ==
  \A a, b \in attempts :
    a.delivery = b.delivery /\ a.number = b.number => a = b

(* A succeeded or dead row agrees with its history: the attempt recorded under
   its current attempt_count has that outcome. *)
OutcomeMatchesLastAttempt ==
  \A d \in Delivery :
    row[d].status \in {"succeeded", "dead"} =>
      \E a \in attempts : /\ a.delivery = d
                          /\ a.number = row[d].attempt_count
                          /\ a.outcome = row[d].status

(* circuit_open_until and half_open_probe_delivery_id agree with the circuit
   state: an open circuit always has an end and no probe, a closed one has
   neither, a half-open one has no end. *)
CircuitShape ==
  \A e \in Endpoint :
    /\ circuit[e].state = "open" <=> circuit[e].open_until # NULL
    /\ circuit[e].probe # NULL => circuit[e].state = "half_open"

(* The probe of a half-open circuit is a delivery of that endpoint that is
   leased or waiting to be reclaimed.  A probe that ended without clearing
   the column would block its endpoint for good, because the scheduler lets
   no other delivery through. *)
ProbeIsUnfinished ==
  \A e \in Endpoint :
    LET p == circuit[e].probe
    IN  p # NULL => /\ EndpointOf[p] = e
                    /\ row[p].status \in {"processing", "retry_scheduled"}

NewlyLeased(d) == /\ row'[d].lease_token # NULL
                  /\ row'[d].lease_token # row[d].lease_token

(* An attempt row is written only for the latest claim of its delivery: a
   worker whose delivery was reclaimed in the meantime cannot finalize. *)
OnlyLatestClaimFinalizes ==
  [][\A a \in attempts' \ attempts :
       a.number = row[a.delivery].attempt_count]_vars

(* A claim leases nothing of a paused endpoint or of one whose circuit is
   open, and of a half-open one at most its probe, across every interleaving
   of the claim transaction with finalization and operators. *)
ClaimsRespectCircuit ==
  [][\A d \in Delivery :
       NewlyLeased(d) =>
         LET c == circuit'[EndpointOf[d]]
         IN  /\ ~c.paused
             /\ c.state # "open"
             /\ c.state = "half_open" => c.probe = d]_vars

(* Unexpired leases never exceed the deployment-wide, per-tenant and
   per-endpoint limits. *)
CapacityRespected ==
  LET live == {d \in Delivery : LiveAt(d, clock)}
  IN  /\ Cardinality(live) <= worker_global_concurrency
      /\ \A e \in Endpoint :
           Cardinality(live \cap DeliveriesOf(e)) <= endpoint_concurrency
      /\ \A o \in {OrganizationOf[e] : e \in Endpoint} :
           Cardinality({d \in live : OrganizationOf[EndpointOf[d]] = o})
             <= tenant_in_flight_deliveries

(* "Work stops at WEBHOOK_MAX_ATTEMPTS": a delivery gets no more attempt rows
   than that, through retries, reclaims and cancellations that race with a
   claim.  A claim whose worker crashed leaves no row and is not counted. *)
AttemptsBounded ==
  \A d \in Delivery :
    Cardinality({a \in attempts : a.delivery = d}) <= webhook_max_attempts

(* An accepted delivery is delivered or given up in the end: retries, open
   circuits, half-open probes and skipped rows only delay it. *)
EventuallyTerminal ==
  \A d \in Delivery :
    row[d].status # "absent" ~> row[d].status \in TerminalStatus

(* "Terminal rows are not reset in place." *)
TerminalRowsNotReset ==
  [][\A d \in Delivery : row[d].status \in TerminalStatus =>
                           row'[d].status = row[d].status]_vars

(* "the worker ... releases canceled claims for immediate recovery": a released
   or rescheduled delivery is claimed again. *)
RescheduledIsClaimed ==
  \A d \in Delivery :
    row[d].status = "retry_scheduled" ~> row[d].status # "retry_scheduled"
=============================================================================
