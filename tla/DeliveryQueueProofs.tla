------------------------ MODULE DeliveryQueueProofs -------------------------
(* Proofs about DeliveryQueue for every set of deliveries and endpoints and
   every setting: the values of its variables, then lease fencing and the
   circuit breaker. *)
EXTENDS DeliveryQueue, FiniteSetTheorems, TLAPS

(* the claim scan's candidates are due rows *)
LEMMA CandidatesAreDue ==
  ASSUME NEW due, NEW next, NEW ep, NEW org, NEW n, NEW m
  PROVE  fair_candidate_ids(due, next, ep, org, n, m) \subseteq due
BY Zenon DEF fair_candidate_ids

(* a count of deliveries is a number *)
LEMMA DeliveryCount ==
  ASSUME NEW S \in SUBSET Delivery
  PROVE  Cardinality(S) \in Nat
BY Zenon, DeliveryAssumption, FS_Subset, FS_CardinalityType DEF DeliveryAssumption

\* The idle worker is well typed.
LEMMA NoClaimType == NoClaim \in Claim
BY Zenon DEF Claim

(* a claim in flight names a delivery *)
LEMMA ActiveClaimType ==
  ASSUME NEW c \in Claim, c.phase # "none"
  PROVE  c \in ActiveClaim
BY DEF Claim, NoClaim

\* The idle claim transaction is well typed.
LEMMA NoTxType == NoTx \in Tx
BY DEF NoTx, Tx, ClosedCircuit, Circuit

(* what the row updates return *)
LEMMA LeasedRowType ==
  ASSUME NEW r \in Row, NEW token \in Token, NEW now \in Nat
  PROVE  LeasedRow(r, token, now) \in Row
<1>1. now + worker_lease_seconds \in Nat
  BY SettingsAssumption DEF SettingsAssumption
<1>2. "processing" \in Status
  BY Zenon DEF Status
<1>3. r.attempt_count + 1 \in Nat
  BY DEF Row
<1>. QED
  BY Zenon, <1>1, <1>2, <1>3 DEF Row, LeasedRow

\* Releasing a row keeps its type.
LEMMA UnleasedRowType ==
  ASSUME NEW r \in Row, NEW status \in Status, NEW next \in Nat
  PROVE  UnleasedRow(r, status, next) \in Row
BY Zenon DEF Row, UnleasedRow

(* what the circuit updates return *)
LEMMA CircuitAfterCancelType ==
  ASSUME NEW c \in Circuit, NEW d \in Delivery, NEW now \in Nat
  PROVE  CircuitAfterCancel(c, d, now) \in Circuit
BY Zenon DEF CircuitAfterCancel, Circuit

\* The circuit after an attempt is a circuit.
LEMMA CircuitAfterType ==
  ASSUME NEW c \in Circuit, NEW d \in Delivery, NEW now \in Nat,
         NEW result \in Result
  PROVE  CircuitAfter(c, d, result, now) \in Circuit
<1>1. ResetCircuit(c) \in Circuit
  BY Zenon DEF ResetCircuit, Circuit
<1>2. CASE result \in {"succeeded", "non_retryable"}
  BY Zenon, <1>1, <1>2 DEF CircuitAfter
<1>3. CASE result = "retryable"
  <2>. DEFINE until == now + endpoint_circuit_open_seconds
  <2>1. until \in Nat /\ c.failures + 1 \in Nat
    BY SettingsAssumption DEF SettingsAssumption, Circuit
  <2>2. /\ [c EXCEPT !.state = "open", !.failures = c.failures + 1,
                     !.open_until = until, !.probe = NULL] \in Circuit
        /\ [c EXCEPT !.failures = c.failures + 1] \in Circuit
    BY Zenon, <2>1 DEF Circuit
  <2>. QED
    BY Zenon, <1>3, <2>2 DEF CircuitAfter, CircuitAfterFailure
<1>4. CASE result = "max_delivery_age"
  BY Zenon, <1>4 DEF CircuitAfter, CircuitAfterAge, Circuit
<1>. QED
  BY Zenon, <1>2, <1>3, <1>4 DEF Result

-----------------------------------------------------------------------------
\* The first state.
LEMMA InitType == Init => TypeOK
<1>. SUFFICES ASSUME Init PROVE TypeOK
  BY Zenon
<1>1. row \in [Delivery -> Row]
  BY Zenon DEF Init, Row, Status
<1>2. circuit \in [Endpoint -> Circuit]
  BY Zenon DEF Init, ClosedCircuit, Circuit
<1>3. claim \in [Token -> Claim]
  BY Zenon, NoClaimType DEF Init
<1>4. clock \in Nat /\ attempts \subseteq Attempt /\ tx \in Tx
  BY Zenon, NoTxType DEF Init
<1>5. issued \in 0..MaxClaims /\ faults \in Nat
  BY BoundsAssumption DEF BoundsAssumption, Init
<1>. QED
  BY Zenon, <1>1, <1>2, <1>3, <1>4, <1>5 DEF TypeOK

(* the time, the rows and the circuits an action may use *)
LEMMA TxNowType ==
  ASSUME TypeOK, NEW lag, NEW now \in TxNow(lag)
  PROVE  now \in Nat
BY DEF TypeOK, TxNow

\* Time passes.
LEMMA TickType == TypeOK /\ Tick => TypeOK'
<1>. SUFFICES ASSUME TypeOK, Tick PROVE TypeOK'
  BY Zenon
<1>1. ASSUME NEW t \in Token, Running(t)
      PROVE  [claim[t] EXCEPT !.lag = MinOf(claim[t].lag + 1, MaxTxAge)]
               \in Claim
  <2>1. claim[t] \in ActiveClaim
    BY Zenon, <1>1, ActiveClaimType DEF Running, TypeOK
  <2>2. MinOf(claim[t].lag + 1, MaxTxAge) \in Nat
    BY <2>1, BoundsAssumption DEF BoundsAssumption, MinOf, ActiveClaim
  <2>. QED
    BY Zenon, <2>1, <2>2 DEF Claim, ActiveClaim
<1>2. claim' \in [Token -> Claim]
  BY Zenon, <1>1 DEF Tick, TypeOK
<1>3. clock' \in Nat
  BY DEF Tick, TypeOK
<1>. QED
  BY Zenon, <1>2, <1>3 DEF Tick, TypeOK

\* A delivery is accepted.
LEMMA AcceptType ==
  ASSUME TypeOK, NEW d \in Delivery, Accept(d)
  PROVE  TypeOK'
<1>1. PICK now \in TxNow(MaxTxAge) :
        row' = [row EXCEPT ![d].status = "pending", ![d].created_at = now,
                           ![d].next_attempt_at = now]
  BY Zenon DEF Accept
<1>2. now \in Nat /\ "pending" \in Status
  BY Zenon, TxNowType DEF Status
<1>3. row' \in [Delivery -> Row]
  BY ZenonT(60), <1>1, <1>2 DEF TypeOK, Row
<1>. QED
  BY Zenon, <1>3 DEF Accept, TypeOK

\* A claim begins.
LEMMA ClaimScanType ==
  ASSUME TypeOK, NEW requested \in 1..worker_batch_size, ClaimScan(requested)
  PROVE  TypeOK'
<1>1. PICK now \in TxNow(MaxTxAge) :
        LET live == {d \in Delivery : LiveAt(d, now)}
            available == MinOf(requested,
                               worker_global_concurrency - Cardinality(live))
            key == [d \in Delivery |-> row[d].next_attempt_at]
            candidates == fair_candidate_ids(
                            {d \in Delivery : DueAt(d, now)},
                            key, EndpointOf, OrganizationOf,
                            MaxOf(available * 2, endpoint_concurrency),
                            worker_candidate_scan_limit)
        IN  tx' = [NoTx EXCEPT !.stage = "scanned", !.now = now,
                               !.available = available,
                               !.candidates = candidates,
                               !.key = [d \in Delivery |->
                                          IF d \in candidates THEN key[d]
                                          ELSE 0]]
  BY Zenon DEF ClaimScan
<1>. DEFINE live == {d \in Delivery : LiveAt(d, now)}
            available == MinOf(requested,
                               worker_global_concurrency - Cardinality(live))
            key == [d \in Delivery |-> row[d].next_attempt_at]
            due == {d \in Delivery : DueAt(d, now)}
            candidates == fair_candidate_ids(due, key, EndpointOf,
                            OrganizationOf,
                            MaxOf(available * 2, endpoint_concurrency),
                            worker_candidate_scan_limit)
            scanned == [d \in Delivery |-> IF d \in candidates THEN key[d]
                                           ELSE 0]
<1>2. now \in Nat
  BY Zenon, TxNowType
<1>3. available \in Int
  <2>1. Cardinality(live) \in Nat
    BY Zenon, DeliveryCount
  <2>. QED
    BY <2>1, SettingsAssumption DEF SettingsAssumption, MinOf
<1>4. candidates \subseteq Delivery
  BY Zenon, CandidatesAreDue
<1>5. scanned \in [Delivery -> Nat]
  BY Zenon DEF TypeOK, Row
<1>6. tx' = [NoTx EXCEPT !.stage = "scanned", !.now = now,
                         !.available = available, !.candidates = candidates,
                         !.key = scanned]
  BY Zenon, <1>1
<1>. HIDE DEF available, candidates, scanned
<1>7. tx' \in Tx
  BY Zenon, <1>2, <1>3, <1>4, <1>5, <1>6, NoTxType DEF Tx
<1>. QED
  BY Zenon, <1>7 DEF ClaimScan, TypeOK

\* A claim gets its locks.
LEMMA ClaimLockType ==
  ASSUME TypeOK, NEW L \in SUBSET Delivery, ClaimLock(L)
  PROVE  TypeOK'
<1>1. tx' \in Tx
  BY Zenon, NoTxType DEF ClaimLock, TypeOK, Tx
<1>. QED
  BY Zenon, <1>1 DEF ClaimLock, TypeOK

\* A circuit turns half-open.
LEMMA ClaimHalfOpenType ==
  ASSUME TypeOK, NEW e \in Endpoint, ClaimHalfOpen(e)
  PROVE  TypeOK'
<1>0. tx.circuit[e] \in Circuit
  BY Zenon DEF TypeOK, Tx
<1>1. [tx.circuit[e] EXCEPT !.state = "half_open", !.open_until = NULL,
                            !.probe = NULL] \in Circuit
  BY Zenon, <1>0 DEF Circuit
<1>2. tx' = [tx EXCEPT !.circuit[e] =
               [tx.circuit[e] EXCEPT !.state = "half_open",
                                     !.open_until = NULL, !.probe = NULL]]
  BY Zenon DEF ClaimHalfOpen, TypeOK, Tx
<1>3. tx' \in Tx
  BY Zenon, <1>1, <1>2 DEF TypeOK, Tx
<1>. QED
  BY Zenon, <1>3 DEF ClaimHalfOpen, TypeOK

\* A delivery is selected.
LEMMA ClaimSelectType ==
  ASSUME TypeOK, NEW d \in Delivery, ClaimSelect(d)
  PROVE  TypeOK'
<1>. DEFINE e == EndpointOf[d]
            c == tx.circuit[e]
            probe == IF c.state = "half_open" THEN d ELSE c.probe
<1>1. e \in Endpoint /\ c \in Circuit
  BY Zenon, DeliveryAssumption DEF DeliveryAssumption, TypeOK, Tx
<1>2. issued + 1 \in Token /\ issued' = issued + 1
  BY BoundsAssumption DEF BoundsAssumption, ClaimSelect, TypeOK, Token
<1>3. [c EXCEPT !.probe = probe] \in Circuit
  BY Zenon, <1>1 DEF Circuit
<1>4. tx' = [tx EXCEPT !.token[d] = issued + 1,
                       !.circuit[e] = [c EXCEPT !.probe = probe]]
  BY Zenon, <1>1 DEF ClaimSelect, TypeOK, Tx
<1>5. tx' \in Tx
  BY Zenon, <1>1, <1>2, <1>3, <1>4 DEF TypeOK, Tx
<1>6. [phase |-> "selected", delivery |-> d,
       attempt_number |-> row[d].attempt_count + 1, lag |-> 0] \in Claim
  BY DEF Claim, ActiveClaim, TypeOK, Row
<1>7. claim' \in [Token -> Claim]
  BY Zenon, <1>2, <1>6 DEF ClaimSelect, TypeOK
<1>8. issued' \in 0..MaxClaims
  BY <1>2, BoundsAssumption DEF BoundsAssumption, Token
<1>. QED
  BY Zenon, <1>5, <1>7, <1>8 DEF ClaimSelect, TypeOK

\* A claim commits.
LEMMA ClaimCommitType == TypeOK /\ ClaimCommit => TypeOK'
<1>. SUFFICES ASSUME TypeOK, ClaimCommit PROVE TypeOK'
  BY Zenon
<1>1. ASSUME NEW d \in Delivery, tx.token[d] # NULL
      PROVE  LeasedRow(row[d], tx.token[d], tx.now) \in Row
  <2>1. tx.token[d] \in Token /\ tx.now \in Nat /\ row[d] \in Row
    BY Zenon, <1>1 DEF TypeOK, Tx
  <2>. QED
    BY Zenon, <2>1, LeasedRowType
<1>2. row' \in [Delivery -> Row]
  BY Zenon, <1>1 DEF ClaimCommit, TypeOK
<1>3. circuit' \in [Endpoint -> Circuit]
  BY Zenon DEF ClaimCommit, TypeOK, Tx
<1>4. ASSUME NEW t \in Token, claim[t].phase = "selected"
      PROVE  [claim[t] EXCEPT !.phase = "leased"] \in Claim
  <2>1. claim[t] \in ActiveClaim
    BY Zenon, <1>4, ActiveClaimType DEF TypeOK
  <2>. QED
    BY Zenon, <2>1 DEF Claim, ActiveClaim
<1>5. claim' \in [Token -> Claim]
  BY Zenon, <1>4 DEF ClaimCommit, TypeOK
<1>. QED
  BY Zenon, <1>2, <1>3, <1>5, NoTxType DEF ClaimCommit, TypeOK

\* A claim is rolled back.
LEMMA ClaimAbortType == TypeOK /\ ClaimAbort => TypeOK'
<1>. SUFFICES ASSUME TypeOK, ClaimAbort PROVE TypeOK'
  BY Zenon
<1>1. claim' \in [Token -> Claim]
  BY Zenon, NoClaimType DEF ClaimAbort, TypeOK
<1>. QED
  BY <1>1, NoTxType DEF ClaimAbort, TypeOK

(* ending a claim, and moving it to another phase *)
LEMMA DropClaimType ==
  ASSUME TypeOK, NEW t \in Token, claim' = [claim EXCEPT ![t] = NoClaim]
  PROVE  claim' \in [Token -> Claim]
BY Zenon, NoClaimType DEF TypeOK

\* A worker moves on.
LEMMA MoveClaimType ==
  ASSUME TypeOK, NEW t \in Token, claim[t].phase # "none",
         NEW phase \in {"selected", "leased", "sending"} \cup Result,
         claim' = [claim EXCEPT ![t].phase = phase, ![t].lag = 0]
  PROVE  claim' \in [Token -> Claim]
<1>1. claim[t] \in ActiveClaim
  BY Zenon, ActiveClaimType DEF TypeOK
<1>2. [claim[t] EXCEPT !.phase = phase, !.lag = 0] \in Claim
  BY Zenon, <1>1 DEF ActiveClaim, Claim
<1>3. claim' = [claim EXCEPT ![t] = [claim[t] EXCEPT !.phase = phase,
                                                     !.lag = 0]]
  BY Zenon DEF TypeOK
<1>. QED
  BY Zenon, <1>2, <1>3 DEF TypeOK

\* A lease is renewed.
LEMMA RenewLeaseType ==
  ASSUME TypeOK, NEW t \in Token, RenewLease(t)
  PROVE  TypeOK'
<1>. DEFINE d == claim[t].delivery
<1>1. claim[t] \in ActiveClaim
  BY Zenon, ActiveClaimType DEF TypeOK, RenewLease, Running
<1>2. PICK now \in TxNow(claim[t].lag) :
        row' = [row EXCEPT ![d].lease_expires_at = now + worker_lease_seconds]
  BY Zenon DEF RenewLease
<1>3. now + worker_lease_seconds \in Nat
  BY TxNowType, SettingsAssumption DEF SettingsAssumption
<1>4. row' \in [Delivery -> Row]
  BY ZenonT(60), <1>1, <1>2, <1>3 DEF TypeOK, Row, ActiveClaim
<1>5. [claim[t] EXCEPT !.lag = 0] \in Claim
  BY Zenon, <1>1 DEF ActiveClaim, Claim
<1>6. claim' \in [Token -> Claim]
  BY Zenon, <1>5 DEF RenewLease, TypeOK
<1>. QED
  BY Zenon, <1>4, <1>6 DEF RenewLease, TypeOK

\* A request is sent.
LEMMA StartAttemptType ==
  ASSUME TypeOK, NEW t \in Token, StartAttempt(t)
  PROVE  TypeOK'
<1>. DEFINE phase == IF clock >= Deadline(claim[t].delivery)
                     THEN "max_delivery_age" ELSE "sending"
<1>1. phase \in {"selected", "leased", "sending"} \cup Result
  BY Zenon DEF Result
<1>2. claim' = [claim EXCEPT ![t].phase = phase, ![t].lag = 0]
  BY Zenon DEF StartAttempt
<1>3. claim[t].phase # "none"
  BY Zenon DEF StartAttempt
<1>. HIDE DEF phase
<1>4. claim' \in [Token -> Claim]
  BY Zenon, <1>1, <1>2, <1>3, MoveClaimType
<1>. QED
  BY Zenon, <1>4 DEF StartAttempt, TypeOK

\* A request ends.
LEMMA EndAttemptType ==
  ASSUME TypeOK, NEW t \in Token, NEW result \in Result, EndAttempt(t, result)
  PROVE  TypeOK'
<1>1. claim' \in [Token -> Claim]
  BY Zenon, MoveClaimType DEF EndAttempt
<1>. QED
  BY Zenon, <1>1 DEF EndAttempt, TypeOK

\* The outcome of an attempt is a row and an attempt.
LEMMA OutcomeOfType ==
  ASSUME NEW d, NEW result, NEW number, NEW finished, NEW delay
  PROVE  /\ OutcomeOf(d, result, number, finished, delay) \in Outcome
         /\ OutcomeOf(d, result, number, finished, delay) \in Status
BY Zenon DEF OutcomeOf, Outcome, Status

(* what a finalization did, with its choices named *)
LEMMA FinalizeStep ==
  ASSUME TypeOK, NEW t \in Token, Finalize(t)
  PROVE  LET d == claim[t].delivery
             e == EndpointOf[d]
         IN  /\ claim[t] \in ActiveClaim
             /\ d \in Delivery
             /\ e \in Endpoint
             /\ claim[t].phase \in Result
             /\ \E finished \in Nat, outcome \in Outcome, next \in Nat :
                  /\ outcome \in Status
                  /\ HoldsLease(t, finished)
                  /\ circuit' = [circuit EXCEPT ![e] =
                       CircuitAfter(circuit[e], d, claim[t].phase, finished)]
                  /\ row' = [row EXCEPT ![d] =
                               UnleasedRow(row[d], outcome, next)]
                  /\ attempts' = attempts \cup
                       {[delivery |-> d, number |-> claim[t].attempt_number,
                         token |-> t, outcome |-> outcome]}
<1>. DEFINE d == claim[t].delivery
            e == EndpointOf[d]
            number == claim[t].attempt_number
<1>1. claim[t].phase \in Result
  BY Zenon DEF Finalize
<1>2. claim[t] \in ActiveClaim
  BY Zenon, <1>1, ActiveClaimType DEF TypeOK, Result
<1>3. d \in Delivery /\ e \in Endpoint
  BY Zenon, <1>2, DeliveryAssumption DEF DeliveryAssumption, ActiveClaim
<1>4. PICK finished \in TxNow(claim[t].lag), delay \in RetryDelay :
        LET outcome == OutcomeOf(d, claim[t].phase, number, finished, delay)
        IN  /\ HoldsLease(t, finished)
            /\ circuit' = [circuit EXCEPT ![e] =
                 CircuitAfter(@, d, claim[t].phase, finished)]
            /\ row' = [row EXCEPT ![d] = UnleasedRow(@, outcome,
                  IF outcome = "retry_scheduled" THEN finished + delay
                  ELSE finished)]
            /\ attempts' = attempts \cup
                  {[delivery |-> d, number |-> number, token |-> t,
                    outcome |-> outcome]}
  BY Zenon DEF Finalize
<1>. DEFINE outcome == OutcomeOf(d, claim[t].phase, number, finished, delay)
            next == IF outcome = "retry_scheduled" THEN finished + delay
                    ELSE finished
<1>5. finished \in Nat /\ next \in Nat
  BY TxNowType, SettingsAssumption DEF SettingsAssumption
<1>6. outcome \in Outcome /\ outcome \in Status
  BY Zenon, OutcomeOfType
<1>7. /\ HoldsLease(t, finished)
      /\ circuit' = [circuit EXCEPT ![e] =
           CircuitAfter(circuit[e], d, claim[t].phase, finished)]
      /\ row' = [row EXCEPT ![d] = UnleasedRow(row[d], outcome, next)]
      /\ attempts' = attempts \cup
           {[delivery |-> d, number |-> claim[t].attempt_number,
             token |-> t, outcome |-> outcome]}
  BY Zenon, <1>4
<1>. HIDE DEF outcome, next
<1>. QED
  BY Zenon, <1>1, <1>2, <1>3, <1>5, <1>6, <1>7

\* An attempt is recorded.
LEMMA FinalizeType ==
  ASSUME TypeOK, NEW t \in Token, Finalize(t)
  PROVE  TypeOK'
<1>. DEFINE d == claim[t].delivery
            e == EndpointOf[d]
<1>1. /\ claim[t] \in ActiveClaim /\ d \in Delivery /\ e \in Endpoint
      /\ claim[t].phase \in Result
  BY Zenon, FinalizeStep
<1>2. PICK finished \in Nat, outcome \in Outcome, next \in Nat :
        /\ outcome \in Status
        /\ circuit' = [circuit EXCEPT ![e] =
             CircuitAfter(circuit[e], d, claim[t].phase, finished)]
        /\ row' = [row EXCEPT ![d] = UnleasedRow(row[d], outcome, next)]
        /\ attempts' = attempts \cup
             {[delivery |-> d, number |-> claim[t].attempt_number,
               token |-> t, outcome |-> outcome]}
  BY Zenon, FinalizeStep
<1>3. row' \in [Delivery -> Row]
  BY Zenon, <1>1, <1>2, UnleasedRowType DEF TypeOK
<1>4. circuit' \in [Endpoint -> Circuit]
  BY Zenon, <1>1, <1>2, CircuitAfterType DEF TypeOK
<1>5. attempts' \subseteq Attempt
  BY <1>1, <1>2 DEF TypeOK, Attempt, ActiveClaim
<1>6. claim' \in [Token -> Claim]
  BY Zenon, DropClaimType DEF Finalize
<1>. QED
  BY Zenon, <1>3, <1>4, <1>5, <1>6 DEF Finalize, TypeOK

\* A worker notices that its lease is gone.
LEMMA LoseLeaseType ==
  ASSUME TypeOK, NEW t \in Token, LoseLease(t)
  PROVE  TypeOK'
<1>1. claim' \in [Token -> Claim]
  BY Zenon, DropClaimType DEF LoseLease
<1>. QED
  BY Zenon, <1>1 DEF LoseLease, TypeOK

\* A claim is released at shutdown.
LEMMA ReleaseClaimType ==
  ASSUME TypeOK, NEW t \in Token, ReleaseClaim(t)
  PROVE  TypeOK'
<1>. DEFINE d == claim[t].delivery
<1>1. d \in Delivery
  BY ActiveClaimType DEF ReleaseClaim, Running, TypeOK, ActiveClaim
<1>2. PICK now \in TxNow(claim[t].lag) :
        row' = [row EXCEPT ![d] = UnleasedRow(@, "retry_scheduled", now)]
  BY Zenon DEF ReleaseClaim
<1>3. now \in Nat /\ "retry_scheduled" \in Status
  BY Zenon, TxNowType DEF Status
<1>4. row' \in [Delivery -> Row]
  BY Zenon, <1>1, <1>2, <1>3, UnleasedRowType DEF TypeOK
<1>5. claim' \in [Token -> Claim]
  BY Zenon, DropClaimType DEF ReleaseClaim
<1>. QED
  BY <1>4, <1>5 DEF ReleaseClaim, TypeOK

\* A worker dies.
LEMMA CrashType ==
  ASSUME TypeOK, NEW t \in Token, Crash(t)
  PROVE  TypeOK'
<1>1. claim' \in [Token -> Claim]
  BY Zenon, DropClaimType DEF Crash
<1>. QED
  BY <1>1 DEF Crash, TypeOK

\* A delivery is canceled.
LEMMA CancelDeliveryType ==
  ASSUME TypeOK, NEW d \in Delivery, CancelDelivery(d)
  PROVE  TypeOK'
<1>. DEFINE e == EndpointOf[d]
<1>1. e \in Endpoint
  BY Zenon, DeliveryAssumption DEF DeliveryAssumption
<1>2. PICK now \in TxNow(MaxTxAge) :
        /\ row' = [row EXCEPT ![d].status = "canceled",
                              ![d].next_attempt_at = now]
        /\ circuit' = [circuit EXCEPT ![e] = CircuitAfterCancel(@, d, now)]
  BY Zenon DEF CancelDelivery
<1>3. now \in Nat /\ "canceled" \in Status
  BY Zenon, TxNowType DEF Status
<1>4. row' \in [Delivery -> Row]
  BY ZenonT(60), <1>2, <1>3 DEF TypeOK, Row
<1>5. circuit' \in [Endpoint -> Circuit]
  BY Zenon, <1>1, <1>2, <1>3, CircuitAfterCancelType DEF TypeOK
<1>. QED
  BY Zenon, <1>4, <1>5 DEF CancelDelivery, TypeOK

\* An endpoint is paused or resumed.
LEMMA SetPausedType ==
  ASSUME TypeOK, NEW e \in Endpoint, NEW paused \in BOOLEAN,
         SetPaused(e, paused)
  PROVE  TypeOK'
<1>1. circuit' \in [Endpoint -> Circuit]
  BY ZenonT(60) DEF SetPaused, TypeOK, Circuit
<1>. QED
  BY Zenon, <1>1 DEF SetPaused, TypeOK

\* A circuit is recovered.
LEMMA RecoverCircuitType ==
  ASSUME TypeOK, NEW e \in Endpoint, RecoverCircuit(e)
  PROVE  TypeOK'
<1>1. [ClosedCircuit EXCEPT !.paused = circuit[e].paused] \in Circuit
  BY Zenon DEF ClosedCircuit, Circuit, TypeOK
<1>2. circuit' \in [Endpoint -> Circuit]
  BY Zenon, <1>1 DEF RecoverCircuit, TypeOK
<1>. QED
  BY Zenon, <1>2 DEF RecoverCircuit, TypeOK

\* Every step preserves the types.
LEMMA NextType == TypeOK /\ [Next]_vars => TypeOK'
<1>. SUFFICES ASSUME TypeOK, [Next]_vars PROVE TypeOK'
  BY Zenon
<1>1. CASE Tick
  BY Zenon, <1>1, TickType
<1>2. CASE \E d \in Delivery : Accept(d)
  BY Zenon, <1>2, AcceptType
<1>3. CASE ClaimSteps
  BY Zenon, <1>3, ClaimScanType, ClaimLockType, ClaimHalfOpenType, ClaimSelectType,
     ClaimCommitType, ClaimAbortType DEF ClaimSteps
<1>4. CASE \E t \in Token : AttemptSteps(t)
  BY Zenon, <1>4, RenewLeaseType, StartAttemptType, EndAttemptType, FinalizeType,
     LoseLeaseType, ReleaseClaimType, CrashType DEF AttemptSteps
<1>5. CASE OperatorSteps
  BY Zenon, <1>5, CancelDeliveryType, SetPausedType, RecoverCircuitType
     DEF OperatorSteps
<1>6. CASE UNCHANGED vars
  BY Zenon, <1>6 DEF vars, TypeOK
<1>. QED
  BY Zenon, <1>1, <1>2, <1>3, <1>4, <1>5, <1>6 DEF Next

(* Every reachable state is well typed, for every number of deliveries,
   endpoints, tokens and for every setting: the rows, circuits and claims that
   claim_due, renewal, finalization, release and the operators write hold
   values of their columns. *)
THEOREM TypeCorrect == Spec => []TypeOK
BY InitType, NextType, PTL DEF Spec

-----------------------------------------------------------------------------
(* Lease fencing: the proof that a delivery's attempts are numbered without
   gaps in ownership, whatever workers crash, stall or are overtaken. *)

(* A token in the claim transaction stands for exactly one selected claim, and
   outside the transaction no claim is selected. *)
TokensTracked ==
  /\ \A t \in Token : t > issued => claim[t].phase = "none"
  /\ tx.stage # "locked" => \A d \in Delivery : tx.token[d] = NULL
  /\ \A d \in Delivery : tx.token[d] # NULL =>
       /\ claim[tx.token[d]].phase = "selected"
       /\ claim[tx.token[d]].delivery = d

(* A selected claim carries the number its row is about to get. *)
SelectedNumbers ==
  \A t \in Token : claim[t].phase = "selected" =>
    LET d == claim[t].delivery
    IN  /\ tx.token[d] = t
        /\ claim[t].attempt_number = row[d].attempt_count + 1

(* A running claim was numbered no later than its row, and has the row's
   number while the row still carries its token. *)
RunningNumbers ==
  \A t \in Token : Running(t) =>
    LET d == claim[t].delivery
    IN  /\ claim[t].attempt_number <= row[d].attempt_count
        /\ row[d].lease_token = t =>
             claim[t].attempt_number = row[d].attempt_count

(* Recorded attempts lie at or below their row's number, and strictly below
   while the row is leased for the next one. *)
RecordedNumbers ==
  \A a \in attempts :
    /\ a.number <= row[a.delivery].attempt_count
    /\ row[a.delivery].status = "processing" =>
         a.number < row[a.delivery].attempt_count

LeaseInv ==
  /\ TypeOK
  /\ LeaseShape
  /\ TokensTracked
  /\ SelectedNumbers
  /\ RunningNumbers
  /\ RecordedNumbers
  /\ AttemptNumbersUnique
  /\ OutcomeMatchesLastAttempt

-----------------------------------------------------------------------------
\* NULL is no token.
LEMMA NullNotToken == NULL \notin Token
BY DeliveryAssumption, BoundsAssumption
   DEF DeliveryAssumption, BoundsAssumption, Token

\* The first state: nothing is leased.
LEMMA InitLease == Init => LeaseInv
<1>. SUFFICES ASSUME Init PROVE LeaseInv
  BY Zenon
<1>1. TypeOK
  BY Zenon, InitType
<1>2. LeaseShape
  BY Zenon DEF Init, LeaseShape
<1>3. TokensTracked
  BY Zenon DEF Init, TokensTracked, NoClaim, NoTx
<1>4. SelectedNumbers /\ RunningNumbers
  BY Zenon DEF Init, SelectedNumbers, RunningNumbers, Running, NoClaim
<1>5. RecordedNumbers /\ AttemptNumbersUnique
  BY Zenon DEF Init, RecordedNumbers, AttemptNumbersUnique
<1>6. OutcomeMatchesLastAttempt
  BY Zenon DEF Init, OutcomeMatchesLastAttempt
<1>. QED
  BY Zenon, <1>1, <1>2, <1>3, <1>4, <1>5, <1>6 DEF LeaseInv

(* Steps that leave rows and attempts alone keep what is said of them. *)
LEMMA RecordsKept ==
  ASSUME LeaseInv, row' = row, attempts' = attempts
  PROVE  /\ LeaseShape'
         /\ RecordedNumbers'
         /\ AttemptNumbersUnique'
         /\ OutcomeMatchesLastAttempt'
BY Zenon DEF LeaseInv, LeaseShape, RecordedNumbers, AttemptNumbersUnique,
       OutcomeMatchesLastAttempt

(* Steps that select nothing, number nothing and issue nothing, and at most
   end running claims or lift leases, keep the numbering. *)
LEMMA NumbersKept ==
  ASSUME LeaseInv, TypeOK',
         issued' = issued,
         tx'.stage # "locked" => \A d \in Delivery : tx.token[d] = NULL,
         \A d \in Delivery : tx'.token[d] = tx.token[d],
         \A d \in Delivery :
           /\ row'[d].attempt_count = row[d].attempt_count
           /\ row'[d].lease_token \in {row[d].lease_token, NULL},
         \A t \in Token :
           \/ claim'[t].phase = "none" /\ claim[t].phase # "selected"
           \/ /\ claim'[t].delivery = claim[t].delivery
              /\ claim'[t].attempt_number = claim[t].attempt_number
              /\ claim'[t].phase = "none" <=> claim[t].phase = "none"
              /\ claim'[t].phase = "selected" <=> claim[t].phase = "selected"
  PROVE  TokensTracked' /\ SelectedNumbers' /\ RunningNumbers'
<1>1. ASSUME NEW d \in Delivery, tx.token[d] # NULL
      PROVE  tx.token[d] \in Token
  BY Zenon, <1>1 DEF LeaseInv, TypeOK, Tx
<1>2. TokensTracked'
  BY <1>1 DEF LeaseInv, TokensTracked
<1>3. ASSUME NEW t \in Token, claim[t].phase # "none"
      PROVE  claim[t].delivery \in Delivery
  BY <1>3, ActiveClaimType DEF LeaseInv, TypeOK, ActiveClaim
<1>4. SelectedNumbers'
  BY <1>3 DEF LeaseInv, SelectedNumbers
<1>5. RunningNumbers'
  BY <1>3, NullNotToken DEF LeaseInv, RunningNumbers, Running
<1>. QED
  BY Zenon, <1>2, <1>4, <1>5

-----------------------------------------------------------------------------
(* the steps that touch neither rows nor attempts *)
LEMMA TickLease == LeaseInv /\ Tick => LeaseInv'
<1>. SUFFICES ASSUME LeaseInv, Tick PROVE LeaseInv'
  BY Zenon
<1>1. TypeOK'
  BY Zenon, TickType DEF LeaseInv
<1>2. ASSUME NEW t \in Token
      PROVE  /\ claim'[t].phase = claim[t].phase
             /\ claim'[t].delivery = claim[t].delivery
             /\ claim'[t].attempt_number = claim[t].attempt_number
  <2>1. CASE Running(t)
    <3>1. claim[t] \in ActiveClaim
      BY Zenon, <2>1, ActiveClaimType DEF Running, LeaseInv, TypeOK
    <3>. QED
      BY Zenon, <2>1, <3>1 DEF Tick, ActiveClaim
  <2>2. CASE ~Running(t)
    BY Zenon, <2>2 DEF Tick
  <2>. QED
    BY Zenon, <2>1, <2>2
<1>3. TokensTracked' /\ SelectedNumbers' /\ RunningNumbers'
  <2>1. tx' = tx /\ issued' = issued /\ row' = row
    BY Zenon DEF Tick
  <2>2. tx'.stage # "locked" => \A d \in Delivery : tx.token[d] = NULL
    BY Zenon, <2>1 DEF LeaseInv, TokensTracked
  <2>. QED
    BY Zenon, <1>1, <1>2, <2>1, <2>2, NumbersKept
<1>. QED
  BY Zenon, <1>1, <1>3, RecordsKept DEF Tick, LeaseInv

\* The scan writes nothing.
LEMMA ClaimScanLease ==
  ASSUME LeaseInv, NEW requested \in 1..worker_batch_size,
         ClaimScan(requested)
  PROVE  LeaseInv'
<1>1. TypeOK'
  BY Zenon, ClaimScanType DEF LeaseInv
<1>2. \A d \in Delivery : tx.token[d] = NULL
  BY Zenon DEF ClaimScan, LeaseInv, TokensTracked
<1>3. \A d \in Delivery : tx'.token[d] = NULL
  BY DEF ClaimScan, NoTx
<1>4. UNCHANGED <<row, claim, attempts, issued>>
  BY Zenon DEF ClaimScan
<1>5. TokensTracked' /\ SelectedNumbers' /\ RunningNumbers'
  BY Zenon, <1>1, <1>2, <1>3, <1>4, NumbersKept
<1>. QED
  BY Zenon, <1>1, <1>4, <1>5, RecordsKept DEF LeaseInv

\* The locks of a claim.
LEMMA ClaimLockLease ==
  ASSUME LeaseInv, NEW L \in SUBSET Delivery, ClaimLock(L)
  PROVE  LeaseInv'
<1>1. TypeOK'
  BY Zenon, ClaimLockType DEF LeaseInv
<1>2. \A d \in Delivery : tx.token[d] = NULL
  BY Zenon DEF ClaimLock, LeaseInv, TokensTracked
<1>3. \A d \in Delivery : tx'.token[d] = NULL
  <2>1. CASE L = {}
    BY Zenon, <2>1 DEF ClaimLock, NoTx
  <2>2. CASE L # {}
    BY Zenon, <1>2, <2>2 DEF ClaimLock, LeaseInv, TypeOK, Tx
  <2>. QED
    BY Zenon, <2>1, <2>2
<1>4. UNCHANGED <<row, claim, attempts, issued>>
  BY Zenon DEF ClaimLock
<1>5. TokensTracked' /\ SelectedNumbers' /\ RunningNumbers'
  BY Zenon, <1>1, <1>2, <1>3, <1>4, NumbersKept
<1>. QED
  BY Zenon, <1>1, <1>4, <1>5, RecordsKept DEF LeaseInv

\* Half-open circuits do not touch rows.
LEMMA ClaimHalfOpenLease ==
  ASSUME LeaseInv, NEW e \in Endpoint, ClaimHalfOpen(e)
  PROVE  LeaseInv'
<1>1. TypeOK'
  BY Zenon, ClaimHalfOpenType DEF LeaseInv
<1>2. tx'.token = tx.token /\ tx'.stage = tx.stage
  BY Zenon DEF ClaimHalfOpen, LeaseInv, TypeOK, Tx
<1>3. UNCHANGED <<row, claim, attempts, issued>>
  BY Zenon DEF ClaimHalfOpen
<1>4. tx'.stage # "locked" => \A d \in Delivery : tx.token[d] = NULL
  BY Zenon, <1>2 DEF LeaseInv, TokensTracked
<1>5. TokensTracked' /\ SelectedNumbers' /\ RunningNumbers'
  BY Zenon, <1>1, <1>2, <1>3, <1>4, NumbersKept
<1>. QED
  BY Zenon, <1>1, <1>3, <1>5, RecordsKept DEF LeaseInv

(* moving a claim between phases, or ending it, with its row as it was *)
LEMMA ClaimMoveLease ==
  ASSUME LeaseInv, TypeOK', NEW t \in Token, Running(t),
         UNCHANGED <<row, attempts, tx, issued>>,
         \A x \in Token \ {t} : claim'[x] = claim[x],
         \/ claim'[t].phase = "none"
         \/ /\ claim'[t].delivery = claim[t].delivery
            /\ claim'[t].attempt_number = claim[t].attempt_number
            /\ claim'[t].phase \notin {"none", "selected"}
  PROVE  LeaseInv'
<1>1. tx'.stage # "locked" => \A d \in Delivery : tx.token[d] = NULL
  BY Zenon DEF LeaseInv, TokensTracked
<1>2. TokensTracked' /\ SelectedNumbers' /\ RunningNumbers'
  BY Zenon, <1>1, NumbersKept DEF Running
<1>. QED
  BY Zenon, <1>2, RecordsKept DEF LeaseInv

\* Sending writes nothing.
LEMMA StartAttemptLease ==
  ASSUME LeaseInv, NEW t \in Token, StartAttempt(t)
  PROVE  LeaseInv'
<1>1. TypeOK'
  BY Zenon, StartAttemptType DEF LeaseInv
<1>2. claim[t] \in ActiveClaim
  BY Zenon, ActiveClaimType DEF StartAttempt, LeaseInv, TypeOK
<1>3. /\ claim'[t].delivery = claim[t].delivery
      /\ claim'[t].attempt_number = claim[t].attempt_number
      /\ claim'[t].phase \notin {"none", "selected"}
  BY Zenon, <1>2 DEF StartAttempt, LeaseInv, TypeOK, ActiveClaim
<1>. QED
  BY Zenon, <1>1, <1>3, ClaimMoveLease DEF StartAttempt, Running, LeaseInv, TypeOK

\* The end of a request writes nothing.
LEMMA EndAttemptLease ==
  ASSUME LeaseInv, NEW t \in Token, NEW result \in Result,
         EndAttempt(t, result)
  PROVE  LeaseInv'
<1>1. TypeOK'
  BY Zenon, EndAttemptType DEF LeaseInv
<1>2. claim[t] \in ActiveClaim
  BY Zenon, ActiveClaimType DEF EndAttempt, LeaseInv, TypeOK
<1>3. /\ claim'[t].delivery = claim[t].delivery
      /\ claim'[t].attempt_number = claim[t].attempt_number
      /\ claim'[t].phase \notin {"none", "selected"}
  BY Zenon, <1>2 DEF EndAttempt, LeaseInv, TypeOK, ActiveClaim, Result
<1>. QED
  BY Zenon, <1>1, <1>3, ClaimMoveLease DEF EndAttempt, Running, LeaseInv, TypeOK

\* A worker that lost its lease writes nothing.
LEMMA LoseLeaseLease ==
  ASSUME LeaseInv, NEW t \in Token, LoseLease(t) \/ Crash(t)
  PROVE  LeaseInv'
<1>1. TypeOK'
  BY Zenon, LoseLeaseType, CrashType DEF LeaseInv
<1>2. /\ Running(t)
      /\ claim' = [claim EXCEPT ![t] = NoClaim]
      /\ UNCHANGED <<row, attempts, tx, issued>>
  BY Zenon DEF LoseLease, Crash
<1>. QED
  BY Zenon, <1>1, <1>2, ClaimMoveLease DEF LeaseInv, TypeOK, NoClaim

-----------------------------------------------------------------------------
(* the steps that write rows but neither number nor record an attempt *)
LEMMA RowWriteLease ==
  ASSUME LeaseInv, TypeOK', LeaseShape',
         UNCHANGED <<attempts, tx, issued>>,
         NEW d \in Delivery,
         \A x \in Delivery \ {d} : row'[x] = row[x],
         row'[d].attempt_count = row[d].attempt_count,
         row'[d].lease_token \in {row[d].lease_token, NULL},
         row'[d].status = "processing" => row[d].status = "processing",
         row'[d].status \notin {"succeeded", "dead"},
         \A t \in Token :
           \/ claim'[t].phase = "none" /\ claim[t].phase # "selected"
           \/ /\ claim'[t].delivery = claim[t].delivery
              /\ claim'[t].attempt_number = claim[t].attempt_number
              /\ claim'[t].phase = claim[t].phase
  PROVE  LeaseInv'
<1>1. tx'.stage # "locked" => \A x \in Delivery : tx.token[x] = NULL
  BY Zenon DEF LeaseInv, TokensTracked
<1>2. TokensTracked' /\ SelectedNumbers' /\ RunningNumbers'
  BY Zenon, <1>1, NumbersKept
<1>3. \A a \in attempts : a.delivery \in Delivery
  BY Zenon DEF LeaseInv, TypeOK, Attempt
<1>4. RecordedNumbers'
  BY Zenon, <1>3 DEF LeaseInv, RecordedNumbers
<1>5. AttemptNumbersUnique'
  BY Zenon DEF LeaseInv, AttemptNumbersUnique
<1>6. OutcomeMatchesLastAttempt'
  BY DEF LeaseInv, OutcomeMatchesLastAttempt
<1>. QED
  BY Zenon, <1>2, <1>4, <1>5, <1>6 DEF LeaseInv

\* A new row has no lease and no attempts.
LEMMA AcceptLease ==
  ASSUME LeaseInv, NEW d \in Delivery, Accept(d)
  PROVE  LeaseInv'
<1>1. TypeOK'
  BY Zenon, AcceptType DEF LeaseInv
<1>2. /\ \A x \in Delivery \ {d} : row'[x] = row[x]
      /\ row'[d].attempt_count = row[d].attempt_count
      /\ row'[d].lease_token = row[d].lease_token
      /\ row'[d].lease_expires_at = row[d].lease_expires_at
      /\ row'[d].status = "pending"
      /\ row[d].status = "absent"
  BY DEF Accept, LeaseInv, TypeOK, Row
<1>3. LeaseShape'
  BY Zenon, <1>2 DEF LeaseInv, LeaseShape
<1>. QED
  BY Zenon, <1>1, <1>2, <1>3, RowWriteLease DEF Accept

\* A canceled row has no lease.
LEMMA CancelDeliveryLease ==
  ASSUME LeaseInv, NEW d \in Delivery, CancelDelivery(d)
  PROVE  LeaseInv'
<1>1. TypeOK'
  BY Zenon, CancelDeliveryType DEF LeaseInv
<1>2. /\ \A x \in Delivery \ {d} : row'[x] = row[x]
      /\ row'[d].attempt_count = row[d].attempt_count
      /\ row'[d].lease_token = row[d].lease_token
      /\ row'[d].lease_expires_at = row[d].lease_expires_at
      /\ row'[d].status = "canceled"
      /\ row[d].status # "processing"
  BY DEF CancelDelivery, LeaseInv, TypeOK, Row
<1>3. LeaseShape'
  BY Zenon, <1>2 DEF LeaseInv, LeaseShape
<1>. QED
  BY Zenon, <1>1, <1>2, <1>3, RowWriteLease DEF CancelDelivery

\* Only the holder of the token releases.
LEMMA ReleaseClaimLease ==
  ASSUME LeaseInv, NEW t \in Token, ReleaseClaim(t)
  PROVE  LeaseInv'
<1>. DEFINE d == claim[t].delivery
<1>1. TypeOK'
  BY Zenon, ReleaseClaimType DEF LeaseInv
<1>2. d \in Delivery
  BY ActiveClaimType DEF ReleaseClaim, Running, LeaseInv, TypeOK, ActiveClaim
<1>3. /\ \A x \in Delivery \ {d} : row'[x] = row[x]
      /\ row'[d].attempt_count = row[d].attempt_count
      /\ row'[d].lease_token = NULL
      /\ row'[d].lease_expires_at = NULL
      /\ row'[d].status = "retry_scheduled"
  BY <1>2 DEF ReleaseClaim, UnleasedRow, LeaseInv, TypeOK, Row
<1>4. LeaseShape'
  BY ZenonT(60), <1>3 DEF LeaseInv, LeaseShape
<1>5. claim' = [claim EXCEPT ![t] = NoClaim] /\ Running(t)
  BY Zenon DEF ReleaseClaim
<1>6. \A x \in Token :
        \/ claim'[x].phase = "none" /\ claim[x].phase # "selected"
        \/ claim'[x] = claim[x]
  BY Zenon, <1>5 DEF LeaseInv, TypeOK, NoClaim, Running
<1>7. UNCHANGED <<attempts, tx, issued>>
  BY Zenon DEF ReleaseClaim
<1>. QED
  BY Zenon, <1>1, <1>2, <1>3, <1>4, <1>6, <1>7, RowWriteLease

\* Only the holder of the token renews.
LEMMA RenewLeaseLease ==
  ASSUME LeaseInv, NEW t \in Token, RenewLease(t)
  PROVE  LeaseInv'
<1>. DEFINE d == claim[t].delivery
<1>1. TypeOK'
  BY Zenon, RenewLeaseType DEF LeaseInv
<1>2. claim[t] \in ActiveClaim /\ d \in Delivery
  BY ActiveClaimType DEF RenewLease, LeaseInv, TypeOK, ActiveClaim
<1>3. PICK now \in TxNow(claim[t].lag) :
        /\ HoldsLease(t, now)
        /\ row' = [row EXCEPT ![d].lease_expires_at =
                                now + worker_lease_seconds]
  BY Zenon DEF RenewLease
<1>4. now + worker_lease_seconds # NULL
  <2>1. now \in Nat
    BY Zenon, TxNowType DEF LeaseInv
  <2>2. now + worker_lease_seconds \in Int
    BY <2>1, SettingsAssumption DEF SettingsAssumption
  <2>. QED
    BY Zenon, <2>2, DeliveryAssumption DEF DeliveryAssumption
<1>5. /\ \A x \in Delivery \ {d} : row'[x] = row[x]
      /\ row'[d].attempt_count = row[d].attempt_count
      /\ row'[d].lease_token = row[d].lease_token
      /\ row'[d].lease_expires_at # NULL
      /\ row'[d].status = row[d].status
      /\ row[d].status = "processing"
  BY Zenon, <1>2, <1>3, <1>4 DEF LeaseInv, TypeOK, Row, HoldsLease
<1>6. LeaseShape'
  BY ZenonT(60), <1>5 DEF LeaseInv, LeaseShape
<1>7. \A x \in Token : /\ claim'[x].delivery = claim[x].delivery
                       /\ claim'[x].attempt_number = claim[x].attempt_number
                       /\ claim'[x].phase = claim[x].phase
  BY Zenon, <1>2 DEF RenewLease, LeaseInv, TypeOK, ActiveClaim
<1>8. UNCHANGED <<attempts, tx, issued>>
  BY Zenon DEF RenewLease
<1>. QED
  BY Zenon, <1>1, <1>2, <1>5, <1>6, <1>7, <1>8, RowWriteLease

-----------------------------------------------------------------------------
(* Finalization: the token still on the row gives the claim the row's number,
   which no recorded attempt has. *)
LEMMA FinalizeNumber ==
  ASSUME LeaseInv, NEW t \in Token, Finalize(t)
  PROVE  LET d == claim[t].delivery
         IN  /\ d \in Delivery
             /\ row[d].status = "processing"
             /\ row[d].lease_token = t
             /\ claim[t].attempt_number = row[d].attempt_count
<1>. DEFINE d == claim[t].delivery
<1>1. /\ d \in Delivery
      /\ claim[t].phase \in Result
      /\ \E finished \in Nat : HoldsLease(t, finished)
  BY Zenon, FinalizeStep DEF LeaseInv
<1>2. Running(t)
  BY Zenon, <1>1 DEF Running, Result
<1>3. row[d].status = "processing" /\ row[d].lease_token = t
  BY Zenon, <1>1 DEF HoldsLease
<1>. QED
  BY Zenon, <1>1, <1>2, <1>3 DEF LeaseInv, RunningNumbers

\* Only the holder of the token records its attempt.
LEMMA FinalizeLease ==
  ASSUME LeaseInv, NEW t \in Token, Finalize(t)
  PROVE  LeaseInv'
<1>. DEFINE d == claim[t].delivery
            number == claim[t].attempt_number
<1>1. TypeOK'
  BY Zenon, FinalizeType DEF LeaseInv
<1>2. /\ d \in Delivery
      /\ row[d].status = "processing"
      /\ number = row[d].attempt_count
  BY Zenon, FinalizeNumber
<1>3. PICK outcome \in Outcome, next \in Nat :
        /\ row' = [row EXCEPT ![d] = UnleasedRow(row[d], outcome, next)]
        /\ attempts' = attempts \cup
             {[delivery |-> d, number |-> number, token |-> t,
               outcome |-> outcome]}
  BY Zenon, FinalizeStep DEF LeaseInv
<1>. DEFINE new == [delivery |-> d, number |-> number, token |-> t,
                    outcome |-> outcome]
<1>4. /\ \A x \in Delivery \ {d} : row'[x] = row[x]
      /\ row'[d].attempt_count = row[d].attempt_count
      /\ row'[d].lease_token = NULL
      /\ row'[d].lease_expires_at = NULL
      /\ row'[d].status = outcome
  BY ZenonT(60), <1>2, <1>3 DEF UnleasedRow, LeaseInv, TypeOK, Row
<1>5. outcome # "processing"
  BY Zenon DEF Outcome
<1>6. /\ claim' = [claim EXCEPT ![t] = NoClaim]
      /\ claim[t].phase # "selected"
      /\ UNCHANGED <<tx, issued>>
  BY Zenon DEF Finalize, Result
<1>7. \A x \in Token :
        \/ claim'[x].phase = "none" /\ claim[x].phase # "selected"
        \/ claim'[x] = claim[x]
  BY Zenon, <1>6 DEF LeaseInv, TypeOK, NoClaim
<1>8. tx'.stage # "locked" => \A x \in Delivery : tx.token[x] = NULL
  BY Zenon, <1>6 DEF LeaseInv, TokensTracked
<1>9. TokensTracked' /\ SelectedNumbers' /\ RunningNumbers'
  <2>1. \A x \in Delivery :
          /\ row'[x].attempt_count = row[x].attempt_count
          /\ row'[x].lease_token \in {row[x].lease_token, NULL}
    BY Zenon, <1>4
  <2>. QED
    BY Zenon, <1>1, <1>6, <1>7, <1>8, <2>1, NumbersKept
<1>10. LeaseShape'
  BY Zenon, <1>4, <1>5 DEF LeaseInv, LeaseShape
<1>11. \A a \in attempts : a.delivery \in Delivery /\ a.number \in Nat
  BY Zenon DEF LeaseInv, TypeOK, Attempt
<1>12. number \in Nat
  BY Zenon, <1>2 DEF LeaseInv, TypeOK, Row
<1>13. \A a \in attempts : a.delivery = d => a.number < number
  BY Zenon, <1>2 DEF LeaseInv, RecordedNumbers
<1>14. RecordedNumbers'
  <2>1. ASSUME NEW a \in attempts
        PROVE  /\ a.number <= row'[a.delivery].attempt_count
               /\ row'[a.delivery].status = "processing" =>
                    a.number < row'[a.delivery].attempt_count
    BY Zenon, <1>4, <1>5, <1>11 DEF LeaseInv, RecordedNumbers
  <2>2. /\ new.number <= row'[new.delivery].attempt_count
        /\ row'[new.delivery].status # "processing"
    BY <1>2, <1>4, <1>5, <1>12
  <2>. QED
    BY Zenon, <1>3, <2>1, <2>2 DEF RecordedNumbers
<1>15. AttemptNumbersUnique'
  <2>1. \A a \in attempts : a.delivery = d => a.number # number
    BY <1>11, <1>12, <1>13
  <2>. QED
    BY <1>3, <2>1 DEF LeaseInv, AttemptNumbersUnique
<1>16. OutcomeMatchesLastAttempt'
  <2>1. ASSUME NEW x \in Delivery, x # d,
               row'[x].status \in {"succeeded", "dead"}
        PROVE  \E a \in attempts' : /\ a.delivery = x
                                    /\ a.number = row'[x].attempt_count
                                    /\ a.outcome = row'[x].status
    BY SMTT(30), <1>3, <1>4, <2>1 DEF LeaseInv, OutcomeMatchesLastAttempt
  <2>2. new \in attempts' /\ new.delivery = d
          /\ new.number = row'[d].attempt_count /\ new.outcome = row'[d].status
    BY Zenon, <1>2, <1>3, <1>4
  <2>. QED
    BY Zenon, <2>1, <2>2 DEF OutcomeMatchesLastAttempt
<1>. QED
  BY Zenon, <1>1, <1>9, <1>10, <1>14, <1>15, <1>16 DEF LeaseInv

\* Selected rows are known and distinct.
LEMMA ClaimSelectLease ==
  ASSUME LeaseInv, NEW d \in Delivery, ClaimSelect(d)
  PROVE  LeaseInv'
<1>. DEFINE t == issued + 1
            number == row[d].attempt_count + 1
<1>1. TypeOK'
  BY Zenon, ClaimSelectType DEF LeaseInv
<1>2. t \in Token /\ issued' = t /\ issued \in Nat
  BY BoundsAssumption
     DEF BoundsAssumption, ClaimSelect, LeaseInv, TypeOK, Token
<1>3. /\ tx.stage = "locked" /\ tx.token[d] = NULL
      /\ UNCHANGED <<row, attempts>>
  BY Zenon DEF ClaimSelect, Visits, IsHead, Queue
<1>4. /\ tx'.stage = tx.stage
      /\ tx'.token = [tx.token EXCEPT ![d] = t]
  BY Zenon DEF ClaimSelect, LeaseInv, TypeOK, Tx
<1>5. claim' = [claim EXCEPT ![t] = [phase |-> "selected", delivery |-> d,
                                     attempt_number |-> number, lag |-> 0]]
  BY Zenon DEF ClaimSelect
<1>6. claim[t].phase = "none"
  BY <1>2 DEF LeaseInv, TokensTracked
<1>7. \A x \in Delivery : x # d => tx'.token[x] = tx.token[x]
  BY Zenon, <1>4 DEF LeaseInv, TypeOK, Tx
<1>8. tx'.token[d] = t
  BY Zenon, <1>4 DEF LeaseInv, TypeOK, Tx
<1>9. /\ \A x \in Token \ {t} : claim'[x] = claim[x]
      /\ claim'[t].phase = "selected"
      /\ claim'[t].delivery = d
      /\ claim'[t].attempt_number = number
  BY Zenon, <1>2, <1>5 DEF LeaseInv, TypeOK
<1>10. \A x \in Delivery : tx.token[x] # NULL => tx.token[x] \in Token \ {t}
  BY SMTT(30), <1>6 DEF LeaseInv, TokensTracked, TypeOK, Tx
<1>11. TokensTracked'
  <2>1. \A x \in Token : x > issued' => claim'[x].phase = "none"
    BY <1>2, <1>9 DEF LeaseInv, TokensTracked, Token
  <2>2. ASSUME NEW x \in Delivery, tx'.token[x] # NULL
        PROVE  /\ claim'[tx'.token[x]].phase = "selected"
               /\ claim'[tx'.token[x]].delivery = x
    BY <1>7, <1>8, <1>9, <1>10, <2>2 DEF LeaseInv, TokensTracked
  <2>. QED
    BY Zenon, <1>3, <1>4, <2>1, <2>2 DEF TokensTracked
<1>12. ASSUME NEW x \in Token, claim[x].phase # "none"
       PROVE  claim[x].delivery \in Delivery
  BY SMTT(30), <1>12, ActiveClaimType DEF LeaseInv, TypeOK, ActiveClaim
<1>13. SelectedNumbers'
  <2>1. ASSUME NEW x \in Token, x # t, claim[x].phase = "selected"
        PROVE  claim[x].delivery # d
    BY ZenonT(60), <1>2, <1>3, <2>1, NullNotToken DEF LeaseInv, SelectedNumbers
  <2>. QED
    BY SMTT(30), <1>3, <1>7, <1>8, <1>9, <1>12, <2>1 DEF LeaseInv, SelectedNumbers
<1>14. RunningNumbers'
  BY Zenon, <1>3, <1>9 DEF LeaseInv, RunningNumbers, Running
<1>. QED
  BY Zenon, <1>1, <1>3, <1>11, <1>13, <1>14, RecordsKept DEF LeaseInv

(* The claim transaction commits: the new number exceeds every recorded one
   and every number a running claim of the row holds. *)
LEMMA ClaimCommitLease ==
  ASSUME LeaseInv, ClaimCommit
  PROVE  LeaseInv'
<1>1. TypeOK'
  BY Zenon, ClaimCommitType DEF LeaseInv
<1>2. ASSUME NEW d \in Delivery, tx.token[d] = NULL
      PROVE  row'[d] = row[d]
  BY Zenon, <1>2 DEF ClaimCommit
<1>3. ASSUME NEW d \in Delivery, tx.token[d] # NULL
      PROVE  /\ row'[d].status = "processing"
             /\ row'[d].attempt_count = row[d].attempt_count + 1
             /\ row'[d].lease_token = tx.token[d]
             /\ row'[d].lease_expires_at # NULL
  <2>1. row'[d] = LeasedRow(row[d], tx.token[d], tx.now)
    BY Zenon, <1>3 DEF ClaimCommit
  <2>2. tx.now + worker_lease_seconds \in Int
    BY SettingsAssumption DEF SettingsAssumption, LeaseInv, TypeOK, Tx
  <2>3. row[d] \in Row
    BY Zenon DEF LeaseInv, TypeOK
  <2>. QED
    BY <2>1, <2>2, <2>3, DeliveryAssumption
       DEF DeliveryAssumption, LeasedRow, Row
<1>4. UNCHANGED <<attempts, issued>> /\ tx' = NoTx
  BY Zenon DEF ClaimCommit
<1>5. ASSUME NEW t \in Token
      PROVE  /\ claim'[t].delivery = claim[t].delivery
             /\ claim'[t].attempt_number = claim[t].attempt_number
             /\ claim'[t].phase = IF claim[t].phase = "selected"
                                  THEN "leased" ELSE claim[t].phase
  <2>1. CASE claim[t].phase = "selected"
    <3>1. claim[t] \in ActiveClaim
      BY Zenon, <2>1, ActiveClaimType DEF LeaseInv, TypeOK
    <3>. QED
      BY Zenon, <2>1, <3>1 DEF ClaimCommit, ActiveClaim
  <2>2. CASE claim[t].phase # "selected"
    BY Zenon, <2>2 DEF ClaimCommit
  <2>. QED
    BY Zenon, <2>1, <2>2
<1>6. TokensTracked'
  BY Zenon, <1>4, <1>5 DEF LeaseInv, TokensTracked, NoTx
<1>7. SelectedNumbers'
  BY Zenon, <1>5 DEF SelectedNumbers
<1>8. \A d \in Delivery : row[d].attempt_count \in Nat
  BY Zenon DEF LeaseInv, TypeOK, Row
<1>9. ASSUME NEW t \in Token, claim[t].phase # "none"
      PROVE  claim[t].delivery \in Delivery /\ claim[t].attempt_number \in Nat
  BY <1>9, ActiveClaimType DEF LeaseInv, TypeOK, ActiveClaim
<1>10. RunningNumbers'
  <2>. SUFFICES ASSUME NEW t \in Token, Running(t)'
                PROVE  LET d == claim[t].delivery
                       IN  /\ claim[t].attempt_number <= row'[d].attempt_count
                           /\ row'[d].lease_token = t =>
                                claim[t].attempt_number = row'[d].attempt_count
    BY Zenon, <1>5 DEF RunningNumbers
  <2>. DEFINE d == claim[t].delivery
  <2>1. claim[t].phase # "none"
    BY Zenon, <1>5 DEF Running
  <2>2. CASE claim[t].phase = "selected"
    <3>1. tx.token[d] = t /\ claim[t].attempt_number = row[d].attempt_count + 1
      BY Zenon, <2>2 DEF LeaseInv, SelectedNumbers
    <3>2. tx.token[d] # NULL
      BY Zenon, <3>1, NullNotToken
    <3>. QED
      BY <1>3, <1>8, <1>9, <2>1, <3>1, <3>2
  <2>3. CASE claim[t].phase # "selected"
    <3>1. /\ claim[t].attempt_number <= row[d].attempt_count
          /\ row[d].lease_token = t =>
               claim[t].attempt_number = row[d].attempt_count
      BY Zenon, <2>1, <2>3 DEF LeaseInv, RunningNumbers, Running
    <3>2. CASE tx.token[d] = NULL
      BY Zenon, <1>2, <1>9, <2>1, <3>1, <3>2
    <3>3. CASE tx.token[d] # NULL
      <4>1. claim[tx.token[d]].phase = "selected"
        BY Zenon, <1>9, <2>1, <3>3 DEF LeaseInv, TokensTracked
      <4>2. tx.token[d] # t
        BY Zenon, <2>3, <4>1
      <4>. QED
        BY SMTT(30), <1>3, <1>8, <1>9, <2>1, <3>1, <3>3, <4>2
    <3>. QED
      BY Zenon, <3>2, <3>3
  <2>. QED
    BY Zenon, <2>2, <2>3
<1>11. LeaseShape'
  BY Zenon, <1>2, <1>3 DEF LeaseInv, LeaseShape
<1>12. \A a \in attempts : a.delivery \in Delivery /\ a.number \in Nat
  BY Zenon DEF LeaseInv, TypeOK, Attempt
<1>13. RecordedNumbers'
  <2>1. ASSUME NEW a \in attempts
        PROVE  /\ a.number <= row'[a.delivery].attempt_count
               /\ row'[a.delivery].status = "processing" =>
                    a.number < row'[a.delivery].attempt_count
    <3>1. a.number <= row[a.delivery].attempt_count
      BY Zenon DEF LeaseInv, RecordedNumbers
    <3>2. CASE tx.token[a.delivery] = NULL
      BY Zenon, <1>2, <1>12, <3>2 DEF LeaseInv, RecordedNumbers
    <3>3. CASE tx.token[a.delivery] # NULL
      BY <1>3, <1>8, <1>12, <3>1, <3>3
    <3>. QED
      BY Zenon, <3>2, <3>3
  <2>. QED
    BY Zenon, <1>4, <2>1 DEF RecordedNumbers
<1>14. AttemptNumbersUnique'
  BY Zenon, <1>4 DEF LeaseInv, AttemptNumbersUnique
<1>15. OutcomeMatchesLastAttempt'
  BY <1>2, <1>3, <1>4 DEF LeaseInv, OutcomeMatchesLastAttempt
<1>. QED
  BY Zenon, <1>1, <1>6, <1>7, <1>10, <1>11, <1>13, <1>14, <1>15 DEF LeaseInv

\* A rolled-back claim writes nothing.
LEMMA ClaimAbortLease ==
  ASSUME LeaseInv, ClaimAbort
  PROVE  LeaseInv'
<1>1. TypeOK'
  BY Zenon, ClaimAbortType DEF LeaseInv
<1>2. /\ tx' = NoTx
      /\ UNCHANGED <<row, attempts, issued>>
      /\ claim' = [t \in Token |-> IF claim[t].phase = "selected"
                                   THEN NoClaim ELSE claim[t]]
  BY Zenon DEF ClaimAbort
<1>3. \A t \in Token : /\ claim'[t].phase # "selected"
                       /\ claim'[t] = claim[t] \/ claim'[t].phase = "none"
  BY Zenon, <1>2 DEF NoClaim
<1>4. TokensTracked'
  BY Zenon, <1>2, <1>3 DEF LeaseInv, TokensTracked, NoTx
<1>5. SelectedNumbers'
  BY Zenon, <1>3 DEF SelectedNumbers
<1>6. RunningNumbers'
  BY Zenon, <1>2, <1>3 DEF LeaseInv, RunningNumbers, Running
<1>. QED
  BY Zenon, <1>1, <1>2, <1>4, <1>5, <1>6, RecordsKept DEF LeaseInv

(* pausing, resuming and recovering touch circuits only *)
LEMMA EndpointStepsLease ==
  ASSUME LeaseInv, TypeOK', UNCHANGED <<row, claim, attempts, tx, issued>>
  PROVE  LeaseInv'
<1>1. TokensTracked' /\ SelectedNumbers' /\ RunningNumbers'
  BY Zenon DEF LeaseInv, TokensTracked, SelectedNumbers, RunningNumbers, Running
<1>. QED
  BY Zenon, <1>1, RecordsKept DEF LeaseInv

\* Every step preserves the lease invariant.
LEMMA NextLease == LeaseInv /\ [Next]_vars => LeaseInv'
<1>. SUFFICES ASSUME LeaseInv, [Next]_vars PROVE LeaseInv'
  BY Zenon
<1>0. TypeOK'
  BY Zenon, NextType DEF LeaseInv
<1>1. CASE Tick
  BY Zenon, <1>1, TickLease
<1>2. CASE \E d \in Delivery : Accept(d)
  BY Zenon, <1>2, AcceptLease
<1>3. CASE ClaimSteps
  BY Zenon, <1>3, ClaimScanLease, ClaimLockLease, ClaimHalfOpenLease,
     ClaimSelectLease, ClaimCommitLease, ClaimAbortLease DEF ClaimSteps
<1>4. CASE \E t \in Token : AttemptSteps(t)
  BY Zenon, <1>4, RenewLeaseLease, StartAttemptLease, EndAttemptLease, FinalizeLease,
     LoseLeaseLease, ReleaseClaimLease DEF AttemptSteps
<1>5. CASE OperatorSteps
  <2>1. CASE \E d \in Delivery : CancelDelivery(d)
    BY Zenon, <2>1, CancelDeliveryLease
  <2>2. CASE \/ \E e \in Endpoint, paused \in BOOLEAN : SetPaused(e, paused)
             \/ \E e \in Endpoint : RecoverCircuit(e)
    BY Zenon, <1>0, <2>2, EndpointStepsLease DEF SetPaused, RecoverCircuit
  <2>. QED
    BY Zenon, <1>5, <2>1, <2>2 DEF OperatorSteps
<1>6. CASE UNCHANGED vars
  BY Zenon, <1>0, <1>6, EndpointStepsLease DEF vars
<1>. QED
  BY Zenon, <1>1, <1>2, <1>3, <1>4, <1>5, <1>6 DEF Next

\* The lease invariant holds in every reachable state.
LEMMA LeaseInvariance == Spec => []LeaseInv
BY InitLease, NextLease, PTL DEF Spec

(* A row carries a token and an expiry exactly while it is processing,
   whatever claims, renewals, finalizations, releases and cancellations
   happen. *)
THEOREM LeaseShapeCorrect == Spec => []LeaseShape
BY LeaseInvariance, PTL DEF LeaseInv

(* The attempt insert of _finalize never repeats a number, for any number of
   workers, crashes, stalls and reclaims. *)
THEOREM AttemptNumbersCorrect == Spec => []AttemptNumbersUnique
BY LeaseInvariance, PTL DEF LeaseInv

(* A succeeded or dead row always has the attempt that made it so as its
   latest one. *)
THEOREM OutcomeCorrect == Spec => []OutcomeMatchesLastAttempt
BY LeaseInvariance, PTL DEF LeaseInv

(* Only the latest claim of a delivery records an attempt: the token check of
   _finalize fences every worker that was overtaken. *)
THEOREM FencingCorrect == Spec => OnlyLatestClaimFinalizes
<1>1. ASSUME LeaseInv, [Next]_vars
      PROVE  [\A a \in attempts' \ attempts :
                a.number = row[a.delivery].attempt_count]_vars
  <2>1. CASE \E t \in Token : Finalize(t)
    <3>1. PICK t \in Token : Finalize(t)
      BY Zenon, <2>1
    <3>2. PICK outcome \in Outcome :
            attempts' = attempts \cup
              {[delivery |-> claim[t].delivery,
                number |-> claim[t].attempt_number, token |-> t,
                outcome |-> outcome]}
      BY Zenon, <1>1, <3>1, FinalizeStep DEF LeaseInv
    <3>. QED
      BY <1>1, <3>1, <3>2, FinalizeNumber
  <2>2. CASE ~\E t \in Token : Finalize(t)
    <3>1. attempts' = attempts
      BY Zenon, <1>1, <2>2 DEF Next, Tick, Accept, ClaimSteps, ClaimScan, ClaimLock,
         ClaimHalfOpen, ClaimSelect, ClaimCommit, ClaimAbort, AttemptSteps,
         RenewLease, StartAttempt, EndAttempt, LoseLease, ReleaseClaim, Crash,
         OperatorSteps, CancelDelivery, SetPaused, RecoverCircuit, vars
    <3>. QED
      BY Zenon, <3>1
  <2>. QED
    BY Zenon, <2>1, <2>2
<1>. QED
  BY <1>1, LeaseInvariance, PTL DEF Spec, OnlyLatestClaimFinalizes

-----------------------------------------------------------------------------
(* The circuit breaker: the proof that its columns stay consistent, that the
   probe of a half-open circuit can still end, and that no claim passes an
   open, paused or probing endpoint. *)

WellShaped(c) == /\ c.state = "open" <=> c.open_until # NULL
                 /\ c.probe # NULL => c.state = "half_open"

Unfinished == {"processing", "retry_scheduled"}

(* tokens are given to locked rows only, inside the claim transaction *)
TxShape ==
  /\ tx.stage # "locked" => /\ tx.locked = {}
                            /\ \A d \in Delivery : tx.token[d] = NULL
  /\ \A d \in Delivery : tx.token[d] # NULL => d \in tx.locked

(* The claim transaction's copy of a circuit is as well formed as the stored
   one, and the probe it names is selected or unfinished. *)
TxCircuits ==
  \A e \in Endpoint :
    LET p == tx.circuit[e].probe
    IN  /\ WellShaped(tx.circuit[e])
        /\ ~EndpointFree(e) /\ p # NULL =>
             /\ EndpointOf[p] = e
             /\ tx.token[p] # NULL \/ row[p].status \in Unfinished

(* what has been selected passed the circuit and still does *)
SelectedPass ==
  \A d \in Delivery : tx.token[d] # NULL =>
    LET c == tx.circuit[EndpointOf[d]]
    IN  /\ ~c.paused
        /\ c.state # "open"
        /\ c.state = "half_open" => c.probe = d

CircuitInv ==
  /\ TypeOK
  /\ CircuitShape
  /\ ProbeIsUnfinished
  /\ TxShape
  /\ TxCircuits
  /\ SelectedPass

-----------------------------------------------------------------------------
\* NULL is no delivery.
LEMMA NullNotDelivery == NULL \notin Delivery
BY Zenon, DeliveryAssumption DEF DeliveryAssumption

\* The first state: every circuit is closed.
LEMMA InitCircuit == Init => CircuitInv
<1>. SUFFICES ASSUME Init PROVE CircuitInv
  BY Zenon
<1>1. TypeOK
  BY Zenon, InitType
<1>2. CircuitShape /\ ProbeIsUnfinished
  BY Zenon DEF Init, CircuitShape, ProbeIsUnfinished, ClosedCircuit
<1>3. TxShape /\ SelectedPass
  BY Zenon DEF Init, TxShape, SelectedPass, NoTx
<1>4. TxCircuits
  BY Zenon DEF Init, TxCircuits, NoTx, ClosedCircuit, WellShaped
<1>. QED
  BY Zenon, <1>1, <1>2, <1>3, <1>4 DEF CircuitInv

(* Steps outside the claim transaction and away from the circuits: unfinished
   deliveries stay unfinished. *)
LEMMA RowStepCircuit ==
  ASSUME CircuitInv, TypeOK', UNCHANGED <<circuit, tx>>,
         \A d \in Delivery : row[d].status \in Unfinished =>
                             row'[d].status \in Unfinished
  PROVE  CircuitInv'
<1>1. \A e \in Endpoint : /\ circuit[e].probe \in Delivery \cup {NULL}
                          /\ tx.circuit[e].probe \in Delivery \cup {NULL}
  BY Zenon DEF CircuitInv, TypeOK, Tx, Circuit
<1>2. CircuitShape' /\ TxShape' /\ SelectedPass'
  BY Zenon DEF CircuitInv, CircuitShape, TxShape, SelectedPass
<1>3. ProbeIsUnfinished'
  BY Zenon, <1>1 DEF CircuitInv, ProbeIsUnfinished, Unfinished
<1>4. TxCircuits'
  BY Zenon, <1>1 DEF CircuitInv, TxCircuits, EndpointFree
<1>. QED
  BY Zenon, <1>2, <1>3, <1>4 DEF CircuitInv

(* Steps that write one free endpoint's circuit, and no row but one of that
   endpoint's deliveries. *)
LEMMA EndpointStepCircuit ==
  ASSUME CircuitInv, TypeOK', tx' = tx,
         NEW e \in Endpoint, EndpointFree(e), NEW c \in Circuit,
         circuit' = [circuit EXCEPT ![e] = c],
         WellShaped(c),
         \A d \in Delivery : EndpointOf[d] # e => row'[d] = row[d],
         c.probe # NULL => /\ EndpointOf[c.probe] = e
                           /\ row'[c.probe].status \in Unfinished
  PROVE  CircuitInv'
<1>1. \A x \in Endpoint : /\ circuit[x].probe \in Delivery \cup {NULL}
                          /\ tx.circuit[x].probe \in Delivery \cup {NULL}
  BY Zenon DEF CircuitInv, TypeOK, Tx, Circuit
<1>2. /\ circuit'[e] = c
      /\ \A x \in Endpoint \ {e} : circuit'[x] = circuit[x]
  BY Zenon DEF CircuitInv, TypeOK
<1>3. CircuitShape'
  BY Zenon, <1>2 DEF CircuitInv, CircuitShape, WellShaped
<1>4. TxShape' /\ SelectedPass'
  BY Zenon DEF CircuitInv, TxShape, SelectedPass
<1>5. ProbeIsUnfinished'
  BY SMTT(30), <1>1, <1>2 DEF CircuitInv, ProbeIsUnfinished, Unfinished
<1>6. TxCircuits'
  BY ZenonT(60), <1>1 DEF CircuitInv, TxCircuits, EndpointFree
<1>. QED
  BY Zenon, <1>3, <1>4, <1>5, <1>6 DEF CircuitInv

-----------------------------------------------------------------------------
\* Steps that touch neither circuits nor statuses.
LEMMA RowStepsCircuit ==
  ASSUME CircuitInv, TypeOK',
         \/ Tick
         \/ \E d \in Delivery : Accept(d)
         \/ \E t \in Token : \/ RenewLease(t)
                             \/ StartAttempt(t)
                             \/ \E result \in Result : EndAttempt(t, result)
                             \/ LoseLease(t)
                             \/ ReleaseClaim(t)
                             \/ Crash(t)
  PROVE  CircuitInv'
<1>1. UNCHANGED <<circuit, tx>>
  BY Zenon DEF Tick, Accept, RenewLease, StartAttempt, EndAttempt, LoseLease,
         ReleaseClaim, Crash
<1>2. ASSUME NEW d \in Delivery, row[d].status \in Unfinished
      PROVE  row'[d].status \in Unfinished
  <2>1. row[d] \in Row
    BY Zenon DEF CircuitInv, TypeOK
  <2>2. CASE row' = row
    BY Zenon, <1>2, <2>2
  <2>3. CASE \E x \in Delivery : Accept(x)
    BY Zenon, <1>2, <2>3 DEF Accept, Unfinished, CircuitInv, TypeOK
  <2>4. CASE \E t \in Token : RenewLease(t)
    BY <1>2, <2>1, <2>4 DEF RenewLease, CircuitInv, TypeOK, Row
  <2>5. CASE \E t \in Token : ReleaseClaim(t)
    <3>1. PICK t \in Token, now \in Nat :
            row' = [row EXCEPT ![claim[t].delivery] =
                      UnleasedRow(@, "retry_scheduled", now)]
      BY Zenon, <2>5, TxNowType DEF ReleaseClaim, CircuitInv
    <3>2. UnleasedRow(row[d], "retry_scheduled", now).status
            = "retry_scheduled"
      BY Zenon, <2>1 DEF UnleasedRow, Row
    <3>. QED
      BY Zenon, <1>2, <3>1, <3>2 DEF Unfinished, CircuitInv, TypeOK
  <2>. QED
    BY Zenon, <2>2, <2>3, <2>4, <2>5
       DEF Tick, StartAttempt, EndAttempt, LoseLease, Crash
<1>. QED
  BY Zenon, <1>1, <1>2, RowStepCircuit

(* Finalization leaves the circuit well formed and never leaves the delivery
   it ends as the probe. *)
LEMMA CircuitAfterShape ==
  ASSUME NEW c \in Circuit, WellShaped(c), NEW d \in Delivery,
         NEW finished \in Nat, NEW result \in Result
  PROVE  LET after == CircuitAfter(c, d, result, finished)
         IN  /\ WellShaped(after)
             /\ after.probe # NULL => after.probe = c.probe /\ c.probe # d
<1>1. finished # NULL /\ finished + endpoint_circuit_open_seconds # NULL
  BY DeliveryAssumption, SettingsAssumption
     DEF DeliveryAssumption, SettingsAssumption
<1>2. CASE result \in {"succeeded", "non_retryable"}
  BY Zenon, <1>2 DEF CircuitAfter, ResetCircuit, WellShaped, Circuit
<1>3. CASE result = "retryable"
  BY Zenon, <1>1, <1>3 DEF CircuitAfter, CircuitAfterFailure, WellShaped, Circuit
<1>4. CASE result = "max_delivery_age"
  BY Zenon, <1>1, <1>4 DEF CircuitAfter, CircuitAfterAge, WellShaped, Circuit
<1>. QED
  BY Zenon, <1>2, <1>3, <1>4 DEF Result

\* _finalize moves the circuit with the row.
LEMMA FinalizeCircuit ==
  ASSUME CircuitInv, TypeOK', NEW t \in Token, Finalize(t)
  PROVE  CircuitInv'
<1>. DEFINE d == claim[t].delivery
            e == EndpointOf[d]
<1>1. /\ d \in Delivery /\ e \in Endpoint /\ claim[t].phase \in Result
      /\ EndpointFree(e) /\ tx' = tx
  BY Zenon, FinalizeStep DEF CircuitInv, Finalize
<1>2. PICK finished \in Nat, outcome \in Outcome, next \in Nat :
        /\ circuit' = [circuit EXCEPT ![e] =
             CircuitAfter(circuit[e], d, claim[t].phase, finished)]
        /\ row' = [row EXCEPT ![d] = UnleasedRow(row[d], outcome, next)]
  BY FinalizeStep DEF CircuitInv
<1>. DEFINE c == CircuitAfter(circuit[e], d, claim[t].phase, finished)
<1>3. circuit[e] \in Circuit /\ WellShaped(circuit[e])
  BY ZenonT(60), <1>1 DEF CircuitInv, TypeOK, CircuitShape, WellShaped
<1>4. c \in Circuit
  BY Zenon, <1>1, <1>3, CircuitAfterType
<1>5. /\ WellShaped(c)
      /\ c.probe # NULL => c.probe = circuit[e].probe /\ circuit[e].probe # d
  BY <1>1, <1>3, CircuitAfterShape
<1>6. \A x \in Delivery : x # d => row'[x] = row[x]
  BY Zenon, <1>2 DEF CircuitInv, TypeOK
<1>7. circuit[e].probe \in Delivery \cup {NULL}
  BY Zenon, <1>3 DEF Circuit
<1>. HIDE DEF c
<1>8. c.probe # NULL => /\ EndpointOf[c.probe] = e
                        /\ row'[c.probe].status \in Unfinished
  BY ZenonT(60), <1>1, <1>5, <1>6, <1>7 DEF CircuitInv, ProbeIsUnfinished, Unfinished
<1>9. circuit' = [circuit EXCEPT ![e] = c]
  BY Zenon, <1>2 DEF c
<1>. QED
  BY Zenon, <1>1, <1>4, <1>5, <1>6, <1>8, <1>9, EndpointStepCircuit

\* A canceled probe reopens its circuit.
LEMMA CancelDeliveryCircuit ==
  ASSUME CircuitInv, TypeOK', NEW d \in Delivery, CancelDelivery(d)
  PROVE  CircuitInv'
<1>. DEFINE e == EndpointOf[d]
<1>1. e \in Endpoint /\ EndpointFree(e) /\ tx' = tx
  BY Zenon, DeliveryAssumption DEF DeliveryAssumption, CancelDelivery
<1>2. PICK now \in TxNow(MaxTxAge) :
        /\ row' = [row EXCEPT ![d].status = "canceled",
                              ![d].next_attempt_at = now]
        /\ circuit' = [circuit EXCEPT ![e] = CircuitAfterCancel(@, d, now)]
  BY Zenon DEF CancelDelivery
<1>3. now \in Nat /\ now # NULL
  BY SMTT(30), TxNowType, DeliveryAssumption DEF DeliveryAssumption, CircuitInv
<1>. DEFINE c == CircuitAfterCancel(circuit[e], d, now)
<1>4. circuit[e] \in Circuit /\ WellShaped(circuit[e])
  BY ZenonT(60), <1>1 DEF CircuitInv, TypeOK, CircuitShape, WellShaped
<1>5. c \in Circuit
  BY Zenon, <1>3, <1>4, CircuitAfterCancelType
<1>6. /\ WellShaped(c)
      /\ c.probe # NULL => c.probe = circuit[e].probe /\ circuit[e].probe # d
  BY Zenon, <1>3, <1>4, NullNotDelivery DEF CircuitAfterCancel, WellShaped, Circuit
<1>7. \A x \in Delivery : x # d => row'[x] = row[x]
  BY Zenon, <1>2 DEF CircuitInv, TypeOK
<1>8. circuit[e].probe \in Delivery \cup {NULL}
  BY Zenon, <1>4 DEF Circuit
<1>9. circuit' = [circuit EXCEPT ![e] = c]
  BY Zenon, <1>1, <1>2 DEF CircuitInv, TypeOK
<1>. HIDE DEF c
<1>10. c.probe # NULL => /\ EndpointOf[c.probe] = e
                         /\ row'[c.probe].status \in Unfinished
  BY ZenonT(60), <1>1, <1>6, <1>7, <1>8 DEF CircuitInv, ProbeIsUnfinished, Unfinished
<1>. QED
  BY Zenon, <1>1, <1>5, <1>6, <1>7, <1>9, <1>10, EndpointStepCircuit

\* Pausing leaves the circuit alone.
LEMMA SetPausedCircuit ==
  ASSUME CircuitInv, TypeOK', NEW e \in Endpoint, NEW paused \in BOOLEAN,
         SetPaused(e, paused)
  PROVE  CircuitInv'
<1>. DEFINE c == [circuit[e] EXCEPT !.paused = paused]
<1>1. circuit[e] \in Circuit /\ WellShaped(circuit[e])
  BY Zenon DEF CircuitInv, TypeOK, CircuitShape, WellShaped
<1>2. c \in Circuit /\ WellShaped(c) /\ c.probe = circuit[e].probe
  BY Zenon, <1>1 DEF Circuit, WellShaped
<1>3. circuit' = [circuit EXCEPT ![e] = c]
  BY Zenon DEF SetPaused, CircuitInv, TypeOK
<1>. HIDE DEF c
<1>4. c.probe # NULL => /\ EndpointOf[c.probe] = e
                        /\ row'[c.probe].status \in Unfinished
  BY Zenon, <1>2 DEF SetPaused, CircuitInv, ProbeIsUnfinished, Unfinished
<1>. QED
  BY Zenon, <1>2, <1>3, <1>4, EndpointStepCircuit DEF SetPaused

\* Recovery closes the circuit.
LEMMA RecoverCircuitCircuit ==
  ASSUME CircuitInv, TypeOK', NEW e \in Endpoint, RecoverCircuit(e)
  PROVE  CircuitInv'
<1>. DEFINE c == [ClosedCircuit EXCEPT !.paused = circuit[e].paused]
<1>1. circuit[e] \in Circuit
  BY Zenon DEF CircuitInv, TypeOK
<1>2. c \in Circuit /\ WellShaped(c) /\ c.probe = NULL
  BY Zenon, <1>1 DEF Circuit, ClosedCircuit, WellShaped
<1>3. circuit' = [circuit EXCEPT ![e] = c]
  BY Zenon DEF RecoverCircuit
<1>. HIDE DEF c
<1>. QED
  BY Zenon, <1>2, <1>3, EndpointStepCircuit DEF RecoverCircuit

-----------------------------------------------------------------------------
(* a transaction that begins, finds nothing, or ends holds nothing *)
LEMMA EmptyTxCircuit ==
  ASSUME CircuitInv, TypeOK', row' = row, circuit' = circuit,
         tx'.locked = {}, tx'.token = NoTx.token, tx'.circuit = NoTx.circuit
  PROVE  CircuitInv'
<1>1. CircuitShape' /\ ProbeIsUnfinished'
  BY Zenon DEF CircuitInv, CircuitShape, ProbeIsUnfinished
<1>2. TxShape' /\ SelectedPass'
  BY Zenon DEF TxShape, SelectedPass, NoTx
<1>3. TxCircuits'
  BY DEF TxCircuits, EndpointFree, NoTx, ClosedCircuit, WellShaped
<1>. QED
  BY Zenon, <1>1, <1>2, <1>3 DEF CircuitInv

\* The scan writes nothing.
LEMMA ClaimScanCircuit ==
  ASSUME CircuitInv, TypeOK', NEW requested \in 1..worker_batch_size,
         ClaimScan(requested)
  PROVE  CircuitInv'
<1>1. /\ tx'.locked = {} /\ tx'.token = NoTx.token
      /\ tx'.circuit = NoTx.circuit
  BY Zenon DEF ClaimScan, NoTx
<1>. QED
  BY Zenon, <1>1, EmptyTxCircuit DEF ClaimScan

\* A rolled-back claim writes nothing.
LEMMA ClaimAbortCircuit ==
  ASSUME CircuitInv, TypeOK', ClaimAbort
  PROVE  CircuitInv'
<1>1. /\ tx'.locked = {} /\ tx'.token = NoTx.token
      /\ tx'.circuit = NoTx.circuit
  BY Zenon DEF ClaimAbort, NoTx
<1>. QED
  BY Zenon, <1>1, EmptyTxCircuit DEF ClaimAbort

\* The locks of a claim.
LEMMA ClaimLockCircuit ==
  ASSUME CircuitInv, TypeOK', NEW L \in SUBSET Delivery, ClaimLock(L)
  PROVE  CircuitInv'
<1>1. CASE L = {}
  <2>1. /\ tx'.locked = {} /\ tx'.token = NoTx.token
        /\ tx'.circuit = NoTx.circuit
    BY Zenon, <1>1 DEF ClaimLock, NoTx
  <2>. QED
    BY Zenon, <2>1, EmptyTxCircuit DEF ClaimLock
<1>2. CASE L # {}
  <2>1. /\ tx'.stage = "locked" /\ tx'.locked = L /\ tx'.circuit = circuit
        /\ tx'.token = tx.token /\ row' = row /\ circuit' = circuit
    BY Zenon, <1>2 DEF ClaimLock, CircuitInv, TypeOK, Tx
  <2>2. \A d \in Delivery : tx'.token[d] = NULL
    BY Zenon, <2>1 DEF ClaimLock, CircuitInv, TxShape
  <2>3. TxShape' /\ SelectedPass'
    BY Zenon, <2>1, <2>2 DEF TxShape, SelectedPass
  <2>4. TxCircuits'
    BY Zenon, <2>1 DEF CircuitInv, TxCircuits, CircuitShape, ProbeIsUnfinished,
                WellShaped, Unfinished
  <2>5. CircuitShape' /\ ProbeIsUnfinished'
    BY Zenon, <2>1 DEF CircuitInv, CircuitShape, ProbeIsUnfinished
  <2>. QED
    BY Zenon, <2>3, <2>4, <2>5 DEF CircuitInv
<1>. QED
  BY Zenon, <1>1, <1>2

\* A due circuit turns half-open in the claim.
LEMMA ClaimHalfOpenCircuit ==
  ASSUME CircuitInv, TypeOK', NEW e \in Endpoint, ClaimHalfOpen(e)
  PROVE  CircuitInv'
<1>1. tx.circuit[e] \in Circuit /\ tx.circuit[e].state = "open"
  BY Zenon DEF ClaimHalfOpen, CircuitInv, TypeOK, Tx
<1>2. /\ tx'.stage = tx.stage /\ tx'.locked = tx.locked
      /\ tx'.token = tx.token /\ row' = row /\ circuit' = circuit
      /\ \A x \in Endpoint \ {e} : tx'.circuit[x] = tx.circuit[x]
      /\ tx'.circuit[e].state = "half_open"
      /\ tx'.circuit[e].open_until = NULL
      /\ tx'.circuit[e].probe = NULL
  <2>1. tx \in Tx
    BY Zenon DEF CircuitInv, TypeOK
  <2>2. /\ tx'.stage = tx.stage /\ tx'.locked = tx.locked
        /\ tx'.token = tx.token /\ row' = row /\ circuit' = circuit
    BY Zenon, <2>1 DEF ClaimHalfOpen, Tx
  <2>3. tx'.circuit = [tx.circuit EXCEPT ![e].state = "half_open",
                                         ![e].open_until = NULL,
                                         ![e].probe = NULL]
    BY Zenon, <2>1 DEF ClaimHalfOpen, Tx
  <2>4. tx.circuit \in [Endpoint -> Circuit]
    BY Zenon, <2>1 DEF Tx
  <2>5. \A x \in Endpoint \ {e} : tx'.circuit[x] = tx.circuit[x]
    BY Zenon, <2>3, <2>4
  <2>6. tx'.circuit[e] = [tx.circuit[e] EXCEPT !.state = "half_open",
                                              !.open_until = NULL,
                                              !.probe = NULL]
    BY Zenon, <2>3, <2>4
  <2>. QED
    BY Zenon, <1>1, <2>2, <2>5, <2>6 DEF Circuit
<1>3. CircuitShape' /\ ProbeIsUnfinished' /\ TxShape'
  BY ZenonT(60), <1>2 DEF CircuitInv, CircuitShape, ProbeIsUnfinished, TxShape
<1>4. TxCircuits'
  BY SMTT(30), <1>2 DEF CircuitInv, TxCircuits, WellShaped, EndpointFree
<1>5. SelectedPass'
  <2>1. \A d \in Delivery : EndpointOf[d] \in Endpoint
    BY Zenon, DeliveryAssumption DEF DeliveryAssumption
  <2>2. \A d \in Delivery : tx.token[d] # NULL => EndpointOf[d] # e
    BY Zenon, <1>1 DEF CircuitInv, SelectedPass
  <2>. QED
    BY ZenonT(60), <1>2, <2>1, <2>2 DEF CircuitInv, SelectedPass
<1>. QED
  BY Zenon, <1>3, <1>4, <1>5 DEF CircuitInv

\* A selected probe is recorded in the claim.
LEMMA ClaimSelectCircuit ==
  ASSUME CircuitInv, TypeOK', NEW d \in Delivery, ClaimSelect(d)
  PROVE  CircuitInv'
<1>. DEFINE e == EndpointOf[d]
            c == tx.circuit[e]
<1>1. e \in Endpoint /\ c \in Circuit
  BY Zenon, DeliveryAssumption DEF DeliveryAssumption, CircuitInv, TypeOK, Tx
<1>2. /\ d \in tx.locked /\ tx.token[d] = NULL /\ tx.stage = "locked"
      /\ ~c.paused /\ c.state # "open"
      /\ c.state = "half_open" => c.probe \in {NULL, d}
  BY Zenon DEF ClaimSelect, Visits, IsHead, Queue
<1>3. /\ tx'.stage = tx.stage /\ tx'.locked = tx.locked
      /\ row' = row /\ circuit' = circuit
      /\ tx'.token = [tx.token EXCEPT ![d] = issued + 1]
      /\ \A x \in Endpoint \ {e} : tx'.circuit[x] = tx.circuit[x]
      /\ tx'.circuit[e] =
           [c EXCEPT !.probe = IF c.state = "half_open" THEN d ELSE @]
  BY ZenonT(60), <1>1 DEF ClaimSelect, CircuitInv, TypeOK, Tx
<1>4. /\ tx'.circuit[e].state = c.state
      /\ tx'.circuit[e].open_until = c.open_until
      /\ tx'.circuit[e].paused = c.paused
      /\ tx'.circuit[e].probe = IF c.state = "half_open" THEN d ELSE c.probe
  BY Zenon, <1>1, <1>3 DEF Circuit
<1>5. /\ tx'.token[d] # NULL
      /\ \A x \in Delivery \ {d} : tx'.token[x] = tx.token[x]
  <2>1. issued + 1 # NULL
    BY DeliveryAssumption DEF DeliveryAssumption, CircuitInv, TypeOK
  <2>. QED
    BY ZenonT(60), <1>3, <2>1 DEF CircuitInv, TypeOK, Tx
<1>6. CircuitShape' /\ ProbeIsUnfinished'
  BY Zenon, <1>3 DEF CircuitInv, CircuitShape, ProbeIsUnfinished
<1>7. TxShape'
  BY Zenon, <1>2, <1>3, <1>5 DEF CircuitInv, TxShape
<1>8. \A x \in Delivery : tx.token[x] # NULL => tx'.token[x] # NULL
  BY Zenon, <1>2, <1>5
<1>9. TxCircuits'
  <2>1. WellShaped(c)
    BY Zenon, <1>1 DEF CircuitInv, TxCircuits
  <2>2. WellShaped(tx'.circuit[e])
    BY Zenon, <1>4, <2>1 DEF WellShaped
  <2>3. ASSUME NEW x \in Endpoint, ~EndpointFree(x)',
               tx'.circuit[x].probe # NULL
        PROVE  LET p == tx'.circuit[x].probe
               IN  /\ EndpointOf[p] = x
                   /\ tx'.token[p] # NULL \/ row'[p].status \in Unfinished
    <3>1. ~EndpointFree(x)
      BY Zenon, <1>3, <2>3 DEF EndpointFree
    <3>2. tx.circuit[x].probe \in Delivery \cup {NULL}
      BY Zenon DEF CircuitInv, TypeOK, Tx, Circuit
    <3>3. CASE x # e
      BY ZenonT(60), <1>3, <1>8, <2>3, <3>1, <3>2, <3>3 DEF CircuitInv, TxCircuits
    <3>4. CASE x = e /\ c.state = "half_open"
      BY Zenon, <1>4, <1>5, <3>4
    <3>5. CASE x = e /\ c.state # "half_open"
      BY ZenonT(60), <1>3, <1>4, <1>8, <2>3, <3>1, <3>2, <3>5 DEF CircuitInv, TxCircuits
    <3>. QED
      BY Zenon, <3>3, <3>4, <3>5
  <2>. QED
    BY Zenon, <1>3, <2>2, <2>3 DEF CircuitInv, TxCircuits
<1>10. SelectedPass'
  <2>. SUFFICES ASSUME NEW x \in Delivery, tx'.token[x] # NULL
                PROVE  LET k == tx'.circuit[EndpointOf[x]]
                       IN  /\ ~k.paused
                           /\ k.state # "open"
                           /\ k.state = "half_open" => k.probe = x
    BY Zenon DEF SelectedPass
  <2>1. EndpointOf[x] \in Endpoint
    BY Zenon, DeliveryAssumption DEF DeliveryAssumption
  <2>2. CASE x = d
    BY Zenon, <1>2, <1>4, <2>2
  <2>3. CASE x # d /\ EndpointOf[x] # e
    BY SMTT(30), <1>3, <1>5, <2>1, <2>3 DEF CircuitInv, SelectedPass
  <2>4. CASE x # d /\ EndpointOf[x] = e
    <3>1. tx.token[x] # NULL
      BY Zenon, <1>5, <2>4
    <3>2. c.state = "half_open" => c.probe = x
      BY Zenon, <2>4, <3>1 DEF CircuitInv, SelectedPass
    <3>3. c.state # "half_open"
      BY Zenon, <1>2, <2>4, <3>2, NullNotDelivery
    <3>. QED
      BY Zenon, <1>2, <1>4, <2>4, <3>3
  <2>. QED
    BY Zenon, <2>2, <2>3, <2>4
<1>. QED
  BY Zenon, <1>6, <1>7, <1>9, <1>10 DEF CircuitInv

\* The claim writes its leases and circuits.
LEMMA ClaimCommitCircuit ==
  ASSUME CircuitInv, TypeOK', ClaimCommit
  PROVE  CircuitInv'
<1>1. tx' = NoTx
  BY Zenon DEF ClaimCommit
<1>2. ASSUME NEW d \in Delivery, tx.token[d] # NULL
      PROVE  row'[d].status = "processing"
  <2>1. row[d] \in Row
    BY Zenon DEF CircuitInv, TypeOK
  <2>. QED
    BY Zenon, <1>2, <2>1 DEF ClaimCommit, LeasedRow, Row
<1>3. \A d \in Delivery : tx.token[d] = NULL => row'[d] = row[d]
  BY Zenon DEF ClaimCommit
<1>4. \A e \in Endpoint :
        circuit'[e] = IF EndpointFree(e) THEN circuit[e] ELSE tx.circuit[e]
  BY Zenon DEF ClaimCommit
<1>5. CircuitShape'
  BY ZenonT(60), <1>4 DEF CircuitInv, CircuitShape, TxCircuits, WellShaped
<1>6. ProbeIsUnfinished'
  <2>1. \A e \in Endpoint : /\ circuit[e].probe \in Delivery \cup {NULL}
                            /\ tx.circuit[e].probe \in Delivery \cup {NULL}
    BY Zenon DEF CircuitInv, TypeOK, Tx, Circuit
  <2>2. ASSUME NEW d \in Delivery,
               tx.token[d] # NULL \/ row[d].status \in Unfinished
        PROVE  row'[d].status \in Unfinished
    BY Zenon, <1>2, <1>3, <2>2 DEF Unfinished
  <2>. QED
    BY SMTT(30), <1>4, <2>1, <2>2
       DEF CircuitInv, ProbeIsUnfinished, TxCircuits, Unfinished
<1>7. TxShape' /\ SelectedPass'
  BY ZenonT(60), <1>1 DEF TxShape, SelectedPass, NoTx
<1>8. TxCircuits'
  BY Zenon, <1>1 DEF TxCircuits, EndpointFree, NoTx, ClosedCircuit, WellShaped
<1>. QED
  BY Zenon, <1>5, <1>6, <1>7, <1>8 DEF CircuitInv

\* Every step preserves the circuit invariant.
LEMMA NextCircuit == CircuitInv /\ [Next]_vars => CircuitInv'
<1>. SUFFICES ASSUME CircuitInv, [Next]_vars PROVE CircuitInv'
  BY Zenon
<1>0. TypeOK'
  BY Zenon, NextType DEF CircuitInv
<1>1. CASE Tick \/ \E d \in Delivery : Accept(d)
  BY Zenon, <1>0, <1>1, RowStepsCircuit
<1>2. CASE ClaimSteps
  BY Zenon, <1>0, <1>2, ClaimScanCircuit, ClaimLockCircuit, ClaimHalfOpenCircuit,
     ClaimSelectCircuit, ClaimCommitCircuit, ClaimAbortCircuit DEF ClaimSteps
<1>3. CASE \E t \in Token : AttemptSteps(t)
  BY Zenon, <1>0, <1>3, RowStepsCircuit, FinalizeCircuit DEF AttemptSteps
<1>4. CASE OperatorSteps
  BY Zenon, <1>0, <1>4, CancelDeliveryCircuit, SetPausedCircuit,
     RecoverCircuitCircuit DEF OperatorSteps
<1>5. CASE UNCHANGED vars
  <2>1. UNCHANGED <<row, circuit, tx>>
    BY Zenon, <1>5 DEF vars
  <2>. QED
    BY Zenon, <1>0, <2>1, RowStepCircuit
<1>. QED
  BY Zenon, <1>1, <1>2, <1>3, <1>4, <1>5 DEF Next

\* The circuit invariant holds in every reachable state.
LEMMA CircuitInvariance == Spec => []CircuitInv
BY InitCircuit, NextCircuit, PTL DEF Spec

(* The circuit columns of every endpoint stay consistent through claims,
   finalizations, cancellations and operator recovery. *)
THEOREM CircuitShapeCorrect == Spec => []CircuitShape
BY CircuitInvariance, PTL DEF CircuitInv

(* The delivery reserved as the half-open probe is always leased or waiting:
   no finalization and no cancellation ends it without giving the probe up. *)
THEOREM ProbeCorrect == Spec => []ProbeIsUnfinished
BY CircuitInvariance, PTL DEF CircuitInv

(* Every lease handed out respects the pause and the circuit of its endpoint
   at the moment the claim commits: the endpoint row lock makes the copy the
   selection loop decided on still true. *)
THEOREM CircuitRespected == Spec => ClaimsRespectCircuit
<1>1. ASSUME CircuitInv, [Next]_vars
      PROVE  [\A d \in Delivery :
                NewlyLeased(d) =>
                  LET c == circuit'[EndpointOf[d]]
                  IN  /\ ~c.paused
                      /\ c.state # "open"
                      /\ c.state = "half_open" => c.probe = d]_vars
  <2>1. CASE ClaimCommit
    <3>. SUFFICES ASSUME NEW d \in Delivery, NewlyLeased(d)
                  PROVE  LET c == circuit'[EndpointOf[d]]
                         IN  /\ ~c.paused
                             /\ c.state # "open"
                             /\ c.state = "half_open" => c.probe = d
      BY Zenon
    <3>1. tx.token[d] # NULL
      BY Zenon, <2>1 DEF ClaimCommit, NewlyLeased
    <3>2. ~EndpointFree(EndpointOf[d])
      BY Zenon, <1>1, <3>1 DEF CircuitInv, TxShape, EndpointFree
    <3>3. EndpointOf[d] \in Endpoint
      BY Zenon, DeliveryAssumption DEF DeliveryAssumption
    <3>4. circuit'[EndpointOf[d]] = tx.circuit[EndpointOf[d]]
      BY Zenon, <2>1, <3>2, <3>3 DEF ClaimCommit
    <3>. QED
      BY Zenon, <1>1, <3>1, <3>4 DEF CircuitInv, SelectedPass
  <2>2. CASE ~ClaimCommit
    <3>1. ASSUME NEW d \in Delivery
          PROVE  row'[d].lease_token \in {row[d].lease_token, NULL}
      <4>1. row \in [Delivery -> Row]
        BY Zenon, <1>1 DEF CircuitInv, TypeOK
      <4>2. CASE row' = row
        BY Zenon, <4>2
      <4>3. CASE \E x \in Delivery : Accept(x)
        <5>1. PICK x \in Delivery, now \in Nat :
                row' = [row EXCEPT ![x].status = "pending",
                                   ![x].created_at = now,
                                   ![x].next_attempt_at = now]
          BY Zenon, <1>1, <4>3, TxNowType DEF Accept, CircuitInv
        <5>2. row'[d] = IF d = x
                        THEN [row[d] EXCEPT !.status = "pending",
                                            !.created_at = now,
                                            !.next_attempt_at = now]
                        ELSE row[d]
          BY Zenon, <4>1, <5>1
        <5>3. [row[d] EXCEPT !.status = "pending", !.created_at = now,
                             !.next_attempt_at = now].lease_token
                = row[d].lease_token
          BY Zenon, <4>1 DEF Row
        <5>. QED
          BY Zenon, <5>2, <5>3
      <4>4. CASE \E x \in Delivery : CancelDelivery(x)
        <5>1. PICK x \in Delivery, now \in Nat :
                row' = [row EXCEPT ![x].status = "canceled",
                                   ![x].next_attempt_at = now]
          BY Zenon, <1>1, <4>4, TxNowType DEF CancelDelivery, CircuitInv
        <5>2. row'[d] = IF d = x
                        THEN [row[d] EXCEPT !.status = "canceled",
                                            !.next_attempt_at = now]
                        ELSE row[d]
          BY Zenon, <4>1, <5>1
        <5>3. [row[d] EXCEPT !.status = "canceled",
                             !.next_attempt_at = now].lease_token
                = row[d].lease_token
          BY Zenon, <4>1 DEF Row
        <5>. QED
          BY Zenon, <5>2, <5>3
      <4>5. CASE \E t \in Token : RenewLease(t)
        <5>1. PICK t \in Token, now \in Nat :
                row' = [row EXCEPT ![claim[t].delivery] =
                          [@ EXCEPT !.lease_expires_at =
                                      now + worker_lease_seconds]]
          BY Zenon, <1>1, <4>5, TxNowType DEF RenewLease, CircuitInv
        <5>2. \A x : [row[d] EXCEPT !.lease_expires_at = x].lease_token
                      = row[d].lease_token
          BY Zenon, <4>1 DEF Row
        <5>. QED
          BY Zenon, <4>1, <5>1, <5>2
      <4>6. CASE \E t \in Token : ReleaseClaim(t)
        <5>1. PICK t \in Token, now \in Nat :
                row' = [row EXCEPT ![claim[t].delivery] =
                          UnleasedRow(@, "retry_scheduled", now)]
          BY Zenon, <1>1, <4>6, TxNowType DEF ReleaseClaim, CircuitInv
        <5>2. UnleasedRow(row[d], "retry_scheduled", now).lease_token = NULL
          BY Zenon, <4>1 DEF UnleasedRow, Row
        <5>. QED
          BY Zenon, <4>1, <5>1, <5>2
      <4>7. CASE \E t \in Token : Finalize(t)
        <5>0. PICK t \in Token : Finalize(t)
          BY Zenon, <4>7
        <5>1. PICK outcome \in Outcome, next \in Nat :
                row' = [row EXCEPT ![claim[t].delivery] =
                          UnleasedRow(row[claim[t].delivery], outcome, next)]
          BY Zenon, <1>1, <5>0, FinalizeStep DEF CircuitInv
        <5>2. UnleasedRow(row[d], outcome, next).lease_token = NULL
          BY Zenon, <4>1 DEF UnleasedRow, Row
        <5>. QED
          BY Zenon, <4>1, <5>1, <5>2
      <4>. QED
        BY ZenonT(60), <1>1, <2>2, <4>2, <4>3, <4>4, <4>5, <4>6, <4>7
           DEF Next, Tick, ClaimSteps, ClaimScan, ClaimLock, ClaimHalfOpen,
               ClaimSelect, ClaimAbort, AttemptSteps, StartAttempt,
               EndAttempt, LoseLease, Crash, OperatorSteps, SetPaused,
               RecoverCircuit, vars
    <3>. QED
      BY Zenon, <3>1 DEF NewlyLeased
  <2>. QED
    BY Zenon, <2>1, <2>2
<1>. QED
  BY <1>1, CircuitInvariance, PTL DEF Spec, ClaimsRespectCircuit
=============================================================================
