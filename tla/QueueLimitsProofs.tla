------------------------- MODULE QueueLimitsProofs --------------------------
(* Proofs about the limits of the delivery queue, on leases and on attempts,
   for every setting, set of deliveries and number of workers. *)
EXTENDS DeliveryQueueProofs

(* Limits.  When no transaction outlives a clock step (MaxTxAge = 0), a lease
   that has expired stays so, and rows found due stay unfinished until the
   claim transaction ends. *)

Live(now) == {d \in Delivery : LiveAt(d, now)}

\* now() of every transaction is the clock.
Fresh ==
  /\ \A t \in Token : claim[t].lag = 0
  /\ tx.stage # "none" => tx.now <= clock

\* The groups of deliveries that share a limit.
OfTenant(o) == {d \in Delivery : OrganizationOf[EndpointOf[d]] = o}
Groups ==
  {<<DeliveriesOf(e), endpoint_concurrency>> : e \in Endpoint} \cup
  {<<OfTenant(o), tenant_in_flight_deliveries>> :
     o \in {OrganizationOf[e] : e \in Endpoint}}

(* What the claim transaction counted still bounds what is leased: leases
   live at its now only end, and a group with something selected has room for
   that beside the leases counted. *)
ScanCounts ==
  tx.stage # "none" =>
    /\ Cardinality(Live(tx.now)) + tx.available <= worker_global_concurrency
    /\ tx.available > 0
    /\ Cardinality(Selected) <= tx.available
LockCounts ==
  tx.stage = "locked" =>
    /\ Live(tx.now) \subseteq tx.live
    /\ \A g \in Groups :
         Selected \cap g[1] # {} =>
           Cardinality(tx.live \cap g[1]) + Cardinality(Selected \cap g[1])
             <= g[2]
GroupsWithin ==
  \A g \in Groups : Cardinality(Live(clock) \cap g[1]) <= g[2]

CapacityInv ==
  /\ Cardinality(Live(clock)) <= worker_global_concurrency
  /\ GroupsWithin
  /\ ScanCounts
  /\ LockCounts

(* A candidate is waiting, canceled, or processing under a lease that was
   over at the scan: none has ended by an attempt. *)
CandidatesUnfinished ==
  tx.stage # "none" =>
    /\ Selected \subseteq tx.candidates
    /\ tx.locked \subseteq tx.candidates
    /\ \A d \in tx.candidates :
         /\ row[d].status \notin {"absent", "succeeded", "dead"}
         /\ ~LiveAt(d, tx.now)

(* Attempts are numbered from one, and below the limit unless the row ended. *)
NumbersBelowLimit ==
  /\ \A t \in Token : claim[t].phase # "none" => claim[t].attempt_number >= 1
  /\ \A a \in attempts :
       /\ a.number >= 1
       /\ row[a.delivery].status \notin {"succeeded", "dead"} =>
            a.number < webhook_max_attempts

LimitsInv ==
  /\ LeaseInv
  /\ Fresh
  /\ CapacityInv
  /\ CandidatesUnfinished
  /\ NumbersBelowLimit
  /\ AttemptsBounded

-----------------------------------------------------------------------------
\* Counting deliveries.
LEMMA CountWithin ==
  ASSUME NEW T \in SUBSET Delivery, NEW S \in SUBSET T
  PROVE  /\ Cardinality(S) \in Nat /\ Cardinality(T) \in Nat
         /\ Cardinality(S) <= Cardinality(T)
<1>1. IsFiniteSet(T)
  BY Zenon, DeliveryAssumption, FS_Subset DEF DeliveryAssumption
<1>. QED
  BY Zenon, <1>1, FS_Subset, FS_CardinalityType

\* A set within two others is no larger than both.
LEMMA CountUnion ==
  ASSUME NEW A \in SUBSET Delivery, NEW B \in SUBSET Delivery,
         NEW S \in SUBSET (A \cup B)
  PROVE  Cardinality(S) <= Cardinality(A) + Cardinality(B)
<1>1. IsFiniteSet(A) /\ IsFiniteSet(B)
  BY Zenon, DeliveryAssumption, FS_Subset DEF DeliveryAssumption
<1>2. Cardinality(A \cup B) =
        Cardinality(A) + Cardinality(B) - Cardinality(A \cap B)
  BY Zenon, <1>1, FS_Union
<1>3. Cardinality(A \cap B) \in Nat
  BY Zenon, CountWithin
<1>4. Cardinality(A) \in Nat /\ Cardinality(B) \in Nat
  BY Zenon, CountWithin
<1>5. Cardinality(S) \in Nat /\ Cardinality(S) <= Cardinality(A \cup B)
  BY Zenon, CountWithin
<1>. QED
  BY <1>2, <1>3, <1>4, <1>5

\* A group is a set of deliveries and a number.
LEMMA GroupType ==
  ASSUME NEW g \in Groups
  PROVE  g[1] \in SUBSET Delivery /\ g[2] \in Nat
<1>1. /\ \A e : DeliveriesOf(e) \in SUBSET Delivery
      /\ \A o : OfTenant(o) \in SUBSET Delivery
  BY Zenon DEF DeliveriesOf, OfTenant
<1>2. endpoint_concurrency \in Nat /\ tenant_in_flight_deliveries \in Nat
  BY Zenon, SettingsAssumption DEF SettingsAssumption
<1>. QED
  BY <1>1, <1>2 DEF Groups

\* A lease live at a later time is live before.
LEMMA LiveEarlier ==
  ASSUME LeaseInv, NEW a \in Nat, NEW b \in Nat, a <= b
  PROVE  Live(b) \subseteq Live(a)
<1>. SUFFICES ASSUME NEW d \in Delivery, LiveAt(d, b) PROVE LiveAt(d, a)
  BY Zenon DEF Live
<1>1. row[d].status = "processing" /\ row[d].lease_expires_at \in Nat
  BY Zenon DEF LiveAt, LeaseInv, LeaseShape, TypeOK, Row
<1>. QED
  BY <1>1 DEF LiveAt

\* A transaction that does not wait takes the clock for its now.
LEMMA NowIsClock ==
  ASSUME LimitsInv, NEW now \in TxNow(0)
  PROVE  now = clock /\ clock \in Nat
BY DEF LimitsInv, LeaseInv, TypeOK, TxNow

(* A step that leaves the claim transaction alone, revives no lease, and ends
   a row only under a live one. *)
Quiet ==
  /\ tx' = tx /\ clock' \in {clock, clock + 1}
  /\ \A d \in Delivery, now \in 0..clock : LiveAt(d, now)' => LiveAt(d, now)
  /\ \A d \in Delivery :
       \/ row'[d].status = row[d].status
       \/ row[d].status = "absent"
       \/ /\ row[d].status \notin {"absent", "succeeded", "dead"}
          /\ row'[d].status \in {"retry_scheduled", "canceled"}
       \/ LiveAt(d, clock)

(* A quiet step keeps every limit: leases can only have ended. *)
LEMMA QuietCapacity ==
  ASSUME LimitsInv, LeaseInv', Quiet
  PROVE  CapacityInv' /\ CandidatesUnfinished'
<1>1. /\ clock \in Nat /\ clock' \in Nat /\ tx' = tx
      /\ tx.stage # "none" => tx.now \in 0..clock
  BY DEF LimitsInv, LeaseInv, TypeOK, Tx, Fresh, Quiet
<1>2. \A now \in 0..clock : Live(now)' \subseteq Live(now)
  BY Zenon DEF Quiet, Live
<1>3. Live(clock)' \subseteq Live(clock)
  <2>1. CASE clock' = clock
    BY <1>1, <1>2, <2>1 DEF Live
  <2>2. CASE clock' = clock + 1
    <3>1. ASSUME NEW d \in Delivery, LiveAt(d, clock)' PROVE LiveAt(d, clock)
      <4>1. row'[d].status = "processing" /\ row'[d].lease_expires_at \in Nat
        BY Zenon, <3>1 DEF LiveAt, LeaseInv, LeaseShape, TypeOK, Row
      <4>2. row'[d].lease_expires_at > clock
        BY <1>1, <2>2, <3>1, <4>1 DEF LiveAt
      <4>3. \A now : now = clock => LiveAt(d, now)'
        BY Zenon, <4>1, <4>2 DEF LiveAt
      <4>. QED
        BY <1>1, <4>3 DEF Quiet
    <3>. QED
      BY Zenon, <3>1 DEF Live
  <2>. QED
    BY Zenon, <2>1, <2>2 DEF Quiet
<1>4. tx.stage # "none" => Live(tx.now)' \subseteq Live(tx.now)
  BY Zenon, <1>1, <1>2 DEF Live
<1>5. Selected' = Selected
  BY Zenon, <1>1 DEF Selected
<1>6. Live(clock) \subseteq Delivery /\ Live(tx.now) \subseteq Delivery
  BY Zenon DEF Live
<1>7. Cardinality(Live(clock)') <= worker_global_concurrency
  <2>1. /\ Cardinality(Live(clock)') \in Nat /\ Cardinality(Live(clock)) \in Nat
        /\ Cardinality(Live(clock)') <= Cardinality(Live(clock))
    BY Zenon, <1>3, <1>6, CountWithin
  <2>. QED
    BY <2>1, SettingsAssumption DEF SettingsAssumption, LimitsInv, CapacityInv
<1>8. ASSUME NEW g \in Groups
      PROVE  Cardinality(Live(clock)' \cap g[1]) <= g[2]
  <2>1. g[2] \in Nat
    BY Zenon, GroupType
  <2>2. Live(clock)' \cap g[1] \subseteq Live(clock) \cap g[1]
    BY Zenon, <1>3
  <2>3. Live(clock) \cap g[1] \subseteq Delivery
    BY Zenon, <1>6
  <2>4. /\ Cardinality(Live(clock)' \cap g[1]) \in Nat
        /\ Cardinality(Live(clock) \cap g[1]) \in Nat
        /\ Cardinality(Live(clock)' \cap g[1])
             <= Cardinality(Live(clock) \cap g[1])
    BY Zenon, <2>2, <2>3, CountWithin
  <2>5. Cardinality(Live(clock) \cap g[1]) <= g[2]
    BY Zenon DEF LimitsInv, CapacityInv, GroupsWithin
  <2>. QED
    BY <2>1, <2>4, <2>5
<1>9. Groups' = Groups
  BY Zenon DEF Groups, DeliveriesOf, OfTenant
<1>10. GroupsWithin'
  BY Zenon, <1>8, <1>9 DEF GroupsWithin
<1>11. ScanCounts'
  <2>. SUFFICES ASSUME tx.stage # "none" PROVE ScanCounts'
    BY Zenon, <1>1 DEF ScanCounts
  <2>1. /\ Cardinality(Live(tx.now)') \in Nat
        /\ Cardinality(Live(tx.now)) \in Nat
        /\ Cardinality(Live(tx.now)') <= Cardinality(Live(tx.now))
    BY Zenon, <1>4, <1>6, CountWithin
  <2>2. /\ Cardinality(Live(tx.now)) + tx.available
              <= worker_global_concurrency
        /\ tx.available > 0 /\ Cardinality(Selected) <= tx.available
    BY Zenon DEF LimitsInv, CapacityInv, ScanCounts
  <2>3. tx.available \in Int
    BY Zenon DEF LimitsInv, LeaseInv, TypeOK, Tx
  <2>4. Cardinality(Live(tx.now)') + tx.available <= worker_global_concurrency
    BY <2>1, <2>2, <2>3, SettingsAssumption DEF SettingsAssumption
  <2>. QED
    BY Zenon, <1>1, <1>5, <2>2, <2>4 DEF ScanCounts
<1>12. LockCounts'
  BY Zenon, <1>1, <1>4, <1>5, <1>9 DEF LimitsInv, CapacityInv, LockCounts
<1>13. CandidatesUnfinished'
  <2>. SUFFICES ASSUME tx.stage # "none" PROVE CandidatesUnfinished'
    BY Zenon, <1>1 DEF CandidatesUnfinished
  <2>1. /\ Selected \subseteq tx.candidates /\ tx.locked \subseteq tx.candidates
        /\ tx.candidates \subseteq Delivery
    BY Zenon DEF LimitsInv, CandidatesUnfinished, LeaseInv, TypeOK, Tx
  <2>2. ASSUME NEW d \in tx.candidates
        PROVE  /\ row'[d].status \notin {"absent", "succeeded", "dead"}
               /\ ~LiveAt(d, tx.now)'
    <3>1. /\ d \in Delivery /\ ~LiveAt(d, tx.now)
          /\ row[d].status \notin {"absent", "succeeded", "dead"}
      BY Zenon, <2>1 DEF LimitsInv, CandidatesUnfinished
    <3>2. d \notin Live(tx.now) /\ Live(clock) \subseteq Live(tx.now)
      BY <1>1, <3>1, LiveEarlier DEF LimitsInv, Live
    <3>3. ~LiveAt(d, clock)
      BY Zenon, <3>1, <3>2 DEF Live
    <3>4. ~LiveAt(d, tx.now)'
      BY Zenon, <1>4, <3>1, <3>2 DEF Live
    <3>. QED
      BY Zenon, <3>1, <3>3, <3>4 DEF Quiet
  <2>. QED
    BY Zenon, <1>1, <1>5, <2>1, <2>2 DEF CandidatesUnfinished
<1>. QED
  BY Zenon, <1>7, <1>10, <1>11, <1>12, <1>13 DEF CapacityInv

\* Steps that write no row, and steps that write one.
LEMMA RowsKeptQuiet ==
  ASSUME row' = row, tx' = tx, clock' \in {clock, clock + 1}
  PROVE  Quiet
BY Zenon DEF Quiet, LiveAt

(* A step that writes one row and takes no lease is quiet. *)
LEMMA RowWriteQuiet ==
  ASSUME tx' = tx, clock' = clock, NEW d \in Delivery,
         \A x \in Delivery \ {d} : row'[x] = row[x],
         \/ row'[d].status # "processing"
         \/ LiveAt(d, clock) /\ LeaseInv /\ clock \in Nat,
         \/ row'[d].status = row[d].status
         \/ row[d].status = "absent"
         \/ /\ row[d].status \notin {"absent", "succeeded", "dead"}
            /\ row'[d].status \in {"retry_scheduled", "canceled"}
         \/ LiveAt(d, clock)
  PROVE  Quiet
<1>1. ASSUME NEW x \in Delivery, NEW now \in 0..clock, LiveAt(x, now)'
      PROVE  LiveAt(x, now)
  <2>1. CASE x = d
    <3>1. LiveAt(d, clock) /\ LeaseInv /\ clock \in Nat
      BY Zenon, <1>1, <2>1 DEF LiveAt
    <3>2. Live(clock) \subseteq Live(now)
      BY <3>1, LiveEarlier
    <3>. QED
      BY Zenon, <2>1, <3>1, <3>2 DEF Live
  <2>2. CASE x # d
    BY Zenon, <1>1, <2>2 DEF LiveAt
  <2>. QED
    BY Zenon, <2>1, <2>2
<1>. QED
  BY Zenon, <1>1 DEF Quiet

\* What a step does to the claims in flight, when it begins none.
ClaimsOnlyEnd ==
  \A t \in Token :
    /\ claim'[t].lag = 0
    /\ claim'[t].phase # "none" =>
         /\ claim[t].phase # "none"
         /\ claim'[t].attempt_number = claim[t].attempt_number

(* Time only ends leases. *)
LEMMA TickQuiet ==
  ASSUME LimitsInv, MaxTxAge = 0, Tick
  PROVE  Quiet /\ ClaimsOnlyEnd
<1>1. Quiet
  BY Zenon, RowsKeptQuiet DEF Tick
<1>2. ASSUME NEW t \in Token
      PROVE  /\ claim'[t].lag = 0 /\ claim'[t].phase = claim[t].phase
             /\ claim'[t].attempt_number = claim[t].attempt_number
  <2>1. CASE Running(t)
    <3>1. claim[t] \in ActiveClaim
      BY Zenon, <2>1, ActiveClaimType DEF Running, LimitsInv, LeaseInv, TypeOK
    <3>2. MinOf(claim[t].lag + 1, MaxTxAge) = 0
      BY <3>1 DEF MinOf, ActiveClaim
    <3>. QED
      BY Zenon, <2>1, <3>1, <3>2 DEF Tick, ActiveClaim
  <2>2. CASE ~Running(t)
    BY Zenon, <2>2 DEF Tick, LimitsInv, Fresh
  <2>. QED
    BY Zenon, <2>1, <2>2
<1>. QED
  BY Zenon, <1>1, <1>2 DEF ClaimsOnlyEnd

(* A new delivery is not leased. *)
LEMMA AcceptQuiet ==
  ASSUME LimitsInv, NEW d \in Delivery, Accept(d)
  PROVE  Quiet /\ ClaimsOnlyEnd
<1>1. PICK now \in TxNow(MaxTxAge) :
        row' = [row EXCEPT ![d].status = "pending", ![d].created_at = now,
                           ![d].next_attempt_at = now]
  BY Zenon DEF Accept
<1>2. /\ row'[d].status = "pending" /\ row[d].status = "absent"
      /\ \A x \in Delivery \ {d} : row'[x] = row[x]
  BY <1>1 DEF Accept, LimitsInv, LeaseInv, TypeOK, Row
<1>3. Quiet
  BY Zenon, <1>2, RowWriteQuiet DEF Accept
<1>. QED
  BY Zenon, <1>3 DEF Accept, ClaimsOnlyEnd, LimitsInv, Fresh

(* A canceled delivery was waiting. *)
LEMMA CancelQuiet ==
  ASSUME LimitsInv, NEW d \in Delivery, CancelDelivery(d)
  PROVE  Quiet /\ ClaimsOnlyEnd
<1>1. PICK now \in TxNow(MaxTxAge) :
        row' = [row EXCEPT ![d].status = "canceled",
                           ![d].next_attempt_at = now]
  BY Zenon DEF CancelDelivery
<1>2. /\ row'[d].status = "canceled"
      /\ row[d].status \in {"pending", "retry_scheduled"}
      /\ \A x \in Delivery \ {d} : row'[x] = row[x]
  BY <1>1 DEF CancelDelivery, LimitsInv, LeaseInv, TypeOK, Row
<1>3. Quiet
  BY Zenon, <1>2, RowWriteQuiet DEF CancelDelivery
<1>. QED
  BY Zenon, <1>3 DEF CancelDelivery, ClaimsOnlyEnd, LimitsInv, Fresh

\* A claim ends, or moves on.
LEMMA DropQuiet ==
  ASSUME LimitsInv, NEW t \in Token, claim' = [claim EXCEPT ![t] = NoClaim]
  PROVE  ClaimsOnlyEnd
BY Zenon DEF ClaimsOnlyEnd, LimitsInv, Fresh, LeaseInv, TypeOK, NoClaim

(* A claim that moves on keeps its number. *)
LEMMA MoveQuiet ==
  ASSUME LimitsInv, NEW t \in Token, claim[t].phase # "none", NEW phase,
         claim' = [claim EXCEPT ![t].phase = phase, ![t].lag = 0]
  PROVE  ClaimsOnlyEnd
<1>1. claim[t] \in ActiveClaim
  BY Zenon, ActiveClaimType DEF LimitsInv, LeaseInv, TypeOK
<1>2. /\ claim'[t].lag = 0 /\ claim'[t].attempt_number = claim[t].attempt_number
      /\ \A x \in Token \ {t} : claim'[x] = claim[x]
  BY Zenon, <1>1 DEF LimitsInv, LeaseInv, TypeOK, ActiveClaim
<1>. QED
  BY Zenon, <1>2 DEF ClaimsOnlyEnd, LimitsInv, Fresh

(* An attempt that begins, ends, is lost or crashes writes no row. *)
LEMMA AttemptStepsQuiet ==
  ASSUME LimitsInv, MaxTxAge = 0, NEW t \in Token,
         \/ StartAttempt(t) \/ \E result \in Result : EndAttempt(t, result)
         \/ LoseLease(t) \/ Crash(t)
  PROVE  Quiet /\ ClaimsOnlyEnd
<1>1. row' = row /\ tx' = tx /\ clock' = clock
  BY Zenon DEF StartAttempt, EndAttempt, LoseLease, Crash
<1>2. Quiet
  BY Zenon, <1>1, RowsKeptQuiet
<1>3. CASE StartAttempt(t)
  <2>. DEFINE phase == IF clock >= Deadline(claim[t].delivery)
                       THEN "max_delivery_age" ELSE "sending"
  <2>1. /\ claim' = [claim EXCEPT ![t].phase = phase, ![t].lag = 0]
        /\ claim[t].phase # "none"
    BY Zenon, <1>3 DEF StartAttempt
  <2>. HIDE DEF phase
  <2>. QED
    BY Zenon, <1>2, <2>1, MoveQuiet
<1>4. CASE \E result \in Result : EndAttempt(t, result)
  BY Zenon, <1>2, <1>4, MoveQuiet DEF EndAttempt
<1>5. CASE LoseLease(t) \/ Crash(t)
  BY Zenon, <1>2, <1>5, DropQuiet DEF LoseLease, Crash
<1>. QED
  BY Zenon, <1>3, <1>4, <1>5

(* A released claim gives its lease up. *)
LEMMA ReleaseQuiet ==
  ASSUME LimitsInv, NEW t \in Token, ReleaseClaim(t)
  PROVE  Quiet /\ ClaimsOnlyEnd
<1>. DEFINE d == claim[t].delivery
<1>1. d \in Delivery
  BY ActiveClaimType
     DEF ReleaseClaim, Running, LimitsInv, LeaseInv, TypeOK, ActiveClaim
<1>2. PICK now \in TxNow(claim[t].lag) :
        row' = [row EXCEPT ![d] = UnleasedRow(row[d], "retry_scheduled", now)]
  BY Zenon DEF ReleaseClaim
<1>3. /\ row'[d].status = "retry_scheduled"
      /\ \A x \in Delivery \ {d} : row'[x] = row[x]
  BY Zenon, <1>1, <1>2 DEF LimitsInv, LeaseInv, TypeOK, Row, UnleasedRow
<1>4. row[d].status = "processing" /\ tx' = tx /\ clock' = clock
  BY Zenon DEF ReleaseClaim
<1>. HIDE DEF d
<1>5. Quiet
  BY Zenon, <1>1, <1>3, <1>4, RowWriteQuiet
<1>. QED
  BY Zenon, <1>5, DropQuiet DEF ReleaseClaim

(* A lease is renewed only while it is live. *)
LEMMA RenewQuiet ==
  ASSUME LimitsInv, NEW t \in Token, RenewLease(t)
  PROVE  Quiet /\ ClaimsOnlyEnd
<1>. DEFINE d == claim[t].delivery
<1>1. claim[t] \in ActiveClaim /\ d \in Delivery /\ claim[t].lag = 0
  BY ActiveClaimType
     DEF RenewLease, LimitsInv, LeaseInv, TypeOK, ActiveClaim, Fresh
<1>2. PICK now \in TxNow(claim[t].lag) :
        /\ HoldsLease(t, now)
        /\ row' = [row EXCEPT ![d].lease_expires_at =
                                now + worker_lease_seconds]
  BY Zenon DEF RenewLease
<1>3. now = clock /\ clock \in Nat
  BY Zenon, <1>1, <1>2, NowIsClock
<1>4. LiveAt(d, clock)
  BY Zenon, <1>2, <1>3 DEF HoldsLease, LiveAt
<1>5. \A x \in Delivery \ {d} : row'[x] = row[x]
  BY Zenon, <1>1, <1>2 DEF LimitsInv, LeaseInv, TypeOK, Row
<1>6. tx' = tx /\ clock' = clock /\ LeaseInv
  BY Zenon DEF RenewLease, LimitsInv
<1>7. claim' = [claim EXCEPT ![t].lag = 0]
  BY Zenon DEF RenewLease
<1>8. ClaimsOnlyEnd
  BY Zenon, <1>1, <1>7 DEF ClaimsOnlyEnd, LimitsInv, Fresh, LeaseInv, TypeOK,
     ActiveClaim
<1>. HIDE DEF d
<1>9. Quiet
  BY Zenon, <1>1, <1>3, <1>4, <1>5, <1>6, RowWriteQuiet
<1>. QED
  BY Zenon, <1>8, <1>9

\* A row is finalized under a live lease, and ends unless it may be retried.
LEMMA FinalizeQuiet ==
  ASSUME LimitsInv, NEW t \in Token, Finalize(t)
  PROVE  LET d == claim[t].delivery
         IN  /\ Quiet /\ ClaimsOnlyEnd
             /\ d \in Delivery /\ LiveAt(d, clock)
             /\ \E a \in Attempt :
                  /\ attempts' = attempts \cup {a}
                  /\ a.delivery = d /\ a.number = claim[t].attempt_number
                  /\ row'[d].status \notin {"succeeded", "dead"} =>
                       a.number < webhook_max_attempts
             /\ \A x \in Delivery \ {d} : row'[x] = row[x]
<1>. DEFINE d == claim[t].delivery
            number == claim[t].attempt_number
<1>1. /\ claim[t] \in ActiveClaim /\ d \in Delivery /\ claim[t].lag = 0
      /\ claim[t].phase \in Result /\ number \in Nat
  BY ZenonT(60), FinalizeStep DEF LimitsInv, LeaseInv, Fresh, TypeOK, ActiveClaim
<1>2. PICK finished \in TxNow(claim[t].lag), delay \in RetryDelay :
        LET outcome == OutcomeOf(d, claim[t].phase, number, finished, delay)
        IN  /\ HoldsLease(t, finished)
            /\ row' = [row EXCEPT ![d] = UnleasedRow(@, outcome,
                  IF outcome = "retry_scheduled" THEN finished + delay
                  ELSE finished)]
            /\ attempts' = attempts \cup
                  {[delivery |-> d, number |-> number, token |-> t,
                    outcome |-> outcome]}
  BY ZenonT(60) DEF Finalize
<1>. DEFINE outcome == OutcomeOf(d, claim[t].phase, number, finished, delay)
            next == IF outcome = "retry_scheduled" THEN finished + delay
                    ELSE finished
            a == [delivery |-> d, number |-> number, token |-> t,
                  outcome |-> outcome]
<1>3. outcome \in Outcome
      /\ (outcome = "retry_scheduled" => number < webhook_max_attempts)
  BY Zenon DEF OutcomeOf, Outcome
<1>4. /\ HoldsLease(t, finished) /\ attempts' = attempts \cup {a}
      /\ row' = [row EXCEPT ![d] = UnleasedRow(row[d], outcome, next)]
  BY Zenon, <1>2
<1>. HIDE DEF outcome, next
<1>5. /\ row'[d].status = outcome
      /\ \A x \in Delivery \ {d} : row'[x] = row[x]
  BY Zenon, <1>1, <1>4 DEF LimitsInv, LeaseInv, TypeOK, Row, UnleasedRow
<1>6. finished = clock /\ clock \in Nat
  BY ZenonT(60), <1>1, <1>2, NowIsClock
<1>7. LiveAt(d, clock)
  BY ZenonT(60), <1>4, <1>6 DEF HoldsLease, LiveAt
<1>8. a \in Attempt /\ a.delivery = d /\ a.number = number
  BY Zenon, <1>1, <1>3 DEF Attempt
<1>9. tx' = tx /\ clock' = clock /\ claim' = [claim EXCEPT ![t] = NoClaim]
  BY Zenon DEF Finalize
<1>. HIDE DEF d, a, number
<1>10. Quiet /\ ClaimsOnlyEnd
  <2>1. row'[d].status # "processing"
    BY Zenon, <1>3, <1>5 DEF Outcome
  <2>2. Quiet
    BY ZenonT(60), <1>1, <1>5, <1>7, <1>9, <2>1, RowWriteQuiet
  <2>. QED
    BY ZenonT(60), <1>9, <2>2, DropQuiet
<1>11. row'[d].status \notin {"succeeded", "dead"} =>
         a.number < webhook_max_attempts
  BY Zenon, <1>3, <1>5, <1>8 DEF Outcome
<1>. QED
  BY ZenonT(60), <1>1, <1>4, <1>5, <1>7, <1>8, <1>10, <1>11 DEF d, number

\* A quiet step that records no attempt keeps everything.
LEMMA QuietLimits ==
  ASSUME LimitsInv, LeaseInv', Quiet, ClaimsOnlyEnd, attempts' = attempts
  PROVE  LimitsInv'
<1>1. CapacityInv' /\ CandidatesUnfinished'
  BY Zenon, QuietCapacity
<1>2. Fresh'
  <2>1. clock \in Nat /\ clock <= clock' /\ tx' = tx
    BY DEF Quiet, LimitsInv, LeaseInv, TypeOK
  <2>2. tx.now \in Nat /\ (tx.stage # "none" => tx.now <= clock)
    BY Zenon DEF LimitsInv, LeaseInv, TypeOK, Tx, Fresh
  <2>3. clock' \in Nat
    BY Zenon DEF LeaseInv, TypeOK
  <2>. QED
    BY <2>1, <2>2, <2>3 DEF Fresh, ClaimsOnlyEnd
<1>3. ASSUME NEW a \in attempts
      PROVE  row'[a.delivery].status \notin {"succeeded", "dead"} =>
               row[a.delivery].status \notin {"succeeded", "dead"}
  <2>1. a.delivery \in Delivery
    BY Zenon DEF LimitsInv, LeaseInv, TypeOK, Attempt
  <2>. QED
    BY Zenon, <2>1 DEF Quiet, LiveAt
<1>4. NumbersBelowLimit'
  BY Zenon, <1>3 DEF LimitsInv, NumbersBelowLimit, ClaimsOnlyEnd
<1>5. AttemptsBounded'
  BY Zenon DEF LimitsInv, AttemptsBounded
<1>. QED
  BY Zenon, <1>1, <1>2, <1>4, <1>5 DEF LimitsInv

\* Attempts of one delivery with numbers from 1 to below n are fewer than n.
LEMMA FewAttempts ==
  ASSUME LimitsInv, NEW d \in Delivery,
         row[d].status \notin {"succeeded", "dead"}
  PROVE  LET mine == {a \in attempts : a.delivery = d}
         IN  /\ IsFiniteSet(mine)
             /\ Cardinality(mine) \in Nat
             /\ Cardinality(mine) < webhook_max_attempts
<1>. DEFINE mine == {a \in attempts : a.delivery = d}
            n == webhook_max_attempts - 1
            f == [a \in mine |-> a.number]
<1>1. n \in Nat /\ webhook_max_attempts = n + 1
  BY SettingsAssumption DEF SettingsAssumption
<1>2. \A a \in mine : a.number \in 1..n
  <2>. SUFFICES ASSUME NEW a \in mine PROVE a.number \in 1..n
    BY Zenon
  <2>1. a.number \in Nat
    BY Zenon DEF LimitsInv, LeaseInv, TypeOK, Attempt
  <2>2. a.number >= 1 /\ a.number < webhook_max_attempts
    BY Zenon DEF LimitsInv, NumbersBelowLimit
  <2>. QED
    BY <1>1, <2>1, <2>2
<1>3. \A a, b \in mine : a.number = b.number => a = b
  BY Zenon DEF LimitsInv, LeaseInv, AttemptNumbersUnique
<1>. HIDE DEF mine, n
<1>4. f \in Injection(mine, 1..n)
  BY Zenon, <1>2, <1>3 DEF Injection, IsInjective
<1>5. IsFiniteSet(1..n) /\ Cardinality(1..n) = n
  BY <1>1, FS_Interval
<1>6. IsFiniteSet(mine) /\ Cardinality(mine) <= Cardinality(1..n)
  BY Zenon, <1>4, <1>5, FS_Injection
<1>7. Cardinality(mine) \in Nat
  BY Zenon, <1>6, FS_CardinalityType
<1>. QED
  BY <1>1, <1>5, <1>6, <1>7 DEF mine

\* One more element fits where there is room for one.
LEMMA OneMoreFits ==
  ASSUME NEW S, IsFiniteSet(S), NEW a, NEW n \in Nat, Cardinality(S) < n
  PROVE  Cardinality(S \cup {a}) <= n
<1>1. Cardinality(S) \in Nat
  BY Zenon, FS_CardinalityType
<1>2. Cardinality(S \cup {a}) \in {Cardinality(S), Cardinality(S) + 1}
  BY Zenon, FS_AddElement
<1>. QED
  BY <1>1, <1>2

(* An attempt is recorded for a delivery that had room for one more. *)
LEMMA FinalizeLimits ==
  ASSUME LimitsInv, LeaseInv', NEW t \in Token, Finalize(t)
  PROVE  LimitsInv'
<1>. DEFINE d == claim[t].delivery
<1>1. /\ Quiet /\ ClaimsOnlyEnd /\ d \in Delivery /\ LiveAt(d, clock)
      /\ \A x \in Delivery \ {d} : row'[x] = row[x]
  BY Zenon, FinalizeQuiet
<1>2. PICK a \in Attempt :
        /\ attempts' = attempts \cup {a}
        /\ a.delivery = d /\ a.number = claim[t].attempt_number
        /\ row'[d].status \notin {"succeeded", "dead"} =>
             a.number < webhook_max_attempts
  BY Zenon, FinalizeQuiet
<1>3. row[d].status = "processing" /\ claim[t].phase # "none"
  BY ZenonT(60), <1>1 DEF LiveAt, Finalize, Result
<1>. HIDE DEF d
<1>4. CapacityInv' /\ CandidatesUnfinished'
  BY ZenonT(60), <1>1, QuietCapacity
<1>5. Fresh'
  <2>1. clock' = clock /\ tx' = tx
    BY ZenonT(60) DEF Finalize
  <2>. QED
    BY ZenonT(60), <1>1, <2>1 DEF Fresh, ClaimsOnlyEnd, LimitsInv
<1>6. NumbersBelowLimit'
  <2>1. ASSUME NEW b \in attempts
        PROVE  /\ b.number >= 1
               /\ row'[b.delivery].status \notin {"succeeded", "dead"} =>
                    b.number < webhook_max_attempts
    <3>1. b.delivery \in Delivery
      BY Zenon DEF LimitsInv, LeaseInv, TypeOK, Attempt
    <3>2. /\ b.number >= 1
          /\ row[b.delivery].status \notin {"succeeded", "dead"} =>
               b.number < webhook_max_attempts
      BY Zenon DEF LimitsInv, NumbersBelowLimit
    <3>. QED
      BY Zenon, <1>1, <1>3, <3>1, <3>2
  <2>2. a.number >= 1
    BY Zenon, <1>2, <1>3 DEF LimitsInv, NumbersBelowLimit
  <2>. QED
    BY ZenonT(60), <1>1, <1>2, <2>1, <2>2
       DEF LimitsInv, NumbersBelowLimit, ClaimsOnlyEnd
<1>7. AttemptsBounded'
  <2>. SUFFICES ASSUME NEW x \in Delivery
                PROVE  Cardinality({b \in attempts' : b.delivery = x})
                         <= webhook_max_attempts
    BY Zenon DEF AttemptsBounded
  <2>1. CASE x = d
    <3>. DEFINE mine == {b \in attempts : b.delivery = d}
    <3>1. /\ IsFiniteSet(mine) /\ Cardinality(mine) \in Nat
          /\ Cardinality(mine) < webhook_max_attempts
      BY Zenon, <1>1, <1>3, FewAttempts
    <3>2. {b \in attempts' : b.delivery = x} = mine \cup {a}
      BY Zenon, <1>2, <2>1
    <3>3. webhook_max_attempts \in Nat
      BY Zenon, SettingsAssumption DEF SettingsAssumption
    <3>. QED
      BY Zenon, <3>1, <3>2, <3>3, OneMoreFits
  <2>2. CASE x # d
    <3>1. {b \in attempts' : b.delivery = x} = {b \in attempts : b.delivery = x}
      BY Zenon, <1>2, <2>2
    <3>. QED
      BY Zenon, <3>1 DEF LimitsInv, AttemptsBounded
  <2>. QED
    BY Zenon, <2>1, <2>2
<1>. QED
  BY Zenon, <1>4, <1>5, <1>6, <1>7 DEF LimitsInv

-----------------------------------------------------------------------------
\* The claim transaction's own steps: those before it commits write no row.
LEMMA TxLimits ==
  ASSUME LimitsInv, LeaseInv', row' = row, clock' = clock, attempts' = attempts,
         \A t \in Token :
           /\ claim'[t].lag = 0
           /\ claim'[t].phase # "none" => claim'[t].attempt_number >= 1,
         tx'.stage # "none" => tx'.now <= clock,
         ScanCounts', LockCounts', CandidatesUnfinished'
  PROVE  LimitsInv'
<1>1. Live(clock)' = Live(clock) /\ Groups' = Groups
  BY Zenon DEF Live, LiveAt, Groups, DeliveriesOf, OfTenant
<1>2. CapacityInv'
  BY Zenon, <1>1 DEF LimitsInv, CapacityInv, GroupsWithin
<1>3. Fresh' /\ NumbersBelowLimit' /\ AttemptsBounded'
  BY Zenon DEF Fresh, LimitsInv, NumbersBelowLimit, AttemptsBounded
<1>. QED
  BY Zenon, <1>2, <1>3 DEF LimitsInv

\* The claims of the step before, when it leaves them alone.
LEMMA ClaimsNumbered ==
  ASSUME LimitsInv, claim' = claim
  PROVE  \A t \in Token :
           /\ claim'[t].lag = 0
           /\ claim'[t].phase # "none" => claim'[t].attempt_number >= 1
BY Zenon DEF LimitsInv, Fresh, NumbersBelowLimit

\* An ended transaction counts nothing.
LEMMA NoTxLimits ==
  ASSUME tx' = NoTx
  PROVE  /\ tx'.stage = "none"
         /\ ScanCounts' /\ LockCounts' /\ CandidatesUnfinished'
<1>1. tx'.stage = "none"
  BY Zenon DEF NoTx
<1>. QED
  BY Zenon, <1>1 DEF ScanCounts, LockCounts, CandidatesUnfinished

(* The scan asks for no more than the workers have room for. *)
LEMMA ClaimScanLimits ==
  ASSUME LimitsInv, LeaseInv', MaxTxAge = 0,
         NEW requested \in 1..worker_batch_size, ClaimScan(requested)
  PROVE  LimitsInv'
<1>1. PICK now \in TxNow(MaxTxAge) :
        LET live == {d \in Delivery : LiveAt(d, now)}
            available == MinOf(requested,
                               worker_global_concurrency - Cardinality(live))
            key == [d \in Delivery |-> row[d].next_attempt_at]
            candidates == fair_candidate_ids(
                            {d \in Delivery : DueAt(d, now)},
                            key, EndpointOf, OrganizationOf,
                            MaxOf(available * 2, endpoint_concurrency),
                            worker_candidate_scan_limit)
        IN  /\ available > 0
            /\ tx' = [NoTx EXCEPT !.stage = "scanned", !.now = now,
                                  !.available = available,
                                  !.candidates = candidates,
                                  !.key = [d \in Delivery |->
                                             IF d \in candidates THEN key[d]
                                             ELSE 0]]
  BY Zenon DEF ClaimScan
<1>. DEFINE available == MinOf(requested, worker_global_concurrency
                                            - Cardinality(Live(now)))
            key == [d \in Delivery |-> row[d].next_attempt_at]
            due == {d \in Delivery : DueAt(d, now)}
            candidates == fair_candidate_ids(due, key, EndpointOf,
                            OrganizationOf,
                            MaxOf(available * 2, endpoint_concurrency),
                            worker_candidate_scan_limit)
            scanned == [d \in Delivery |-> IF d \in candidates THEN key[d]
                                           ELSE 0]
<1>2. now = clock /\ clock \in Nat
  BY Zenon, <1>1, NowIsClock
<1>3. /\ available > 0
      /\ tx' = [NoTx EXCEPT !.stage = "scanned", !.now = now,
                            !.available = available,
                            !.candidates = candidates, !.key = scanned]
  BY Zenon, <1>1 DEF Live
<1>4. candidates \subseteq due
  BY Zenon, CandidatesAreDue
<1>5. available + Cardinality(Live(now)) <= worker_global_concurrency
      /\ available \in Int /\ Cardinality(Live(now)) \in Nat
  <2>1. Cardinality(Live(now)) \in Nat
    BY Zenon, DeliveryCount DEF Live
  <2>2. worker_global_concurrency \in Nat /\ requested \in Int
    BY SettingsAssumption DEF SettingsAssumption
  <2>. QED
    BY <2>1, <2>2 DEF MinOf
<1>. HIDE DEF available, candidates, scanned
<1>6. /\ tx'.stage = "scanned" /\ tx'.now = now /\ tx'.available = available
      /\ tx'.candidates = candidates /\ tx'.locked = {}
      /\ \A d \in Delivery : tx'.token[d] = NULL
  BY Zenon, <1>3 DEF NoTx
<1>7. Selected' = {} /\ Cardinality({}) = 0
  BY Zenon, <1>6, FS_EmptySet DEF Selected
<1>8. row' = row /\ clock' = clock /\ attempts' = attempts /\ claim' = claim
  BY Zenon DEF ClaimScan
<1>9. ScanCounts'
  <2>1. Live(tx.now)' = Live(now)
    BY Zenon, <1>6, <1>8 DEF Live, LiveAt
  <2>. QED
    BY SMTT(30), <1>3, <1>5, <1>6, <1>7, <2>1 DEF ScanCounts
<1>10. LockCounts'
  BY Zenon, <1>6 DEF LockCounts
<1>11. CandidatesUnfinished'
  <2>1. ASSUME NEW d \in candidates
        PROVE  /\ row'[d].status \notin {"absent", "succeeded", "dead"}
               /\ ~LiveAt(d, tx.now)'
    <3>1. d \in Delivery /\ DueAt(d, now)
      BY Zenon, <1>4
    <3>2. row[d].status = "processing" => row[d].lease_expires_at \in Nat
      BY Zenon, <3>1 DEF LimitsInv, LeaseInv, LeaseShape, TypeOK, Row
    <3>. QED
      BY <1>2, <1>6, <1>8, <3>1, <3>2 DEF DueAt, LiveAt
  <2>. QED
    BY Zenon, <1>6, <1>7, <2>1 DEF CandidatesUnfinished
<1>12. \A t \in Token :
          /\ claim'[t].lag = 0
          /\ claim'[t].phase # "none" => claim'[t].attempt_number >= 1
  BY Zenon, <1>8, ClaimsNumbered
<1>13. tx'.stage # "none" => tx'.now <= clock
  BY <1>2, <1>6
<1>. QED
  BY Zenon, <1>8, <1>9, <1>10, <1>11, <1>12, <1>13, TxLimits

(* The leases counted after the rows are locked are those still live. *)
LEMMA ClaimLockLimits ==
  ASSUME LimitsInv, LeaseInv', NEW L \in SUBSET Delivery, ClaimLock(L)
  PROVE  LimitsInv'
<1>1. row' = row /\ clock' = clock /\ attempts' = attempts /\ claim' = claim
  BY Zenon DEF ClaimLock
<1>2. CASE L = {}
  <2>1. tx' = NoTx
    BY Zenon, <1>2 DEF ClaimLock
  <2>. QED
    BY Zenon, <1>1, <2>1, NoTxLimits, ClaimsNumbered, TxLimits
<1>3. CASE L # {}
  <2>1. tx' = [tx EXCEPT !.stage = "locked", !.locked = L,
                         !.circuit = circuit, !.live = Live(tx.now)]
    BY Zenon, <1>3 DEF ClaimLock, Live
  <2>2. /\ tx'.stage = "locked" /\ tx'.now = tx.now
        /\ tx'.available = tx.available /\ tx'.candidates = tx.candidates
        /\ tx'.locked = L /\ tx'.live = Live(tx.now) /\ tx'.token = tx.token
    BY Zenon, <2>1 DEF LimitsInv, LeaseInv, TypeOK, Tx
  <2>3. tx.stage = "scanned" /\ L \subseteq tx.candidates
    BY Zenon DEF ClaimLock
  <2>4. Selected' = Selected /\ Selected = {}
    BY <2>2, <2>3 DEF Selected, LimitsInv, LeaseInv, TokensTracked
  <2>5. Live(tx.now)' = Live(tx.now)
    BY Zenon, <1>1, <2>2 DEF Live, LiveAt
  <2>6. ScanCounts'
    BY Zenon, <2>2, <2>3, <2>4, <2>5 DEF LimitsInv, CapacityInv, ScanCounts
  <2>7. LockCounts'
    BY Zenon, <2>2, <2>4, <2>5 DEF LockCounts
  <2>8. CandidatesUnfinished'
    BY Zenon, <1>1, <2>2, <2>3, <2>4 DEF LimitsInv, CandidatesUnfinished, LiveAt
  <2>9. tx'.now <= clock
    BY Zenon, <2>2, <2>3 DEF LimitsInv, Fresh
  <2>. QED
    BY Zenon, <1>1, <2>6, <2>7, <2>8, <2>9, ClaimsNumbered, TxLimits
<1>. QED
  BY Zenon, <1>2, <1>3

(* A circuit that becomes half open changes no count. *)
LEMMA ClaimHalfOpenLimits ==
  ASSUME LimitsInv, LeaseInv', NEW e \in Endpoint, ClaimHalfOpen(e)
  PROVE  LimitsInv'
<1>1. row' = row /\ clock' = clock /\ attempts' = attempts /\ claim' = claim
  BY Zenon DEF ClaimHalfOpen
<1>2. /\ tx'.stage = tx.stage /\ tx'.now = tx.now
      /\ tx'.available = tx.available /\ tx'.candidates = tx.candidates
      /\ tx'.locked = tx.locked /\ tx'.live = tx.live /\ tx'.token = tx.token
  BY Zenon DEF ClaimHalfOpen, LimitsInv, LeaseInv, TypeOK, Tx
<1>3. Selected' = Selected /\ Live(tx.now)' = Live(tx.now) /\ Groups' = Groups
  BY ZenonT(60), <1>1, <1>2 DEF Selected, Live, LiveAt, Groups, DeliveriesOf, OfTenant
<1>4. ScanCounts' /\ LockCounts'
  BY Zenon, <1>2, <1>3 DEF LimitsInv, CapacityInv, ScanCounts, LockCounts
<1>5. CandidatesUnfinished'
  BY ZenonT(60), <1>1, <1>2, <1>3 DEF LimitsInv, CandidatesUnfinished, LiveAt
<1>6. tx'.stage # "none" => tx'.now <= clock
  BY Zenon, <1>2 DEF LimitsInv, Fresh
<1>. QED
  BY Zenon, <1>1, <1>4, <1>5, <1>6, ClaimsNumbered, TxLimits

(* A claim transaction that is rolled back leases nothing. *)
LEMMA ClaimAbortLimits ==
  ASSUME LimitsInv, LeaseInv', ClaimAbort
  PROVE  LimitsInv'
<1>1. row' = row /\ clock' = clock /\ attempts' = attempts /\ tx' = NoTx
  BY Zenon DEF ClaimAbort
<1>2. ASSUME NEW t \in Token
      PROVE  /\ claim'[t].lag = 0
             /\ claim'[t].phase # "none" => claim'[t].attempt_number >= 1
  BY Zenon DEF ClaimAbort, NoClaim, LimitsInv, Fresh, NumbersBelowLimit
<1>. QED
  BY Zenon, <1>1, <1>2, NoTxLimits, TxLimits

\* One more delivery in a set of deliveries.
LEMMA CountOneMore ==
  ASSUME NEW S \in SUBSET Delivery, NEW d \in Delivery, d \notin S
  PROVE  Cardinality(S \cup {d}) = Cardinality(S) + 1 /\ Cardinality(S) \in Nat
<1>1. IsFiniteSet(S)
  BY Zenon, DeliveryAssumption, FS_Subset DEF DeliveryAssumption
<1>. QED
  BY Zenon, <1>1, FS_AddElement, FS_CardinalityType

(* A delivery is selected when its endpoint, its tenant and the batch each
   have room for one more beside the leases counted. *)
LEMMA ClaimSelectLimits ==
  ASSUME LimitsInv, LeaseInv', NEW d \in Delivery, ClaimSelect(d)
  PROVE  LimitsInv'
<1>. DEFINE t == issued + 1
            e == EndpointOf[d]
<1>1. t \in Token /\ issued \in Nat
  BY BoundsAssumption
     DEF BoundsAssumption, ClaimSelect, LimitsInv, LeaseInv, TypeOK, Token
<1>2. /\ tx.stage = "locked" /\ tx.token[d] = NULL /\ d \in tx.locked
      /\ Cardinality(Selected) < tx.available
      /\ tenant_count(OrganizationOf[e]) < tenant_in_flight_deliveries
      /\ endpoint_count(e) < endpoint_concurrency
      /\ row' = row /\ clock' = clock /\ attempts' = attempts
  BY Zenon DEF ClaimSelect, Visits, IsHead, Queue
<1>3. /\ tx'.stage = tx.stage /\ tx'.now = tx.now
      /\ tx'.available = tx.available /\ tx'.candidates = tx.candidates
      /\ tx'.locked = tx.locked /\ tx'.live = tx.live
      /\ tx'.token = [tx.token EXCEPT ![d] = t]
  BY ZenonT(60) DEF ClaimSelect, LimitsInv, LeaseInv, TypeOK, Tx
<1>4. Selected' = Selected \cup {d} /\ d \notin Selected
  <2>1. tx.token \in [Delivery -> Token \cup {NULL}]
    BY Zenon DEF LimitsInv, LeaseInv, TypeOK, Tx
  <2>. QED
    BY Zenon, <1>1, <1>2, <1>3, <2>1, NullNotToken DEF Selected
<1>5. Selected \in SUBSET Delivery /\ tx.live \in SUBSET Delivery
      /\ tx.available \in Int
  BY Zenon DEF Selected, LimitsInv, LeaseInv, TypeOK, Tx
<1>6. ASSUME NEW x \in Token
      PROVE  /\ claim'[x].lag = 0
             /\ claim'[x].phase # "none" => claim'[x].attempt_number >= 1
  <2>1. CASE x = t
    <3>1. row[d].attempt_count \in Nat
      BY Zenon DEF LimitsInv, LeaseInv, TypeOK, Row
    <3>2. claim'[t] = [phase |-> "selected", delivery |-> d,
                       attempt_number |-> row[d].attempt_count + 1, lag |-> 0]
      BY Zenon, <1>1 DEF ClaimSelect, LimitsInv, LeaseInv, TypeOK
    <3>. QED
      BY SMTT(30), <2>1, <3>1, <3>2
  <2>2. CASE x # t
    <3>1. claim'[x] = claim[x]
      BY Zenon, <2>2 DEF ClaimSelect, LimitsInv, LeaseInv, TypeOK
    <3>. QED
      BY Zenon, <3>1 DEF LimitsInv, Fresh, NumbersBelowLimit
  <2>. QED
    BY Zenon, <2>1, <2>2
<1>7. Live(tx.now)' = Live(tx.now) /\ Groups' = Groups
  BY Zenon, <1>2, <1>3 DEF Live, LiveAt, Groups, DeliveriesOf, OfTenant
<1>8. ScanCounts'
  <2>1. Cardinality(Selected') <= tx.available
    BY SMTT(30), <1>2, <1>4, <1>5, CountOneMore
  <2>. QED
    BY Zenon, <1>2, <1>3, <1>7, <2>1 DEF LimitsInv, CapacityInv, ScanCounts
<1>9. LockCounts'
  <2>1. ASSUME NEW g \in Groups, Selected' \cap g[1] # {}
        PROVE  Cardinality(tx.live \cap g[1])
                 + Cardinality(Selected' \cap g[1]) <= g[2]
    <3>1. g[1] \in SUBSET Delivery /\ g[2] \in Nat
      BY Zenon, GroupType
    <3>2. CASE d \notin g[1]
      <4>1. Selected' \cap g[1] = Selected \cap g[1]
        BY Zenon, <1>4, <3>2
      <4>. QED
        BY Zenon, <1>2, <2>1, <4>1 DEF LimitsInv, CapacityInv, LockCounts
    <3>3. CASE d \in g[1]
      <4>1. Cardinality(tx.live \cap g[1]) + Cardinality(Selected \cap g[1])
              < g[2]
        <5>1. CASE \E x \in Endpoint :
                     g = <<DeliveriesOf(x), endpoint_concurrency>>
          <6>1. g = <<DeliveriesOf(e), endpoint_concurrency>>
            BY <3>3, <5>1 DEF DeliveriesOf
          <6>. QED
            BY Zenon, <1>2, <6>1 DEF endpoint_count
        <5>2. CASE \E o \in {OrganizationOf[x] : x \in Endpoint} :
                     g = <<OfTenant(o), tenant_in_flight_deliveries>>
          <6>1. g = <<OfTenant(OrganizationOf[e]), tenant_in_flight_deliveries>>
            BY <3>3, <5>2 DEF OfTenant
          <6>. QED
            BY Zenon, <1>2, <6>1 DEF tenant_count, OfTenant
        <5>. QED
          BY Zenon, <5>1, <5>2 DEF Groups
      <4>2. Selected' \cap g[1] = (Selected \cap g[1]) \cup {d}
        BY Zenon, <1>4, <3>3
      <4>3. /\ Cardinality((Selected \cap g[1]) \cup {d})
                 = Cardinality(Selected \cap g[1]) + 1
            /\ Cardinality(Selected \cap g[1]) \in Nat
        BY ZenonT(60), <1>4, <1>5, CountOneMore
      <4>4. Cardinality(tx.live \cap g[1]) \in Nat
        BY Zenon, <1>5, <3>1, CountWithin
      <4>. QED
        <5>1. Cardinality(Selected' \cap g[1])
                = Cardinality(Selected \cap g[1]) + 1
          BY Zenon, <4>2, <4>3
        <5>. QED
          BY SMTT(30), <3>1, <4>1, <4>3, <4>4, <5>1
    <3>. QED
      BY Zenon, <3>2, <3>3
  <2>2. Live(tx.now) \subseteq tx.live
    BY Zenon, <1>2 DEF LimitsInv, CapacityInv, LockCounts
  <2>. QED
    BY Zenon, <1>3, <1>7, <2>1, <2>2 DEF LockCounts
<1>10. CandidatesUnfinished'
  BY ZenonT(60), <1>2, <1>3, <1>4 DEF LimitsInv, CandidatesUnfinished, LiveAt
<1>11. tx'.now <= clock
  BY ZenonT(60), <1>2, <1>3 DEF LimitsInv, Fresh
<1>. QED
  BY Zenon, <1>2, <1>6, <1>8, <1>9, <1>10, <1>11, TxLimits

(* The claim transaction commits: what is then leased was leased when it
   counted, or is selected. *)
LEMMA ClaimCommitLimits ==
  ASSUME LimitsInv, LeaseInv', ClaimCommit
  PROVE  LimitsInv'
<1>1. /\ tx.stage = "locked" /\ tx' = NoTx
      /\ clock' = clock /\ attempts' = attempts
  BY Zenon DEF ClaimCommit
<1>2. /\ \A d \in Delivery \ Selected : row'[d] = row[d]
      /\ \A d \in Selected : row'[d].status = "processing"
  <2>1. \A d \in Delivery \ Selected : row'[d] = row[d]
    BY Zenon DEF ClaimCommit, Selected
  <2>2. ASSUME NEW d \in Selected PROVE row'[d].status = "processing"
    <3>1. row'[d] = LeasedRow(row[d], tx.token[d], tx.now) /\ row[d] \in Row
      BY Zenon DEF ClaimCommit, Selected, LimitsInv, LeaseInv, TypeOK
    <3>. QED
      BY Zenon, <3>1 DEF LeasedRow, Row
  <2>. QED
    BY Zenon, <2>1, <2>2
<1>3. clock \in Nat /\ tx.now \in Nat /\ tx.now <= clock
  BY Zenon, <1>1 DEF LimitsInv, LeaseInv, TypeOK, Tx, Fresh
<1>4. Live(clock) \subseteq Live(tx.now) /\ Live(tx.now) \subseteq tx.live
  BY Zenon, <1>1, <1>3, LiveEarlier DEF LimitsInv, CapacityInv, LockCounts
<1>5. Live(clock)' \subseteq Live(clock) \cup Selected
  BY Zenon, <1>1, <1>2 DEF Live, LiveAt
<1>6. /\ Selected \in SUBSET Delivery /\ tx.live \in SUBSET Delivery
      /\ Live(clock) \in SUBSET Delivery /\ Live(tx.now) \in SUBSET Delivery
      /\ Live(clock)' \in SUBSET Delivery /\ tx.available \in Int
  BY Zenon DEF Selected, Live, LimitsInv, LeaseInv, TypeOK, Tx
<1>7. Cardinality(Live(clock)') <= worker_global_concurrency
  <2>1. Cardinality(Live(clock)')
          <= Cardinality(Live(tx.now)) + Cardinality(Selected)
    BY Zenon, <1>4, <1>5, <1>6, CountUnion
  <2>2. /\ Cardinality(Live(tx.now)) + tx.available
             <= worker_global_concurrency
        /\ Cardinality(Selected) <= tx.available
    BY Zenon, <1>1 DEF LimitsInv, CapacityInv, ScanCounts
  <2>3. /\ Cardinality(Live(tx.now)) \in Nat /\ Cardinality(Selected) \in Nat
        /\ Cardinality(Live(clock)') \in Nat
    BY Zenon, <1>6, CountWithin
  <2>4. worker_global_concurrency \in Nat
    BY Zenon, SettingsAssumption DEF SettingsAssumption
  <2>. QED
    BY SMTT(30), <1>6, <2>1, <2>2, <2>3, <2>4
<1>8. GroupsWithin'
  <2>1. Groups' = Groups
    BY Zenon DEF Groups, DeliveriesOf, OfTenant
  <2>2. ASSUME NEW g \in Groups
        PROVE  Cardinality(Live(clock)' \cap g[1]) <= g[2]
    <3>1. g[1] \in SUBSET Delivery /\ g[2] \in Nat
      BY Zenon, GroupType
    <3>2. CASE Selected \cap g[1] = {}
      <4>1. Live(clock)' \cap g[1] \subseteq Live(clock) \cap g[1]
        BY Zenon, <1>5, <3>2
      <4>2. Cardinality(Live(clock) \cap g[1]) <= g[2]
        BY Zenon DEF LimitsInv, CapacityInv, GroupsWithin
      <4>3. /\ Cardinality(Live(clock)' \cap g[1])
                 <= Cardinality(Live(clock) \cap g[1])
            /\ Cardinality(Live(clock)' \cap g[1]) \in Nat
            /\ Cardinality(Live(clock) \cap g[1]) \in Nat
        BY Zenon, <1>6, <4>1, CountWithin
      <4>. QED
        BY SMTT(30), <3>1, <4>2, <4>3
    <3>3. CASE Selected \cap g[1] # {}
      <4>1. Cardinality(tx.live \cap g[1]) + Cardinality(Selected \cap g[1])
              <= g[2]
        BY Zenon, <1>1, <3>3 DEF LimitsInv, CapacityInv, LockCounts
      <4>2. Live(clock)' \cap g[1]
              \subseteq (tx.live \cap g[1]) \cup (Selected \cap g[1])
        BY Zenon, <1>4, <1>5
      <4>3. /\ tx.live \cap g[1] \in SUBSET Delivery
            /\ Selected \cap g[1] \in SUBSET Delivery
            /\ Live(clock)' \cap g[1] \in SUBSET Delivery
        BY Zenon, <3>1
      <4>4. Cardinality(Live(clock)' \cap g[1])
              <= Cardinality(tx.live \cap g[1])
                   + Cardinality(Selected \cap g[1])
        BY Zenon, <4>2, <4>3, CountUnion
      <4>5. /\ Cardinality(Live(clock)' \cap g[1]) \in Nat
            /\ Cardinality(tx.live \cap g[1]) \in Nat
            /\ Cardinality(Selected \cap g[1]) \in Nat
        BY Zenon, <4>3, CountWithin
      <4>. QED
        BY SMTT(30), <3>1, <4>1, <4>4, <4>5
    <3>. QED
      BY Zenon, <3>2, <3>3
  <2>. QED
    BY Zenon, <2>1, <2>2 DEF GroupsWithin
<1>9. ASSUME NEW x \in Token
      PROVE  /\ claim'[x].lag = 0
             /\ claim'[x].phase # "none" => claim'[x].attempt_number >= 1
  <2>1. CASE claim[x].phase = "selected"
    <3>1. claim[x] \in ActiveClaim
      BY Zenon, <2>1, ActiveClaimType DEF LimitsInv, LeaseInv, TypeOK
    <3>2. claim'[x] = [claim[x] EXCEPT !.phase = "leased"]
      BY Zenon, <2>1 DEF ClaimCommit
    <3>. QED
      BY Zenon, <2>1, <3>1, <3>2
      DEF ActiveClaim, LimitsInv, Fresh, NumbersBelowLimit
  <2>2. CASE claim[x].phase # "selected"
    <3>1. claim'[x] = claim[x]
      BY Zenon, <2>2 DEF ClaimCommit
    <3>. QED
      BY Zenon, <3>1 DEF LimitsInv, Fresh, NumbersBelowLimit
  <2>. QED
    BY Zenon, <2>1, <2>2
<1>10. NumbersBelowLimit'
  <2>1. ASSUME NEW a \in attempts
        PROVE  /\ a.number >= 1
               /\ row'[a.delivery].status \notin {"succeeded", "dead"} =>
                    a.number < webhook_max_attempts
    <3>1. a.delivery \in Delivery
      BY Zenon DEF LimitsInv, LeaseInv, TypeOK, Attempt
    <3>2. CASE a.delivery \in Selected
      <4>1. row[a.delivery].status \notin {"succeeded", "dead"}
        BY Zenon, <1>1, <3>2 DEF LimitsInv, CandidatesUnfinished
      <4>. QED
        BY Zenon, <4>1 DEF LimitsInv, NumbersBelowLimit
    <3>3. CASE a.delivery \notin Selected
      BY Zenon, <1>2, <3>1, <3>3 DEF LimitsInv, NumbersBelowLimit
    <3>. QED
      BY Zenon, <3>2, <3>3
  <2>. QED
    BY Zenon, <1>1, <1>9, <2>1 DEF NumbersBelowLimit
<1>11. /\ tx'.stage = "none"
       /\ ScanCounts' /\ LockCounts' /\ CandidatesUnfinished'
  BY Zenon, <1>1, NoTxLimits
<1>12. Fresh' /\ AttemptsBounded'
  BY Zenon, <1>1, <1>9, <1>11 DEF Fresh, LimitsInv, AttemptsBounded
<1>. QED
  BY Zenon, <1>7, <1>8, <1>10, <1>11, <1>12 DEF LimitsInv, CapacityInv

\* Every step preserves the limits, when no transaction outlives a clock step.
LEMMA NextLimits ==
  ASSUME MaxTxAge = 0
  PROVE  LimitsInv /\ [Next]_vars => LimitsInv'
<1>. SUFFICES ASSUME LimitsInv, [Next]_vars PROVE LimitsInv'
  BY Zenon
<1>0. LeaseInv'
  BY Zenon, NextLease DEF LimitsInv
<1>1. CASE Tick
  BY Zenon, <1>0, <1>1, TickQuiet, QuietLimits DEF Tick
<1>2. CASE \E d \in Delivery : Accept(d)
  <2>1. PICK d \in Delivery : Accept(d)
    BY Zenon, <1>2
  <2>2. attempts' = attempts
    BY Zenon, <2>1 DEF Accept
  <2>. QED
    BY Zenon, <1>0, <2>1, <2>2, AcceptQuiet, QuietLimits
<1>3. CASE ClaimSteps
  BY Zenon, <1>0, <1>3, ClaimScanLimits, ClaimLockLimits, ClaimHalfOpenLimits,
     ClaimSelectLimits, ClaimCommitLimits, ClaimAbortLimits DEF ClaimSteps
<1>4. CASE \E t \in Token : AttemptSteps(t)
  <2>1. PICK t \in Token : AttemptSteps(t)
    BY Zenon, <1>4
  <2>2. CASE \/ StartAttempt(t) \/ \E result \in Result : EndAttempt(t, result)
             \/ LoseLease(t) \/ Crash(t)
    <3>1. attempts' = attempts
      BY Zenon, <2>2 DEF StartAttempt, EndAttempt, LoseLease, Crash
    <3>. QED
      BY Zenon, <1>0, <2>2, <3>1, AttemptStepsQuiet, QuietLimits
  <2>3. CASE RenewLease(t)
    <3>1. attempts' = attempts
      BY Zenon, <2>3 DEF RenewLease
    <3>. QED
      BY Zenon, <1>0, <2>3, <3>1, RenewQuiet, QuietLimits
  <2>4. CASE ReleaseClaim(t)
    <3>1. attempts' = attempts
      BY Zenon, <2>4 DEF ReleaseClaim
    <3>. QED
      BY Zenon, <1>0, <2>4, <3>1, ReleaseQuiet, QuietLimits
  <2>5. CASE Finalize(t)
    BY Zenon, <1>0, <2>5, FinalizeLimits
  <2>. QED
    BY Zenon, <2>1, <2>2, <2>3, <2>4, <2>5 DEF AttemptSteps
<1>5. CASE OperatorSteps
  <2>1. CASE \E d \in Delivery : CancelDelivery(d)
    <3>1. PICK d \in Delivery : CancelDelivery(d)
      BY Zenon, <2>1
    <3>2. attempts' = attempts
      BY Zenon, <3>1 DEF CancelDelivery
    <3>. QED
      BY Zenon, <1>0, <3>1, <3>2, CancelQuiet, QuietLimits
  <2>2. CASE \/ \E e \in Endpoint, paused \in BOOLEAN : SetPaused(e, paused)
             \/ \E e \in Endpoint : RecoverCircuit(e)
    <3>1. UNCHANGED <<row, tx, clock, claim, attempts>>
      BY Zenon, <2>2 DEF SetPaused, RecoverCircuit
    <3>2. Quiet /\ ClaimsOnlyEnd
      BY Zenon, <3>1, RowsKeptQuiet DEF ClaimsOnlyEnd, LimitsInv, Fresh
    <3>. QED
      BY Zenon, <1>0, <3>1, <3>2, QuietLimits
  <2>. QED
    BY Zenon, <1>5, <2>1, <2>2 DEF OperatorSteps
<1>6. CASE UNCHANGED vars
  <2>1. UNCHANGED <<row, tx, clock, claim, attempts>>
    BY Zenon, <1>6 DEF vars
  <2>2. Quiet /\ ClaimsOnlyEnd
    BY Zenon, <2>1, RowsKeptQuiet DEF ClaimsOnlyEnd, LimitsInv, Fresh
  <2>. QED
    BY Zenon, <1>0, <2>1, <2>2, QuietLimits
<1>. QED
  BY Zenon, <1>1, <1>2, <1>3, <1>4, <1>5, <1>6 DEF Next

\* At the start nothing is leased and no attempt is recorded.
LEMMA InitLimits == Init => LimitsInv
<1>. SUFFICES ASSUME Init PROVE LimitsInv
  BY Zenon
<1>1. LeaseInv
  BY Zenon, InitLease
<1>2. /\ tx.stage = "none" /\ attempts = {}
      /\ \A t \in Token : claim[t].lag = 0 /\ claim[t].phase = "none"
      /\ \A d \in Delivery : row[d].status # "processing"
  BY ZenonT(60) DEF Init, NoTx, NoClaim
<1>3. Live(clock) = {} /\ Cardinality({}) = 0
  BY Zenon, <1>2, FS_EmptySet DEF Live, LiveAt
<1>4. CapacityInv
  <2>1. 0 <= worker_global_concurrency
    BY SettingsAssumption DEF SettingsAssumption
  <2>2. ASSUME NEW g \in Groups
        PROVE  Cardinality(Live(clock) \cap g[1]) <= g[2]
    <3>1. Live(clock) \cap g[1] = {} /\ g[2] \in Nat
      BY Zenon, <1>3, GroupType
    <3>. QED
      BY <1>3, <3>1
  <2>. QED
    BY Zenon, <1>2, <1>3, <2>1, <2>2
    DEF CapacityInv, GroupsWithin, ScanCounts, LockCounts
<1>5. AttemptsBounded
  <2>1. ASSUME NEW d \in Delivery
        PROVE  Cardinality({a \in attempts : a.delivery = d})
                 <= webhook_max_attempts
    <3>1. {a \in attempts : a.delivery = d} = {}
      BY Zenon, <1>2
    <3>2. 0 <= webhook_max_attempts
      BY SettingsAssumption DEF SettingsAssumption
    <3>. QED
      BY Zenon, <1>3, <3>1, <3>2
  <2>. QED
    BY Zenon, <2>1 DEF AttemptsBounded
<1>. QED
  BY Zenon, <1>1, <1>2, <1>4, <1>5
  DEF LimitsInv, Fresh, CandidatesUnfinished, NumbersBelowLimit

\* The groups' limits are the ones CapacityRespected names.
LEMMA LimitsGiveCapacity == LimitsInv => CapacityRespected
<1>. SUFFICES ASSUME LimitsInv PROVE CapacityRespected
  BY Zenon
<1>1. Cardinality({d \in Delivery : LiveAt(d, clock)})
        <= worker_global_concurrency
  BY Zenon DEF LimitsInv, CapacityInv, Live
<1>2. ASSUME NEW e \in Endpoint
      PROVE  Cardinality({d \in Delivery : LiveAt(d, clock)}
                           \cap DeliveriesOf(e)) <= endpoint_concurrency
  <2>. DEFINE g == <<DeliveriesOf(e), endpoint_concurrency>>
  <2>1. g \in Groups
    BY Zenon DEF Groups
  <2>. QED
    BY Zenon, <2>1 DEF LimitsInv, CapacityInv, GroupsWithin, Live
<1>3. ASSUME NEW o \in {OrganizationOf[e] : e \in Endpoint}
      PROVE  Cardinality({d \in {x \in Delivery : LiveAt(x, clock)} :
                            OrganizationOf[EndpointOf[d]] = o})
               <= tenant_in_flight_deliveries
  <2>. DEFINE g == <<OfTenant(o), tenant_in_flight_deliveries>>
  <2>1. g \in Groups
    BY Zenon DEF Groups
  <2>2. {d \in {x \in Delivery : LiveAt(x, clock)} :
           OrganizationOf[EndpointOf[d]] = o} = Live(clock) \cap OfTenant(o)
    BY Zenon DEF Live, OfTenant
  <2>. QED
    BY Zenon, <2>1, <2>2 DEF LimitsInv, CapacityInv, GroupsWithin
<1>. QED
  BY Zenon, <1>1, <1>2, <1>3 DEF CapacityRespected

(* claim_due never leases more than the global, endpoint and tenant limits
   allow, for any number of deliveries, endpoints and tenants, any settings
   and any interleaving with renewals, finalizations, cancellations and
   crashes, when no transaction outlives a clock step. *)
THEOREM CapacityCorrect == MaxTxAge = 0 => (Spec => []CapacityRespected)
<1>. SUFFICES ASSUME MaxTxAge = 0 PROVE Spec => []CapacityRespected
  BY Zenon
<1>1. LimitsInv /\ [Next]_vars => LimitsInv'
  BY Zenon, NextLimits
<1>. QED
  BY <1>1, InitLimits, LimitsGiveCapacity, PTL DEF Spec

(* A delivery gets no more attempt rows than WEBHOOK_MAX_ATTEMPTS, through
   retries, reclaims after a crash and cancellations that race with a claim,
   when no transaction outlives a clock step. *)
THEOREM AttemptsCorrect == MaxTxAge = 0 => (Spec => []AttemptsBounded)
<1>. SUFFICES ASSUME MaxTxAge = 0 PROVE Spec => []AttemptsBounded
  BY Zenon
<1>1. LimitsInv /\ [Next]_vars => LimitsInv'
  BY Zenon, NextLimits
<1>2. LimitsInv => AttemptsBounded
  BY Zenon DEF LimitsInv
<1>. QED
  BY <1>1, <1>2, InitLimits, PTL DEF Spec
=============================================================================
