-------------------------- MODULE AdmissionProofs --------------------------
(***************************************************************************)
(* Proofs about the token bucket and about admission.                      *)
(***************************************************************************)
EXTENDS Admission, FiniteSetTheorems, TLAPS

(***************************************************************************)
(* The token bucket.                                                       *)
(***************************************************************************)
Balances == [tokens : Nat, refilled_at : Nat]

\* A product distributes over the elapsed time.
LEMMA Distribute ==
    ASSUME NEW x \in Int, NEW y \in Int, NEW z \in Int
    PROVE  (x - y) * z = z * x - z * y
BY SMT

\* consume_tokens keeps a balance between zero and the capacity and stamps
\* it with the time it was given.
LEMMA ConsumeKeepsRange ==
    ASSUME NEW b \in Balances, NEW rate \in Nat, NEW capacity \in Nat,
           NEW cost \in Nat, NEW now \in Nat, NEW cap,
           b.tokens <= capacity
    PROVE  LET c == consume_tokens(b, rate, capacity, cost, now, cap)
           IN  /\ Balance(c) \in Balances
               /\ c.tokens <= capacity
               /\ c.refilled_at = now
<1> DEFINE elapsed == Larger(0, now - b.refilled_at)
           available == Available(b, rate, capacity, now)
<1>1. b.tokens \in Nat /\ b.refilled_at \in Nat
  BY Zenon DEF Balances
<1>2. elapsed \in Nat
  BY <1>1 DEF Larger
<1>3. elapsed * rate \in Nat
  BY <1>2
<1>4. available \in Nat /\ available <= capacity
  BY <1>1, <1>3 DEF Available, Smaller
<1> QED
  BY <1>4 DEF consume_tokens, Balance, Balances

\* When the clock of the charge is not behind the stored one, a granted
\* charge takes its cost out of the stored tokens plus the refill.
LEMMA ConsumeWithinRefill ==
    ASSUME NEW b \in Balances, NEW rate \in Nat \ {0}, NEW capacity \in Nat,
           NEW cost \in Nat, NEW now \in Nat, NEW cap,
           b.tokens <= capacity, b.refilled_at <= now,
           cap \in Nat,
           consume_tokens(b, rate, capacity, cost, now, cap).retry_after = NoRetry
    PROVE  consume_tokens(b, rate, capacity, cost, now, cap).tokens + cost
              + rate * b.refilled_at <= b.tokens + rate * now
<1> DEFINE elapsed == Larger(0, now - b.refilled_at)
           available == Available(b, rate, capacity, now)
<1>1. b.tokens \in Nat /\ b.refilled_at \in Nat
  BY Zenon DEF Balances
<1>2. elapsed = now - b.refilled_at
  BY <1>1 DEF Larger
<1>3. elapsed * rate = rate * now - rate * b.refilled_at
  BY <1>1, <1>2, Distribute
<1>4. elapsed * rate \in Int /\ rate * now \in Int /\ rate * b.refilled_at \in Int
  BY <1>1, <1>2
<1>5. available \in Int /\ available <= b.tokens + elapsed * rate
  BY <1>1, <1>4 DEF Available, Smaller
<1>6. CASE available >= cost
  <2>1. consume_tokens(b, rate, capacity, cost, now, cap).tokens = available - cost
    BY Zenon, <1>6 DEF consume_tokens
  <2> QED
    BY <2>1, <1>1, <1>3, <1>4, <1>5
<1>7. CASE ~(available >= cost)
  <2>1. consume_tokens(b, rate, capacity, cost, now, cap).retry_after
            = Smaller(cap, Larger(1, CeilDiv(cost - available, rate)))
    BY Zenon, <1>7 DEF consume_tokens
  <2>2. CeilDiv(cost - available, rate) \in Int
    <3>1. cost - available + rate - 1 \in Int /\ rate \in Int /\ rate > 0
      BY <1>5
    <3> QED
      BY <3>1 DEF CeilDiv
  <2>3. Smaller(cap, Larger(1, CeilDiv(cost - available, rate))) \in Int
    BY <2>2 DEF Smaller, Larger
  <2> QED
    BY Zenon, <2>1, <2>3, NoRetryAssumption DEF NoRetryAssumption
<1> QED
  BY Zenon, <1>6, <1>7

\* Rounding up covers the quotient.
LEMMA CeilDivCovers ==
    ASSUME NEW x \in Nat, NEW y \in Nat \ {0}
    PROVE  CeilDiv(x, y) \in Int /\ y * CeilDiv(x, y) >= x
<1> DEFINE z == x + y - 1
<1>1. z \in Nat
  OBVIOUS
<1> HIDE DEF z
<1>2. z = y * (z \div y) + (z % y) /\ z % y \in 0..(y - 1) /\ z \div y \in Int
  BY <1>1, SMT
<1>3. CeilDiv(x, y) = z \div y
  BY Zenon DEF CeilDiv, z
<1>4. y * (z \div y) \in Int
  BY <1>2
<1> QED
  BY <1>1, <1>2, <1>3, <1>4 DEF z

\* The Retry-After hint of consume_tokens is long enough: a caller refused
\* with a hint below the cap, for a cost the bucket can hold, is served when
\* they return after that time and nobody was charged in between.
THEOREM RetryAfterSuffices ==
    ASSUME NEW b \in Balances, NEW rate \in Nat \ {0}, NEW capacity \in Nat,
           NEW cost \in Nat, NEW now \in Nat, NEW cap \in Nat, NEW later \in Nat,
           b.refilled_at <= now, cost <= capacity,
           Available(b, rate, capacity, now) < cost,
           consume_tokens(b, rate, capacity, cost, now, cap).retry_after < cap,
           later >= now + consume_tokens(b, rate, capacity, cost, now, cap).retry_after
    PROVE  consume_tokens(b, rate, capacity, cost, later, cap).retry_after = NoRetry
<1> DEFINE available == Available(b, rate, capacity, now)
           ceil == CeilDiv(cost - available, rate)
           wait == consume_tokens(b, rate, capacity, cost, now, cap).retry_after
<1>1. b.tokens \in Nat /\ b.refilled_at \in Nat
  BY Zenon DEF Balances
<1>2. Larger(0, now - b.refilled_at) = now - b.refilled_at
  BY <1>1 DEF Larger
<1>3. (now - b.refilled_at) * rate \in Nat
  BY <1>1
<1>4. available = b.tokens + (now - b.refilled_at) * rate /\ available \in Nat
  BY <1>1, <1>2, <1>3 DEF Available, Smaller
<1>5. cost - available \in Nat
  BY <1>4
<1>6. ceil \in Int /\ rate * ceil >= cost - available
  BY Zenon, <1>5, CeilDivCovers
<1>7. wait = Smaller(cap, Larger(1, ceil))
  BY <1>4 DEF consume_tokens
<1>8. wait \in Int /\ wait >= ceil
  BY <1>6, <1>7 DEF Smaller, Larger
<1>9. rate * (later - now) >= rate * ceil
  <2>1. later - now >= ceil /\ later - now \in Int
    BY <1>6, <1>8
  <2> HIDE DEF ceil
  <2> QED
    BY <2>1, <1>6
<1>10. (later - b.refilled_at) * rate
          = (now - b.refilled_at) * rate + rate * (later - now)
  BY <1>1
<1>11. Larger(0, later - b.refilled_at) = later - b.refilled_at
  <2>1. later >= b.refilled_at
    <3>1. wait >= 1
      BY <1>6, <1>7, <1>8 DEF Smaller, Larger
    <3> QED
      BY <3>1, <1>1, <1>8
  <2> QED
    BY <2>1, <1>1 DEF Larger
<1>12. Available(b, rate, capacity, later) >= cost
  <2>1. b.tokens + (later - b.refilled_at) * rate >= cost
    <3> HIDE DEF ceil, available
    <3>1. (now - b.refilled_at) * rate \in Int /\ rate * (later - now) \in Int
          /\ rate * ceil \in Int /\ (later - b.refilled_at) * rate \in Int
      BY <1>1, <1>6
    <3> QED
      BY <3>1, <1>1, <1>4, <1>6, <1>9, <1>10
  <2> QED
    BY Zenon, <2>1, <1>11 DEF Available, Smaller
<1> QED
  BY Zenon, <1>12 DEF consume_tokens

-----------------------------------------------------------------------------
(***************************************************************************)
(* Type correctness.                                                       *)
(***************************************************************************)
USE DEF Quota

AdmissionType == TypeOK /\ CallShape

\* The quotas are persisted as balances below their burst.
LEMMA ChargeType ==
    ASSUME TypeOK, NEW q \in Quota, NEW cost \in Nat, NEW now \in Nat
    PROVE  /\ Balance(Charge(q, cost, now)) \in Balances
           /\ Charge(q, cost, now).tokens <= Burst[q]
           /\ Charge(q, cost, now).refilled_at = now
<1>1. tenant[q] \in Balances /\ tenant[q].tokens <= Burst[q]
  BY Zenon DEF TypeOK, Balances
<1>2. Rate[q] \in Nat /\ Burst[q] \in Nat
  BY Zenon, QuotaAssumption DEF QuotaAssumption
<1>3. \A b \in Balances : \A rate, capacity \in Nat : b.tokens <= capacity =>
         LET c == consume_tokens(b, rate, capacity, cost, now, RetryCap)
         IN  Balance(c) \in Balances /\ c.tokens <= capacity /\ c.refilled_at = now
  BY ConsumeKeepsRange
<1> QED
  BY Zenon, <1>1, <1>2, <1>3 DEF Charge

\* Appending keeps the rows that are there.
LEMMA AppendRows ==
    ASSUME NEW s \in Seq(DeliveryRow), NEW n \in Nat, NEW t \in [1..n -> DeliveryRow]
    PROVE  /\ s \o t \in Seq(DeliveryRow)
           /\ DOMAIN s \subseteq DOMAIN (s \o t)
           /\ Len(s \o t) = Len(s) + n
           /\ \A i \in DOMAIN s : (s \o t)[i] = s[i]
           /\ \A i \in 1..n : (s \o t)[Len(s) + i] = t[i]
<1>1. t \in Seq(DeliveryRow) /\ Len(t) = n
  OBVIOUS
<1> QED
  BY <1>1

\* The rows of a fan-out and of a replay.
LEMMA CopiesType ==
    ASSUME NEW r \in Request, NEW now \in Nat, NEW n \in Nat,
           NEW s \in [1..n -> Endpoint]
    PROVE  Copies(r, now, s) \in [1..n -> DeliveryRow]
BY Zenon DEF Copies, DeliveryRow

\* Copies of deliveries are deliveries.
LEMMA ReplaysType ==
    ASSUME TypeOK, NEW now \in Nat, NEW s \in Seq(Nat),
           \A n \in DOMAIN s : s[n] \in Id
    PROVE  /\ Replays(now, s) \in [1..Len(s) -> DeliveryRow]
           /\ \A n \in 1..Len(s) : Replays(now, s)[n].source # 0
<1>1. DOMAIN s = 1..Len(s)
  OBVIOUS
<1>2. ASSUME NEW n \in 1..Len(s)
      PROVE  [deliveries[s[n]] EXCEPT !.due = now, !.status = "pending",
                                      !.source = s[n]] \in DeliveryRow
  <2>1. deliveries[s[n]] \in DeliveryRow /\ s[n] \in Nat
    BY SMTT(30), <1>1 DEF TypeOK, Id
  <2> QED
    BY Zenon, <2>1 DEF DeliveryRow
<1>3. \A n \in 1..Len(s) : s[n] # 0 /\ deliveries[s[n]] \in DeliveryRow
  BY SMTT(30), <1>1 DEF TypeOK, Id
<1>4. \A n \in 1..Len(s) : Replays(now, s)[n].source = s[n]
  BY Zenon, <1>1, <1>3 DEF Replays, DeliveryRow
<1> QED
  BY Zenon, <1>1, <1>2, <1>3, <1>4 DEF Replays

\* Refusals are answers.
LEMMA RefusalType ==
    ASSUME NEW now, NEW count
    PROVE  /\ admit_event_locked(now, count) \in Refusal \union {NULL}
           /\ admit_replays_locked(now, count) \in Refusal \union {NULL}
<1>1. check_saturation(now, count) \in Refusal \union {NULL}
  BY Zenon DEF check_saturation, Refusal
<1> QED
  BY Zenon, <1>1 DEF admit_event_locked, admit_replays_locked, Refusal

\* Answering a call, or moving it to another phase, keeps what it carries.
LEMMA AnsweredType ==
    ASSUME AdmissionType, NEW r \in Request,
           NEW a \in {NULL} \union Request \union Refusal,
           NEW p \in {"idle", "begun", "locked", "checked", "done"},
           request' = [request EXCEPT ![r] =
                          [request[r] EXCEPT !.phase = p, !.answer = a]],
           DOMAIN deliveries \subseteq DOMAIN deliveries'
    PROVE  request' \in [Request -> Call] /\ CallShape'
<1> DEFINE new == [request[r] EXCEPT !.phase = p, !.answer = a]
<1>1. request \in [Request -> Call]
  BY Zenon DEF AdmissionType, TypeOK
<1>2. request[r] \in Call
  BY Zenon, <1>1
<1>3. new \in Call
  BY Zenon, <1>2 DEF Call
<1>4. /\ new.kind = request[r].kind /\ new.key = request[r].key
      /\ new.content = request[r].content /\ new.sources = request[r].sources
  BY Zenon, <1>2 DEF Call
<1>5. \A s \in Request : request'[s] = IF s = r THEN new ELSE request[s]
  BY Zenon, <1>1
<1>6. request' \in [Request -> Call]
  <2> HIDE DEF new
  <2> QED
    BY Zenon, <1>1, <1>3 DEF new
<1>7. CallShape'
  <2> HIDE DEF new
  <2> QED
    BY <1>4, <1>5 DEF AdmissionType, CallShape, Id
<1> QED
  BY Zenon, <1>6, <1>7

\* The steps that only answer a call or move it on.
LEMMA RequestStepType ==
    ASSUME AdmissionType, NEW r \in Request,
           NEW a \in {NULL} \union Request \union Refusal,
           NEW p \in {"idle", "begun", "locked", "checked", "done"},
           request' = [request EXCEPT ![r] =
                          [request[r] EXCEPT !.phase = p, !.answer = a]],
           holder' \in Request \union {NULL},
           UNCHANGED <<clock, tenant, event, operation, deliveries>>
    PROVE  AdmissionType'
<1>1. request' \in [Request -> Call] /\ CallShape'
  BY Zenon, AnsweredType
<1> QED
  BY Zenon, <1>1 DEF AdmissionType, TypeOK

\* Init establishes the types.
LEMMA InitType == Init => AdmissionType
<1> SUFFICES ASSUME Init PROVE AdmissionType
  BY Zenon
<1> USE DEF Init
<1>1. NoCall \in Call
  BY DEF NoCall, Call
<1>2. \A q \in Quota : Burst[q] \in Nat
  BY Zenon, QuotaAssumption DEF QuotaAssumption
<1>3. tenant \in [Quota -> [tokens : Nat, refilled_at : Nat]]
      /\ \A q \in Quota : tenant[q].tokens <= Burst[q]
  BY <1>2
<1>4. CallShape
  BY DEF CallShape, NoCall
<1> QED
  BY <1>1, <1>3, <1>4 DEF AdmissionType, TypeOK

\* A call that begins.
LEMMA BeginType ==
    ASSUME AdmissionType, NEW r \in Request, NEW call \in Call,
           call.kind = "event" => call.key \in Key /\ call.content \in Content,
           \A n \in DOMAIN call.sources : call.sources[n] \in Id,
           Begin(r, call)
    PROVE  AdmissionType'
<1> USE DEF Begin
<1>1. request' \in [Request -> Call]
  BY Zenon DEF AdmissionType, TypeOK
<1>2. \A s \in Request : request'[s] = IF s = r THEN call ELSE request[s]
  BY Zenon DEF AdmissionType, TypeOK
<1>3. CallShape'
  BY ZenonT(60), <1>2 DEF AdmissionType, CallShape, Id
<1> QED
  BY Zenon, <1>1, <1>3 DEF AdmissionType, TypeOK

\* The three entry points.
LEMMA NewCallType ==
    ASSUME AdmissionType,
           NEW kind \in {"event", "replay", "bulk"}, NEW key \in Key \union {NULL},
           NEW c \in Content \union {NULL}, NEW s \in Seq(Nat),
           NEW a \in {NULL} \union Request \union Refusal
    PROVE  NewCall(kind, key, c, s, a) \in Call
BY Zenon DEF NewCall, Call, AdmissionType, TypeOK

\* ingest_event begins.
LEMMA IngestEventType ==
    ASSUME AdmissionType, NEW r \in Request, NEW k \in Key, NEW c \in Content,
           IngestEvent(r, k, c)
    PROVE  AdmissionType'
<1>1. PICK a \in {NULL} \union Request \union Refusal :
          Begin(r, NewCall("event", k, c, << >>, a))
  BY Zenon DEF IngestEvent, Existing, Stored, Refusal
<1>2. NewCall("event", k, c, << >>, a) \in Call
  <2>1. << >> \in Seq(Nat)
    OBVIOUS
  <2> QED
    BY Zenon, <2>1, NewCallType
<1>3. /\ NewCall("event", k, c, << >>, a).key = k
      /\ NewCall("event", k, c, << >>, a).content = c
      /\ NewCall("event", k, c, << >>, a).sources = << >>
  BY Zenon DEF NewCall
<1>4. DOMAIN << >> = {}
  OBVIOUS
<1> DEFINE call == NewCall("event", k, c, << >>, a)
<1>5. /\ call.key \in Key /\ call.content \in Content
      /\ \A n \in DOMAIN call.sources : call.sources[n] \in Id
  BY Zenon, <1>3, <1>4
<1> QED
  BY Zenon, <1>1, <1>2, <1>5, BeginType

\* replay_delivery begins.
LEMMA ReplayDeliveryType ==
    ASSUME AdmissionType, NEW r \in Request, NEW i \in Id, ReplayDelivery(r, i)
    PROVE  AdmissionType'
<1>1. PICK a \in {NULL} \union Request \union Refusal :
          Begin(r, NewCall("replay", NULL, NULL, <<i>>, a))
  BY Zenon DEF ReplayDelivery, Refusal
<1>2. i \in Nat
  BY DEF AdmissionType, TypeOK, Id
<1>3. NewCall("replay", NULL, NULL, <<i>>, a) \in Call
  <2>1. <<i>> \in Seq(Nat)
    BY <1>2
  <2> QED
    BY Zenon, <2>1, NewCallType
<1>4. /\ NewCall("replay", NULL, NULL, <<i>>, a).kind = "replay"
      /\ NewCall("replay", NULL, NULL, <<i>>, a).sources = <<i>>
  BY Zenon DEF NewCall
<1>5. \A n \in DOMAIN <<i>> : <<i>>[n] \in Id
  OBVIOUS
<1> DEFINE call == NewCall("replay", NULL, NULL, <<i>>, a)
<1>6. call.kind # "event" /\ \A n \in DOMAIN call.sources : call.sources[n] \in Id
  BY Zenon, <1>4, <1>5
<1> QED
  BY Zenon, <1>1, <1>3, <1>6, BeginType

\* replay_deliveries begins.
LEMMA ReplayDeliveriesType ==
    ASSUME AdmissionType, NEW r \in Request, NEW k \in Key, NEW s \in Seq(Id),
           ReplayDeliveries(r, k, s)
    PROVE  AdmissionType'
<1>1. PICK a \in {NULL} \union Request \union Refusal :
          Begin(r, NewCall("bulk", k, NULL, s, a))
  BY Zenon DEF ReplayDeliveries, Existing, Stored, Refusal
<1>2. s \in Seq(Nat)
  BY DEF AdmissionType, TypeOK, Id
<1>3. NewCall("bulk", k, NULL, s, a) \in Call
  BY Zenon, <1>2, NewCallType
<1>4. /\ NewCall("bulk", k, NULL, s, a).kind = "bulk"
      /\ NewCall("bulk", k, NULL, s, a).sources = s
  BY Zenon DEF NewCall
<1> QED
  BY <1>1, <1>3, <1>4, BeginType

\* The charged balances of a step.
LEMMA TenantType ==
    ASSUME AdmissionType, NEW q1 \in Quota, NEW q2 \in Quota,
           NEW c1 \in Nat, NEW c2 \in Nat, NEW now \in Nat,
           tenant' = [tenant EXCEPT ![q1] = Balance(Charge(q1, c1, now)),
                                    ![q2] = Balance(Charge(q2, c2, now))]
    PROVE  /\ tenant' \in [Quota -> [tokens : Nat, refilled_at : Nat]]
           /\ \A q \in Quota : tenant'[q].tokens <= Burst[q]
<1> DEFINE b1 == Balance(Charge(q1, c1, now))
           b2 == Balance(Charge(q2, c2, now))
<1>1. tenant \in [Quota -> Balances] /\ TypeOK
  BY Zenon DEF AdmissionType, TypeOK, Balances
<1>2. b1 \in Balances /\ b2 \in Balances
  BY Zenon, <1>1, ChargeType
<1>3. b1.tokens <= Burst[q1] /\ b2.tokens <= Burst[q2]
  BY Zenon, <1>1, ChargeType DEF Balance
<1>4. tenant' = [tenant EXCEPT ![q1] = b1, ![q2] = b2]
  BY Zenon
<1> HIDE DEF b1, b2
<1>5. tenant' \in [Quota -> Balances]
  BY Zenon, <1>1, <1>2, <1>4
<1>6. \A q \in Quota : tenant'[q] = IF q = q2 THEN b2 ELSE IF q = q1 THEN b1 ELSE tenant[q]
  BY Zenon, <1>1, <1>4
<1>7. \A q \in Quota : tenant'[q].tokens <= Burst[q]
  BY Zenon, <1>1, <1>3, <1>6 DEF TypeOK
<1> QED
  BY Zenon, <1>5, <1>7 DEF Balances

\* An event is admitted, answered or refused.
LEMMA AdmitEventType ==
    ASSUME AdmissionType, NEW r \in Request, NEW n \in Nat, NEW s \in [1..n -> Endpoint],
           AdmitEvent(r, s)
    PROVE  AdmissionType'
<1> DEFINE call == request[r]
           now == call.began
           refusal == admit_event_locked(now, Len(s))
<1>1. call \in Call /\ now \in Nat /\ Len(s) = n
  BY DEF AdmissionType, TypeOK, Call
<1>2. UNCHANGED <<clock, operation, holder>> /\ call.kind = "event"
  BY Zenon DEF AdmitEvent
<1>3. holder' \in Request \union {NULL}
  BY Zenon, <1>2 DEF AdmissionType, TypeOK
<1>4. ASSUME NEW x \in Existing(event, call.key), UNCHANGED <<tenant, event, deliveries>>,
             request' = [request EXCEPT ![r] =
                           Repeat(r, x, ContentMatches(x, call.content))]
      PROVE  AdmissionType'
  <2> DEFINE a == IF ContentMatches(x, call.content) THEN x ELSE "conflict"
  <2>1. a \in {NULL} \union Request \union Refusal
    BY Zenon DEF Existing, Stored, Refusal
  <2>2. request' = [request EXCEPT ![r] = [request[r] EXCEPT !.phase = "done", !.answer = a]]
    BY Zenon, <1>4 DEF Repeat
  <2> HIDE DEF a
  <2> QED
    BY Zenon, <1>2, <1>3, <1>4, <2>1, <2>2, RequestStepType
<1>5. ASSUME UNCHANGED <<tenant, event, deliveries>>,
             request' = [request EXCEPT ![r] = Answered(r, refusal)]
      PROVE  AdmissionType'
  <2>1. refusal \in {NULL} \union Request \union Refusal
    BY Zenon, RefusalType
  <2>2. request' = [request EXCEPT ![r] =
                      [request[r] EXCEPT !.phase = "done", !.answer = refusal]]
    BY Zenon, <1>5 DEF Answered
  <2> HIDE DEF refusal
  <2> QED
    BY Zenon, <1>2, <1>3, <1>5, <2>1, <2>2, RequestStepType
<1>6. ASSUME tenant' = [tenant EXCEPT
                !["event"] = Balance(Charge("event", 1, now)),
                !["delivery"] = Balance(Charge("delivery", Len(s), now))],
             event' = [event EXCEPT ![r] =
                [key |-> call.key, content |-> call.content,
                 created |-> now, purged |-> FALSE]],
             deliveries' = deliveries \o Copies(r, now, s),
             request' = [request EXCEPT ![r] = Answered(r, r)]
      PROVE  AdmissionType'
  <2>1. deliveries' \in Seq(DeliveryRow) /\ DOMAIN deliveries \subseteq DOMAIN deliveries'
    BY Zenon, <1>1, <1>6, CopiesType, AppendRows DEF AdmissionType, TypeOK
  <2>2. request' \in [Request -> Call] /\ CallShape'
    <3>1. request' = [request EXCEPT ![r] = [request[r] EXCEPT !.phase = "done", !.answer = r]]
      BY Zenon, <1>6 DEF Answered
    <3> QED
      BY Zenon, <3>1, <2>1, AnsweredType
  <2>3. tenant' \in [Quota -> [tokens : Nat, refilled_at : Nat]]
        /\ \A q \in Quota : tenant'[q].tokens <= Burst[q]
    <3>1. /\ "event" \in Quota /\ "delivery" \in Quota
          /\ 1 \in Nat /\ Len(s) \in Nat
      BY Zenon, <1>1
    <3> QED
      BY ZenonT(60), <3>1, <1>1, <1>6, TenantType
  <2>4. event' \in [Request -> EventRow \union {NULL}]
    <3>1. call.key \in Key /\ call.content \in Content
      BY Zenon, <1>2 DEF AdmissionType, CallShape
    <3> QED
      BY Zenon, <3>1, <1>1, <1>6 DEF AdmissionType, TypeOK, EventRow
  <2> QED
    BY Zenon, <1>2, <1>3, <2>1, <2>2, <2>3, <2>4 DEF AdmissionType, TypeOK
<1> QED
  BY Zenon, <1>4, <1>5, <1>6 DEF AdmitEvent

\* Replays are charged for and inserted.
LEMMA CreateReplaysType ==
    ASSUME AdmissionType, NEW r \in Request, NEW key \in Key \union {NULL},
           CreateReplays(r, key, request[r].sources, request[r].began),
           holder' \in Request \union {NULL}, UNCHANGED <<clock, event>>
    PROVE  AdmissionType'
<1> DEFINE s == request[r].sources
           now == request[r].began
<1>1. now \in Nat /\ s \in Seq(Nat) /\ Len(s) \in Nat
  BY DEF AdmissionType, TypeOK, Call
<1>2. \A n \in DOMAIN s : s[n] \in Id
  BY Zenon DEF AdmissionType, CallShape
<1>3. Replays(now, s) \in [1..Len(s) -> DeliveryRow]
  BY Zenon, <1>1, <1>2, ReplaysType DEF AdmissionType
<1>4. deliveries' \in Seq(DeliveryRow) /\ DOMAIN deliveries \subseteq DOMAIN deliveries'
  BY Zenon, <1>1, <1>3, AppendRows DEF AdmissionType, TypeOK, CreateReplays
<1>5. request' \in [Request -> Call] /\ CallShape'
  <2>1. request' = [request EXCEPT ![r] = [request[r] EXCEPT !.phase = "done", !.answer = r]]
    BY Zenon DEF Answered, CreateReplays
  <2> QED
    BY Zenon, <2>1, <1>4, AnsweredType
<1>6. tenant' \in [Quota -> [tokens : Nat, refilled_at : Nat]]
      /\ \A q \in Quota : tenant'[q].tokens <= Burst[q]
  <2>1. tenant' = [tenant EXCEPT
            !["replay"] = Balance(Charge("replay", Len(s), now)),
            !["delivery"] = Balance(Charge("delivery", Len(s), now))]
    BY Zenon DEF CreateReplays
  <2>2. "replay" \in Quota /\ "delivery" \in Quota
    BY Zenon
  <2> QED
    BY Zenon, <2>1, <2>2, <1>1, TenantType
<1>7. operation' \in [Request -> OperationRow \union {NULL}]
  BY Zenon, <1>1 DEF AdmissionType, TypeOK, OperationRow, CreateReplays
<1> QED
  BY Zenon, <1>4, <1>5, <1>6, <1>7 DEF AdmissionType, TypeOK

\* A refused call is only answered.
LEMMA RefusedType ==
    ASSUME AdmissionType, NEW r \in Request, NEW a \in {NULL} \union Request \union Refusal,
           request' = [request EXCEPT ![r] = Answered(r, a)],
           holder' \in Request \union {NULL},
           UNCHANGED <<clock, tenant, event, operation, deliveries>>
    PROVE  AdmissionType'
<1>1. request' = [request EXCEPT ![r] = [request[r] EXCEPT !.phase = "done", !.answer = a]]
  BY Zenon DEF Answered
<1> QED
  BY Zenon, <1>1, RequestStepType

\* A call moves to another phase.
LEMMA PhaseType ==
    ASSUME AdmissionType, NEW r \in Request, NEW p \in {"locked", "checked"},
           request' = [request EXCEPT ![r].phase = p],
           holder' \in Request \union {NULL},
           UNCHANGED <<clock, tenant, event, operation, deliveries>>
    PROVE  AdmissionType'
<1> DEFINE new == [request[r] EXCEPT !.phase = p]
<1>1. request \in [Request -> Call] /\ request[r] \in Call
  BY Zenon DEF AdmissionType, TypeOK
<1>2. /\ new \in Call /\ new.kind = request[r].kind /\ new.key = request[r].key
      /\ new.content = request[r].content /\ new.sources = request[r].sources
  BY ZenonT(60), <1>1 DEF Call
<1>3. \A s \in Request : request'[s] = IF s = r THEN new ELSE request[s]
  BY Zenon, <1>1
<1>4. request' \in [Request -> Call]
  <2> HIDE DEF new
  <2> QED
    BY Zenon, <1>1, <1>2 DEF new
<1>5. CallShape'
  <2> HIDE DEF new
  <2> QED
    BY <1>2, <1>3 DEF AdmissionType, CallShape, Id
<1> QED
  BY Zenon, <1>4, <1>5 DEF AdmissionType, TypeOK

\* The later steps of the replays.
LEMMA ReplayStepsType ==
    ASSUME AdmissionType, NEW r \in Request,
           \/ AdmitReplay(r) \/ LockReplays(r) \/ CheckReplays(r)
           \/ AdmitReplays(r) \/ Disconnect(r)
    PROVE  AdmissionType'
<1>1. /\ holder \in Request \union {NULL} /\ request[r] \in Call
      /\ request[r].key \in Key \union {NULL}
  BY Zenon DEF AdmissionType, TypeOK, Call
<1>2. CASE AdmitReplay(r)
  <2> DEFINE refusal == admit_replays_locked(request[r].began, Len(request[r].sources))
  <2>1. refusal \in {NULL} \union Request \union Refusal
    BY Zenon, RefusalType
  <2>2. CASE request' = [request EXCEPT ![r] = Answered(r, refusal)]
             /\ UNCHANGED <<tenant, operation, deliveries>>
    <3> HIDE DEF refusal
    <3> QED
      BY Zenon, <1>1, <1>2, <2>1, <2>2, RefusedType DEF AdmitReplay
  <2>3. CASE CreateReplays(r, NULL, request[r].sources, request[r].began)
    BY Zenon, <1>1, <1>2, <2>3, CreateReplaysType DEF AdmitReplay
  <2> QED
    BY Zenon, <1>2, <2>2, <2>3 DEF AdmitReplay
<1>3. CASE LockReplays(r)
  <2>1. UNCHANGED <<clock, tenant, event, operation, deliveries>>
    BY Zenon, <1>3 DEF LockReplays
  <2>2. ASSUME NEW x \in Existing(operation, request[r].key), UNCHANGED holder,
               request' = [request EXCEPT ![r] =
                  Repeat(r, x, operation[x].sources = request[r].sources)]
        PROVE  AdmissionType'
    <3>1. PICK a \in {NULL} \union Request \union Refusal :
             request' = [request EXCEPT ![r] = Answered(r, a)]
      BY Zenon, <2>2 DEF Repeat, Answered, Existing, Stored, Refusal
    <3> QED
      BY Zenon, <3>1, <2>1, <2>2, <1>1, RefusedType
  <2>3. CASE request' = [request EXCEPT ![r].phase = "locked"] /\ holder' = r
    BY Zenon, <2>1, <2>3, PhaseType
  <2> QED
    BY Zenon, <1>3, <2>2, <2>3 DEF LockReplays
<1>4. CASE CheckReplays(r)
  <2>1. UNCHANGED <<clock, tenant, event, operation, deliveries>>
    BY Zenon, <1>4 DEF CheckReplays
  <2>2. ASSUME NEW a \in {NULL} \union Request \union Refusal,
               request' = [request EXCEPT ![r] = Answered(r, a)], holder' = NULL
        PROVE  AdmissionType'
    BY Zenon, <2>1, <2>2, RefusedType
  <2>3. CASE request' = [request EXCEPT ![r].phase = "checked"] /\ UNCHANGED holder
    BY Zenon, <1>1, <2>1, <2>3, PhaseType
  <2>4. "invalid" \in Refusal /\ "purged" \in Refusal
    BY Zenon DEF Refusal
  <2> QED
    BY Zenon, <1>4, <2>2, <2>3, <2>4 DEF CheckReplays
<1>5. CASE AdmitReplays(r)
  <2> DEFINE refusal == admit_replays_locked(request[r].began, Len(request[r].sources))
  <2>1. refusal \in {NULL} \union Request \union Refusal
    BY Zenon, RefusalType
  <2>2. CASE request' = [request EXCEPT ![r] = Answered(r, refusal)]
             /\ UNCHANGED <<tenant, operation, deliveries>>
    <3> HIDE DEF refusal
    <3> QED
      BY Zenon, <1>1, <1>5, <2>1, <2>2, RefusedType DEF AdmitReplays
  <2>3. CASE CreateReplays(r, request[r].key, request[r].sources, request[r].began)
    BY Zenon, <1>1, <1>5, <2>3, CreateReplaysType DEF AdmitReplays
  <2> QED
    BY Zenon, <1>5, <2>2, <2>3 DEF AdmitReplays
<1>6. CASE Disconnect(r)
  <2>1. "lost" \in {NULL} \union Request \union Refusal
    BY Zenon DEF Refusal
  <2> QED
    BY Zenon, <1>1, <1>6, <2>1, RefusedType DEF Disconnect
<1> QED
  BY Zenon, <1>2, <1>3, <1>4, <1>5, <1>6

\* Workers, the purge and time.
LEMMA OtherStepsType ==
    ASSUME AdmissionType,
           \/ \E r \in Request : PurgeEventPayload(r)
           \/ \E i \in Id, status \in {"succeeded", "dead"} : Deliver(i, status)
           \/ Tick
    PROVE  AdmissionType'
<1>1. ASSUME NEW r \in Request, PurgeEventPayload(r)
      PROVE  AdmissionType'
  <2>1. event[r] \in EventRow
    BY Zenon, <1>1 DEF PurgeEventPayload, Stored, AdmissionType, TypeOK
  <2>2. [event[r] EXCEPT !.purged = TRUE] \in EventRow
    BY Zenon, <2>1 DEF EventRow
  <2>3. event' \in [Request -> EventRow \union {NULL}]
    BY Zenon, <1>1, <2>2 DEF PurgeEventPayload, AdmissionType, TypeOK
  <2> QED
    BY Zenon, <1>1, <2>3 DEF PurgeEventPayload, AdmissionType, TypeOK, CallShape, Id
<1>2. ASSUME NEW i \in Id, NEW status \in {"succeeded", "dead"}, Deliver(i, status)
      PROVE  AdmissionType'
  <2>1. deliveries \in Seq(DeliveryRow) /\ i \in DOMAIN deliveries
    BY Zenon DEF AdmissionType, TypeOK, Id
  <2>2. [deliveries[i] EXCEPT !.status = status] \in DeliveryRow
    <3>1. deliveries[i] \in DeliveryRow
      BY <2>1
    <3> QED
      BY Zenon, <3>1 DEF DeliveryRow
  <2>3. deliveries' \in Seq(DeliveryRow) /\ DOMAIN deliveries' = DOMAIN deliveries
    BY <1>2, <2>1, <2>2 DEF Deliver
  <2> QED
    BY Zenon, <1>2, <2>3 DEF Deliver, AdmissionType, TypeOK, CallShape, Id
<1>3. CASE Tick
  BY <1>3 DEF Tick, AdmissionType, TypeOK, CallShape, Id
<1> QED
  BY Zenon, <1>1, <1>2, <1>3

\* A listing is a sequence.
LEMMA ListingType ==
    ASSUME NEW S, NEW n \in Nat, NEW s \in Listing(S, n)
    PROVE  s \in Seq(S) /\ \E k \in Nat : s \in [1..k -> S]
BY DEF Listing

\* Every step preserves the types.
LEMMA NextType == AdmissionType /\ [Next]_vars => AdmissionType'
<1> SUFFICES ASSUME AdmissionType, [Next]_vars PROVE AdmissionType'
  BY Zenon
<1>1. ASSUME NEW r \in Request, NEW k \in Key, NEW c \in Content, IngestEvent(r, k, c)
      PROVE  AdmissionType'
  BY Zenon, <1>1, IngestEventType
<1>2. ASSUME NEW r \in Request, NEW k \in Key, NEW s \in Listing(Id, 2),
             ReplayDeliveries(r, k, s)
      PROVE  AdmissionType'
  <2>1. s \in Seq(Id)
    BY Zenon, ListingType
  <2> QED
    BY Zenon, <1>2, <2>1, ReplayDeliveriesType
<1>3. ASSUME NEW r \in Request, NEW s \in Listing(Endpoint, Cardinality(Endpoint)),
             AdmitEvent(r, s)
      PROVE  AdmissionType'
  <2>1. PICK k \in Nat : s \in [1..k -> Endpoint]
    <3>1. Cardinality(Endpoint) \in Nat
      BY Zenon, FinitenessAssumption, FS_CardinalityType DEF FinitenessAssumption
    <3> QED
      BY Zenon, <3>1, ListingType
  <2> QED
    BY Zenon, <1>3, <2>1, AdmitEventType
<1>4. ASSUME NEW r \in Request, NEW i \in Id, ReplayDelivery(r, i)
      PROVE  AdmissionType'
  BY Zenon, <1>4, ReplayDeliveryType
<1>5. CASE UNCHANGED vars
  BY Zenon, <1>5 DEF vars, AdmissionType, TypeOK, CallShape, Id
<1> QED
  BY Zenon, <1>1, <1>2, <1>3, <1>4, <1>5, ReplayStepsType, OtherStepsType DEF Next

\* The rows of admission keep their types, and every quota balance stays
\* between zero and its burst, whatever transactions race.
THEOREM AdmissionTypeCorrect == Spec => []TypeOK
<1>1. AdmissionType => TypeOK
  BY Zenon DEF AdmissionType
<1> QED
  BY <1>1, InitType, NextType, PTL DEF Spec

-----------------------------------------------------------------------------
(***************************************************************************)
(* The budget, when every transaction computes with the current time.      *)
(***************************************************************************)
ReplayIds == {i \in Id : deliveries[i].source # 0}

\* Spent, one quota at a time.
SpentByQuota ==
    /\ Spent("event") = Cardinality(Stored(event))
    /\ Spent("delivery") = Len(deliveries)
    /\ Spent("replay") = Cardinality(ReplayIds)

\* What each quota counts.
LEMMA SpentIs == SpentByQuota
BY Zenon DEF Spent, ReplayIds, SpentByQuota

SpentCountable ==
    /\ IsFiniteSet(Stored(event)) /\ IsFiniteSet(ReplayIds)
    /\ \A q \in Quota : Spent(q) \in Nat

\* What is counted is finite.
LEMMA SpentFinite == TypeOK => SpentCountable
<1> SUFFICES ASSUME TypeOK PROVE SpentCountable
  BY Zenon
<1>1. IsFiniteSet(Stored(event))
  BY Zenon, FinitenessAssumption, FS_Subset DEF FinitenessAssumption, Stored
<1>2. Id = 1..Len(deliveries) /\ Len(deliveries) \in Nat
  BY DEF TypeOK, Id
<1>3. IsFiniteSet(1..Len(deliveries))
  BY <1>2, FS_Interval
<1>4. IsFiniteSet(ReplayIds)
  BY Zenon, <1>2, <1>3, FS_Subset DEF ReplayIds
<1> QED
  BY Zenon, <1>1, <1>2, <1>4, FS_CardinalityType, SpentIs DEF SpentCountable, SpentByQuota

\* A granted charge pays for what it creates.
LEMMA ChargePays ==
    ASSUME AdmissionType, BudgetInv, NEW q \in Quota, NEW cost \in Nat,
           ~Exhausted(q, cost, clock),
           tenant'[q] = Balance(Charge(q, cost, clock)),
           NEW spent \in Nat, spent <= Spent(q) + cost
    PROVE  /\ tenant'[q].refilled_at = clock
           /\ spent + tenant'[q].tokens <= Burst[q] + Rate[q] * tenant'[q].refilled_at
<1>1. clock \in Nat /\ tenant[q] \in Balances /\ tenant[q].tokens <= Burst[q]
  BY Zenon DEF AdmissionType, TypeOK, Balances
<1>2. Rate[q] \in Nat \ {0} /\ Burst[q] \in Nat /\ RetryCap \in Nat
  BY Zenon, QuotaAssumption, LimitAssumption DEF QuotaAssumption, LimitAssumption
<1>3. Charge(q, cost, clock).tokens + cost + Rate[q] * tenant[q].refilled_at
         <= tenant[q].tokens + Rate[q] * clock
  BY Zenon, <1>1, <1>2, ConsumeWithinRefill DEF Charge, Exhausted, BudgetInv
<1>4. Spent(q) + tenant[q].tokens <= Burst[q] + Rate[q] * tenant[q].refilled_at
  BY Zenon DEF BudgetInv
<1>5. tenant'[q].tokens = Charge(q, cost, clock).tokens /\ tenant'[q].refilled_at = clock
  <2>1. Charge(q, cost, clock).refilled_at = clock
    BY <1>1, ChargeType DEF AdmissionType
  <2> QED
    BY <2>1 DEF Balance
<1>6. /\ Charge(q, cost, clock).tokens \in Nat
      /\ Rate[q] * tenant[q].refilled_at \in Nat /\ Rate[q] * clock \in Nat
      /\ tenant[q].tokens \in Nat /\ Spent(q) \in Nat
  <2>1. Balance(Charge(q, cost, clock)) \in Balances
    BY Zenon, <1>1, ChargeType DEF AdmissionType
  <2>2. Charge(q, cost, clock).tokens \in Nat
    BY Zenon, <2>1 DEF Balance, Balances
  <2>3. tenant[q].tokens \in Nat /\ tenant[q].refilled_at \in Nat
    BY Zenon, <1>1 DEF Balances
  <2>4. Rate[q] * tenant[q].refilled_at \in Nat /\ Rate[q] * clock \in Nat
    BY <1>1, <1>2, <2>3
  <2> QED
    BY Zenon, <2>2, <2>3, <2>4, SpentFinite DEF AdmissionType, SpentCountable
<1> QED
  BY <1>2, <1>3, <1>4, <1>5, <1>6

\* Steps that charge nothing and create nothing.
LEMMA FreeStep ==
    ASSUME AdmissionType, AdmissionType', BudgetInv, UNCHANGED tenant,
           Stored(event)' \subseteq Stored(event), Len(deliveries') = Len(deliveries),
           ReplayIds' \subseteq ReplayIds, clock' >= clock,
           \A r \in Unfinished' : request'[r].began = clock'
    PROVE  BudgetInv'
<1>1. /\ IsFiniteSet(Stored(event)) /\ IsFiniteSet(ReplayIds)
      /\ \A q \in Quota : Spent(q) \in Nat
  BY Zenon, SpentFinite DEF AdmissionType, SpentCountable
<1>2. \A q \in Quota : Spent(q)' \in Nat
  <2>1. TypeOK'
    BY Zenon DEF AdmissionType
  <2>2. SpentCountable'
    BY <2>1, SpentFinite, PTL
  <2> QED
    BY Zenon, <2>2 DEF SpentCountable
<1>3. /\ Cardinality(Stored(event)') <= Cardinality(Stored(event))
      /\ Cardinality(ReplayIds') <= Cardinality(ReplayIds)
  BY Zenon, <1>1, FS_Subset
<1>4. /\ Spent("event")' = Cardinality(Stored(event)')
      /\ Spent("delivery")' = Len(deliveries')
      /\ Spent("replay")' = Cardinality(ReplayIds')
  <2>1. SpentByQuota'
    BY SpentIs, PTL
  <2> QED
    BY Zenon, <2>1 DEF SpentByQuota
<1>5. \A q \in Quota : Spent(q)' <= Spent(q)
  BY <1>3, <1>4, SpentIs, <1>1 DEF SpentByQuota, AdmissionType, TypeOK
<1>6. ASSUME NEW q \in Quota
      PROVE  /\ tenant'[q].refilled_at <= clock'
             /\ Spent(q)' + tenant'[q].tokens <= Burst[q] + Rate[q] * tenant'[q].refilled_at
  <2>1. /\ Spent(q) + tenant[q].tokens <= Burst[q] + Rate[q] * tenant[q].refilled_at
        /\ tenant[q].refilled_at <= clock
    BY Zenon DEF BudgetInv
  <2>2. /\ tenant[q].tokens \in Nat /\ tenant[q].refilled_at \in Nat
        /\ Rate[q] \in Nat /\ Burst[q] \in Nat /\ clock \in Nat /\ clock' \in Nat
    BY Zenon, QuotaAssumption DEF QuotaAssumption, AdmissionType, TypeOK
  <2>3. Rate[q] * tenant[q].refilled_at \in Nat
    BY <2>2
  <2>4. tenant'[q] = tenant[q]
    BY Zenon
  <2>5. Spent(q)' <= Spent(q) /\ Spent(q)' \in Nat /\ Spent(q) \in Nat
    BY Zenon, <1>1, <1>2, <1>5
  <2>6. tenant'[q].refilled_at <= clock'
    BY <2>1, <2>2, <2>4
  <2>7. Spent(q)' + tenant[q].tokens <= Burst[q] + Rate[q] * tenant[q].refilled_at
    BY SMTT(30), <2>1, <2>2, <2>3, <2>5
  <2> QED
    BY Zenon, <2>4, <2>6, <2>7
<1> QED
  BY Zenon, <1>6 DEF BudgetInv

OnTime == \A r \in Unfinished : request[r].began = clock

\* A call that is answered, or moves on, leaves the others where they were.
LEMMA AnswerOnTime ==
    ASSUME AdmissionType, OnTime, NEW r \in Request, NEW a, UNCHANGED clock,
           request' = [request EXCEPT ![r] = Answered(r, a)]
    PROVE  \A s \in Unfinished' : request'[s].began = clock'
<1>1. request \in [Request -> Call] /\ request[r] \in Call
  BY Zenon DEF AdmissionType, TypeOK
<1>2. request'[r] = [request[r] EXCEPT !.phase = "done", !.answer = a]
  BY Zenon, <1>1 DEF Answered
<1>3. request'[r].phase = "done"
  BY Zenon, <1>1, <1>2 DEF Call
<1>4. \A s \in Request \ {r} : request'[s] = request[s]
  BY Zenon, <1>1
<1> QED
  BY Zenon, <1>3, <1>4 DEF Unfinished, OnTime

\* A call that moves on keeps the time it began.
LEMMA PhaseOnTime ==
    ASSUME AdmissionType, OnTime, NEW r \in Unfinished, NEW p, UNCHANGED clock,
           request' = [request EXCEPT ![r].phase = p]
    PROVE  \A s \in Unfinished' : request'[s].began = clock'
<1>1. request \in [Request -> Call] /\ request[r] \in Call /\ r \in Request
  BY Zenon DEF AdmissionType, TypeOK, Unfinished
<1>2. request'[r] = [request[r] EXCEPT !.phase = p]
  BY Zenon, <1>1
<1>3. request'[r].began = request[r].began
  BY Zenon, <1>1, <1>2 DEF Call
<1>4. \A s \in Request \ {r} : request'[s] = request[s]
  BY Zenon, <1>1
<1> QED
  BY Zenon, <1>3, <1>4 DEF Unfinished, OnTime

\* A call that begins does so now.
LEMMA BeginOnTime ==
    ASSUME AdmissionType, OnTime, NEW r \in Request, NEW call,
           call.began = clock, Begin(r, call)
    PROVE  \A s \in Unfinished' : request'[s].began = clock'
<1>1. request \in [Request -> Call]
  BY Zenon DEF AdmissionType, TypeOK
<1>2. \A s \in Request : request'[s] = IF s = r THEN call ELSE request[s]
  BY Zenon, <1>1 DEF Begin
<1>3. clock' = clock
  BY Zenon DEF Begin
<1> QED
  BY Zenon, <1>2, <1>3 DEF Unfinished, OnTime

\* The steps that charge nothing.
LEMMA FreeSteps ==
    ASSUME AdmissionType, AdmissionType', BudgetInv, UNCHANGED <<tenant, deliveries, event>>,
           clock' = clock, \A s \in Unfinished' : request'[s].began = clock'
    PROVE  BudgetInv'
<1>1. /\ Stored(event)' = Stored(event) /\ ReplayIds' = ReplayIds
      /\ Len(deliveries') = Len(deliveries)
  BY Zenon DEF Stored, ReplayIds, Id
<1>2. clock' >= clock
  BY DEF AdmissionType, TypeOK
<1> QED
  BY Zenon, <1>1, <1>2, FreeStep

\* Two charged quotas and one that is left alone.
LEMMA ChargedStep ==
    ASSUME AdmissionType, AdmissionType', BudgetInv, UNCHANGED clock,
           NEW q1 \in Quota, NEW q2 \in Quota, NEW c1 \in Nat, NEW c2 \in Nat, q1 # q2,
           ~Exhausted(q1, c1, clock), ~Exhausted(q2, c2, clock),
           tenant' = [tenant EXCEPT ![q1] = Balance(Charge(q1, c1, clock)),
                                    ![q2] = Balance(Charge(q2, c2, clock))],
           Spent(q1)' <= Spent(q1) + c1, Spent(q2)' <= Spent(q2) + c2,
           \A q \in Quota \ {q1, q2} : Spent(q)' <= Spent(q),
           \A s \in Unfinished' : request'[s].began = clock'
    PROVE  BudgetInv'
<1> DEFINE Good(q) == /\ tenant'[q].refilled_at <= clock'
                      /\ Spent(q)' + tenant'[q].tokens
                            <= Burst[q] + Rate[q] * tenant'[q].refilled_at
<1>1. tenant \in [Quota -> Balances] /\ clock \in Nat
  BY Zenon DEF AdmissionType, TypeOK, Balances
<1>2. \A q \in Quota : Spent(q)' \in Nat
  <2>1. TypeOK'
    BY Zenon DEF AdmissionType
  <2>2. SpentCountable'
    BY <2>1, SpentFinite, PTL
  <2> QED
    BY Zenon, <2>2 DEF SpentCountable
<1>3. tenant'[q1] = Balance(Charge(q1, c1, clock)) /\ tenant'[q2] = Balance(Charge(q2, c2, clock))
  BY Zenon, <1>1
<1>4. Good(q1)
  BY <1>1, <1>2, <1>3, ChargePays
<1>5. Good(q2)
  BY <1>1, <1>2, <1>3, ChargePays
<1>6. ASSUME NEW q \in Quota \ {q1, q2} PROVE Good(q)
  <2>1. tenant'[q] = tenant[q]
    BY Zenon, <1>1
  <2>2. /\ tenant[q].refilled_at <= clock
        /\ Spent(q) + tenant[q].tokens <= Burst[q] + Rate[q] * tenant[q].refilled_at
    BY Zenon DEF BudgetInv
  <2>3. /\ tenant[q].tokens \in Nat /\ tenant[q].refilled_at \in Nat
        /\ Rate[q] \in Nat /\ Burst[q] \in Nat
    BY Zenon, <1>1, QuotaAssumption DEF QuotaAssumption, Balances
  <2>4. Rate[q] * tenant[q].refilled_at \in Nat
    BY <2>3
  <2>5. Spent(q)' <= Spent(q) /\ Spent(q)' \in Nat /\ Spent(q) \in Nat
    BY Zenon, <1>2, SpentFinite DEF AdmissionType, SpentCountable
  <2>6. Spent(q)' + tenant[q].tokens <= Burst[q] + Rate[q] * tenant[q].refilled_at
    BY <2>2, <2>3, <2>4, <2>5
  <2> QED
    BY Zenon, <2>1, <2>2, <2>6
<1>7. \A q \in Quota : Good(q)
  <2> HIDE DEF Good
  <2> QED
    BY Zenon, <1>4, <1>5, <1>6
<1> QED
  BY Zenon, <1>7 DEF BudgetInv

\* An admitted event pays for itself and for its deliveries.
LEMMA AdmitEventBudget ==
    ASSUME AdmissionType, AdmissionType', BudgetInv, NEW r \in Request,
           NEW n \in Nat, NEW s \in [1..n -> Endpoint], AdmitEvent(r, s)
    PROVE  BudgetInv'
<1> DEFINE call == request[r]
           refusal == admit_event_locked(call.began, Len(s))
<1>1. /\ r \in Unfinished /\ call.began = clock /\ OnTime /\ Len(s) = n
      /\ UNCHANGED clock
  BY DEF AdmitEvent, Unfinished, BudgetInv, OnTime
<1>2. ASSUME UNCHANGED <<tenant, event, deliveries>>,
             NEW a, request' = [request EXCEPT ![r] = Answered(r, a)]
      PROVE  BudgetInv'
  BY Zenon, <1>1, <1>2, AnswerOnTime, FreeSteps
<1>3. ASSUME refusal = NULL,
             tenant' = [tenant EXCEPT
                !["event"] = Balance(Charge("event", 1, call.began)),
                !["delivery"] = Balance(Charge("delivery", Len(s), call.began))],
             event' = [event EXCEPT ![r] =
                [key |-> call.key, content |-> call.content,
                 created |-> call.began, purged |-> FALSE]],
             deliveries' = deliveries \o Copies(r, call.began, s),
             request' = [request EXCEPT ![r] = Answered(r, r)]
      PROVE  BudgetInv'
  <2>1. ~Exhausted("event", 1, clock) /\ ~Exhausted("delivery", n, clock)
    <3>1. "event_rate" # NULL /\ "delivery_rate" # NULL
      BY Zenon, NullAssumption DEF NullAssumption, Refusal
    <3>2. /\ "fanout_per_event" # NULL /\ "retained_bytes" # NULL
      BY Zenon, NullAssumption DEF NullAssumption, Refusal
    <3> QED
      BY Zenon, <1>1, <1>3, <3>1, <3>2 DEF admit_event_locked
  <2>2. \A i \in 1..n : Copies(r, call.began, s)[i].source = 0
    BY Zenon DEF Copies
  <2>3. /\ Copies(r, clock, s) \in [1..n -> DeliveryRow]
        /\ deliveries \in Seq(DeliveryRow)
    BY ZenonT(60), CopiesType DEF AdmissionType, TypeOK
  <2>4. Len(deliveries') = Len(deliveries) + n
    BY Zenon, <1>1, <1>3, <2>3, AppendRows
  <2>5. ReplayIds' = ReplayIds
    <3>1. ASSUME NEW i \in Id PROVE i \in Id' /\ deliveries'[i] = deliveries[i]
      BY Zenon, <1>1, <1>3, <2>3, AppendRows DEF Id
    <3>2. ASSUME NEW i \in Id', i \notin Id PROVE deliveries'[i].source = 0
      <4>1. Len(deliveries) \in Nat /\ Id = 1..Len(deliveries)
            /\ Id' = 1..(Len(deliveries) + n)
        BY <2>3, <2>4 DEF Id, AdmissionType, TypeOK
      <4>2. i - Len(deliveries) \in 1..n
        BY <3>2, <4>1
      <4>3. deliveries'[Len(deliveries) + (i - Len(deliveries))]
               = Copies(r, clock, s)[i - Len(deliveries)]
        BY ZenonT(60), <1>1, <1>3, <2>3, <4>2, AppendRows
      <4> QED
        BY <1>1, <2>2, <4>1, <4>2, <4>3
    <3> QED
      BY Zenon, <3>1, <3>2 DEF ReplayIds
  <2>6. Stored(event)' \subseteq Stored(event) \union {r}
    BY Zenon, <1>3 DEF Stored, AdmissionType, TypeOK
  <2>7. Cardinality(Stored(event)') <= Cardinality(Stored(event)) + 1
    <3>1. IsFiniteSet(Stored(event))
      BY Zenon, SpentFinite DEF AdmissionType, SpentCountable
    <3>2. /\ IsFiniteSet(Stored(event) \union {r})
          /\ Cardinality(Stored(event) \union {r}) <= Cardinality(Stored(event)) + 1
      <4>1. Cardinality(Stored(event)) \in Nat
        BY Zenon, <3>1, FS_CardinalityType
      <4>2. /\ IsFiniteSet(Stored(event) \union {r})
            /\ Cardinality(Stored(event) \union {r}) =
                 IF r \in Stored(event) THEN Cardinality(Stored(event))
                 ELSE Cardinality(Stored(event)) + 1
        BY Zenon, <3>1, FS_AddElement
      <4> QED
        BY <4>1, <4>2
    <3>3. Cardinality(Stored(event)') <= Cardinality(Stored(event) \union {r})
      BY Zenon, <2>6, <3>2, FS_Subset
    <3>4. /\ Cardinality(Stored(event)') \in Nat
          /\ Cardinality(Stored(event) \union {r}) \in Nat
          /\ Cardinality(Stored(event)) \in Nat
      BY Zenon, <2>6, <3>1, <3>2, FS_Subset, FS_CardinalityType
    <3> QED
      BY <3>2, <3>3, <3>4
  <2>8. SpentByQuota /\ SpentByQuota'
    BY SpentIs, PTL
  <2>9. /\ Spent("event")' <= Spent("event") + 1
        /\ Spent("delivery")' <= Spent("delivery") + n
        /\ \A q \in Quota \ {"event", "delivery"} : Spent(q)' <= Spent(q)
    <3>1. Cardinality(ReplayIds) \in Nat /\ Len(deliveries) \in Nat
      BY SMTT(30), SpentFinite, FS_CardinalityType DEF AdmissionType, TypeOK, SpentCountable
    <3> QED
      BY SMTT(30), <2>4, <2>5, <2>7, <2>8, <3>1 DEF SpentByQuota
  <2>10. tenant' = [tenant EXCEPT !["event"] = Balance(Charge("event", 1, clock)),
                       !["delivery"] = Balance(Charge("delivery", n, clock))]
    BY Zenon, <1>1, <1>3
  <2>11. \A t \in Unfinished' : request'[t].began = clock'
    BY Zenon, <1>1, <1>3, AnswerOnTime
  <2>12. "event" \in Quota /\ "delivery" \in Quota /\ 1 \in Nat
    BY Zenon
  <2> HIDE DEF Quota
  <2> QED
    BY Zenon, <1>1, <2>1, <2>9, <2>10, <2>11, <2>12, ChargedStep
<1>4. AdmitEvent(r, s) =>
        \/ \E a : /\ UNCHANGED <<tenant, event, deliveries>>
                  /\ request' = [request EXCEPT ![r] = Answered(r, a)]
        \/ /\ refusal = NULL
           /\ tenant' = [tenant EXCEPT
                !["event"] = Balance(Charge("event", 1, call.began)),
                !["delivery"] = Balance(Charge("delivery", Len(s), call.began))]
           /\ event' = [event EXCEPT ![r] =
                [key |-> call.key, content |-> call.content,
                 created |-> call.began, purged |-> FALSE]]
           /\ deliveries' = deliveries \o Copies(r, call.began, s)
           /\ request' = [request EXCEPT ![r] = Answered(r, r)]
  BY ZenonT(60) DEF AdmitEvent, Repeat, Answered
<1> QED
  BY Zenon, <1>2, <1>3, <1>4

\* Admitted replays pay for themselves.
LEMMA CreateReplaysBudget ==
    ASSUME AdmissionType, AdmissionType', BudgetInv, NEW r \in Unfinished, NEW key,
           CreateReplays(r, key, request[r].sources, request[r].began),
           admit_replays_locked(request[r].began, Len(request[r].sources)) = NULL,
           UNCHANGED <<clock, event>>
    PROVE  BudgetInv'
<1> DEFINE s == request[r].sources
           n == Len(request[r].sources)
<1>1. /\ request[r].began = clock /\ OnTime /\ r \in Request
      /\ s \in Seq(Nat) /\ n \in Nat
  BY SMTT(30) DEF BudgetInv, OnTime, Unfinished, AdmissionType, TypeOK, Call
<1>2. ~Exhausted("replay", n, clock) /\ ~Exhausted("delivery", n, clock)
  <2>1. "replay_rate" # NULL /\ "delivery_rate" # NULL /\ "bulk_replay_size" # NULL
    BY Zenon, NullAssumption DEF NullAssumption, Refusal
  <2> QED
    BY Zenon, <1>1, <2>1 DEF admit_replays_locked
<1>3. /\ Replays(clock, s) \in [1..n -> DeliveryRow]
      /\ deliveries \in Seq(DeliveryRow) /\ Len(deliveries) \in Nat
  <2>0. TypeOK
    BY Zenon DEF AdmissionType
  <2>1. deliveries \in Seq(DeliveryRow) /\ clock \in Nat
    BY Zenon, <2>0 DEF TypeOK
  <2>2. \A i \in DOMAIN s : s[i] \in Id
    BY Zenon, <1>1 DEF AdmissionType, CallShape
  <2>3. Replays(clock, s) \in [1..n -> DeliveryRow]
    BY Zenon, <1>1, <2>0, <2>1, <2>2, ReplaysType
  <2> QED
    BY <2>1, <2>3
<1>4. deliveries' = deliveries \o Replays(clock, s)
  BY Zenon, <1>1 DEF CreateReplays
<1>5. /\ Len(deliveries') = Len(deliveries) + n
      /\ \A i \in DOMAIN deliveries : deliveries'[i] = deliveries[i]
  BY Zenon, <1>1, <1>3, <1>4, AppendRows
<1>6. ReplayIds' \subseteq ReplayIds \union ((Len(deliveries) + 1)..(Len(deliveries) + n))
  <2>1. Id = 1..Len(deliveries) /\ Id' = 1..(Len(deliveries) + n)
    BY SMTT(30), <1>3, <1>5 DEF Id, AdmissionType, TypeOK
  <2> QED
    BY SMTT(30), <1>1, <1>3, <1>5, <2>1 DEF ReplayIds, Id
<1>7. Cardinality(ReplayIds') <= Cardinality(ReplayIds) + n
  <2> DEFINE new == (Len(deliveries) + 1)..(Len(deliveries) + n)
  <2>1. IsFiniteSet(ReplayIds)
    BY Zenon, SpentFinite DEF AdmissionType, SpentCountable
  <2>2. IsFiniteSet(new) /\ Cardinality(new) = n
    <3>1. IsFiniteSet(new) /\ Cardinality(new) =
             IF Len(deliveries) + 1 > Len(deliveries) + n THEN 0
             ELSE (Len(deliveries) + n) - (Len(deliveries) + 1) + 1
      <4>1. Len(deliveries) + 1 \in Int /\ Len(deliveries) + n \in Int
        BY <1>1, <1>3
      <4> HIDE DEF n
      <4> QED
        BY Zenon, <4>1, FS_Interval
    <3> QED
      BY <1>1, <1>3, <3>1
  <2> HIDE DEF new
  <2>3. /\ IsFiniteSet(ReplayIds \union new)
        /\ Cardinality(ReplayIds \union new)
              = Cardinality(ReplayIds) + Cardinality(new) - Cardinality(ReplayIds \cap new)
    BY Zenon, <2>1, <2>2, FS_Union
  <2>4. /\ Cardinality(ReplayIds \cap new) \in Nat /\ Cardinality(ReplayIds) \in Nat
        /\ Cardinality(ReplayIds \union new) \in Nat
    BY Zenon, <2>1, <2>2, <2>3, FS_Intersection, FS_CardinalityType
  <2>5. Cardinality(ReplayIds') <= Cardinality(ReplayIds \union new)
        /\ Cardinality(ReplayIds') \in Nat
    BY Zenon, <1>6, <2>3, FS_Subset, FS_CardinalityType DEF new
  <2> QED
    BY <1>1, <2>2, <2>3, <2>4, <2>5
<1>8. SpentByQuota /\ SpentByQuota'
  BY SpentIs, PTL
<1>9. /\ Spent("replay")' <= Spent("replay") + n
      /\ Spent("delivery")' <= Spent("delivery") + n
      /\ \A q \in Quota \ {"replay", "delivery"} : Spent(q)' <= Spent(q)
  <2>1. Stored(event)' = Stored(event)
    BY Zenon DEF Stored
  <2>2. Cardinality(Stored(event)) \in Nat
    BY Zenon, SpentFinite, FS_CardinalityType DEF AdmissionType, SpentCountable
  <2> QED
    BY SMTT(30), <1>1, <1>3, <1>5, <1>7, <1>8, <2>1, <2>2 DEF SpentByQuota
<1>10. tenant' = [tenant EXCEPT !["replay"] = Balance(Charge("replay", n, clock)),
                     !["delivery"] = Balance(Charge("delivery", n, clock))]
  BY Zenon, <1>1 DEF CreateReplays
<1>11. \A t \in Unfinished' : request'[t].began = clock'
  BY ZenonT(60), <1>1, AnswerOnTime DEF CreateReplays
<1>12. "replay" \in Quota /\ "delivery" \in Quota
  BY Zenon
<1> HIDE DEF n, Quota
<1> QED
  BY Zenon, <1>1, <1>2, <1>9, <1>10, <1>11, <1>12, ChargedStep

\* A call that begins spends nothing.
LEMMA BeginBudget ==
    ASSUME AdmissionType, AdmissionType', BudgetInv, NEW r \in Request, NEW call,
           call.began = clock, Begin(r, call)
    PROVE  BudgetInv'
<1>1. OnTime /\ UNCHANGED <<tenant, deliveries, event>> /\ clock' = clock
  BY Zenon DEF BudgetInv, OnTime, Begin
<1> QED
  BY Zenon, <1>1, BeginOnTime, FreeSteps

\* Every step keeps the balance of the books.
LEMMA NextBudget ==
    ASSUME MaxTxAge = 0, AdmissionType, AdmissionType', BudgetInv, [Next]_vars
    PROVE  BudgetInv'
<1>0. OnTime
  BY Zenon DEF BudgetInv, OnTime
<1>1. ASSUME NEW r \in Request, NEW kind, NEW k, NEW c, NEW s, NEW a,
             Begin(r, NewCall(kind, k, c, s, a))
      PROVE  BudgetInv'
  <2>1. NewCall(kind, k, c, s, a).began = clock
    BY Zenon DEF NewCall
  <2> QED
    BY Zenon, <1>1, <2>1, BeginBudget
<1>2. ASSUME NEW r \in Request, NEW k \in Key, NEW c \in Content, IngestEvent(r, k, c)
      PROVE  BudgetInv'
  BY Zenon, <1>1, <1>2 DEF IngestEvent
<1>3. ASSUME NEW r \in Request, NEW k \in Key, NEW s, ReplayDeliveries(r, k, s)
      PROVE  BudgetInv'
  BY Zenon, <1>1, <1>3 DEF ReplayDeliveries
<1>4. ASSUME NEW r \in Request, NEW i \in Id, ReplayDelivery(r, i)
      PROVE  BudgetInv'
  BY Zenon, <1>1, <1>4 DEF ReplayDelivery
<1>5. ASSUME NEW r \in Request, NEW s \in Listing(Endpoint, Cardinality(Endpoint)),
             AdmitEvent(r, s)
      PROVE  BudgetInv'
  <2>1. Cardinality(Endpoint) \in Nat
    BY Zenon, FinitenessAssumption, FS_CardinalityType DEF FinitenessAssumption
  <2>2. PICK k \in Nat : s \in [1..k -> Endpoint]
    BY Zenon, <2>1, ListingType
  <2> QED
    BY Zenon, <1>5, <2>2, AdmitEventBudget
<1>6. ASSUME NEW r \in Request, NEW a, request' = [request EXCEPT ![r] = Answered(r, a)],
             UNCHANGED <<clock, tenant, deliveries, event>>
      PROVE  BudgetInv'
  BY Zenon, <1>0, <1>6, AnswerOnTime, FreeSteps
<1>7. ASSUME NEW r \in Unfinished, NEW p, request' = [request EXCEPT ![r].phase = p],
             UNCHANGED <<clock, tenant, deliveries, event>>
      PROVE  BudgetInv'
  BY Zenon, <1>0, <1>7, PhaseOnTime, FreeSteps
<1>8. ASSUME NEW r \in Request, AdmitReplay(r)
      PROVE  BudgetInv'
  <2>1. r \in Unfinished /\ UNCHANGED <<clock, event>>
    BY Zenon, <1>8 DEF AdmitReplay, Unfinished
  <2>2. CASE CreateReplays(r, NULL, request[r].sources, request[r].began)
             /\ admit_replays_locked(request[r].began, Len(request[r].sources)) = NULL
    BY Zenon, <2>1, <2>2, CreateReplaysBudget
  <2> QED
    BY Zenon, <1>6, <1>8, <2>1, <2>2 DEF AdmitReplay
<1>9. ASSUME NEW r \in Request, LockReplays(r)
      PROVE  BudgetInv'
  <2>1. r \in Unfinished /\ UNCHANGED <<clock, tenant, deliveries, event>>
    BY Zenon, <1>9 DEF LockReplays, Unfinished
  <2> QED
    BY Zenon, <1>6, <1>7, <1>9, <2>1 DEF LockReplays, Repeat, Answered
<1>10. ASSUME NEW r \in Request, CheckReplays(r)
       PROVE  BudgetInv'
  <2>1. r \in Unfinished /\ UNCHANGED <<clock, tenant, deliveries, event>>
    BY Zenon, <1>10 DEF CheckReplays, Unfinished
  <2> QED
    BY Zenon, <1>6, <1>7, <1>10, <2>1 DEF CheckReplays
<1>11. ASSUME NEW r \in Request, AdmitReplays(r)
       PROVE  BudgetInv'
  <2>1. r \in Unfinished /\ UNCHANGED <<clock, event>>
    BY Zenon, <1>11 DEF AdmitReplays, Unfinished
  <2> QED
    BY Zenon, <1>6, <1>11, <2>1, CreateReplaysBudget DEF AdmitReplays
<1>12. ASSUME NEW r \in Request, Disconnect(r)
       PROVE  BudgetInv'
  BY Zenon, <1>6, <1>12 DEF Disconnect
<1>13. ASSUME NEW r \in Request, PurgeEventPayload(r)
       PROVE  BudgetInv'
  <2>1. /\ UNCHANGED <<tenant, deliveries, clock, request>>
        /\ Stored(event)' \subseteq Stored(event)
    BY Zenon, <1>13 DEF PurgeEventPayload, Stored, AdmissionType, TypeOK
  <2>2. /\ ReplayIds' = ReplayIds /\ Len(deliveries') = Len(deliveries)
        /\ clock' >= clock /\ Unfinished' = Unfinished
    BY <2>1 DEF ReplayIds, Id, Unfinished, AdmissionType, TypeOK
  <2> QED
    BY Zenon, <1>0, <2>1, <2>2, FreeStep DEF OnTime
<1>14. ASSUME NEW i \in Id, NEW status \in {"succeeded", "dead"}, Deliver(i, status)
       PROVE  BudgetInv'
  <2>1. /\ UNCHANGED <<tenant, clock, event, request>>
        /\ deliveries \in Seq(DeliveryRow) /\ i \in DOMAIN deliveries
        /\ deliveries' = [deliveries EXCEPT ![i].status = status]
    BY Zenon, <1>14 DEF Deliver, AdmissionType, TypeOK, Id
  <2>2. DOMAIN deliveries' = DOMAIN deliveries /\ Len(deliveries') = Len(deliveries)
    BY <2>1
  <2>3. deliveries[i] \in DeliveryRow
    BY <2>1
  <2>4. deliveries'[i].source = deliveries[i].source
    BY Zenon, <2>1, <2>3 DEF DeliveryRow
  <2>5. \A j \in DOMAIN deliveries \ {i} : deliveries'[j] = deliveries[j]
    BY Zenon, <2>1
  <2>6. ReplayIds' = ReplayIds
    BY Zenon, <2>2, <2>4, <2>5 DEF ReplayIds, Id
  <2>7. Stored(event)' = Stored(event) /\ clock' >= clock /\ Unfinished' = Unfinished
    BY <2>1 DEF Stored, Unfinished, AdmissionType, TypeOK
  <2> QED
    BY Zenon, <1>0, <2>1, <2>2, <2>6, <2>7, FreeStep DEF OnTime
<1>16. CASE Tick
  <2>1. /\ UNCHANGED <<tenant, deliveries, event, request>> /\ clock' = clock + 1
        /\ \A r \in Unfinished : clock - request[r].began < 0
    BY Zenon, <1>16 DEF Tick
  <2>2. Unfinished = {} /\ clock' >= clock
    BY <1>0, <2>1 DEF OnTime, AdmissionType, TypeOK
  <2>3. /\ Stored(event)' = Stored(event) /\ ReplayIds' = ReplayIds
        /\ Len(deliveries') = Len(deliveries) /\ Unfinished' = {}
    BY Zenon, <2>1, <2>2 DEF Stored, ReplayIds, Id, Unfinished
  <2> QED
    BY Zenon, <2>1, <2>2, <2>3, FreeStep
<1>17. CASE UNCHANGED vars
  <2>1. UNCHANGED <<tenant, deliveries, event, clock, request>> /\ Unfinished' = Unfinished
    BY Zenon, <1>17 DEF vars, Unfinished
  <2> QED
    BY Zenon, <1>0, <2>1, FreeSteps DEF OnTime
<1> QED
  BY ZenonT(60), <1>2, <1>3, <1>4, <1>5, <1>8, <1>9, <1>10, <1>11, <1>12, <1>13, <1>14,
     <1>16, <1>17 DEF Next

\* The first state: full balances, nothing spent.
LEMMA InitBudget == Init => BudgetInv
<1> SUFFICES ASSUME Init PROVE BudgetInv
  BY Zenon
<1>1. AdmissionType /\ clock = 0
  BY Zenon, InitType DEF Init
<1>2. Stored(event) = {} /\ ReplayIds = {} /\ Len(deliveries) = 0
  BY DEF Init, Stored, ReplayIds, Id
<1>3. \A q \in Quota : Spent(q) = 0
  BY Zenon, <1>2, SpentIs, FS_EmptySet DEF SpentByQuota
<1>4. \A q \in Quota : tenant[q].tokens = Burst[q] /\ tenant[q].refilled_at = 0
  BY Zenon DEF Init
<1>5. \A q \in Quota : Rate[q] \in Nat /\ Burst[q] \in Nat
  BY Zenon, QuotaAssumption DEF QuotaAssumption
<1>6. Unfinished = {}
  BY Zenon DEF Init, Unfinished, NoCall
<1> QED
  BY <1>1, <1>3, <1>4, <1>5, <1>6 DEF BudgetInv

\* The books imply the budget.
LEMMA BudgetFollows == AdmissionType /\ BudgetInv => BudgetRespected
<1> SUFFICES ASSUME AdmissionType, BudgetInv, NEW q \in Quota
             PROVE  Spent(q) <= Burst[q] + Rate[q] * clock
  BY Zenon DEF BudgetRespected
<1>1. /\ tenant[q].tokens \in Nat /\ tenant[q].refilled_at \in Nat /\ clock \in Nat
      /\ Rate[q] \in Nat /\ Burst[q] \in Nat /\ Spent(q) \in Nat
  BY Zenon, SpentFinite, QuotaAssumption DEF QuotaAssumption, AdmissionType, TypeOK, SpentCountable
<1>2. /\ tenant[q].refilled_at <= clock
      /\ Spent(q) + tenant[q].tokens <= Burst[q] + Rate[q] * tenant[q].refilled_at
  BY Zenon DEF BudgetInv
<1>3. Rate[q] * tenant[q].refilled_at <= Rate[q] * clock
      /\ Rate[q] * tenant[q].refilled_at \in Nat /\ Rate[q] * clock \in Nat
  <2>1. Rate[q] * clock - Rate[q] * tenant[q].refilled_at
           = (clock - tenant[q].refilled_at) * Rate[q]
    BY <1>1, Distribute
  <2>2. (clock - tenant[q].refilled_at) * Rate[q] >= 0
    BY <1>1, <1>2
  <2>3. Rate[q] * tenant[q].refilled_at \in Nat /\ Rate[q] * clock \in Nat
    BY <1>1
  <2> QED
    BY <2>1, <2>2, <2>3
<1> QED
  BY <1>1, <1>2, <1>3

\* When no transaction outlives a clock step, the events, deliveries and
\* replays ever accepted fit the burst plus the rate times the elapsed time,
\* for every rate, burst and set of requests.
THEOREM BudgetCorrect == MaxTxAge = 0 => (Spec => []BudgetRespected)
<1> SUFFICES ASSUME MaxTxAge = 0 PROVE Spec => []BudgetRespected
  BY Zenon
<1> DEFINE Inv == AdmissionType /\ BudgetInv
<1>1. Init => Inv
  BY Zenon, InitType, InitBudget
<1>2. Inv /\ [Next]_vars => Inv'
  BY Zenon, NextType, NextBudget
<1>3. Inv => BudgetRespected
  BY Zenon, BudgetFollows
<1> QED
  BY <1>1, <1>2, <1>3, PTL DEF Spec

-----------------------------------------------------------------------------
(***************************************************************************)
(* Idempotency keys.                                                       *)
(***************************************************************************)
\* A key names one row, and the row was inserted by a call that is answered.
TableInv(table) ==
    \A x \in Stored(table) :
        /\ request[x].phase = "done"
        /\ \A y \in Stored(table) :
              table[x].key = table[y].key /\ table[x].key # NULL => x = y

\* What a call may carry, and what its answer names.
CallInv(r) ==
    LET call == request[r]
        answer == call.answer
    IN  /\ call.kind = "event" => call.sources = << >>
        /\ call.kind = "bulk" => call.key \in Key /\ call.content = NULL
        /\ answer \in Request =>
              /\ call.phase = "done" /\ call.kind # "none"
              /\ call.kind = "event" =>
                    /\ answer \in Existing(event, call.key)
                    /\ event[answer].content = call.content
              /\ call.kind # "event" => answer \in Stored(operation)
              /\ call.kind = "bulk" =>
                    /\ operation[answer].key = call.key
                    /\ operation[answer].sources = call.sources
        /\ call.phase \in {"locked", "checked"} =>
              /\ call.kind = "bulk" /\ holder = r
              /\ Existing(operation, call.key) = {}

AnswerInv ==
    /\ TableInv(event) /\ TableInv(operation)
    /\ \A r \in Request : CallInv(r)

\* An answered call keeps what it carried; the other calls are untouched.
LEMMA AnsweredFields ==
    ASSUME AdmissionType, NEW r \in Request, NEW a,
           request' = [request EXCEPT ![r] = Answered(r, a)]
    PROVE  /\ request'[r].kind = request[r].kind /\ request'[r].key = request[r].key
           /\ request'[r].content = request[r].content
           /\ request'[r].sources = request[r].sources
           /\ request'[r].phase = "done" /\ request'[r].answer = a
           /\ \A s \in Request \ {r} : request'[s] = request[s]
<1>1. request \in [Request -> Call] /\ request[r] \in Call
  BY Zenon DEF AdmissionType, TypeOK
<1>2. request'[r] = [request[r] EXCEPT !.phase = "done", !.answer = a]
  BY Zenon, <1>1 DEF Answered
<1>3. \A s \in Request \ {r} : request'[s] = request[s]
  BY Zenon, <1>1
<1> QED
  BY Zenon, <1>1, <1>2, <1>3 DEF Call

\* A step of one call that writes no row, and takes the global row from nobody.
LEMMA CallStep ==
    ASSUME AnswerInv, NEW r \in Request, request[r].phase # "done",
           UNCHANGED <<event, operation>>,
           \A s \in Request \ {r} : request'[s] = request[s],
           \A s \in Request \ {r} : holder = s => holder' = s,
           CallInv(r)'
    PROVE  AnswerInv'
<1>1. TableInv(event)' /\ TableInv(operation)'
  BY Zenon DEF AnswerInv, TableInv, Stored
<1>2. ASSUME NEW s \in Request \ {r} PROVE CallInv(s)'
  BY SMTT(30) DEF AnswerInv, CallInv, Existing, Stored
<1> QED
  BY Zenon, <1>1, <1>2 DEF AnswerInv

\* A refused call, or one whose connection broke.
LEMMA RefusedAnswer ==
    ASSUME AdmissionType, AnswerInv, NEW r \in Request, request[r].phase # "done",
           NEW a, a \notin Request, request' = [request EXCEPT ![r] = Answered(r, a)],
           UNCHANGED <<event, operation>>,
           \A s \in Request \ {r} : holder = s => holder' = s
    PROVE  AnswerInv'
<1>1. /\ request'[r].kind = request[r].kind /\ request'[r].key = request[r].key
      /\ request'[r].content = request[r].content
      /\ request'[r].sources = request[r].sources
      /\ request'[r].phase = "done" /\ request'[r].answer = a
      /\ \A s \in Request \ {r} : request'[s] = request[s]
  BY ZenonT(60), AnsweredFields
<1>2. CallInv(r)
  BY Zenon DEF AnswerInv
<1>3. CallInv(r)'
  BY Zenon, <1>1, <1>2 DEF CallInv
<1> QED
  BY Zenon, <1>1, <1>3, CallStep

\* A repeated key is answered with the stored row, or with a conflict.
LEMMA RepeatAnswer ==
    ASSUME AdmissionType, AnswerInv, NEW r \in Request, request[r].phase # "done",
           NEW x \in Request, NEW matches \in BOOLEAN,
           \/ /\ request[r].kind = "event" /\ x \in Existing(event, request[r].key)
              /\ matches = (event[x].content = request[r].content)
           \/ /\ request[r].kind = "bulk" /\ x \in Existing(operation, request[r].key)
              /\ matches = (operation[x].sources = request[r].sources),
           request' = [request EXCEPT ![r] = Repeat(r, x, matches)],
           UNCHANGED <<event, operation, holder>>
    PROVE  AnswerInv'
<1>1. CASE matches
  <2>1. request' = [request EXCEPT ![r] = Answered(r, x)]
    BY Zenon, <1>1 DEF Repeat, Answered
  <2>2. /\ request'[r].kind = request[r].kind /\ request'[r].key = request[r].key
        /\ request'[r].content = request[r].content
        /\ request'[r].sources = request[r].sources
        /\ request'[r].phase = "done" /\ request'[r].answer = x
        /\ \A s \in Request \ {r} : request'[s] = request[s]
    BY Zenon, <2>1, AnsweredFields
  <2>3. CallInv(r)
    BY Zenon DEF AnswerInv
  <2>4. CallInv(r)'
    BY Zenon, <1>1, <2>2, <2>3 DEF CallInv, Existing, Stored
  <2> QED
    BY Zenon, <2>2, <2>4, CallStep
<1>2. CASE ~matches
  <2>1. request' = [request EXCEPT ![r] = Answered(r, "conflict")]
    BY Zenon, <1>2 DEF Repeat, Answered
  <2>2. "conflict" \notin Request
    BY Zenon, AnswerAssumption DEF AnswerAssumption, Refusal
  <2> QED
    BY ZenonT(60), <2>1, <2>2, RefusedAnswer
<1> QED
  BY Zenon, <1>1, <1>2

\* A call begins, and may find its key stored.
LEMMA BeginAnswer ==
    ASSUME AdmissionType, AnswerInv, NEW r \in Request,
           NEW kind, NEW k, NEW c, NEW s, NEW a,
           Begin(r, NewCall(kind, k, c, s, a)),
           kind = "event" => s = << >>,
           kind = "bulk" => k \in Key /\ c = NULL,
           kind \in {"event", "bulk", "replay"},
           a \in Request =>
              \/ /\ kind = "event" /\ a \in Existing(event, k) /\ event[a].content = c
              \/ /\ kind = "bulk" /\ a \in Existing(operation, k)
                 /\ operation[a].sources = s
    PROVE  AnswerInv'
<1>1. request[r].phase = "idle" /\ UNCHANGED <<event, operation, holder>>
  BY Zenon DEF Begin
<1>2. /\ request'[r] = NewCall(kind, k, c, s, a)
      /\ \A x \in Request \ {r} : request'[x] = request[x]
  BY Zenon DEF Begin, AdmissionType, TypeOK
<1>3. /\ request'[r].kind = kind /\ request'[r].key = k /\ request'[r].content = c
      /\ request'[r].sources = s /\ request'[r].answer = a
      /\ request'[r].phase = IF a = NULL THEN "begun" ELSE "done"
  BY <1>2 DEF NewCall
<1>4. NULL \notin Request
  BY Zenon, NullAssumption DEF NullAssumption
<1>5. CallInv(r)'
  BY Zenon, <1>1, <1>3, <1>4 DEF CallInv, Existing, Stored
<1> QED
  BY Zenon, <1>1, <1>2, <1>5, CallStep

\* A bulk replay moves on: it holds the global row and its key is unused.
LEMMA PhaseAnswer ==
    ASSUME AdmissionType, AnswerInv, NEW r \in Request, NEW p \in {"locked", "checked"},
           request[r].phase \in {"begun", "locked"}, request[r].kind = "bulk",
           request' = [request EXCEPT ![r].phase = p],
           Existing(operation, request[r].key) = {},
           holder \in {NULL, r}, holder' = r, UNCHANGED <<event, operation>>
    PROVE  AnswerInv'
<1>1. request \in [Request -> Call] /\ request[r] \in Call
  BY Zenon DEF AdmissionType, TypeOK
<1>2. /\ request'[r] = [request[r] EXCEPT !.phase = p]
      /\ \A s \in Request \ {r} : request'[s] = request[s]
  BY Zenon, <1>1
<1>3. /\ request'[r].kind = "bulk" /\ request'[r].key = request[r].key
      /\ request'[r].content = request[r].content
      /\ request'[r].sources = request[r].sources
      /\ request'[r].answer = request[r].answer /\ request'[r].phase = p
  BY Zenon, <1>1, <1>2 DEF Call
<1>4. CallInv(r) /\ request[r].answer \notin Request
  BY Zenon DEF AnswerInv, CallInv
<1>5. CallInv(r)'
  BY Zenon, <1>3, <1>4 DEF CallInv, Existing, Stored
<1>6. NULL \notin Request
  BY Zenon, NullAssumption DEF NullAssumption
<1> QED
  BY ZenonT(60), <1>2, <1>5, <1>6, CallStep

\* A table gets one more row, under no key or under one that names none.
LEMMA OneMoreRow ==
    ASSUME NEW old, NEW new, NEW r, NEW key,
           Stored(new) = Stored(old) \union {r}, new[r].key = key,
           \A x \in Stored(old) : x # r /\ new[x] = old[x],
           key # NULL => \A x \in Stored(old) : old[x].key # key,
           \A x, y \in Stored(old) : old[x].key = old[y].key /\ old[x].key # NULL => x = y
    PROVE  \A x, y \in Stored(new) : new[x].key = new[y].key /\ new[x].key # NULL => x = y
BY Zenon

\* An event row is inserted under a key that names none.
LEMMA InsertEventAnswer ==
    ASSUME AdmissionType, AnswerInv, NEW r \in Request, request[r].phase = "begun",
           request[r].kind = "event", Existing(event, request[r].key) = {},
           NEW now \in Nat,
           event' = [event EXCEPT ![r] = [key |-> request[r].key,
                        content |-> request[r].content, created |-> now, purged |-> FALSE]],
           request' = [request EXCEPT ![r] = Answered(r, r)],
           UNCHANGED <<operation, holder>>
    PROVE  AnswerInv'
<1> DEFINE new == [key |-> request[r].key, content |-> request[r].content,
                   created |-> now, purged |-> FALSE]
<1>1. r \notin Stored(event) /\ r \notin Stored(operation)
  BY Zenon DEF AnswerInv, TableInv
<1>2. event'[r] = new /\ \A x \in Request \ {r} : event'[x] = event[x]
  BY Zenon DEF AdmissionType, TypeOK
<1>3. new # NULL
  <2>1. new \in EventRow
    <3>1. request[r].key \in Key /\ request[r].content \in Content
      BY Zenon DEF AdmissionType, CallShape
    <3> QED
      BY Zenon, <3>1 DEF EventRow
  <2> QED
    BY ZenonT(60), <2>1, RowAssumption DEF RowAssumption
<1>4. /\ Stored(event') = Stored(event) \union {r}
      /\ \A x \in Stored(event) : x # r /\ event'[x] = event[x]
      /\ event'[r].key = request[r].key /\ event'[r].content = request[r].content
  BY <1>1, <1>2, <1>3 DEF Stored
<1>5. /\ request'[r].kind = request[r].kind /\ request'[r].key = request[r].key
      /\ request'[r].content = request[r].content
      /\ request'[r].sources = request[r].sources
      /\ request'[r].phase = "done" /\ request'[r].answer = r
      /\ \A s \in Request \ {r} : request'[s] = request[s]
  BY Zenon, AnsweredFields
<1> HIDE DEF new
<1>6. TableInv(event)'
  <2>1. \A x \in Stored(event) : event[x].key # request[r].key
    BY Zenon DEF Existing
  <2>2. Stored(event) \subseteq Request /\ TableInv(event)
    BY Zenon DEF AnswerInv, Stored
  <2>3. ASSUME NEW x \in Stored(event')
        PROVE  request'[x].phase = "done"
    BY ZenonT(60), <1>4, <1>5, <2>2 DEF TableInv
  <2>4. \A x, y \in Stored(event) :
           event[x].key = event[y].key /\ event[x].key # NULL => x = y
    BY Zenon, <2>2 DEF TableInv
  <2>5. \A x, y \in Stored(event') :
           event'[x].key = event'[y].key /\ event'[x].key # NULL => x = y
    BY SMTT(30), <1>4, <2>1, <2>4, OneMoreRow
  <2> QED
    BY Zenon, <2>3, <2>5 DEF TableInv, Stored
<1>7. TableInv(operation)'
  BY SMTT(30), <1>1, <1>5 DEF AnswerInv, TableInv, Stored
<1>8. CallInv(r)'
  <2>1. CallInv(r)
    BY Zenon DEF AnswerInv
  <2> QED
    BY Zenon, <1>4, <1>5, <2>1 DEF CallInv, Existing
<1>9. ASSUME NEW s \in Request \ {r} PROVE CallInv(s)'
  <2>1. CallInv(s)
    BY Zenon DEF AnswerInv
  <2> QED
    BY SMTT(30), <1>4, <1>5, <2>1 DEF CallInv, Existing, Stored
<1> QED
  BY Zenon, <1>6, <1>7, <1>8, <1>9 DEF AnswerInv

\* A replay operation is recorded: a single one without a key, a bulk one
\* under a key that names none, while its call holds the global row.
LEMMA InsertOperationAnswer ==
    ASSUME AdmissionType, AnswerInv, NEW r \in Request, request[r].phase # "done",
           NEW key \in Key \union {NULL},
           \/ request[r].kind = "replay" /\ key = NULL /\ holder = NULL
           \/ /\ request[r].kind = "bulk" /\ key = request[r].key /\ holder = r
              /\ Existing(operation, key) = {},
           operation' = [operation EXCEPT ![r] = [key |-> key,
                                                  sources |-> request[r].sources]],
           request' = [request EXCEPT ![r] = Answered(r, r)],
           holder' = NULL, UNCHANGED event
    PROVE  AnswerInv'
<1> DEFINE new == [key |-> key, sources |-> request[r].sources]
<1>1. r \notin Stored(event) /\ r \notin Stored(operation)
  BY Zenon DEF AnswerInv, TableInv
<1>2. operation'[r] = new /\ \A x \in Request \ {r} : operation'[x] = operation[x]
  BY Zenon DEF AdmissionType, TypeOK
<1>3. new # NULL
  <2>1. new \in OperationRow
    <3>1. request[r].sources \in Seq(Nat)
      BY Zenon DEF AdmissionType, TypeOK, Call
    <3> QED
      BY Zenon, <3>1 DEF OperationRow
  <2> QED
    BY Zenon, <2>1, RowAssumption DEF RowAssumption
<1>4. /\ Stored(operation') = Stored(operation) \union {r}
      /\ \A x \in Stored(operation) : x # r /\ operation'[x] = operation[x]
      /\ operation'[r].key = key /\ operation'[r].sources = request[r].sources
  BY SMTT(30), <1>1, <1>2, <1>3 DEF Stored
<1>5. /\ request'[r].kind = request[r].kind /\ request'[r].key = request[r].key
      /\ request'[r].content = request[r].content
      /\ request'[r].sources = request[r].sources
      /\ request'[r].phase = "done" /\ request'[r].answer = r
      /\ \A s \in Request \ {r} : request'[s] = request[s]
  BY Zenon, AnsweredFields
<1> HIDE DEF new
<1>6. TableInv(operation)'
  <2>1. key # NULL => \A x \in Stored(operation) : operation[x].key # key
    BY ZenonT(60) DEF Existing
  <2>2. Stored(operation) \subseteq Request /\ TableInv(operation)
    BY Zenon DEF AnswerInv, Stored
  <2>3. ASSUME NEW x \in Stored(operation')
        PROVE  request'[x].phase = "done"
    BY ZenonT(60), <1>4, <1>5, <2>2 DEF TableInv
  <2>4. \A x, y \in Stored(operation) :
           operation[x].key = operation[y].key /\ operation[x].key # NULL => x = y
    BY ZenonT(60), <2>2 DEF TableInv
  <2>5. \A x, y \in Stored(operation') :
           operation'[x].key = operation'[y].key /\ operation'[x].key # NULL => x = y
    BY SMTT(30), <1>4, <2>1, <2>4, OneMoreRow
  <2> QED
    BY ZenonT(60), <2>3, <2>5 DEF TableInv, Stored
<1>7. TableInv(event)'
  BY SMTT(30), <1>1, <1>5 DEF AnswerInv, TableInv, Stored
<1>8. CallInv(r)'
  <2>1. CallInv(r)
    BY Zenon DEF AnswerInv
  <2> QED
    BY ZenonT(60), <1>4, <1>5, <2>1 DEF CallInv
<1>9. ASSUME NEW s \in Request \ {r} PROVE CallInv(s)'
  <2>1. CallInv(s)
    BY Zenon DEF AnswerInv
  <2>2. request[s].phase \notin {"locked", "checked"}
    BY Zenon, <2>1, NullAssumption DEF NullAssumption, CallInv
  <2> QED
    BY ZenonT(60), <1>4, <1>5, <2>1, <2>2 DEF CallInv, Existing, Stored
<1> QED
  BY Zenon, <1>6, <1>7, <1>8, <1>9 DEF AnswerInv

\* What is answered for want of admission names no row.
LEMMA RefusalNamesNothing ==
    /\ \A now, count :
          /\ admit_event_locked(now, count) \notin Request
          /\ admit_replays_locked(now, count) \notin Request
    /\ \A a \in Refusal \union {NULL} : a \notin Request
<1>1. \A a \in Refusal \union {NULL} : a \notin Request
  BY Zenon, NullAssumption, AnswerAssumption DEF NullAssumption, AnswerAssumption
<1>2. ASSUME NEW now, NEW count
      PROVE  /\ admit_event_locked(now, count) \in Refusal \union {NULL}
             /\ admit_replays_locked(now, count) \in Refusal \union {NULL}
  BY Zenon, RefusalType
<1> QED
  BY Zenon, <1>1, <1>2

\* ingest_event begins, and its later step.
LEMMA EventStepsAnswer ==
    ASSUME AdmissionType, AnswerInv, NEW r \in Request,
           \/ \E k \in Key, c \in Content : IngestEvent(r, k, c)
           \/ \E endpoints : AdmitEvent(r, endpoints)
    PROVE  AnswerInv'
<1>1. ASSUME NEW k \in Key, NEW c \in Content, IngestEvent(r, k, c)
      PROVE  AnswerInv'
  <2>1. CASE Begin(r, NewCall("event", k, c, << >>, NULL))
    BY ZenonT(60), <2>1, BeginAnswer, RefusalNamesNothing
  <2>2. ASSUME NEW x \in Existing(event, k),
               Begin(r, NewCall("event", k, c, << >>,
                          IF ContentMatches(x, c) THEN x ELSE "conflict"))
        PROVE  AnswerInv'
    <3> DEFINE a == IF ContentMatches(x, c) THEN x ELSE "conflict"
    <3>1. a \in Request => a \in Existing(event, k) /\ event[a].content = c
      BY Zenon, RefusalNamesNothing DEF ContentMatches, Refusal
    <3>2. Begin(r, NewCall("event", k, c, << >>, a))
      BY Zenon, <2>2
    <3> HIDE DEF a
    <3> QED
      BY Zenon, <3>1, <3>2, BeginAnswer
  <2> QED
    BY Zenon, <1>1, <2>1, <2>2 DEF IngestEvent
<1>2. ASSUME NEW endpoints, AdmitEvent(r, endpoints)
      PROVE  AnswerInv'
  <2> DEFINE refusal == admit_event_locked(request[r].began, Len(endpoints))
  <2>1. /\ request[r].kind = "event" /\ request[r].phase = "begun"
        /\ UNCHANGED <<operation, holder>> /\ request[r].began \in Nat
    BY ZenonT(60), <1>2 DEF AdmitEvent, AdmissionType, TypeOK, Call
  <2>2. ASSUME NEW x \in Existing(event, request[r].key),
               request' = [request EXCEPT ![r] =
                  Repeat(r, x, ContentMatches(x, request[r].content))],
               UNCHANGED event
        PROVE  AnswerInv'
    <3>1. x \in Request
      BY Zenon DEF Existing, Stored
    <3> QED
      BY ZenonT(60), <2>1, <2>2, <3>1, RepeatAnswer DEF ContentMatches
  <2>3. CASE request' = [request EXCEPT ![r] = Answered(r, refusal)] /\ UNCHANGED event
    <3>1. refusal \notin Request
      BY Zenon, RefusalNamesNothing
    <3> HIDE DEF refusal
    <3> QED
      BY Zenon, <2>1, <2>3, <3>1, RefusedAnswer
  <2>4. CASE /\ Existing(event, request[r].key) = {}
             /\ event' = [event EXCEPT ![r] =
                   [key |-> request[r].key, content |-> request[r].content,
                    created |-> request[r].began, purged |-> FALSE]]
             /\ request' = [request EXCEPT ![r] = Answered(r, r)]
    BY Zenon, <2>1, <2>4, InsertEventAnswer
  <2> QED
    BY ZenonT(60), <1>2, <2>2, <2>3, <2>4 DEF AdmitEvent
<1> QED
  BY Zenon, <1>1, <1>2

\* The replays begin.
LEMMA ReplayBeginAnswer ==
    ASSUME AdmissionType, AnswerInv, NEW r \in Request,
           \/ \E i \in Id : ReplayDelivery(r, i)
           \/ \E k \in Key : \E s : ReplayDeliveries(r, k, s)
    PROVE  AnswerInv'
<1>1. ASSUME NEW i \in Id, ReplayDelivery(r, i)
      PROVE  AnswerInv'
  <2>1. PICK a \in {NULL, "purged"} : Begin(r, NewCall("replay", NULL, NULL, <<i>>, a))
    BY Zenon, <1>1 DEF ReplayDelivery
  <2>2. a \notin Request
    BY Zenon, RefusalNamesNothing DEF Refusal
  <2> QED
    BY SMTT(30), <2>1, <2>2, BeginAnswer
<1>2. ASSUME NEW k \in Key, NEW s, ReplayDeliveries(r, k, s)
      PROVE  AnswerInv'
  <2>1. CASE Begin(r, NewCall("bulk", k, NULL, s, NULL))
    BY SMTT(30), <2>1, BeginAnswer, RefusalNamesNothing
  <2>2. ASSUME NEW x \in Existing(operation, k),
               Begin(r, NewCall("bulk", k, NULL, s,
                          IF operation[x].sources = s THEN x ELSE "conflict"))
        PROVE  AnswerInv'
    <3> DEFINE a == IF operation[x].sources = s THEN x ELSE "conflict"
    <3>1. a \in Request => a \in Existing(operation, k) /\ operation[a].sources = s
      BY Zenon, RefusalNamesNothing DEF Refusal
    <3>2. Begin(r, NewCall("bulk", k, NULL, s, a))
      BY Zenon, <2>2
    <3> HIDE DEF a
    <3> QED
      BY SMTT(30), <3>1, <3>2, BeginAnswer
  <2> QED
    BY Zenon, <1>2, <2>1, <2>2 DEF ReplayDeliveries
<1> QED
  BY Zenon, <1>1, <1>2

\* The later steps of the replays.
LEMMA ReplayStepsAnswer ==
    ASSUME AdmissionType, AnswerInv, NEW r \in Request,
           \/ AdmitReplay(r) \/ LockReplays(r) \/ CheckReplays(r)
           \/ AdmitReplays(r) \/ Disconnect(r)
    PROVE  AnswerInv'
<1> DEFINE refusal == admit_replays_locked(request[r].began, Len(request[r].sources))
<1>1. refusal \notin Request /\ request[r].key \in Key \union {NULL} /\ NULL \notin Request
  BY Zenon, RefusalNamesNothing DEF AdmissionType, TypeOK, Call
<1>2. CallInv(r)
  BY Zenon DEF AnswerInv
<1> HIDE DEF refusal
<1>3. CASE AdmitReplay(r)
  <2>1. /\ request[r].kind = "replay" /\ request[r].phase = "begun" /\ holder = NULL
        /\ UNCHANGED <<event, holder>>
    BY Zenon, <1>3 DEF AdmitReplay
  <2>2. CASE request' = [request EXCEPT ![r] = Answered(r, refusal)] /\ UNCHANGED operation
    BY Zenon, <1>1, <2>1, <2>2, RefusedAnswer
  <2>3. CASE CreateReplays(r, NULL, request[r].sources, request[r].began)
    BY ZenonT(60), <2>1, <2>3, InsertOperationAnswer DEF CreateReplays
  <2> QED
    BY Zenon, <1>3, <2>2, <2>3 DEF AdmitReplay, refusal
<1>4. CASE LockReplays(r)
  <2>1. /\ request[r].kind = "bulk" /\ request[r].phase = "begun" /\ holder = NULL
        /\ UNCHANGED <<event, operation>>
    BY Zenon, <1>4 DEF LockReplays
  <2>2. ASSUME NEW x \in Existing(operation, request[r].key), UNCHANGED holder,
               request' = [request EXCEPT ![r] =
                  Repeat(r, x, operation[x].sources = request[r].sources)]
        PROVE  AnswerInv'
    <3>1. x \in Request
      BY Zenon DEF Existing, Stored
    <3> QED
      BY Zenon, <2>1, <2>2, <3>1, RepeatAnswer
  <2>3. CASE /\ Existing(operation, request[r].key) = {}
             /\ request' = [request EXCEPT ![r].phase = "locked"] /\ holder' = r
    BY Zenon, <2>1, <2>3, PhaseAnswer
  <2> QED
    BY Zenon, <1>4, <2>2, <2>3 DEF LockReplays
<1>5. CASE CheckReplays(r)
  <2>1. /\ request[r].phase = "locked" /\ UNCHANGED <<event, operation>>
        /\ request[r].kind = "bulk" /\ holder = r
        /\ Existing(operation, request[r].key) = {}
    BY Zenon, <1>2, <1>5 DEF CheckReplays, CallInv
  <2>2. ASSUME NEW a \in {"invalid", "purged"},
               request' = [request EXCEPT ![r] = Answered(r, a)], holder' = NULL
        PROVE  AnswerInv'
    <3>1. a \notin Request
      BY Zenon, RefusalNamesNothing DEF Refusal
    <3> QED
      BY Zenon, <2>1, <2>2, <3>1, RefusedAnswer
  <2>3. CASE request' = [request EXCEPT ![r].phase = "checked"] /\ UNCHANGED holder
    BY ZenonT(60), <2>1, <2>3, PhaseAnswer
  <2> QED
    BY Zenon, <1>5, <2>2, <2>3 DEF CheckReplays
<1>6. CASE AdmitReplays(r)
  <2>1. /\ request[r].phase = "checked" /\ UNCHANGED event /\ holder' = NULL
        /\ request[r].kind = "bulk" /\ holder = r
        /\ Existing(operation, request[r].key) = {}
    BY ZenonT(60), <1>2, <1>6 DEF AdmitReplays, CallInv
  <2>2. CASE request' = [request EXCEPT ![r] = Answered(r, refusal)] /\ UNCHANGED operation
    BY Zenon, <1>1, <2>1, <2>2, RefusedAnswer
  <2>3. CASE CreateReplays(r, request[r].key, request[r].sources, request[r].began)
    BY Zenon, <1>1, <2>1, <2>3, InsertOperationAnswer DEF CreateReplays
  <2> QED
    BY Zenon, <1>6, <2>2, <2>3 DEF AdmitReplays, refusal
<1>7. CASE Disconnect(r)
  <2>1. "lost" \notin Request
    BY Zenon, RefusalNamesNothing DEF Refusal
  <2> QED
    BY Zenon, <1>7, <2>1, RefusedAnswer DEF Disconnect, Unfinished
<1> QED
  BY Zenon, <1>3, <1>4, <1>5, <1>6, <1>7

\* Workers, the purge and time leave keys, contents and calls alone.
LEMMA OtherStepsAnswer ==
    ASSUME AnswerInv, UNCHANGED <<request, holder, operation>>,
           event' = event \/ \E x \in Request : AdmissionType /\ PurgeEventPayload(x)
    PROVE  AnswerInv'
<1>1. CASE event' = event
  BY SMTT(30), <1>1 DEF AnswerInv, TableInv, CallInv, Existing, Stored
<1>2. CASE \E x \in Request : AdmissionType /\ PurgeEventPayload(x)
  <2>1. PICK x \in Request : AdmissionType /\ PurgeEventPayload(x)
    BY Zenon, <1>2
  <2>2. event[x] \in EventRow /\ event \in [Request -> EventRow \union {NULL}]
    BY Zenon, <2>1 DEF PurgeEventPayload, Stored, AdmissionType, TypeOK
  <2>3. event' = [event EXCEPT ![x] = [event[x] EXCEPT !.purged = TRUE]]
    BY Zenon, <2>1, <2>2 DEF PurgeEventPayload
  <2>4. /\ [event[x] EXCEPT !.purged = TRUE] \in EventRow
        /\ [event[x] EXCEPT !.purged = TRUE].key = event[x].key
        /\ [event[x] EXCEPT !.purged = TRUE].content = event[x].content
    BY Zenon, <2>2 DEF EventRow
  <2>5. \A y \in Request : event'[y] = IF y = x THEN [event[x] EXCEPT !.purged = TRUE]
                                       ELSE event[y]
    BY Zenon, <2>2, <2>3
  <2>6. /\ Stored(event') = Stored(event)
        /\ \A y \in Request : /\ event'[y].key = event[y].key
                              /\ event'[y].content = event[y].content
    BY Zenon, <2>2, <2>4, <2>5, RowAssumption DEF RowAssumption, Stored
  <2>7. TableInv(event)' /\ TableInv(operation)'
    BY ZenonT(60), <2>6 DEF AnswerInv, TableInv, Stored
  <2>8. ASSUME NEW r \in Request PROVE CallInv(r)'
    BY ZenonT(60), <2>6 DEF AnswerInv, CallInv, Existing, Stored
  <2> QED
    BY Zenon, <2>7, <2>8 DEF AnswerInv
<1> QED
  BY Zenon, <1>1, <1>2

\* Every step preserves the answers.
LEMMA NextAnswer == AdmissionType /\ AnswerInv /\ [Next]_vars => AnswerInv'
<1> SUFFICES ASSUME AdmissionType, AnswerInv, [Next]_vars PROVE AnswerInv'
  BY Zenon
<1>1. CASE \/ \E r \in Request : PurgeEventPayload(r)
           \/ \E i \in Id, status \in {"succeeded", "dead"} : Deliver(i, status)
           \/ Tick \/ UNCHANGED vars
  BY Zenon, <1>1, OtherStepsAnswer DEF PurgeEventPayload, Deliver, Tick, vars
<1>2. CASE \E r \in Request :
              \/ \E k \in Key, c \in Content : IngestEvent(r, k, c)
              \/ \E endpoints : AdmitEvent(r, endpoints)
  BY Zenon, <1>2, EventStepsAnswer
<1>3. CASE \E r \in Request :
              \/ \E i \in Id : ReplayDelivery(r, i)
              \/ \E k \in Key : \E s : ReplayDeliveries(r, k, s)
  BY Zenon, <1>3, ReplayBeginAnswer
<1>4. CASE \E r \in Request :
              \/ AdmitReplay(r) \/ LockReplays(r) \/ CheckReplays(r)
              \/ AdmitReplays(r) \/ Disconnect(r)
  BY Zenon, <1>4, ReplayStepsAnswer
<1> QED
  BY Zenon, <1>1, <1>2, <1>3, <1>4 DEF Next

\* At the start no call is answered and no key is stored.
LEMMA InitAnswer == Init => AnswerInv
<1> SUFFICES ASSUME Init PROVE AnswerInv
  BY Zenon
<1>1. NULL \notin Request
  BY Zenon, NullAssumption DEF NullAssumption
<1> QED
  BY Zenon, <1>1 DEF Init, AnswerInv, TableInv, CallInv, Stored, NoCall

\* Calls that name the same row carry what it stores.
LEMMA AnswersAgree == AdmissionType /\ AnswerInv => OneAnswerPerKey
<1> SUFFICES ASSUME AdmissionType, AnswerInv PROVE OneAnswerPerKey
  BY Zenon
<1>1. ASSUME NEW r \in Request, NEW s \in Request, Accepted(r), Accepted(s),
             request[r].kind = request[s].kind, request[r].kind # "replay",
             request[r].key = request[s].key
      PROVE  /\ request[r].answer = request[s].answer
             /\ request[r].content = request[s].content
             /\ request[r].sources = request[s].sources
  <2>1. CallInv(r) /\ CallInv(s) /\ TableInv(event) /\ TableInv(operation)
    BY Zenon DEF AnswerInv
  <2>2. request[r].answer \in Request /\ request[s].answer \in Request
    BY Zenon, <1>1 DEF Accepted
  <2>3. CASE request[r].kind = "event"
    <3>1. /\ request[r].answer \in Stored(event) /\ request[s].answer \in Stored(event)
          /\ event[request[r].answer].key = request[r].key
          /\ event[request[s].answer].key = request[r].key
          /\ event[request[r].answer].content = request[r].content
          /\ event[request[s].answer].content = request[s].content
          /\ request[r].sources = << >> /\ request[s].sources = << >>
      BY ZenonT(60), <1>1, <2>1, <2>2, <2>3 DEF CallInv, Existing
    <3>2. request[r].key # NULL
      BY Zenon, <2>3, NullAssumption DEF NullAssumption, AdmissionType, CallShape
    <3> QED
      BY Zenon, <2>1, <3>1, <3>2 DEF TableInv
  <2>4. CASE request[r].kind = "bulk"
    <3>1. /\ request[r].answer \in Stored(operation)
          /\ request[s].answer \in Stored(operation)
          /\ operation[request[r].answer].key = request[r].key
          /\ operation[request[s].answer].key = request[r].key
          /\ operation[request[r].answer].sources = request[r].sources
          /\ operation[request[s].answer].sources = request[s].sources
          /\ request[r].content = NULL /\ request[s].content = NULL
      BY ZenonT(60), <1>1, <2>1, <2>2, <2>4 DEF CallInv
    <3>2. request[r].key # NULL
      BY ZenonT(60), <2>1, <2>4, NullAssumption DEF NullAssumption, CallInv
    <3> QED
      BY Zenon, <2>1, <3>1, <3>2 DEF TableInv
  <2>5. request[r].kind \in {"event", "bulk"}
    BY ZenonT(60), <1>1, <2>1, <2>2 DEF CallInv, AdmissionType, TypeOK, Call
  <2> QED
    BY Zenon, <2>3, <2>4, <2>5
<1>2. ASSUME NEW r \in Request, Accepted(r)
      PROVE  request[r].answer \in Stored(IF request[r].kind = "event"
                                          THEN event ELSE operation)
  <2>1. CallInv(r)
    BY Zenon DEF AnswerInv
  <2> QED
    BY Zenon, <1>2, <2>1 DEF CallInv, Accepted, Existing
<1> QED
  BY Zenon, <1>1, <1>2 DEF OneAnswerPerKey

\* An Idempotency-Key is answered once: calls of one kind that are accepted
\* under it, first or repeated, concurrent or later, get the same stored row
\* and carried the same content, for any requests, keys and wait for locks.
THEOREM OneAnswerCorrect == Spec => []OneAnswerPerKey
<1> DEFINE Inv == AdmissionType /\ AnswerInv
<1>1. Init => Inv
  BY Zenon, InitType, InitAnswer
<1>2. Inv /\ [Next]_vars => Inv'
  BY Zenon, NextType, NextAnswer
<1>3. Inv => OneAnswerPerKey
  BY Zenon, AnswersAgree
<1> QED
  BY <1>1, <1>2, <1>3, PTL DEF Spec

-----------------------------------------------------------------------------
(***************************************************************************)
(* The configured maxima.                                                  *)
(***************************************************************************)
Envelopes == {r \in Stored(event) : ~event[r].purged}

\* What the limits count is finite.
LEMMA LimitsFinite ==
    AdmissionType => IsFiniteSet(Backlog) /\ IsFiniteSet(Envelopes)
<1> SUFFICES ASSUME AdmissionType PROVE IsFiniteSet(Backlog) /\ IsFiniteSet(Envelopes)
  BY Zenon
<1>1. Id = 1..Len(deliveries) /\ Len(deliveries) \in Nat
  BY DEF AdmissionType, TypeOK, Id
<1>2. IsFiniteSet(1..Len(deliveries))
  BY <1>1, FS_Interval
<1>3. IsFiniteSet(Backlog)
  BY Zenon, <1>1, <1>2, FS_Subset DEF Backlog
<1>4. IsFiniteSet(Envelopes)
  BY Zenon, FinitenessAssumption, FS_Subset DEF FinitenessAssumption, Stored, Envelopes
<1> QED
  BY Zenon, <1>3, <1>4

\* A set that grows by a set of n elements grows by at most n.
LEMMA CountAdded ==
    ASSUME NEW A, NEW B, NEW S, IsFiniteSet(A), IsFiniteSet(B), S \subseteq A \union B
    PROVE  /\ Cardinality(S) <= Cardinality(A) + Cardinality(B)
           /\ Cardinality(S) \in Nat /\ Cardinality(A) \in Nat /\ Cardinality(B) \in Nat
<1>1. /\ IsFiniteSet(A \union B) /\ IsFiniteSet(A \cap B)
      /\ Cardinality(A \union B) = Cardinality(A) + Cardinality(B) - Cardinality(A \cap B)
  <2>1. IsFiniteSet(A \union B)
    BY Zenon, FS_Union
  <2>2. IsFiniteSet(A \cap B)
    BY Zenon, FS_Subset
  <2>3. Cardinality(A \union B) = Cardinality(A) + Cardinality(B) - Cardinality(A \cap B)
    BY Zenon, FS_Union
  <2> QED
    BY Zenon, <2>1, <2>2, <2>3
<1>2. /\ Cardinality(A \cap B) \in Nat /\ Cardinality(A) \in Nat /\ Cardinality(B) \in Nat
      /\ Cardinality(A \union B) \in Nat
  BY Zenon, <1>1, FS_CardinalityType
<1>3. IsFiniteSet(S) /\ Cardinality(S) <= Cardinality(A \union B)
  BY Zenon, <1>1, FS_Subset
<1>4. Cardinality(S) \in Nat
  BY Zenon, <1>3, FS_CardinalityType
<1> QED
  BY <1>1, <1>2, <1>3, <1>4

\* Inserted deliveries add themselves to the backlog.
LEMMA BacklogGrows ==
    ASSUME AdmissionType, NEW n \in Nat, NEW t \in [1..n -> DeliveryRow],
           deliveries' = deliveries \o t
    PROVE  /\ Cardinality(Backlog') <= Cardinality(Backlog) + n
           /\ Cardinality(Backlog') \in Nat /\ Cardinality(Backlog) \in Nat
<1> DEFINE len == Len(deliveries)
           added == (len + 1)..(len + n)
<1>1. deliveries \in Seq(DeliveryRow) /\ len \in Nat
  BY SMTT(30) DEF AdmissionType, TypeOK
<1>2. /\ deliveries' \in Seq(DeliveryRow) /\ Len(deliveries') = len + n
      /\ \A i \in DOMAIN deliveries : deliveries'[i] = deliveries[i]
  BY Zenon, <1>1, AppendRows
<1>3. DOMAIN deliveries = 1..len /\ DOMAIN deliveries' = 1..(len + n)
  BY SMTT(30), <1>1, <1>2
<1>4. Backlog' \subseteq Backlog \union added
  <2> SUFFICES ASSUME NEW i \in 1..(len + n), deliveries'[i].status = "pending"
               PROVE  i \in Backlog \union added
    BY Zenon, <1>3 DEF Backlog, Id
  <2>1. CASE i \in 1..len
    BY Zenon, <1>2, <1>3, <2>1 DEF Backlog, Id
  <2>2. CASE i \notin 1..len
    BY <1>1, <2>2
  <2> QED
    BY Zenon, <2>1, <2>2
<1>5. IsFiniteSet(added) /\ Cardinality(added) = n
  <2>1. len + 1 \in Int /\ len + n \in Int
    BY <1>1
  <2>2. /\ IsFiniteSet(added)
        /\ Cardinality(added) = IF len + 1 > len + n THEN 0 ELSE (len + n) - (len + 1) + 1
    BY Zenon, <2>1, FS_Interval
  <2> HIDE DEF added, len
  <2> QED
    BY <1>1, <2>2
<1>6. IsFiniteSet(Backlog)
  BY Zenon, LimitsFinite
<1> HIDE DEF added, len
<1> QED
  BY Zenon, <1>4, <1>5, <1>6, CountAdded

\* Admission leaves room for what is about to be inserted.
LEMMA AdmittedFits ==
    ASSUME NEW now, NEW count
    PROVE  /\ admit_event_locked(now, count) = NULL =>
                 /\ ~(Cardinality(Backlog) + count > GlobalMaxBacklog)
                 /\ ~(Retained + 1 > RetainedLimit)
           /\ admit_replays_locked(now, count) = NULL =>
                 ~(Cardinality(Backlog) + count > GlobalMaxBacklog)
<1>1. \A a \in Refusal : a # NULL
  BY Zenon, NullAssumption DEF NullAssumption
<1>2. check_saturation(now, count) = NULL => ~(Cardinality(Backlog) + count > GlobalMaxBacklog)
  BY Zenon, <1>1 DEF check_saturation, Refusal
<1>3. admit_event_locked(now, count) = NULL =>
         check_saturation(now, count) = NULL /\ ~(Retained + 1 > RetainedLimit)
  BY Zenon, <1>1 DEF admit_event_locked, Refusal
<1>4. admit_replays_locked(now, count) = NULL => check_saturation(now, count) = NULL
  BY Zenon, <1>1 DEF admit_replays_locked, Refusal
<1> QED
  BY Zenon, <1>2, <1>3, <1>4

\* An admitted event and its fan-out fit.
LEMMA AdmitEventLimits ==
    ASSUME AdmissionType, LimitsRespected, NEW r \in Request,
           NEW n \in Nat, NEW s \in [1..n -> Endpoint], AdmitEvent(r, s)
    PROVE  LimitsRespected'
<1> DEFINE now == request[r].began
<1>1. now \in Nat /\ Len(s) = n
  BY SMTT(30) DEF AdmissionType, TypeOK, Call
<1>2. CASE UNCHANGED <<event, deliveries>>
  BY Zenon, <1>2 DEF LimitsRespected, Backlog, Id, Retained, Stored
<1>3. CASE /\ admit_event_locked(now, Len(s)) = NULL
           /\ event' = [event EXCEPT ![r] =
                 [key |-> request[r].key, content |-> request[r].content,
                  created |-> now, purged |-> FALSE]]
           /\ deliveries' = deliveries \o Copies(r, now, s)
  <2>1. Cardinality(Backlog') <= GlobalMaxBacklog
    <3>1. /\ Cardinality(Backlog') <= Cardinality(Backlog) + n
          /\ Cardinality(Backlog') \in Nat /\ Cardinality(Backlog) \in Nat
      BY ZenonT(60), <1>1, <1>3, CopiesType, BacklogGrows
    <3>2. ~(Cardinality(Backlog) + n > GlobalMaxBacklog)
      BY Zenon, <1>1, <1>3, AdmittedFits
    <3>3. GlobalMaxBacklog \in Nat
      BY Zenon, LimitAssumption DEF LimitAssumption
    <3> QED
      BY SMTT(30), <3>1, <3>2, <3>3
  <2>2. Retained' <= RetainedLimit
    <3>1. Envelopes' \subseteq Envelopes \union {r}
      BY Zenon, <1>3 DEF Envelopes, Stored, AdmissionType, TypeOK
    <3>2. IsFiniteSet({r}) /\ Cardinality({r}) = 1
      BY ZenonT(60), FS_Singleton
    <3>3. Cardinality(Envelopes') <= Cardinality(Envelopes) + 1
          /\ Cardinality(Envelopes') \in Nat /\ Cardinality(Envelopes) \in Nat
      BY Zenon, <3>1, <3>2, LimitsFinite, CountAdded
    <3>4. ~(Cardinality(Envelopes) + 1 > RetainedLimit)
      BY Zenon, <1>3, AdmittedFits DEF Retained, Envelopes
    <3>5. RetainedLimit \in Nat /\ Retained' = Cardinality(Envelopes')
      BY Zenon, LimitAssumption DEF LimitAssumption, Retained, Envelopes
    <3> QED
      BY SMTT(30), <3>3, <3>4, <3>5
  <2> QED
    BY Zenon, <2>1, <2>2 DEF LimitsRespected
<1> QED
  BY ZenonT(60), <1>2, <1>3 DEF AdmitEvent

\* Admitted replays fit.
LEMMA CreateReplaysLimits ==
    ASSUME AdmissionType, LimitsRespected, NEW r \in Request, NEW key,
           CreateReplays(r, key, request[r].sources, request[r].began),
           admit_replays_locked(request[r].began, Len(request[r].sources)) = NULL,
           UNCHANGED event
    PROVE  LimitsRespected'
<1> DEFINE s == request[r].sources
           now == request[r].began
<1>1. now \in Nat /\ s \in Seq(Nat) /\ Len(s) \in Nat
  BY SMTT(30) DEF AdmissionType, TypeOK, Call
<1>2. Replays(now, s) \in [1..Len(s) -> DeliveryRow]
  BY ZenonT(60), <1>1, ReplaysType DEF AdmissionType, CallShape
<1>3. /\ Cardinality(Backlog') <= Cardinality(Backlog) + Len(s)
      /\ Cardinality(Backlog') \in Nat /\ Cardinality(Backlog) \in Nat
  BY ZenonT(60), <1>1, <1>2, BacklogGrows DEF CreateReplays
<1>4. ~(Cardinality(Backlog) + Len(s) > GlobalMaxBacklog)
  BY Zenon, AdmittedFits
<1>5. GlobalMaxBacklog \in Nat
  BY Zenon, LimitAssumption DEF LimitAssumption
<1>6. Cardinality(Backlog') <= GlobalMaxBacklog
  BY SMTT(30), <1>1, <1>3, <1>4, <1>5
<1> QED
  BY ZenonT(60), <1>6 DEF LimitsRespected, Retained, Stored

\* Steps after which less, or the same, is counted.
LEMMA LimitsShrink ==
    ASSUME AdmissionType, LimitsRespected, Backlog' \subseteq Backlog,
           Envelopes' \subseteq Envelopes
    PROVE  LimitsRespected'
<1>1. IsFiniteSet(Backlog) /\ IsFiniteSet(Envelopes) /\ IsFiniteSet({}) /\ Cardinality({}) = 0
  BY Zenon, LimitsFinite, FS_EmptySet
<1>2. /\ Cardinality(Backlog') <= Cardinality(Backlog) + Cardinality({})
      /\ Cardinality(Backlog') \in Nat /\ Cardinality(Backlog) \in Nat
  BY Zenon, <1>1, CountAdded
<1>3. /\ Cardinality(Envelopes') <= Cardinality(Envelopes) + Cardinality({})
      /\ Cardinality(Envelopes') \in Nat /\ Cardinality(Envelopes) \in Nat
  BY ZenonT(60), <1>1, CountAdded
<1>4. /\ Cardinality(Backlog) <= GlobalMaxBacklog /\ Cardinality(Envelopes) <= RetainedLimit
      /\ GlobalMaxBacklog \in Nat /\ RetainedLimit \in Nat
  BY Zenon, LimitAssumption DEF LimitsRespected, Retained, Envelopes, LimitAssumption
<1>5. Cardinality(Backlog') <= GlobalMaxBacklog /\ Cardinality(Envelopes') <= RetainedLimit
  BY SMTT(30), <1>1, <1>2, <1>3, <1>4
<1> QED
  BY Zenon, <1>5 DEF LimitsRespected, Retained, Envelopes

\* Every step keeps to the limits.
LEMMA NextLimits == AdmissionType /\ LimitsRespected /\ [Next]_vars => LimitsRespected'
<1> SUFFICES ASSUME AdmissionType, LimitsRespected, [Next]_vars PROVE LimitsRespected'
  BY Zenon
<1>1. ASSUME UNCHANGED <<event, deliveries>> PROVE LimitsRespected'
  BY Zenon, <1>1 DEF LimitsRespected, Backlog, Id, Retained, Stored
<1>2. ASSUME NEW r \in Request, NEW s \in Listing(Endpoint, Cardinality(Endpoint)),
             AdmitEvent(r, s)
      PROVE  LimitsRespected'
  <2>1. Cardinality(Endpoint) \in Nat
    BY Zenon, FinitenessAssumption, FS_CardinalityType DEF FinitenessAssumption
  <2>2. PICK k \in Nat : s \in [1..k -> Endpoint]
    BY Zenon, <2>1, ListingType
  <2> QED
    BY Zenon, <1>2, <2>2, AdmitEventLimits
<1>3. ASSUME NEW r \in Request, AdmitReplay(r) \/ AdmitReplays(r)
      PROVE  LimitsRespected'
  <2> DEFINE refusal == admit_replays_locked(request[r].began, Len(request[r].sources))
  <2>1. UNCHANGED event
    BY Zenon, <1>3 DEF AdmitReplay, AdmitReplays
  <2>2. CASE UNCHANGED deliveries
    BY Zenon, <1>1, <2>1, <2>2
  <2>3. ASSUME NEW key, refusal = NULL,
               CreateReplays(r, key, request[r].sources, request[r].began)
        PROVE  LimitsRespected'
    BY Zenon, <2>1, <2>3, CreateReplaysLimits
  <2> QED
    BY ZenonT(60), <1>3, <2>2, <2>3 DEF AdmitReplay, AdmitReplays
<1>4. ASSUME NEW i \in Id, NEW status \in {"succeeded", "dead"}, Deliver(i, status)
      PROVE  LimitsRespected'
  <2>1. /\ deliveries \in Seq(DeliveryRow) /\ i \in DOMAIN deliveries
        /\ deliveries[i] \in DeliveryRow
    BY DEF AdmissionType, TypeOK, Id
  <2>2. deliveries' = [deliveries EXCEPT ![i] = [deliveries[i] EXCEPT !.status = status]]
    BY Zenon, <1>4 DEF Deliver
  <2>3. /\ DOMAIN deliveries' = DOMAIN deliveries
        /\ \A x \in DOMAIN deliveries \ {i} : deliveries'[x] = deliveries[x]
        /\ deliveries'[i].status = status
    BY Zenon, <2>1, <2>2 DEF DeliveryRow
  <2>4. Backlog' \subseteq Backlog
    BY Zenon, <2>3 DEF Backlog, Id
  <2>5. Envelopes' = Envelopes
    BY Zenon, <1>4 DEF Deliver, Envelopes, Stored
  <2> QED
    BY Zenon, <2>4, <2>5, LimitsShrink
<1>5. ASSUME NEW x \in Request, PurgeEventPayload(x)
      PROVE  LimitsRespected'
  <2>1. event \in [Request -> EventRow \union {NULL}] /\ event[x] \in EventRow /\ event[x] # NULL
    BY Zenon, <1>5 DEF PurgeEventPayload, Stored, AdmissionType, TypeOK
  <2>2. /\ event'[x] = [event[x] EXCEPT !.purged = TRUE]
        /\ \A y \in Request \ {x} : event'[y] = event[y]
    BY Zenon, <1>5, <2>1 DEF PurgeEventPayload
  <2>3. event'[x].purged
    BY Zenon, <2>1, <2>2 DEF EventRow
  <2>4. Envelopes' \subseteq Envelopes
    BY Zenon, <2>2, <2>3 DEF Envelopes, Stored
  <2>5. Backlog' = Backlog
    BY Zenon, <1>5 DEF PurgeEventPayload, Backlog, Id
  <2> QED
    BY Zenon, <2>4, <2>5, LimitsShrink
<1>6. CASE \/ Tick \/ UNCHANGED vars
           \/ \E r \in Request :
                 \/ LockReplays(r) \/ CheckReplays(r) \/ Disconnect(r)
                 \/ \E call : Begin(r, call)
  BY Zenon, <1>1, <1>6 DEF Tick, vars, LockReplays, CheckReplays, Disconnect, Begin
<1>7. ASSUME NEW r \in Request,
             \/ \E k \in Key, c \in Content : IngestEvent(r, k, c)
             \/ \E i \in Id : ReplayDelivery(r, i)
             \/ \E k \in Key, s \in Listing(Id, 2) : ReplayDeliveries(r, k, s)
      PROVE  LimitsRespected'
  <2>1. \E call : Begin(r, call)
    BY Zenon, <1>7 DEF IngestEvent, ReplayDelivery, ReplayDeliveries
  <2> QED
    BY Zenon, <1>6, <2>1
<1> QED
  BY Zenon, <1>2, <1>3, <1>4, <1>5, <1>6, <1>7 DEF Next

\* "The configured maxima are inclusive": the backlog of the deployment and
\* the envelopes a tenant retains stay within them, for any requests that
\* race, because check and insert happen under the global row.
THEOREM AdmissionLimitsCorrect == Spec => []LimitsRespected
<1> DEFINE Inv == AdmissionType /\ LimitsRespected
<1>1. Init => Inv
  <2> SUFFICES ASSUME Init PROVE LimitsRespected
    BY Zenon, InitType
  <2>1. Backlog = {} /\ Envelopes = {} /\ Cardinality({}) = 0
    BY FS_EmptySet DEF Init, Backlog, Id, Envelopes, Stored
  <2> QED
    BY <2>1, LimitAssumption DEF LimitAssumption, LimitsRespected, Retained, Envelopes
<1>2. Inv /\ [Next]_vars => Inv'
  BY Zenon, NextType, NextLimits
<1>3. Inv => LimitsRespected
  BY Zenon
<1> QED
  BY <1>1, <1>2, <1>3, PTL DEF Spec
=============================================================================
