------------------------------- MODULE Outbox -------------------------------
(***************************************************************************)
(* The transactional outbox of the Python SDK                              *)
(* (sdk/python/src/webhook_platform_sdk/outbox.py): relays claim batches   *)
(* of due rows under a lease, send the messages one after the other        *)
(* outside any transaction, and record each outcome guarded by the lease   *)
(* token.  A relay may crash or stall at any point, a request may be       *)
(* accepted after its sender has given up on it, and relays read their own *)
(* clocks.                                                                 *)
(***************************************************************************)
EXTENDS Integers, FiniteSets

CONSTANTS
    Message,        \* rows of webhook_outbox, numbered; a row has its own key
    Relay,          \* processes that call run_once
    NULL,
    Skew,           \* how far each relay's utcnow() is ahead
    BatchSize, LeaseSeconds, MaxAttempts,
    RetryCap,       \* largest retry delay (retry_cap_seconds)
    Faults,         \* what may go wrong: "crash", "stall"
    MaxCrashes,     \* bound on crashes
    MaxClaims,      \* bound on claims, and so on tokens
    MaxClock        \* bound on the clock

ASSUME MessageAssumption == Message \subseteq Nat
ASSUME OutboxAssumption ==
    /\ Skew \in [Relay -> Nat]
    /\ BatchSize \in Nat \ {0} /\ LeaseSeconds \in Nat \ {0}
    /\ MaxAttempts \in Nat \ {0} /\ RetryCap \in Nat
    /\ MaxCrashes \in Nat /\ MaxClaims \in Nat /\ MaxClock \in Nat

Outcome == {"ok", "retry", "terminal"}

Claimed == [id : Message, lease_token : Nat, attempt_number : Nat]

ASSUME NullAssumption ==
    NULL \notin Nat /\ NULL \notin Outcome /\ NULL \notin Claimed

VARIABLES
    clock,
    row,        \* webhook_outbox
    relay,      \* what each run_once call has left to do
    inflight,   \* requests the platform may still accept
    accepted,   \* messages whose event the platform has stored
    issued,     \* lease tokens handed out
    crashes

vars == <<clock, row, relay, inflight, accepted, issued, crashes>>

Row == [status : {"absent", "queued", "sent", "failed"}, created : Nat,
        lease_token : Nat \union {NULL}, locked_until : Nat \union {NULL},
        attempt_count : Nat, next_attempt_at : Nat \union {NULL}]

Run == [todo : SUBSET Claimed, current : Claimed \union {NULL},
        outcome : Outcome \union {NULL}]

Idle == [todo |-> {}, current |-> NULL, outcome |-> NULL]

Init ==
    /\ clock = 0
    /\ row = [m \in Message |->
                [status |-> "absent", created |-> 0, lease_token |-> NULL,
                 locked_until |-> NULL, attempt_count |-> 0,
                 next_attempt_at |-> NULL]]
    /\ relay = [r \in Relay |-> Idle]
    /\ inflight = {} /\ accepted = {} /\ issued = 0 /\ crashes = 0
-----------------------------------------------------------------------------
utcnow(r) == clock + Skew[r]

\* Order of the claim query and of the loop over its result.
Older(m, n) ==
    \/ row[m].created < row[n].created
    \/ row[m].created = row[n].created /\ m < n

\* Rows whose attempt is due and that no live lease holds.  Variant: an
\* expired lease is not taken over.
DueUnleased(now) ==
    {m \in Message : /\ row[m].status = "queued" /\ row[m].lease_token = NULL
                     /\ row[m].next_attempt_at <= now}
Due(now) ==
    {m \in Message :
        /\ row[m].status = "queued"
        /\ row[m].next_attempt_at <= now
        /\ row[m].locked_until = NULL \/ row[m].locked_until <= now}

\* enqueue_outbox, when the caller's transaction commits.
Enqueue(m) ==
    /\ row[m].status = "absent"
    /\ row' = [row EXCEPT ![m].status = "queued", ![m].created = clock,
                          ![m].next_attempt_at = clock]
    /\ UNCHANGED <<clock, relay, inflight, accepted, issued, crashes>>

\* The rows a claim takes: the first BatchSize that are due.
DueBatch(now) ==
    {m \in Due(now) : Cardinality({n \in Due(now) : Older(n, m)}) < BatchSize}

\* The fresh token of a claim.  It is only ever compared with the token of the
\* same row, so one number serves the rows of a batch.
NewToken == issued + 1

\* _claim.
Claim(r) ==
    LET batch == DueBatch(utcnow(r))
        token == NewToken
    IN  /\ relay[r] = Idle
        /\ batch # {} /\ issued < MaxClaims
        /\ row' = [m \in Message |->
              IF m \in batch
              THEN [row[m] EXCEPT !.lease_token = token,
                                  !.locked_until = utcnow(r) + LeaseSeconds,
                                  !.attempt_count = row[m].attempt_count + 1]
              ELSE row[m]]
        /\ relay' = [relay EXCEPT ![r].todo =
              {[id |-> m, lease_token |-> token,
                attempt_number |-> row[m].attempt_count + 1] : m \in batch}]
        /\ issued' = issued + 1
        /\ UNCHANGED <<clock, inflight, accepted, crashes>>

\* send_event of the next claimed message.
Send(r) ==
    /\ relay[r].current = NULL
    /\ \E c \in relay[r].todo :
          /\ \A d \in relay[r].todo : d # c => Older(c.id, d.id)
          /\ relay' = [relay EXCEPT ![r].todo = @ \ {c}, ![r].current = c]
          /\ inflight' = inflight \union {c.id}
    /\ UNCHANGED <<clock, row, accepted, issued, crashes>>

\* The platform stores the event (module Admission: at most one per key).
Accept(m) ==
    /\ m \in inflight
    /\ accepted' = accepted \union {m}
    /\ inflight' = inflight \ {m}
    /\ UNCHANGED <<clock, row, relay, issued, crashes>>

\* The response, or what the client makes of its absence.
Respond(r, outcome) ==
    /\ relay[r].current # NULL /\ relay[r].outcome = NULL
    /\ outcome = "ok" => relay[r].current.id \in accepted
    /\ relay' = [relay EXCEPT ![r].outcome = outcome]
    /\ UNCHANGED <<clock, row, inflight, accepted, issued, crashes>>

-----------------------------------------------------------------------------
\* The guard of _finish, and a variant that forgets the token.
UnguardedFinish(c) == row[c.id].status # "sent"
HoldsToken(c) == row[c.id].lease_token = c.lease_token /\ row[c.id].status # "sent"

\* The row without its lease.
Released(m) == [row[m] EXCEPT !.lease_token = NULL, !.locked_until = NULL]

IsTerminal(c, outcome) == outcome = "terminal" \/ c.attempt_number >= MaxAttempts

\* _record_failure and _finish: the outcome of the current message is
\* recorded if the lease is still held, and the loop goes on.
Finish(r) ==
    LET c == relay[r].current
        outcome == relay[r].outcome
        status == IF outcome = "ok" THEN "sent"
                  ELSE IF IsTerminal(c, outcome) THEN "failed" ELSE "queued"
    IN  /\ outcome # NULL
        /\ \/ ~HoldsToken(c) /\ UNCHANGED row
           \/ /\ HoldsToken(c)
              /\ status # "queued"
              /\ row' = [row EXCEPT ![c.id] =
                    [Released(c.id) EXCEPT !.status = status, !.next_attempt_at = NULL]]
           \/ /\ HoldsToken(c)
              /\ status = "queued"
              /\ \E delay \in 0..RetryCap :
                    /\ delay > 0 => utcnow(r) + delay <= MaxClock
                    /\ row' = [row EXCEPT ![c.id] =
                      [Released(c.id) EXCEPT !.next_attempt_at = utcnow(r) + delay]]
        /\ relay' = [relay EXCEPT ![r].current = NULL, ![r].outcome = NULL]
        /\ UNCHANGED <<clock, inflight, accepted, issued, crashes>>

\* The process dies, or an exception that is not a WebhookPlatformError
\* leaves run_once: the rest of the batch stays leased.
Crash(r) ==
    /\ "crash" \in Faults /\ crashes < MaxCrashes
    /\ clock + LeaseSeconds <= MaxClock
    /\ relay[r] # Idle
    /\ relay' = [relay EXCEPT ![r] = Idle]
    /\ crashes' = crashes + 1
    /\ UNCHANGED <<clock, row, inflight, accepted, issued>>

\* A relay that does not stall finishes its batch within its lease.
NoRelayStalls ==
    \A r \in Relay : \A m \in Message :
        (\E c \in relay[r].todo \union {relay[r].current} :
              c # NULL /\ c.id = m /\ c.lease_token = row[m].lease_token)
        => clock + 1 < row[m].locked_until - Skew[r]

Tick ==
    /\ clock < MaxClock
    /\ "stall" \in Faults \/ NoRelayStalls
    /\ clock' = clock + 1
    /\ UNCHANGED <<row, relay, inflight, accepted, issued, crashes>>

RelayStep(r) == Send(r) \/ Finish(r) \/ \E o \in Outcome : Respond(r, o)

Next ==
    \/ \E m \in Message : Enqueue(m) \/ Accept(m)
    \/ \E r \in Relay : Claim(r) \/ RelayStep(r) \/ Crash(r)
    \/ Tick

Spec == Init /\ [][Next]_vars

\* run_once is called again and again and send_event has a timeout.
Fairness ==
    /\ WF_vars(Tick)
    /\ \A r \in Relay : WF_vars(RelayStep(r)) /\ WF_vars(Claim(r))

FairSpec == Spec /\ Fairness
-----------------------------------------------------------------------------
TypeOK ==
    /\ clock \in Nat /\ issued \in Nat /\ crashes \in Nat
    /\ row \in [Message -> Row]
    /\ relay \in [Relay -> Run]
    /\ inflight \subseteq Message /\ accepted \subseteq Message

Held(r) == (relay[r].todo \union {relay[r].current}) \ {NULL}

\* A row is leased only while it is queued, its two lease columns are set
\* together, and a queued row has a next attempt: the columns _claim
\* filters on never leave a message that no query finds again.
RowShape ==
    \A m \in Message :
        /\ (row[m].lease_token = NULL) = (row[m].locked_until = NULL)
        /\ row[m].lease_token # NULL => row[m].status = "queued"
        /\ row[m].status = "queued" => row[m].next_attempt_at # NULL

\* What relays and requests know of a row is true of it (for the proofs).
RelayShape ==
    /\ \A r \in Relay :
          /\ relay[r].outcome # NULL => relay[r].current # NULL
          /\ relay[r].outcome = "ok" => relay[r].current.id \in accepted
          /\ \A c \in Held(r) : row[c.id].status # "absent"
    /\ \A m \in inflight : row[m].status # "absent"

\* Tokens in use were issued, and no two claims share one (for the proofs).
TokensDistinct ==
    /\ \A m \in Message : row[m].lease_token # NULL => row[m].lease_token <= issued
    /\ \A r \in Relay : \A c \in Held(r) : c.lease_token <= issued
    /\ \A r, s \in Relay : \A c \in Held(r), d \in Held(s) :
          c.id = d.id /\ c.lease_token = d.lease_token => r = s /\ c = d

\* Leases expire under slow relays, so several may hold a claim of one row:
\* the guard of _finish lets at most one of them record its outcome.
OneValidClaim ==
    \A r, s \in Relay : \A c \in Held(r), d \in Held(s) :
        /\ c.id = d.id
        /\ row[c.id].lease_token = c.lease_token
        /\ row[d.id].lease_token = d.lease_token
        => r = s /\ c = d

Contract == INSTANCE OutboxContract
    WITH status <- [m \in Message |-> row[m].status]

\* The relays keep the promise of the outbox: a message is reported sent only
\* once its event is stored, and a late relay never changes what was reported.
KeepsContract == Contract!Spec

\* Every enqueued message is eventually reported sent or failed, also when the
\* relay that claimed it dies before it records the outcome.
EventuallyReported ==
    \A m \in Message :
        row[m].status = "queued" ~> row[m].status \in {"sent", "failed"}
=============================================================================
