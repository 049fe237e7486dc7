------------------------ MODULE OrganizationDeletion ------------------------
(* The deletion of one organization: owners request and cancel it, the worker
   processes carry it out in bounded transactions, and meanwhile events are
   ingested and deliveries are claimed, sent and finalized.

   A transaction is split where another one can come between its statements.
   A row lock is not a variable: a row is locked while a transaction that
   locked it is open.  now() is the start of the transaction. *)
EXTENDS Integers, FiniteSets, Sequences

CONSTANTS
    Owner,            \* requests of users that may delete the organization
    Maintainer,       \* worker processes, each with a lifecycle loop
    Event,
    Delivery,         \* primary keys of deliveries
    EventOf,          \* the event of a delivery
    NULL,
    organization_deletion_grace_hours,
    lifecycle_cleanup_batch_size,
    worker_lease_seconds,
    MaxClaims,        \* bound: claims of a delivery
    MaxCalls,         \* bound: requests the owners make
    MaxAborts,        \* bound: maintenance transactions that roll back
    MaxTxAge,         \* bound: age of a transaction
    MaxTime           \* bound: clock

ASSUME DeletionAssumption ==
    /\ Delivery \subseteq Nat /\ IsFiniteSet(Delivery)
    /\ EventOf \in [Delivery -> Event]
    /\ organization_deletion_grace_hours \in Nat
    /\ lifecycle_cleanup_batch_size \in Nat \ {0}
    /\ worker_lease_seconds \in Nat \ {0}
    /\ MaxClaims \in Nat /\ MaxCalls \in Nat /\ MaxAborts \in Nat /\ MaxTxAge \in Nat
    /\ MaxTime \in Nat
    /\ NULL \notin Nat /\ Owner \intersect Maintainer = {}

VARIABLES
    clock,
    organization,  \* its row: lifecycle_state, deletion_requested_at
    operation,     \* its deletion operations, oldest first
    owner,         \* the request each owner has in progress
    maintainer,    \* the maintenance transaction of each worker process
    event,         \* how far the ingestion of each event has come
    delivery,      \* delivery rows
    claiming,      \* start of the open claim transaction that locks a row
    calls, aborts  \* requests made, maintenance transactions rolled back
vars == <<clock, organization, operation, owner, maintainer, event, delivery,
          claiming, calls, aborts>>

Time == Nat \union {NULL}
LifecycleState == {"active", "deletion_pending", "deleted"}
Organization == [lifecycle_state : LifecycleState, requested_at : Time]
Operation == [status : {"pending", "running", "completed", "canceled"},
              scheduled_at : Nat]
Request == [at : {"idle", "authorized", "locked"}, call : {"request", "cancel"},
            loaded : Organization \union {NULL}, now : Nat]
Maintenance == [at : {"idle", "claimed", "locked", "checked", "quiet", "emptied",
                      "orphanless", "counted"},
                now : Nat]
Row == [status : {"none", "queued", "processing", "finished", "canceled", "deleted"},
        lease_expires_at : Time, claims : Nat]

TypeOK ==
    /\ clock \in Nat /\ calls \in Nat /\ aborts \in Nat
    /\ organization \in Organization
    /\ operation \in Seq(Operation)
    /\ owner \in [Owner -> Request]
    /\ maintainer \in [Maintainer -> Maintenance]
    /\ event \in [Event -> {"none", "authenticated", "stored", "refused", "deleted"}]
    /\ delivery \in [Delivery -> Row]
    /\ claiming \in [Delivery -> Time]

\* An owner and a worker process between transactions.
OwnerIdle == [at |-> "idle", call |-> "request", loaded |-> NULL, now |-> 0]
MaintainerIdle == [at |-> "idle", now |-> 0]

Init ==
    /\ clock = 0 /\ calls = 0 /\ aborts = 0
    /\ organization = [lifecycle_state |-> "active", requested_at |-> NULL]
    /\ operation = <<>>
    /\ owner = [c \in Owner |-> OwnerIdle]
    /\ maintainer = [w \in Maintainer |-> MaintainerIdle]
    /\ event = [e \in Event |-> "none"]
    /\ delivery = [d \in Delivery |->
                     [status |-> "none", lease_expires_at |-> NULL, claims |-> 0]]
    /\ claiming = [d \in Delivery |-> NULL]
-----------------------------------------------------------------------------
Exists == organization.lifecycle_state # "deleted"
Active == {i \in DOMAIN operation : operation[i].status \in {"pending", "running"}}

OwnersWithLock == {c \in Owner : owner[c].at = "locked"}
Claimants == {w \in Maintainer : maintainer[w].at # "idle"}
OperationLocked == Claimants # {}
OrganizationLocked ==
    OwnersWithLock # {} \/ \E w \in Claimants : maintainer[w].at # "claimed"

Rows == {d \in Delivery : delivery[d].status \notin {"none", "deleted"}}
Unlocked == {d \in Rows : claiming[d] = NULL}
Stored == {e \in Event : event[e] = "stored"}

\* ORDER BY id LIMIT lifecycle_cleanup_batch_size.
Batch(S) ==
    {d \in S : Cardinality({x \in S : x < d}) < lifecycle_cleanup_batch_size}
-----------------------------------------------------------------------------
\* authorize_organization loads the row that the session then keeps.
Authorize(c, call) ==
    /\ owner[c].at = "idle" /\ calls < MaxCalls
    /\ Exists
    /\ clock + organization_deletion_grace_hours <= MaxTime
    /\ owner' = [owner EXCEPT ![c] =
          [at |-> "authorized", call |-> call, loaded |-> organization,
           now |-> clock]]
    /\ calls' = calls + 1
    /\ UNCHANGED <<clock, organization, operation, maintainer, event, delivery,
                   claiming, aborts>>

\* SELECT ... FOR UPDATE of the organization; a deleted one is not found.
LockOrganization(c) ==
    /\ owner[c].at = "authorized" /\ ~OrganizationLocked
    /\ owner' = [owner EXCEPT ![c] =
          IF Exists THEN [@ EXCEPT !.at = "locked"] ELSE OwnerIdle]
    /\ UNCHANGED <<clock, organization, operation, maintainer, event, delivery,
                   claiming, calls, aborts>>

\* The row after the session flushes its assignments.  The locking query does
\* not refresh a row the session has loaded, and the flush writes a column
\* only if the assigned value differs from the loaded one.  Two readings of
\* now() always differ, also when the model's clock does not tell them apart.
Flush(loaded, state, requested_at) ==
    [lifecycle_state |-> IF state = loaded.lifecycle_state
                         THEN organization.lifecycle_state ELSE state,
     requested_at |-> IF requested_at = NULL /\ loaded.requested_at = NULL
                      THEN organization.requested_at ELSE requested_at]

\* scheduled_at of a new operation.  Variant: no grace period.
NoGrace(now) == now
ScheduledAt(now) == now + organization_deletion_grace_hours

\* request_organization_deletion, from the lock to the commit.
RequestDeletion(c) ==
    /\ owner[c].at = "locked" /\ owner[c].call = "request"
    /\ ~OperationLocked
    /\ \/ Active # {} /\ UNCHANGED <<organization, operation>>
       \/ /\ Active = {}
          /\ operation' = Append(operation,
                [status |-> "pending", scheduled_at |-> ScheduledAt(owner[c].now)])
          /\ organization' = Flush(owner[c].loaded, "deletion_pending", owner[c].now)
    /\ owner' = [owner EXCEPT ![c] = OwnerIdle]
    /\ UNCHANGED <<clock, maintainer, event, delivery, claiming, calls, aborts>>

\* The operations cancel_organization_deletion accepts.  Variant: running ones
\* as well.
CancelableActive == Active
Cancelable == {i \in Active : operation[i].status # "running"}

\* cancel_organization_deletion, from the lock to the commit.
CancelDeletion(c) ==
    /\ owner[c].at = "locked" /\ owner[c].call = "cancel"
    /\ ~OperationLocked
    /\ \/ Cancelable = {} /\ UNCHANGED <<organization, operation>>
       \/ \E i \in Cancelable :
             /\ operation' = [operation EXCEPT ![i].status = "canceled"]
             /\ organization' = Flush(owner[c].loaded, "active", NULL)
    /\ owner' = [owner EXCEPT ![c] = OwnerIdle]
    /\ UNCHANGED <<clock, maintainer, event, delivery, claiming, calls, aborts>>
-----------------------------------------------------------------------------
\* The operations a worker takes up.  Variant: only those not yet begun.
PendingDue ==
    {i \in DOMAIN operation : /\ operation[i].status = "pending"
                              /\ operation[i].scheduled_at <= clock}
Due == {i \in Active : operation[i].scheduled_at <= clock}

\* _claim_operation: FOR UPDATE SKIP LOCKED of a due operation.
ClaimOperation(w) ==
    /\ maintainer[w].at = "idle" /\ ~OperationLocked
    /\ organization.lifecycle_state = "deletion_pending"
    /\ Due # {}
    /\ maintainer' = [maintainer EXCEPT ![w] = [at |-> "claimed", now |-> clock]]
    /\ UNCHANGED <<clock, organization, operation, owner, event, delivery,
                   claiming, calls, aborts>>

\* The transaction of w goes on, ends without a change, or commits the
\* operation's new status.
GoOn(w, at) ==
    maintainer' = [maintainer EXCEPT ![w].at = at] /\ UNCHANGED operation
Leave(w) ==
    maintainer' = [maintainer EXCEPT ![w] = MaintainerIdle] /\ UNCHANGED operation
Commit(w, status) ==
    /\ maintainer' = [maintainer EXCEPT ![w] = MaintainerIdle]
    /\ operation' = [i \in DOMAIN operation |->
          IF i \in Active THEN [operation[i] EXCEPT !.status = status]
          ELSE operation[i]]

\* The organization is locked unless an owner's request has it (SKIP LOCKED);
\* an operation whose organization is no longer pending is canceled.
ClaimOrganization(w) ==
    /\ maintainer[w].at = "claimed"
    /\ IF OrganizationLocked \/ ~Exists THEN Leave(w)
       ELSE IF organization.lifecycle_state # "deletion_pending"
       THEN Commit(w, "canceled")
       ELSE GoOn(w, "locked")
    /\ UNCHANGED <<clock, organization, owner, event, delivery, claiming, calls, aborts>>

\* Work no worker holds a live lease of.
Inactive(now) ==
    {d \in Unlocked :
        \/ delivery[d].status = "queued"
        \/ delivery[d].status = "processing" /\ delivery[d].lease_expires_at <= now}

\* _cancel_inactive_deliveries.
CancelInactive(w) ==
    LET batch == Batch(Inactive(maintainer[w].now))
    IN  /\ maintainer[w].at = "locked"
        /\ delivery' = [d \in Delivery |->
              IF d \in batch
              THEN [delivery[d] EXCEPT !.status = "canceled", !.lease_expires_at = NULL]
              ELSE delivery[d]]
        /\ IF batch # {} THEN Commit(w, "running") ELSE GoOn(w, "checked")
        /\ UNCHANGED <<clock, organization, owner, event, claiming, calls, aborts>>

\* _has_live_delivery.
HasLiveDelivery(w) ==
    LET live == {d \in Rows : /\ delivery[d].status = "processing"
                              /\ delivery[d].lease_expires_at > maintainer[w].now}
    IN  /\ maintainer[w].at = "checked"
        /\ IF live # {} THEN Commit(w, "running") ELSE GoOn(w, "quiet")
        /\ UNCHANGED <<clock, organization, owner, event, delivery, claiming, calls, aborts>>

Removed(S) ==
    [d \in Delivery |->
        IF d \in S
        THEN [delivery[d] EXCEPT !.status = "deleted", !.lease_expires_at = NULL]
        ELSE delivery[d]]

\* _delete_delivery_batch.
DeleteDeliveryBatch(w) ==
    LET batch == Batch(Unlocked)
    IN  /\ maintainer[w].at = "quiet"
        /\ delivery' = Removed(batch)
        /\ IF batch # {} THEN Commit(w, "running") ELSE GoOn(w, "emptied")
        /\ UNCHANGED <<clock, organization, owner, event, claiming, calls, aborts>>

Orphans == {e \in Stored : \A d \in Rows : EventOf[d] # e}

\* _delete_orphan_event_batch; which orphans come first does not matter.
DeleteOrphanEventBatch(w) ==
    /\ maintainer[w].at = "emptied"
    /\ \/ Orphans = {} /\ GoOn(w, "orphanless") /\ UNCHANGED event
       \/ /\ Commit(w, "running")
          /\ \E S \in SUBSET Orphans \ {{}} :
                /\ \/ Cardinality(S) = lifecycle_cleanup_batch_size
                   \/ S = Orphans /\ Cardinality(S) <= lifecycle_cleanup_batch_size
                /\ event' = [e \in Event |-> IF e \in S THEN "deleted" ELSE event[e]]
    /\ UNCHANGED <<clock, organization, owner, delivery, claiming, calls, aborts>>

\* The counts at the start of _delete_empty_organization.
CountRows(w) ==
    /\ maintainer[w].at = "orphanless"
    /\ IF Rows # {} \/ Stored # {} THEN Commit(w, "running") ELSE GoOn(w, "counted")
    /\ UNCHANGED <<clock, organization, owner, event, delivery, claiming, calls, aborts>>

\* The events the deletion of the organization takes along: those of its
\* projects (ON DELETE CASCADE).  Variant: none, the counts having said so.
NoCascade == {}
Cascade == Stored

\* The rest of _delete_empty_organization.
DeleteOrganization(w) ==
    /\ maintainer[w].at = "counted"
    /\ Commit(w, "completed")
    /\ organization' = [organization EXCEPT !.lifecycle_state = "deleted"]
    /\ event' = [e \in Event |-> IF e \in Cascade THEN "deleted" ELSE event[e]]
    /\ delivery' = Removed(Rows)
    /\ UNCHANGED <<clock, owner, claiming, calls, aborts>>

\* The process dies or the transaction fails; run_lifecycle_loop goes on.
Abort(w) ==
    /\ maintainer[w].at # "idle" /\ aborts < MaxAborts
    /\ Leave(w)
    /\ aborts' = aborts + 1
    /\ UNCHANGED <<clock, organization, owner, event, delivery, claiming, calls>>
-----------------------------------------------------------------------------
\* get_api_key_project admits an event of an active organization.
Authenticate(e) ==
    /\ event[e] = "none" /\ organization.lifecycle_state = "active"
    /\ event' = [event EXCEPT ![e] = "authenticated"]
    /\ UNCHANGED <<clock, organization, operation, owner, maintainer, delivery,
                   claiming, calls, aborts>>

\* ingest_event stores the event and its deliveries.  The foreign key of a
\* delivery waits for the lock of the organization and fails without its row.
Store(e) ==
    LET fanout == {d \in Delivery : EventOf[d] = e}
    IN  /\ event[e] = "authenticated"
        /\ fanout # {} => ~OrganizationLocked
        /\ event' = [event EXCEPT ![e] = IF Exists THEN "stored" ELSE "refused"]
        /\ delivery' = [d \in Delivery |->
              IF Exists /\ d \in fanout THEN [delivery[d] EXCEPT !.status = "queued"]
              ELSE delivery[d]]
        /\ UNCHANGED <<clock, organization, operation, owner, maintainer,
                       claiming, calls, aborts>>

\* claim_due locks a delivery that is due or whose lease has expired.
LockDelivery(d) ==
    /\ d \in Inactive(clock)
    /\ delivery[d].claims < MaxClaims
    /\ clock + worker_lease_seconds <= MaxTime
    /\ claiming' = [claiming EXCEPT ![d] = clock]
    /\ UNCHANGED <<clock, organization, operation, owner, maintainer, event,
                   delivery, calls, aborts>>

\* claim_due commits the lease.
CommitClaim(d) ==
    /\ claiming[d] # NULL
    /\ delivery' = [delivery EXCEPT ![d] =
          [status |-> "processing", claims |-> @.claims + 1,
           lease_expires_at |-> claiming[d] + worker_lease_seconds]]
    /\ claiming' = [claiming EXCEPT ![d] = NULL]
    /\ UNCHANGED <<clock, organization, operation, owner, maintainer, event, calls, aborts>>

Leased(d) ==
    /\ delivery[d].status = "processing" /\ claiming[d] = NULL
    /\ delivery[d].lease_expires_at > clock

\* renew_lease.
RenewLease(d) ==
    /\ Leased(d) /\ clock + worker_lease_seconds <= MaxTime
    /\ delivery' = [delivery EXCEPT ![d].lease_expires_at = clock + worker_lease_seconds]
    /\ UNCHANGED <<clock, organization, operation, owner, maintainer, event,
                   claiming, calls, aborts>>

\* _finalize: a terminal outcome, or another attempt.
Finalize(d) ==
    /\ Leased(d)
    /\ \E status \in {"finished", "queued"} :
          delivery' = [delivery EXCEPT ![d].status = status, ![d].lease_expires_at = NULL]
    /\ UNCHANGED <<clock, organization, operation, owner, maintainer, event,
                   claiming, calls, aborts>>
-----------------------------------------------------------------------------
Tick ==
    /\ clock < MaxTime
    /\ \A c \in Owner : owner[c].at # "idle" => clock - owner[c].now < MaxTxAge
    /\ \A w \in Claimants : clock - maintainer[w].now < MaxTxAge
    /\ \A d \in Delivery : claiming[d] # NULL => clock - claiming[d] < MaxTxAge
    /\ clock' = clock + 1
    /\ UNCHANGED <<organization, operation, owner, maintainer, event, delivery,
                   claiming, calls, aborts>>

Handle(c) == LockOrganization(c) \/ RequestDeletion(c) \/ CancelDeletion(c)

Maintain(w) ==
    \/ ClaimOperation(w) \/ ClaimOrganization(w)
    \/ CancelInactive(w) \/ HasLiveDelivery(w)
    \/ DeleteDeliveryBatch(w) \/ DeleteOrphanEventBatch(w)
    \/ CountRows(w) \/ DeleteOrganization(w)

Next ==
    \/ \E c \in Owner : Handle(c) \/ \E call \in {"request", "cancel"} : Authorize(c, call)
    \/ \E w \in Maintainer : Maintain(w) \/ Abort(w)
    \/ \E e \in Event : Authenticate(e) \/ Store(e)
    \/ \E d \in Delivery : \/ LockDelivery(d) \/ CommitClaim(d)
                           \/ RenewLease(d) \/ Finalize(d)
    \/ Tick

Spec == Init /\ [][Next]_vars

\* Open transactions end, some worker process keeps running its lifecycle
\* loop, and a lease nobody renews expires.  An owner's request waits in the
\* queue of a row lock and gets the lock when it is released, so it is not
\* overtaken for ever by maintenance transactions that take and release it:
\* strong fairness.
Fairness ==
    /\ SF_vars(Tick)
    /\ WF_vars(\E w \in Maintainer : Maintain(w))
    /\ \A c \in Owner : SF_vars(Handle(c))
    /\ \A d \in Delivery : WF_vars(CommitClaim(d))

FairSpec == Spec /\ Fairness
-----------------------------------------------------------------------------
Canceled == {i \in DOMAIN operation : operation[i].status = "canceled"}

Destroyed ==
    \/ \E d \in Delivery : delivery[d].status \in {"canceled", "deleted"}
    \/ \E e \in Event : event[e] = "deleted"

\* cancel_organization_deletion races with the first destructive batch: an
\* organization that lost a delivery or an event to its deletion is never
\* active again, so no cancellation hands back a half-emptied organization.
NeverResurrected == Destroyed => organization.lifecycle_state # "active"

\* Once the organization is gone none of its events and deliveries is left,
\* whatever ingestion was in progress while it was counted and deleted.
DeletedLeavesNothing == ~Exists => Rows = {} /\ Stored = {}

\* Through requests, cancellations and new requests, nothing is destroyed
\* before the grace period that follows the request recorded on the
\* organization.
GraceKept ==
    [][~Destroyed /\ Destroyed' =>
          clock >= organization.requested_at + organization_deletion_grace_hours]_vars

\* A deletion that is pending, is eventually canceled or carried out, however
\* maintenance transactions fail and workers hold leases.
DeletionFinishes ==
    \A i \in 1..MaxCalls :
        (i \in Active /\ organization.lifecycle_state = "deletion_pending")
            ~> (~Exists \/ i \in Canceled)

\* What the row locks keep apart (for the proofs).
LockDiscipline ==
    /\ \A w, v \in Claimants : w = v
    /\ \A c, b \in OwnersWithLock : c = b
    /\ OwnersWithLock # {} =>
          Exists /\ \A w \in Claimants : maintainer[w].at = "claimed"
    /\ \A d \in Delivery : claiming[d] # NULL => d \in Rows

\* What a deletion in force has recorded (for the proofs).
OperationShape ==
    /\ \A i, j \in Active : i = j
    /\ \A i \in Active :
          /\ organization.requested_at # NULL
          /\ operation[i].scheduled_at =
                 organization.requested_at + organization_deletion_grace_hours
    /\ ~Exists => Active = {}
    /\ Destroyed /\ Exists =>
          /\ organization.lifecycle_state = "deletion_pending"
          /\ Active # {} /\ \A i \in Active : operation[i].status = "running"

\* What an open maintenance transaction relies on (for the proofs).
MaintainerShape ==
    \A w \in Claimants :
        /\ maintainer[w].now <= clock
        /\ organization.lifecycle_state = "deletion_pending"
        /\ Active # {}
        /\ \A i \in Active : operation[i].scheduled_at <= maintainer[w].now
        /\ maintainer[w].at = "counted" => Rows = {}

\* An organization is deletion_pending exactly while a deletion of it is
\* pending or running.
StateMatchesOperation ==
    Exists => (organization.lifecycle_state = "deletion_pending" <=> Active # {})

\* The deletion waits for live leases: it never deletes a delivery that a
\* worker is processing under a lease that has not expired.  The code does not
\* keep this: a claim can commit between the search for live leases and the
\* selection of the batch.
LiveLeaseKept ==
    [][\A d \in Delivery :
          delivery'[d].status = "deleted" =>
              ~(delivery[d].status = "processing" /\ delivery[d].lease_expires_at > clock)]_vars
=============================================================================
