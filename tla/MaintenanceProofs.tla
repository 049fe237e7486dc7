------------------------- MODULE MaintenanceProofs --------------------------
(* Proofs about the deletion of an organization, for any number of owners,
   worker processes, events and deliveries, any grace period, batch size and
   lease, and transactions of any age; about the worker process that runs it;
   and about the use of API keys, which is written down in the background. *)
EXTENDS OrganizationDeletion, WorkerProcess, ApiKeyUsage, TLAPS

\* A request past its authorization has loaded the organization.
LoadedShape ==
    \A c \in Owner : owner[c].at # "idle" => owner[c].loaded \in Organization

\* What is inductive.
DeletionInv ==
    /\ TypeOK /\ LockDiscipline /\ OperationShape /\ MaintainerShape
    /\ DeletedLeavesNothing /\ LoadedShape

\* The first state: an active organization without operations and rows.
LEMMA InitDeletion == Init => DeletionInv
<1> SUFFICES ASSUME Init PROVE DeletionInv
    BY Zenon
<1>1. TypeOK
    <2>1. operation \in Seq(Operation)
        BY DEF Init
    <2>2. organization \in Organization /\ OwnerIdle \in Request
          /\ MaintainerIdle \in Maintenance
        BY Zenon DEF Init, Organization, LifecycleState, Time, OwnerIdle, Request,
               MaintainerIdle, Maintenance
    <2>3. delivery \in [Delivery -> Row]
        BY Zenon DEF Init, Row, Time
    <2> QED
        BY Zenon, <2>1, <2>2, <2>3 DEF Init, TypeOK, Time
<1>2. Claimants = {} /\ OwnersWithLock = {} /\ Active = {} /\ Exists
    BY DEF Init, Claimants, OwnersWithLock, Active, Exists, OwnerIdle, MaintainerIdle
<1>3. ~Destroyed
    BY Zenon DEF Init, Destroyed
<1> QED
    BY Zenon, <1>1, <1>2, <1>3 DEF DeletionInv, LockDiscipline, OperationShape,
       MaintainerShape, DeletedLeavesNothing, LoadedShape, OwnerIdle, Init

-----------------------------------------------------------------------------
\* A status written by a maintenance transaction replaces that of the active
\* operations and nothing else.
LEMMA CommitEffect ==
    ASSUME TypeOK, NEW w \in Maintainer,
           NEW status \in {"running", "completed", "canceled"}, Commit(w, status)
    PROVE  /\ operation' \in Seq(Operation) /\ DOMAIN operation' = DOMAIN operation
           /\ \A i \in DOMAIN operation :
                 /\ operation'[i].scheduled_at = operation[i].scheduled_at
                 /\ operation'[i].status =
                       IF i \in Active THEN status ELSE operation[i].status
           /\ maintainer' \in [Maintainer -> Maintenance]
           /\ Claimants' = Claimants \ {w}
           /\ \A v \in Maintainer : v # w => maintainer'[v] = maintainer[v]
<1> USE DEF Commit
<1>1. operation \in Seq(Operation)
    BY Zenon DEF TypeOK
<1>2. \A i \in DOMAIN operation : operation[i] \in Operation
    BY <1>1
<1>3. DOMAIN operation' = DOMAIN operation /\ DOMAIN operation = 1..Len(operation)
      /\ Len(operation) \in Nat
    BY <1>1
<1>4. \A i \in DOMAIN operation :
         /\ operation'[i] \in Operation
         /\ operation'[i].scheduled_at = operation[i].scheduled_at
         /\ operation'[i].status = IF i \in Active THEN status ELSE operation[i].status
    BY Zenon, <1>2 DEF Operation
<1>5. operation' \in Seq(Operation)
    <2>1. operation' = [i \in 1..Len(operation) |-> operation'[i]]
        BY Zenon, <1>3
    <2> QED
        BY <2>1, <1>3, <1>4
<1>6. MaintainerIdle \in Maintenance /\ MaintainerIdle.at = "idle"
    BY Zenon DEF MaintainerIdle, Maintenance
<1>7. /\ maintainer' \in [Maintainer -> Maintenance]
      /\ \A v \in Maintainer : v # w => maintainer'[v] = maintainer[v]
      /\ maintainer'[w] = MaintainerIdle
    BY Zenon, <1>6 DEF TypeOK
<1>8. Claimants' = Claimants \ {w}
    BY Zenon, <1>6, <1>7 DEF Claimants
<1> QED
    BY Zenon, <1>3, <1>4, <1>5, <1>7, <1>8

\* A maintenance transaction that goes on or leaves changes only its own record.
LEMMA GoOnEffect ==
    ASSUME TypeOK, NEW w \in Claimants,
           NEW at \in {"locked", "checked", "quiet", "emptied", "orphanless", "counted"},
           GoOn(w, at)
    PROVE  /\ maintainer' \in [Maintainer -> Maintenance]
           /\ Claimants' = Claimants /\ operation' = operation
           /\ maintainer'[w].at = at /\ maintainer'[w].now = maintainer[w].now
           /\ \A v \in Maintainer : v # w => maintainer'[v] = maintainer[v]
<1>1. w \in Maintainer
    BY Zenon DEF Claimants
<1>2. /\ maintainer'[w].at = at /\ maintainer'[w].now = maintainer[w].now
      /\ maintainer'[w] \in Maintenance
      /\ \A v \in Maintainer : v # w => maintainer'[v] = maintainer[v]
    BY Zenon, <1>1 DEF GoOn, TypeOK, Maintenance
<1>3. maintainer' \in [Maintainer -> Maintenance] /\ operation' = operation
    BY Zenon, <1>1, <1>2 DEF GoOn, TypeOK
<1>4. Claimants' = Claimants
    BY Zenon, <1>1, <1>2 DEF Claimants
<1> QED
    BY Zenon, <1>2, <1>3, <1>4

\* A maintainer that leaves claims nothing any more.
LEMMA LeaveEffect ==
    ASSUME TypeOK, NEW w \in Maintainer, Leave(w)
    PROVE  /\ maintainer' \in [Maintainer -> Maintenance]
           /\ Claimants' = Claimants \ {w} /\ operation' = operation
           /\ \A v \in Maintainer : v # w => maintainer'[v] = maintainer[v]
<1>1. MaintainerIdle \in Maintenance /\ MaintainerIdle.at = "idle"
    BY Zenon DEF MaintainerIdle, Maintenance
<1>2. /\ maintainer' \in [Maintainer -> Maintenance] /\ operation' = operation
      /\ \A v \in Maintainer : v # w => maintainer'[v] = maintainer[v]
      /\ maintainer'[w] = MaintainerIdle
    BY Zenon, <1>1 DEF Leave, TypeOK
<1>3. Claimants' = Claimants \ {w}
    BY Zenon, <1>1, <1>2 DEF Claimants
<1> QED
    BY Zenon, <1>2, <1>3

-----------------------------------------------------------------------------
\* Steps that leave the organization, its operations and the transactions on
\* them alone: what is left to show about events and deliveries.
LEMMA QueueFrame ==
    ASSUME DeletionInv, TypeOK',
           UNCHANGED <<clock, organization, operation, owner, maintainer>>,
           Destroyed' => Destroyed,
           \A d \in Delivery : claiming'[d] # NULL => d \in Rows',
           (\E w \in Claimants : maintainer[w].at = "counted") => Rows' = {},
           ~Exists => Rows' = {} /\ Stored' = {}
    PROVE  DeletionInv'
<1>1. /\ Claimants' = Claimants /\ OwnersWithLock' = OwnersWithLock
      /\ Active' = Active /\ Exists' = Exists
    BY Zenon DEF Claimants, OwnersWithLock, Active, Exists
<1>2. LockDiscipline'
    BY Zenon, <1>1 DEF DeletionInv, LockDiscipline
<1>3. OperationShape'
    BY Zenon, <1>1 DEF DeletionInv, OperationShape
<1>4. MaintainerShape'
    BY Zenon, <1>1 DEF DeletionInv, MaintainerShape
<1>5. DeletedLeavesNothing'
    BY Zenon, <1>1 DEF DeletedLeavesNothing
<1> QED
    BY Zenon, <1>2, <1>3, <1>4, <1>5 DEF DeletionInv, LoadedShape

\* Ingestion authenticates an event.
LEMMA AuthenticateInv ==
    ASSUME DeletionInv, NEW e \in Event, Authenticate(e)
    PROVE  DeletionInv' /\ (Destroyed' => Destroyed)
<1>1. TypeOK'
    BY Zenon DEF DeletionInv, TypeOK, Authenticate
<1>2. Rows' = Rows /\ Exists
    BY Zenon DEF Rows, Exists, Authenticate
<1>3. Destroyed' => Destroyed
    BY Zenon DEF Destroyed, Authenticate, DeletionInv, TypeOK
<1>4. \A d \in Delivery : claiming'[d] # NULL => d \in Rows'
    BY Zenon, <1>2 DEF DeletionInv, LockDiscipline, Authenticate
<1>5. (\E w \in Claimants : maintainer[w].at = "counted") => Rows' = {}
    BY Zenon, <1>2 DEF DeletionInv, MaintainerShape
<1> QED
    BY Zenon, <1>1, <1>2, <1>3, <1>4, <1>5, QueueFrame DEF Authenticate

\* Ingestion stores an event and its deliveries, or finds no organization.
LEMMA StoreInv ==
    ASSUME DeletionInv, NEW e \in Event, Store(e)
    PROVE  DeletionInv' /\ (Destroyed' => Destroyed)
<1> DEFINE fanout == {d \in Delivery : EventOf[d] = e}
<1>1. \A d \in Delivery :
         /\ delivery'[d] \in Row
         /\ delivery'[d] = delivery[d] \/ delivery'[d].status = "queued"
         /\ ~Exists \/ fanout = {} => delivery'[d] = delivery[d]
    BY Zenon DEF DeletionInv, TypeOK, Store, Row
<1>2. TypeOK'
    BY Zenon, <1>1 DEF DeletionInv, TypeOK, Store
<1>3. Rows \subseteq Rows' /\ (~Exists \/ fanout = {} => Rows' = Rows)
    BY Zenon, <1>1 DEF Rows
<1>4. Destroyed' => Destroyed
    <2>1. \A x \in Event : event'[x] = "deleted" => event[x] = "deleted"
        BY Zenon DEF Store, DeletionInv, TypeOK
    <2> QED
        BY Zenon, <2>1, <1>1 DEF Destroyed
<1>5. \A d \in Delivery : claiming'[d] # NULL => d \in Rows'
    BY Zenon, <1>3 DEF DeletionInv, LockDiscipline, Store
<1>6. (\E w \in Claimants : maintainer[w].at = "counted") => Rows' = {}
    <2> SUFFICES ASSUME NEW w \in Claimants, maintainer[w].at = "counted"
                 PROVE  Rows' = {}
        BY Zenon
    <2>1. OrganizationLocked
        BY Zenon DEF OrganizationLocked
    <2>2. fanout = {}
        BY Zenon, <2>1 DEF Store
    <2> QED
        BY Zenon, <1>3, <2>2 DEF DeletionInv, MaintainerShape
<1>7. ~Exists => Rows' = {} /\ Stored' = {}
    <2> SUFFICES ASSUME ~Exists PROVE Rows' = {} /\ Stored' = {}
        BY Zenon
    <2>1. \A x \in Event : event'[x] = "stored" => event[x] = "stored"
        BY Zenon DEF Store, DeletionInv, TypeOK
    <2>2. Stored' \subseteq Stored
        BY Zenon, <2>1 DEF Stored
    <2> QED
        BY Zenon, <1>3, <2>2 DEF DeletionInv, DeletedLeavesNothing
<1> QED
    BY Zenon, <1>2, <1>4, <1>5, <1>6, <1>7, QueueFrame DEF Store

\* A worker claims, renews or finalizes a delivery.
LEMMA WorkerInv ==
    ASSUME DeletionInv, NEW d \in Delivery,
           LockDelivery(d) \/ CommitClaim(d) \/ RenewLease(d) \/ Finalize(d)
    PROVE  DeletionInv' /\ (Destroyed' => Destroyed)
<1> USE DEF DeletionInv
<1>0. TypeOK /\ claiming[d] \in Time /\ clock \in Nat /\ delivery[d] \in Row
    BY Zenon DEF TypeOK
<1>1. d \in Rows
    <2>1. CASE LockDelivery(d)
        BY Zenon, <2>1 DEF LockDelivery, Inactive, Unlocked
    <2>2. CASE CommitClaim(d)
        BY Zenon, <2>2 DEF CommitClaim, LockDiscipline
    <2>3. CASE RenewLease(d) \/ Finalize(d)
        BY Zenon, <2>3 DEF RenewLease, Finalize, Leased, Rows
    <2> QED
        BY Zenon, <2>1, <2>2, <2>3
<1>2. /\ \A x \in Delivery : x # d => delivery'[x] = delivery[x]
      /\ delivery'[d] \in Row
      /\ delivery'[d] = delivery[d] \/ delivery'[d].status \in {"queued", "processing", "finished"}
      /\ delivery' \in [Delivery -> Row]
    <2>1. CASE LockDelivery(d)
        BY Zenon, <2>1, <1>0 DEF LockDelivery, TypeOK
    <2>2. CASE CommitClaim(d)
        <3>1. claiming[d] + worker_lease_seconds \in Nat
            BY <2>2, <1>0, DeletionAssumption DEF CommitClaim, Time, DeletionAssumption
        <3> QED
            BY <2>2, <3>1, <1>0 DEF CommitClaim, TypeOK, Row, Time
    <2>3. CASE RenewLease(d)
        <3>1. clock + worker_lease_seconds \in Nat
            BY <1>0, DeletionAssumption DEF DeletionAssumption
        <3> QED
            BY Zenon, <2>3, <3>1, <1>0 DEF RenewLease, Leased, TypeOK, Row, Time
    <2>4. CASE Finalize(d)
        <3>1. PICK status \in {"finished", "queued"} :
                 delivery' = [delivery EXCEPT ![d].status = status,
                                              ![d].lease_expires_at = NULL]
            BY Zenon, <2>4 DEF Finalize
        <3> QED
            BY Zenon, <3>1, <1>0 DEF TypeOK, Row, Time
    <2> QED
        BY Zenon, <2>1, <2>2, <2>3, <2>4
<1>3. claiming' \in [Delivery -> Time] /\ \A x \in Delivery : x # d => claiming'[x] = claiming[x]
    BY Zenon, <1>0 DEF LockDelivery, CommitClaim, RenewLease, Finalize, TypeOK, Time
<1>4. UNCHANGED <<clock, organization, operation, owner, maintainer, event, calls, aborts>>
    BY Zenon DEF LockDelivery, CommitClaim, RenewLease, Finalize
<1>5. TypeOK'
    BY Zenon, <1>2, <1>3, <1>4 DEF TypeOK
<1>6. Rows' = Rows
    BY Zenon, <1>1, <1>2 DEF Rows
<1>7. Destroyed' => Destroyed
    BY Zenon, <1>2, <1>4 DEF Destroyed
<1>8. \A x \in Delivery : claiming'[x] # NULL => x \in Rows'
    BY Zenon, <1>1, <1>3, <1>6 DEF LockDiscipline
<1>9. (\E w \in Claimants : maintainer[w].at = "counted") => Rows' = {}
    BY Zenon, <1>6 DEF MaintainerShape
<1>10. ~Exists => Rows' = {} /\ Stored' = {}
    BY Zenon, <1>4, <1>6 DEF DeletedLeavesNothing, Stored
<1> QED
    BY Zenon, <1>4, <1>5, <1>7, <1>8, <1>9, <1>10, QueueFrame

-----------------------------------------------------------------------------
\* A maintenance transaction that commits as running: it ends, the operation
\* stays in force, and what it destroyed is covered by that.
LEMMA CommitRunning ==
    ASSUME DeletionInv, NEW w \in Claimants, Commit(w, "running"),
           UNCHANGED <<clock, organization, owner, claiming, calls, aborts>>,
           delivery' \in [Delivery -> Row],
           event' \in [Event -> {"none", "authenticated", "stored", "refused", "deleted"}],
           \A d \in Delivery : claiming[d] # NULL => d \in Rows'
    PROVE  DeletionInv'
<1> USE DEF DeletionInv
<1>0. TypeOK /\ w \in Maintainer
    BY Zenon DEF Claimants
<1>1. /\ operation' \in Seq(Operation) /\ DOMAIN operation' = DOMAIN operation
      /\ \A i \in DOMAIN operation :
            /\ operation'[i].scheduled_at = operation[i].scheduled_at
            /\ operation'[i].status =
                  IF i \in Active THEN "running" ELSE operation[i].status
      /\ maintainer' \in [Maintainer -> Maintenance] /\ Claimants' = Claimants \ {w}
    BY Zenon, <1>0, CommitEffect
<1>2. TypeOK'
    BY Zenon, <1>0, <1>1 DEF TypeOK
<1>3. Claimants' = {} /\ OwnersWithLock' = OwnersWithLock /\ Exists' = Exists
    BY Zenon, <1>1 DEF LockDiscipline, OwnersWithLock, Exists
<1>4. Active' = Active /\ \A i \in Active : operation'[i].status = "running"
    BY Zenon, <1>1 DEF Active
<1>5. LockDiscipline'
    BY Zenon, <1>3 DEF LockDiscipline
<1>6. organization.lifecycle_state = "deletion_pending" /\ Active # {} /\ Exists
    BY Zenon DEF MaintainerShape, Exists
<1>7. OperationShape'
    <2>1. Active \subseteq DOMAIN operation
        BY Zenon DEF Active
    <2> QED
        BY ZenonT(60), <1>1, <1>3, <1>4, <1>6, <2>1 DEF OperationShape
<1>8. MaintainerShape' /\ DeletedLeavesNothing'
    BY Zenon, <1>3, <1>6 DEF MaintainerShape, DeletedLeavesNothing
<1> QED
    BY Zenon, <1>2, <1>5, <1>7, <1>8 DEF LoadedShape

\* A maintenance transaction that goes on keeps its locks.
LEMMA GoOnInv ==
    ASSUME DeletionInv, NEW w \in Claimants,
           NEW at \in {"locked", "checked", "quiet", "emptied", "orphanless", "counted"},
           GoOn(w, at), OwnersWithLock = {},
           at = "counted" => Rows = {},
           UNCHANGED <<clock, organization, owner, event, delivery, claiming, calls, aborts>>
    PROVE  DeletionInv'
<1> USE DEF DeletionInv
<1>1. /\ maintainer' \in [Maintainer -> Maintenance]
      /\ Claimants' = Claimants /\ operation' = operation
      /\ maintainer'[w].at = at /\ maintainer'[w].now = maintainer[w].now
      /\ \A v \in Maintainer : v # w => maintainer'[v] = maintainer[v]
    BY Zenon, GoOnEffect
<1>2. TypeOK'
    BY Zenon, <1>1 DEF TypeOK
<1>3. /\ OwnersWithLock' = OwnersWithLock /\ Exists' = Exists /\ Active' = Active
      /\ Rows' = Rows /\ Stored' = Stored /\ Destroyed' = Destroyed
    BY Zenon, <1>1 DEF OwnersWithLock, Exists, Active, Rows, Stored, Destroyed
<1>4. LockDiscipline'
    BY Zenon, <1>1, <1>3 DEF LockDiscipline
<1>5. OperationShape'
    BY Zenon, <1>1, <1>3 DEF OperationShape
<1>6. \A v \in Claimants : v = w
    BY Zenon DEF LockDiscipline
<1>7. MaintainerShape'
    BY Zenon, <1>1, <1>3, <1>6 DEF MaintainerShape
<1>8. DeletedLeavesNothing'
    BY Zenon, <1>3 DEF DeletedLeavesNothing
<1> QED
    BY Zenon, <1>2, <1>4, <1>5, <1>7, <1>8 DEF LoadedShape

\* A maintenance transaction that ends without a change.
LEMMA LeaveInv ==
    ASSUME DeletionInv, NEW w \in Claimants, Leave(w), aborts' \in Nat,
           UNCHANGED <<clock, organization, owner, event, delivery, claiming, calls>>
    PROVE  DeletionInv'
<1> USE DEF DeletionInv
<1>0. TypeOK /\ w \in Maintainer
    BY Zenon DEF Claimants
<1>1. /\ maintainer' \in [Maintainer -> Maintenance]
      /\ Claimants' = Claimants \ {w} /\ operation' = operation
      /\ \A v \in Maintainer : v # w => maintainer'[v] = maintainer[v]
    BY Zenon, <1>0, LeaveEffect
<1>2. TypeOK'
    BY Zenon, <1>1 DEF TypeOK
<1>3. /\ OwnersWithLock' = OwnersWithLock /\ Exists' = Exists /\ Active' = Active
      /\ Rows' = Rows /\ Stored' = Stored /\ Destroyed' = Destroyed
    BY Zenon, <1>1 DEF OwnersWithLock, Exists, Active, Rows, Stored, Destroyed
<1>4. Claimants' = {}
    BY Zenon, <1>1 DEF LockDiscipline
<1>5. LockDiscipline' /\ OperationShape'
    BY Zenon, <1>1, <1>3, <1>4 DEF LockDiscipline, OperationShape
<1>6. MaintainerShape' /\ DeletedLeavesNothing'
    BY Zenon, <1>3, <1>4 DEF MaintainerShape, DeletedLeavesNothing
<1> QED
    BY Zenon, <1>2, <1>5, <1>6 DEF LoadedShape

\* An owner's request and a maintenance transaction that has locked the
\* organization exclude each other.
LEMMA MaintenanceExcludesOwners ==
    ASSUME LockDiscipline, NEW w \in Claimants, maintainer[w].at # "claimed"
    PROVE  OwnersWithLock = {}
BY Zenon DEF LockDiscipline

-----------------------------------------------------------------------------
\* A worker takes up a due operation.
LEMMA ClaimOperationInv ==
    ASSUME DeletionInv, NEW w \in Maintainer, ClaimOperation(w)
    PROVE  DeletionInv'
<1> USE DEF DeletionInv, ClaimOperation
<1>1. /\ maintainer'[w] = [at |-> "claimed", now |-> clock]
      /\ maintainer'[w] \in Maintenance
      /\ \A v \in Maintainer : v # w => maintainer'[v] = maintainer[v]
      /\ maintainer' \in [Maintainer -> Maintenance]
    BY Zenon DEF TypeOK, Maintenance
<1>2. TypeOK'
    BY Zenon, <1>1 DEF TypeOK
<1>3. Claimants' = {w}
    BY Zenon, <1>1 DEF OperationLocked, Claimants
<1>4. /\ OwnersWithLock' = OwnersWithLock /\ Exists' = Exists /\ Active' = Active
      /\ Rows' = Rows /\ Stored' = Stored /\ Destroyed' = Destroyed
    BY Zenon DEF OwnersWithLock, Exists, Active, Rows, Stored, Destroyed
<1>5. LockDiscipline'
    BY Zenon, <1>1, <1>3, <1>4 DEF LockDiscipline
<1>6. OperationShape' /\ DeletedLeavesNothing'
    BY Zenon, <1>4 DEF OperationShape, DeletedLeavesNothing
<1>7. MaintainerShape'
    <2>1. clock \in Nat
        BY Zenon DEF TypeOK
    <2>2. PICK i \in Active : operation[i].scheduled_at <= clock
        BY Zenon DEF Due
    <2>3. \A j \in Active : operation[j].scheduled_at <= clock
        BY Zenon, <2>2 DEF OperationShape
    <2> QED
        BY <1>1, <1>3, <1>4, <2>1, <2>2, <2>3 DEF MaintainerShape
<1> QED
    BY Zenon, <1>2, <1>5, <1>6, <1>7 DEF LoadedShape

\* The worker locks the organization or gives up; that the organization of a
\* claimed operation is no longer pending cannot happen.
LEMMA ClaimOrganizationInv ==
    ASSUME DeletionInv, NEW w \in Claimants, ClaimOrganization(w)
    PROVE  DeletionInv'
<1> USE DEF DeletionInv, ClaimOrganization
<1>1. organization.lifecycle_state = "deletion_pending"
    BY Zenon DEF MaintainerShape
<1>2. CASE OrganizationLocked \/ ~Exists
    <2>1. aborts' \in Nat
        BY Zenon DEF TypeOK
    <2> QED
        BY Zenon, <1>2, <2>1, LeaveInv
<1>3. CASE ~(OrganizationLocked \/ ~Exists)
    <2>1. GoOn(w, "locked")
        BY Zenon, <1>1, <1>3
    <2>2. OwnersWithLock = {}
        BY Zenon, <1>3 DEF OrganizationLocked
    <2> QED
        BY Zenon, <2>1, <2>2, GoOnInv
<1> QED
    BY Zenon, <1>2, <1>3

\* The worker cancels deliveries nobody holds a live lease of.
LEMMA CancelInactiveInv ==
    ASSUME DeletionInv, NEW w \in Claimants, CancelInactive(w)
    PROVE  DeletionInv'
<1> USE DEF DeletionInv
<1> DEFINE batch == Batch(Inactive(maintainer[w].now))
<1>1. batch \subseteq Unlocked
    BY Zenon DEF Batch, Inactive
<1>2. \A d \in Delivery :
         /\ delivery'[d] \in Row
         /\ d \notin batch => delivery'[d] = delivery[d]
    BY ZenonT(60) DEF CancelInactive, TypeOK, Row, Time
<1>3. delivery' \in [Delivery -> Row]
    BY Zenon, <1>2 DEF CancelInactive
<1>4. CASE batch # {}
    <2>1. Commit(w, "running")
        BY Zenon, <1>4 DEF CancelInactive
    <2>2. \A d \in Delivery : claiming[d] # NULL => d \in Rows'
        BY Zenon, <1>1, <1>2 DEF Unlocked, Rows, LockDiscipline
    <2>3. UNCHANGED <<clock, organization, owner, event, claiming, calls, aborts>>
        BY Zenon DEF CancelInactive
    <2> QED
        BY Zenon, <1>3, <2>1, <2>2, <2>3, CommitRunning DEF TypeOK
<1>5. CASE batch = {}
    <2>1. GoOn(w, "checked")
        BY Zenon, <1>5 DEF CancelInactive
    <2>2. delivery' = delivery
        BY <1>2, <1>3, <1>5 DEF TypeOK
    <2>3. OwnersWithLock = {}
        BY ZenonT(60), MaintenanceExcludesOwners DEF CancelInactive
    <2>4. UNCHANGED <<clock, organization, owner, event, claiming, calls, aborts>>
        BY Zenon DEF CancelInactive
    <2> QED
        BY Zenon, <2>1, <2>2, <2>3, <2>4, GoOnInv
<1> QED
    BY Zenon, <1>4, <1>5

\* The worker looks for live leases, and later counts what is left.
LEMMA CheckInv ==
    ASSUME DeletionInv, NEW w \in Claimants, HasLiveDelivery(w) \/ CountRows(w)
    PROVE  DeletionInv'
<1> USE DEF DeletionInv
<1>1. UNCHANGED <<clock, organization, owner, event, delivery, claiming, calls, aborts>>
    BY Zenon DEF HasLiveDelivery, CountRows
<1>2. OwnersWithLock = {}
    BY Zenon, MaintenanceExcludesOwners DEF HasLiveDelivery, CountRows
<1>3. CASE Commit(w, "running")
    <2>1. Rows' = Rows
        BY Zenon, <1>1 DEF Rows
    <2>2. \A d \in Delivery : claiming[d] # NULL => d \in Rows'
        BY Zenon, <2>1 DEF LockDiscipline
    <2>3. /\ delivery' \in [Delivery -> Row]
          /\ event' \in [Event -> {"none", "authenticated", "stored", "refused", "deleted"}]
        BY Zenon, <1>1 DEF TypeOK
    <2> QED
        BY Zenon, <1>1, <1>3, <2>2, <2>3, CommitRunning
<1>4. CASE GoOn(w, "quiet")
    BY Zenon, <1>1, <1>2, <1>4, GoOnInv
<1>5. CASE GoOn(w, "counted") /\ Rows = {}
    BY Zenon, <1>1, <1>2, <1>5, GoOnInv
<1> QED
    BY Zenon, <1>3, <1>4, <1>5 DEF HasLiveDelivery, CountRows

\* The worker deletes a batch of deliveries; a delivery being claimed is
\* skipped.
LEMMA DeleteDeliveryBatchInv ==
    ASSUME DeletionInv, NEW w \in Claimants, DeleteDeliveryBatch(w)
    PROVE  DeletionInv'
<1> USE DEF DeletionInv
<1> DEFINE batch == Batch(Unlocked)
<1>1. batch \subseteq Unlocked
    BY Zenon DEF Batch
<1>2. \A d \in Delivery :
         /\ delivery'[d] \in Row
         /\ d \notin batch => delivery'[d] = delivery[d]
    BY ZenonT(60) DEF DeleteDeliveryBatch, Removed, TypeOK, Row, Time
<1>3. delivery' \in [Delivery -> Row]
    BY Zenon, <1>2 DEF DeleteDeliveryBatch, Removed
<1>4. UNCHANGED <<clock, organization, owner, event, claiming, calls, aborts>>
    BY Zenon DEF DeleteDeliveryBatch
<1>5. CASE batch # {}
    <2>1. Commit(w, "running")
        BY Zenon, <1>5 DEF DeleteDeliveryBatch
    <2>2. \A d \in Delivery : claiming[d] # NULL => d \in Rows'
        BY Zenon, <1>1, <1>2 DEF Unlocked, Rows, LockDiscipline
    <2> QED
        BY Zenon, <1>3, <1>4, <2>1, <2>2, CommitRunning DEF TypeOK
<1>6. CASE batch = {}
    <2>1. GoOn(w, "emptied")
        BY Zenon, <1>6 DEF DeleteDeliveryBatch
    <2>2. delivery' = delivery
        BY <1>2, <1>3, <1>6 DEF TypeOK
    <2>3. OwnersWithLock = {}
        BY Zenon, MaintenanceExcludesOwners DEF DeleteDeliveryBatch
    <2> QED
        BY Zenon, <1>4, <2>1, <2>2, <2>3, GoOnInv
<1> QED
    BY Zenon, <1>5, <1>6

\* The worker deletes a batch of events that have no delivery.
LEMMA DeleteOrphanEventBatchInv ==
    ASSUME DeletionInv, NEW w \in Claimants, DeleteOrphanEventBatch(w)
    PROVE  DeletionInv'
<1> USE DEF DeletionInv
<1>1. UNCHANGED <<clock, organization, owner, delivery, claiming, calls, aborts>>
    BY Zenon DEF DeleteOrphanEventBatch
<1>2. CASE GoOn(w, "orphanless") /\ UNCHANGED event
    <2>1. OwnersWithLock = {}
        BY Zenon, MaintenanceExcludesOwners DEF DeleteOrphanEventBatch
    <2> QED
        BY Zenon, <1>1, <1>2, <2>1, GoOnInv
<1>3. CASE /\ Commit(w, "running")
           /\ \E S \in SUBSET Orphans :
                 event' = [e \in Event |-> IF e \in S THEN "deleted" ELSE event[e]]
    <2>1. event' \in [Event -> {"none", "authenticated", "stored", "refused", "deleted"}]
        BY Zenon, <1>3 DEF TypeOK
    <2>2. Rows' = Rows
        BY Zenon, <1>1 DEF Rows
    <2>3. \A d \in Delivery : claiming[d] # NULL => d \in Rows'
        BY Zenon, <2>2 DEF LockDiscipline
    <2>4. delivery' \in [Delivery -> Row]
        BY Zenon, <1>1 DEF TypeOK
    <2> QED
        BY Zenon, <1>1, <1>3, <2>1, <2>3, <2>4, CommitRunning
<1> QED
    BY Zenon, <1>2, <1>3 DEF DeleteOrphanEventBatch

\* The worker removes the organization: no delivery was left when it counted,
\* none came since, and the cascade takes the events.
LEMMA DeleteOrganizationInv ==
    ASSUME DeletionInv, NEW w \in Claimants, DeleteOrganization(w)
    PROVE  DeletionInv'
<1> USE DEF DeletionInv
<1>0. TypeOK /\ w \in Maintainer
    BY Zenon DEF Claimants
<1>1. /\ operation' \in Seq(Operation) /\ DOMAIN operation' = DOMAIN operation
      /\ \A i \in DOMAIN operation :
            operation'[i].status =
                IF i \in Active THEN "completed" ELSE operation[i].status
      /\ maintainer' \in [Maintainer -> Maintenance] /\ Claimants' = Claimants \ {w}
    BY Zenon, <1>0, CommitEffect DEF DeleteOrganization
<1>2. Rows = {} /\ OwnersWithLock = {}
    BY Zenon, MaintenanceExcludesOwners DEF DeleteOrganization, MaintainerShape
<1>3. delivery' = delivery
    BY Zenon, <1>0, <1>2 DEF DeleteOrganization, Removed, TypeOK
<1>4. organization' \in Organization /\ ~Exists'
    BY Zenon, <1>0 DEF DeleteOrganization, Exists, TypeOK, Organization, LifecycleState
<1>5. event' \in [Event -> {"none", "authenticated", "stored", "refused", "deleted"}]
      /\ Stored' = {}
    BY Zenon, <1>0 DEF DeleteOrganization, Cascade, Stored, TypeOK
<1>6. UNCHANGED <<clock, owner, claiming, calls, aborts>>
    BY Zenon DEF DeleteOrganization
<1>7. TypeOK'
    BY Zenon, <1>0, <1>1, <1>3, <1>4, <1>5, <1>6 DEF TypeOK
<1>8. Claimants' = {} /\ OwnersWithLock' = {} /\ Active' = {} /\ Rows' = {}
    <2>1. Claimants' = {}
        BY Zenon, <1>1 DEF LockDiscipline
    <2>2. OwnersWithLock' = {} /\ Rows' = {}
        BY Zenon, <1>2, <1>3, <1>6 DEF OwnersWithLock, Rows
    <2>3. Active' = {}
        BY Zenon, <1>1 DEF Active
    <2> QED
        BY Zenon, <2>1, <2>2, <2>3
<1>9. LockDiscipline'
    BY Zenon, <1>2, <1>6, <1>8 DEF LockDiscipline
<1> QED
    BY Zenon, <1>4, <1>5, <1>6, <1>7, <1>8, <1>9
       DEF OperationShape, MaintainerShape, DeletedLeavesNothing, LoadedShape

-----------------------------------------------------------------------------
\* A request is authorized, or gets the lock of the organization.
LEMMA OwnerLockInv ==
    ASSUME DeletionInv, NEW c \in Owner,
           LockOrganization(c) \/ \E call \in {"request", "cancel"} : Authorize(c, call)
    PROVE  DeletionInv'
<1> USE DEF DeletionInv
<1>0. OwnerIdle \in Request /\ OwnerIdle.at = "idle"
    BY Zenon DEF OwnerIdle, Request
<1>1. /\ owner' \in [Owner -> Request]
      /\ \A b \in Owner : b # c => owner'[b] = owner[b]
      /\ owner'[c].at = "locked" => LockOrganization(c) /\ Exists
      /\ owner'[c].at # "idle" => owner'[c].loaded \in Organization
      /\ calls' \in Nat
    <2>1. CASE LockOrganization(c)
        BY ZenonT(60), <1>0, <2>1 DEF LockOrganization, TypeOK, Request, LoadedShape
    <2>2. CASE \E call \in {"request", "cancel"} : Authorize(c, call)
        <3>1. PICK call \in {"request", "cancel"} : Authorize(c, call)
            BY Zenon, <2>2
        <3>2. [at |-> "authorized", call |-> call, loaded |-> organization, now |-> clock]
                 \in Request
            BY Zenon DEF Request, TypeOK
        <3> QED
            BY <3>1, <3>2 DEF Authorize, TypeOK
    <2> QED
        BY Zenon, <2>1, <2>2
<1>2. UNCHANGED <<clock, organization, operation, maintainer, event, delivery,
                  claiming, aborts>>
    BY Zenon DEF LockOrganization, Authorize
<1>3. TypeOK'
    BY Zenon, <1>1, <1>2 DEF TypeOK
<1>4. /\ Claimants' = Claimants /\ Exists' = Exists /\ Active' = Active
      /\ Rows' = Rows /\ Stored' = Stored /\ Destroyed' = Destroyed
    BY Zenon, <1>2 DEF Claimants, Exists, Active, Rows, Stored, Destroyed
<1>5. LockDiscipline'
    <2>1. CASE owner'[c].at = "locked"
        <3>1. OwnersWithLock = {} /\ \A w \in Claimants : maintainer[w].at = "claimed"
            BY Zenon, <1>1, <2>1 DEF LockOrganization, OrganizationLocked
        <3>2. \A b \in OwnersWithLock' : b = c
            BY Zenon, <1>1, <3>1 DEF OwnersWithLock
        <3> QED
            BY Zenon, <1>1, <1>2, <1>4, <2>1, <3>1, <3>2 DEF LockDiscipline
    <2>2. CASE owner'[c].at # "locked"
        <3>1. OwnersWithLock' \subseteq OwnersWithLock
            BY Zenon, <1>1, <2>2 DEF OwnersWithLock
        <3> QED
            BY Zenon, <1>2, <1>4, <3>1 DEF LockDiscipline
    <2> QED
        BY Zenon, <2>1, <2>2
<1>6. OperationShape' /\ MaintainerShape' /\ DeletedLeavesNothing'
    BY Zenon, <1>2, <1>4 DEF OperationShape, MaintainerShape, DeletedLeavesNothing
<1> QED
    BY Zenon, <1>1, <1>3, <1>5, <1>6 DEF LoadedShape

\* What a flush leaves of the organization: a row of its type that exists, with
\* the request time if one is assigned.
LEMMA FlushEffect ==
    ASSUME TypeOK, Exists, NEW loaded \in Organization,
           NEW state \in {"active", "deletion_pending"}, NEW at \in Time
    PROVE  /\ Flush(loaded, state, at) \in Organization
           /\ Flush(loaded, state, at).lifecycle_state # "deleted"
           /\ at # NULL => Flush(loaded, state, at).requested_at = at
BY Zenon DEF Flush, TypeOK, Exists, Organization, LifecycleState

\* The request of an owner that has the lock ends: no maintenance transaction
\* is open, so only the operations and the organization are to be looked at.
LEMMA OwnerCommit ==
    ASSUME DeletionInv, NEW c \in Owner, owner[c].at = "locked", Claimants = {},
           owner' = [owner EXCEPT ![c] = OwnerIdle],
           operation' \in Seq(Operation), organization' \in Organization, Exists',
           OperationShape',
           UNCHANGED <<clock, maintainer, event, delivery, claiming, calls, aborts>>
    PROVE  DeletionInv'
<1> USE DEF DeletionInv
<1>1. OwnerIdle \in Request /\ OwnerIdle.at = "idle"
    BY Zenon DEF OwnerIdle, Request
<1>2. TypeOK'
    BY Zenon, <1>1 DEF TypeOK
<1>3. /\ Claimants' = {} /\ OwnersWithLock' \subseteq OwnersWithLock /\ Rows' = Rows
    BY Zenon, <1>1 DEF Claimants, OwnersWithLock, Rows, TypeOK
<1>4. LockDiscipline'
    BY Zenon, <1>3 DEF LockDiscipline
<1> QED
    BY Zenon, <1>1, <1>2, <1>3, <1>4 DEF MaintainerShape, DeletedLeavesNothing, LoadedShape, TypeOK

\* A deletion is requested.
LEMMA RequestDeletionInv ==
    ASSUME DeletionInv, NEW c \in Owner, RequestDeletion(c)
    PROVE  DeletionInv'
<1> USE DEF DeletionInv
<1>0. /\ TypeOK /\ Exists /\ Claimants = {} /\ owner[c].at = "locked"
      /\ owner[c] \in Request /\ Destroyed' = Destroyed
      /\ owner' = [owner EXCEPT ![c] = OwnerIdle]
      /\ UNCHANGED <<clock, maintainer, event, delivery, claiming, calls, aborts>>
    BY Zenon DEF RequestDeletion, OperationLocked, TypeOK, LockDiscipline, OwnersWithLock, Destroyed
<1>1. CASE UNCHANGED <<organization, operation>>
    <2>1. Active' = Active /\ Exists' = Exists
        BY Zenon, <1>1 DEF Active, Exists
    <2>2. OperationShape'
        BY Zenon, <1>0, <1>1, <2>1 DEF OperationShape
    <2>3. operation' \in Seq(Operation) /\ organization' \in Organization
        BY Zenon, <1>1 DEF TypeOK
    <2> QED
        BY Zenon, <1>0, <2>1, <2>2, <2>3, OwnerCommit
<1>2. CASE /\ Active = {}
           /\ operation' = Append(operation,
                 [status |-> "pending", scheduled_at |-> ScheduledAt(owner[c].now)])
           /\ organization' = Flush(owner[c].loaded, "deletion_pending", owner[c].now)
    <2> DEFINE new == [status |-> "pending", scheduled_at |-> ScheduledAt(owner[c].now)]
               n == Len(operation) + 1
    <2>1. owner[c].loaded \in Organization /\ owner[c].now \in Nat
        BY Zenon, <1>0, <1>2 DEF LoadedShape, Request
    <2>2. /\ organization' \in Organization /\ Exists'
          /\ organization'.requested_at = owner[c].now
        BY Zenon, <1>0, <1>2, <2>1, FlushEffect, DeletionAssumption
           DEF Time, Exists, DeletionAssumption
    <2>3. new \in Operation
        BY SMTT(30), <2>1, DeletionAssumption DEF ScheduledAt, Operation, DeletionAssumption
    <2>4. /\ operation' \in Seq(Operation) /\ DOMAIN operation' = 1..n
          /\ operation'[n] = new /\ \A i \in DOMAIN operation : operation'[i] = operation[i]
          /\ DOMAIN operation = 1..Len(operation) /\ Len(operation) \in Nat
        BY SMTT(30), <1>0, <1>2, <2>3 DEF TypeOK
    <2>5. Active' \subseteq {n}
        BY <1>2, <2>4 DEF Active
    <2>6. operation'[n].scheduled_at =
             organization'.requested_at + organization_deletion_grace_hours
        BY SMTT(30), <2>2, <2>4 DEF ScheduledAt
    <2>7. ~Destroyed'
        BY Zenon, <1>0, <1>2 DEF OperationShape
    <2>8. OperationShape'
        BY Zenon, <2>1, <2>2, <2>5, <2>6, <2>7, DeletionAssumption
           DEF OperationShape, DeletionAssumption
    <2> QED
        BY Zenon, <1>0, <2>2, <2>4, <2>8, OwnerCommit
<1> QED
    BY Zenon, <1>1, <1>2 DEF RequestDeletion

\* A pending deletion is canceled; one that is running is not, and only a
\* running one has destroyed anything.
LEMMA CancelDeletionInv ==
    ASSUME DeletionInv, NEW c \in Owner, CancelDeletion(c)
    PROVE  DeletionInv'
<1> USE DEF DeletionInv
<1>0. /\ TypeOK /\ Exists /\ Claimants = {} /\ owner[c].at = "locked"
      /\ owner[c] \in Request /\ Destroyed' = Destroyed
      /\ owner' = [owner EXCEPT ![c] = OwnerIdle]
      /\ UNCHANGED <<clock, maintainer, event, delivery, claiming, calls, aborts>>
    BY Zenon DEF CancelDeletion, OperationLocked, TypeOK, LockDiscipline, OwnersWithLock, Destroyed
<1>1. CASE UNCHANGED <<organization, operation>>
    <2>1. Active' = Active /\ Exists' = Exists
        BY Zenon, <1>1 DEF Active, Exists
    <2>2. OperationShape'
        BY Zenon, <1>0, <1>1, <2>1 DEF OperationShape
    <2>3. operation' \in Seq(Operation) /\ organization' \in Organization
        BY Zenon, <1>1 DEF TypeOK
    <2> QED
        BY Zenon, <1>0, <2>1, <2>2, <2>3, OwnerCommit
<1>2. CASE \E i \in Cancelable :
              /\ operation' = [operation EXCEPT ![i].status = "canceled"]
              /\ organization' = Flush(owner[c].loaded, "active", NULL)
    <2>1. PICK i \in Cancelable :
              /\ operation' = [operation EXCEPT ![i].status = "canceled"]
              /\ organization' = Flush(owner[c].loaded, "active", NULL)
        BY Zenon, <1>2
    <2>2. owner[c].loaded \in Organization
        BY Zenon, <1>0 DEF LoadedShape
    <2>3. organization' \in Organization /\ Exists'
        BY Zenon, <1>0, <2>1, <2>2, FlushEffect DEF Time, Exists
    <2>4. i \in Active /\ i \in DOMAIN operation /\ operation[i] \in Operation
        BY <1>0 DEF Cancelable, Active, TypeOK
    <2>5. [operation[i] EXCEPT !.status = "canceled"] \in Operation
        BY Zenon, <2>4 DEF Operation
    <2>6. operation' \in Seq(Operation)
        BY <1>0, <2>1, <2>4, <2>5 DEF TypeOK
    <2>7. Active' = {}
        <3>1. \A j \in Active : j = i
            BY Zenon, <2>4 DEF OperationShape
        <3>2. DOMAIN operation' = DOMAIN operation
            BY Zenon, <2>1
        <3>3. \A j \in DOMAIN operation : j # i => operation'[j] = operation[j]
            BY Zenon, <2>1
        <3>4. operation'[i].status = "canceled"
            BY Zenon, <2>1, <2>4 DEF Operation
        <3> QED
            BY Zenon, <3>1, <3>2, <3>3, <3>4 DEF Active
    <2>8. ~Destroyed'
        BY Zenon, <1>0, <2>4 DEF OperationShape, Cancelable
    <2>9. OperationShape'
        BY Zenon, <2>7, <2>8 DEF OperationShape
    <2> QED
        BY Zenon, <1>0, <2>3, <2>6, <2>9, OwnerCommit
<1> QED
    BY Zenon, <1>1, <1>2 DEF CancelDeletion

-----------------------------------------------------------------------------
\* Time passes.
LEMMA TickInv ==
    ASSUME DeletionInv, Tick
    PROVE  DeletionInv'
<1> USE DEF DeletionInv
<1>1. UNCHANGED <<organization, operation, owner, maintainer, event, delivery,
                  claiming, calls, aborts>>
      /\ clock \in Nat /\ clock' = clock + 1
    BY Zenon DEF Tick, TypeOK
<1>2. TypeOK'
    BY <1>1 DEF TypeOK
<1>3. /\ Claimants' = Claimants /\ OwnersWithLock' = OwnersWithLock
      /\ Exists' = Exists /\ Active' = Active
      /\ Rows' = Rows /\ Stored' = Stored /\ Destroyed' = Destroyed
    BY Zenon, <1>1 DEF Claimants, OwnersWithLock, Exists, Active, Rows, Stored, Destroyed
<1>4. \A w \in Claimants : maintainer[w].now \in Nat
    BY Zenon DEF TypeOK, Claimants, Maintenance
<1>5. MaintainerShape'
    BY <1>1, <1>3, <1>4 DEF MaintainerShape
<1>6. LockDiscipline' /\ OperationShape'
    BY Zenon, <1>1, <1>3 DEF LockDiscipline, OperationShape
<1> QED
    BY Zenon, <1>1, <1>2, <1>3, <1>5, <1>6 DEF DeletedLeavesNothing, LoadedShape

\* A step of a maintenance transaction.
LEMMA MaintainInv ==
    ASSUME DeletionInv, NEW w \in Maintainer, Maintain(w) \/ Abort(w)
    PROVE  DeletionInv' /\ (~Destroyed /\ Destroyed' => Claimants # {})
<1>1. CASE ClaimOperation(w)
    <2>1. Destroyed' = Destroyed
        BY Zenon, <1>1 DEF ClaimOperation, Destroyed
    <2> QED
        BY Zenon, <1>1, <2>1, ClaimOperationInv
<1>2. CASE ~ClaimOperation(w)
    <2>1. w \in Claimants
        BY ZenonT(60), <1>2 DEF Maintain, Abort, Claimants, ClaimOrganization, CancelInactive,
           HasLiveDelivery, DeleteDeliveryBatch, DeleteOrphanEventBatch, CountRows,
           DeleteOrganization
    <2>2. CASE Abort(w)
        <3>1. aborts' \in Nat
            BY <2>2 DEF Abort, DeletionInv, TypeOK
        <3> QED
            BY Zenon, <2>1, <2>2, <3>1, LeaveInv DEF Abort
    <2>3. CASE Maintain(w)
        BY Zenon, <1>2, <2>1, <2>3, ClaimOrganizationInv, CancelInactiveInv, CheckInv,
           DeleteDeliveryBatchInv, DeleteOrphanEventBatchInv, DeleteOrganizationInv
           DEF Maintain
    <2> QED
        BY Zenon, <2>2, <2>3
<1> QED
    BY Zenon, <1>1, <1>2

\* A step of an owner's request, which destroys nothing by itself.
LEMMA OwnerInv ==
    ASSUME DeletionInv, NEW c \in Owner,
           Handle(c) \/ \E call \in {"request", "cancel"} : Authorize(c, call)
    PROVE  DeletionInv' /\ Destroyed' = Destroyed
<1>1. UNCHANGED <<event, delivery>>
    BY Zenon DEF Handle, LockOrganization, RequestDeletion, CancelDeletion, Authorize
<1>2. Destroyed' = Destroyed
    BY Zenon, <1>1 DEF Destroyed
<1>3. DeletionInv'
    BY Zenon, OwnerLockInv, RequestDeletionInv, CancelDeletionInv DEF Handle
<1> QED
    BY Zenon, <1>2, <1>3

\* Every step preserves the invariant, and only one of an open maintenance
\* transaction begins to destroy.
LEMMA NextInv ==
    ASSUME DeletionInv, [Next]_vars
    PROVE  DeletionInv' /\ (~Destroyed /\ Destroyed' => Claimants # {})
<1>1. CASE \E c \in Owner :
              Handle(c) \/ \E call \in {"request", "cancel"} : Authorize(c, call)
    BY Zenon, <1>1, OwnerInv
<1>2. CASE \E w \in Maintainer : Maintain(w) \/ Abort(w)
    BY Zenon, <1>2, MaintainInv
<1>3. CASE \E e \in Event : Authenticate(e) \/ Store(e)
    BY Zenon, <1>3, AuthenticateInv, StoreInv
<1>4. CASE \E d \in Delivery : \/ LockDelivery(d) \/ CommitClaim(d)
                                \/ RenewLease(d) \/ Finalize(d)
    BY Zenon, <1>4, WorkerInv
<1>5. CASE Tick
    <2>1. Destroyed' = Destroyed
        BY Zenon, <1>5 DEF Tick, Destroyed
    <2> QED
        BY Zenon, <1>5, <2>1, TickInv
<1>6. CASE UNCHANGED vars
    <2>1. Destroyed' = Destroyed
        BY Zenon, <1>6 DEF vars, Destroyed
    <2>2. /\ Claimants' = Claimants /\ OwnersWithLock' = OwnersWithLock
          /\ Exists' = Exists /\ Active' = Active
          /\ Rows' = Rows /\ Stored' = Stored /\ TypeOK' = TypeOK
        BY Zenon, <1>6 DEF vars, Claimants, OwnersWithLock, Exists, Active, Rows, Stored, TypeOK
    <2> QED
        BY Zenon, <1>6, <2>1, <2>2 DEF vars, DeletionInv, LockDiscipline, OperationShape,
           MaintainerShape, DeletedLeavesNothing, LoadedShape
<1> QED
    BY Zenon, <1>1, <1>2, <1>3, <1>4, <1>5, <1>6 DEF Next

-----------------------------------------------------------------------------
\* The invariant holds in every reachable state.
THEOREM DeletionSafe == Spec => []DeletionInv
<1>1. DeletionInv /\ [Next]_vars => DeletionInv'
    BY Zenon, NextInv
<1> QED
    BY <1>1, InitDeletion, PTL DEF Spec

\* No cancellation, whatever row its session had loaded, gives back an
\* organization of which request_organization_deletion's operation has already
\* canceled or deleted something.
THEOREM DeletionIsFinal == Spec => []NeverResurrected
<1>1. DeletionInv => NeverResurrected
    BY Zenon DEF DeletionInv, OperationShape, NeverResurrected, Exists
<1> QED
    BY <1>1, DeletionSafe, PTL

\* When _delete_empty_organization has removed the organization, no event and
\* no delivery of it is left, although ingestion commits at any time.
THEOREM NothingLeft == Spec => []DeletedLeavesNothing
<1>1. DeletionInv => DeletedLeavesNothing
    BY Zenon DEF DeletionInv
<1> QED
    BY <1>1, DeletionSafe, PTL

\* The lifecycle loop destroys nothing before the grace period that follows
\* the recorded request, through cancellations and new requests.
THEOREM GraceIsKept == Spec => GraceKept
<1>1. DeletionInv /\ [Next]_vars =>
         [~Destroyed /\ Destroyed' =>
             clock >= organization.requested_at + organization_deletion_grace_hours]_vars
    <2> SUFFICES ASSUME DeletionInv, [Next]_vars, ~Destroyed, Destroyed'
                 PROVE  clock >= organization.requested_at + organization_deletion_grace_hours
        BY Zenon
    <2>1. PICK w \in Claimants : TRUE
        BY Zenon, NextInv
    <2>2. PICK i \in Active : operation[i].scheduled_at <= maintainer[w].now
        BY Zenon, <2>1 DEF DeletionInv, MaintainerShape
    <2>3. maintainer[w].now <= clock /\ maintainer[w].now \in Nat /\ clock \in Nat
        BY Zenon, <2>1 DEF DeletionInv, MaintainerShape, TypeOK, Claimants, Maintenance
    <2>4. operation[i].scheduled_at =
             organization.requested_at + organization_deletion_grace_hours
        BY Zenon, <2>2 DEF DeletionInv, OperationShape
    <2>5. organization.requested_at + organization_deletion_grace_hours \in Nat
        BY <2>2, DeletionAssumption
           DEF DeletionInv, OperationShape, TypeOK, Organization, Time, DeletionAssumption
    <2> QED
        BY <2>2, <2>3, <2>4, <2>5
<1> QED
    BY <1>1, DeletionSafe, PTL DEF Spec, GraceKept

-----------------------------------------------------------------------------
(* The worker process and its shutdown. *)

\* The loop knows of every task that runs until it has waited for all of them.
\* A claim is left leased only while the loop gives claims back, or after a
\* call to the database has failed.
ShutdownInv ==
    /\ work \in [Work -> WorkState] /\ trouble \in BOOLEAN
    /\ \A d \in Work : /\ work[d] \in {"delivering", "releasing", "shielded"} => d \in in_flight
                       /\ work[d] = "leased" => loop = "returning" \/ trouble
                       /\ work[d] \in {"releasing", "lost"} => trouble
    /\ loop \in {"drained", "closing", "closed"} => in_flight = {}
    /\ loop \in {"closing", "closed"} => lifecycle = "ended"
    /\ loop = "closed" => collector = "ended"
    /\ database = "closed" => loop = "closed"

\* Every step keeps it, a crash of a loop and a second signal included.
LEMMA ShutdownStep == ShutdownInv /\ [WorkerNext]_worker_vars => ShutdownInv'
<1> SUFFICES ASSUME ShutdownInv, [WorkerNext]_worker_vars PROVE ShutdownInv'
  BY Zenon
<1> USE DEF ShutdownInv
<1>1. CASE Signal \/ LifecycleRound \/ LifecycleStops \/ Collect \/ UNCHANGED worker_vars
  BY Zenon, <1>1 DEF Signal, LifecycleRound, LifecycleStops, Collect, worker_vars
<1>2. CASE Top
  BY Zenon, <1>2 DEF Top, At, Settled
<1>3. CASE ClaimReturns
  BY ZenonT(60), <1>3 DEF ClaimReturns, At, WorkState
<1>4. CASE ClaimFails \/ GaveBack \/ Wake
  BY ZenonT(60), <1>4 DEF ClaimFails, GaveBack, Wake, At
<1>5. CASE Drained
  BY Zenon, <1>5 DEF Drained, At, Settled
<1>6. CASE GraceEnds
  <2>1. work' \in [Work -> WorkState]
    BY Zenon, <1>6 DEF GraceEnds, WorkState
  <2>2. \A d \in Work : /\ work'[d] \in {"delivering", "releasing", "shielded"} => d \in in_flight'
                        /\ work'[d] = "leased" => work[d] = "leased"
                        /\ work'[d] \in {"releasing", "lost"} => work[d] \in {"releasing", "lost"}
    BY Zenon, <1>6 DEF GraceEnds, WorkState
  <2> QED
    BY Zenon, <1>6, <2>1, <2>2 DEF GraceEnds
<1>7. CASE LifecycleEnded \/ CollectorStops \/ CloseDatabase
  BY Zenon, <1>7 DEF LifecycleEnded, CollectorStops, CloseDatabase
<1>8. ASSUME NEW d \in Work, Deliver(d) \/ Release(d) PROVE ShutdownInv'
  BY Zenon, <1>8 DEF Deliver, Release, WorkState
<1>9. ASSUME NEW d \in Work, GiveBack(d) PROVE ShutdownInv'
  BY Zenon, <1>9 DEF GiveBack, WorkState
<1> QED
  BY Zenon, <1>1, <1>2, <1>3, <1>4, <1>5, <1>6, <1>7, <1>8, <1>9 DEF WorkerNext, LoopStep

\* The worker closes its database only after every loop, task and collection
\* that uses it has ended, whatever number of deliveries it works on and
\* whichever call fails.
THEOREM WorkerShutdown == WorkerSpec => []DatabaseClosedLast
<1>1. WorkerInit => ShutdownInv
  BY ZenonT(60) DEF WorkerInit, ShutdownInv, WorkState
<1>2. ShutdownInv => DatabaseClosedLast
  BY Zenon DEF ShutdownInv, DatabaseClosedLast, Running, At
<1> QED
  BY <1>1, <1>2, ShutdownStep, PTL DEF WorkerSpec

-----------------------------------------------------------------------------
(* The use of API keys. *)

\* The values of the variables.
UsageType ==
    /\ last_used \in [UsedKey -> UsedAt] /\ tracker \in [Process -> Tracker]
    /\ noted \in [Process -> [UsedKey -> UsedAt]]
    /\ \A p \in Process : tracker[p].flush = "none" => tracker[p].batch = NoUses

\* What is pending is the latest use noted; and while an older one is on its
\* way to the row, the latest is pending.
HoldsLatest(p, k) ==
    LET t == tracker[p] IN
    /\ t.pending[k] \in {0, noted[p][k]} /\ t.batch[k] <= noted[p][k]
    /\ t.batch[k] \in {0, noted[p][k]} \/ t.pending[k] = noted[p][k]

\* The latest use that process p noted is later than the row and will reach
\* it: it is pending, or being written over a row that was read as older.
WillShow(p, k) ==
    LET t == tracker[p] IN
    /\ noted[p][k] > last_used[k]
    /\ \/ t.pending[k] = noted[p][k]
       \/ t.batch[k] = noted[p][k] /\ (t.flush = "read" => t.rows[k] < t.batch[k])
\* The row shows the latest use the process noted.
Shows(p, k) == noted[p][k] # 0 /\ last_used[k] = noted[p][k]

\* A key whose uses each process noted in order: the latest one is still
\* held, is on its way to the row, or is shown.
UsageInv ==
    /\ UsageType
    /\ \A k \in UsedKey \ late :
          /\ \A p \in Process : HoldsLatest(p, k)
          /\ \/ last_used[k] = 0 /\ \A p \in Process : noted[p][k] = 0
             \/ \E p \in Process : Shows(p, k) \/ WillShow(p, k)

\* A step changes the record of one process.
LEMMA TrackerChange ==
    ASSUME UsageType, NEW p \in Process, NEW t \in Tracker, t.flush = "none" => t.batch = NoUses,
           tracker' = [tracker EXCEPT ![p] = t],
           last_used' \in [UsedKey -> UsedAt], noted' \in [Process -> [UsedKey -> UsedAt]]
    PROVE  UsageType' /\ tracker'[p] = t /\ \A q \in Process \ {p} : tracker'[q] = tracker[q]
BY Zenon DEF UsageType

\* Every step keeps it.
LEMMA UsageStep == UsageInv /\ [UsageNext]_usage_vars => UsageInv'
<1> SUFFICES ASSUME UsageInv, [UsageNext]_usage_vars PROVE UsageInv'
  BY Zenon
<1> USE UsageAssumption
<1>0. UsageType /\ NoUses \in [UsedKey -> UsedAt]
  BY DEF UsageInv, NoUses, UsedAt
<1>a. \A p \in Process, k \in UsedKey :
         /\ tracker[p].pending[k] \in Nat /\ tracker[p].batch[k] \in Nat
         /\ tracker[p].rows[k] \in Nat /\ noted[p][k] \in Nat /\ last_used[k] \in Nat
  BY SMTT(30), <1>0 DEF UsageType, Tracker, UsedAt
<1>1. CASE UNCHANGED usage_vars
  BY <1>1 DEF usage_vars, UsageInv, UsageType, HoldsLatest, Shows, WillShow
<1>2. ASSUME NEW p \in Process, NEW j \in UsedKey, NEW used_at \in 1 .. MaxUsedAt,
             record(p, j, used_at)
      PROVE  UsageInv'
  <2> DEFINE old == tracker[p]
             room == old.pending[j] # 0 \/ Cardinality(Keep(old.pending)) < max_entries
  <2>1. CASE ~room
    <3>1. tracker' = tracker /\ noted' = noted /\ late' = late /\ last_used' = last_used
      BY Zenon, <1>2, <2>1 DEF record
    <3> QED
      BY <3>1 DEF UsageInv, UsageType, HoldsLatest, Shows, WillShow
  <2>2. CASE room
    <3> DEFINE held == Noting(old.pending, j, used_at)
               t == [old EXCEPT !.pending = held]
               more == Noting(noted[p], j, used_at)
    <3>1. /\ tracker' = [tracker EXCEPT ![p] = t]
          /\ noted' = [noted EXCEPT ![p] = more]
          /\ last_used' = last_used
          /\ late' = IF used_at < noted[p][j] THEN late \union {j} ELSE late
      <4>1. tracker' = [tracker EXCEPT ![p] = t]
        BY Zenon, <1>2, <2>2 DEF record
      <4>2. noted' = [noted EXCEPT ![p] = more]
        BY Zenon, <1>2, <2>2 DEF record
      <4>3. late' = IF used_at < noted[p][j] THEN late \union {j} ELSE late
        BY Zenon, <1>2, <2>2 DEF record
      <4> QED
        BY Zenon, <1>2, <4>1, <4>2, <4>3 DEF record
    <3>2. old \in Tracker /\ used_at \in UsedAt /\ used_at \in Nat
      BY <1>0 DEF UsageType, UsedAt
    <3>3. t \in Tracker /\ t.flush = old.flush /\ t.batch = old.batch /\ t.rows = old.rows
          /\ t.pending[j] = Later(old.pending[j], used_at)
          /\ \A k \in UsedKey \ {j} : t.pending[k] = old.pending[k]
      <4>1. old.pending \in [UsedKey -> UsedAt] /\ Later(old.pending[j], used_at) \in UsedAt
        BY Zenon, <3>2 DEF Tracker, Later
      <4>2. /\ held \in [UsedKey -> UsedAt] /\ held[j] = Later(old.pending[j], used_at)
            /\ \A k \in UsedKey \ {j} : held[k] = old.pending[k]
        BY Zenon, <4>1 DEF Noting
      <4> HIDE DEF held
      <4> QED
        BY Zenon, <3>2, <4>2 DEF Tracker
    <3> HIDE DEF t
    <3>4. /\ noted' \in [Process -> [UsedKey -> UsedAt]]
          /\ noted'[p][j] = Later(noted[p][j], used_at)
          /\ \A k \in UsedKey \ {j} : noted'[p][k] = noted[p][k]
          /\ \A q \in Process \ {p} : noted'[q] = noted[q]
      <4>1. noted[p] \in [UsedKey -> UsedAt] /\ Later(noted[p][j], used_at) \in UsedAt
        BY Zenon, <1>0, <3>2 DEF UsageType, Later
      <4>2. /\ more \in [UsedKey -> UsedAt] /\ more[j] = Later(noted[p][j], used_at)
            /\ \A k \in UsedKey \ {j} : more[k] = noted[p][k]
        BY Zenon, <4>1 DEF Noting
      <4> HIDE DEF more
      <4> QED
        BY Zenon, <1>0, <3>1, <4>2 DEF UsageType
    <3>5. UsageType' /\ tracker'[p] = t /\ \A q \in Process \ {p} : tracker'[q] = tracker[q]
      BY SMTT(30), <1>0, <3>1, <3>3, <3>4, TrackerChange DEF UsageType
    <3>6. ASSUME NEW k \in UsedKey \ late', k # j
          PROVE  /\ \A q \in Process : HoldsLatest(q, k)'
                 /\ \/ last_used'[k] = 0 /\ \A q \in Process : noted'[q][k] = 0
                    \/ \E q \in Process : Shows(q, k)' \/ WillShow(q, k)'
      <4>1. k \in UsedKey \ late
        BY Zenon, <3>1
      <4>2. \A q \in Process : /\ tracker'[q].pending[k] = tracker[q].pending[k]
                               /\ tracker'[q].batch[k] = tracker[q].batch[k]
                               /\ tracker'[q].rows[k] = tracker[q].rows[k]
                               /\ tracker'[q].flush = tracker[q].flush
                               /\ noted'[q][k] = noted[q][k]
        BY Zenon, <3>3, <3>4, <3>5, <3>6
      <4> QED
        BY <3>1, <4>1, <4>2 DEF UsageInv, HoldsLatest, Shows, WillShow
    <3>7. ASSUME j \notin late'
          PROVE  /\ \A q \in Process : HoldsLatest(q, j)'
                 /\ \E q \in Process : Shows(q, j)' \/ WillShow(q, j)'
      <4>1. j \notin late /\ used_at >= noted[p][j]
        BY <1>a, <3>1, <3>2, <3>7
      <4>2. HoldsLatest(p, j) /\ \A q \in Process : HoldsLatest(q, j)
        BY Zenon, <4>1 DEF UsageInv
      <4>3. tracker'[p].pending[j] = used_at /\ noted'[p][j] = used_at /\ used_at # 0
        BY SMTT(30), <1>a, <3>2, <3>3, <3>4, <3>5, <4>1, <4>2 DEF Later, HoldsLatest
      <4>4. HoldsLatest(p, j)'
        BY <1>a, <3>2, <3>3, <3>5, <4>1, <4>2, <4>3 DEF HoldsLatest
      <4>5. \A q \in Process \ {p} : HoldsLatest(q, j)'
        BY Zenon, <3>4, <3>5, <4>2 DEF HoldsLatest
      <4>6. CASE used_at > last_used[j]
        BY Zenon, <3>1, <4>3, <4>4, <4>5, <4>6 DEF WillShow
      <4>7. CASE ~(used_at > last_used[j])
        <5>1. PICK q \in Process : Shows(q, j) \/ WillShow(q, j)
          BY SMTT(30), <1>a, <3>2, <4>1, <4>3, <4>7 DEF UsageInv
        <5>2. CASE q # p
          BY <3>1, <3>4, <3>5, <4>4, <4>5, <5>1, <5>2 DEF Shows, WillShow
        <5>3. CASE q = p
          <6>1. last_used[j] = noted[p][j] /\ used_at = noted[p][j]
            BY <1>a, <3>2, <4>1, <4>7, <5>1, <5>3 DEF Shows, WillShow
          <6> QED
            BY Zenon, <3>1, <4>3, <4>4, <4>5, <6>1 DEF Shows
        <5> QED
          BY Zenon, <5>2, <5>3
      <4> QED
        BY Zenon, <4>6, <4>7
    <3> QED
      BY Zenon, <3>5, <3>6, <3>7 DEF UsageInv
  <2> QED
    BY Zenon, <2>1, <2>2
<1>3. ASSUME NEW p \in Process, NEW t \in Tracker, t.flush = "none" => t.batch = NoUses,
             tracker' = [tracker EXCEPT ![p] = t], noted' = noted, late' = late,
             last_used' = last_used,
             \A k \in UsedKey \ late :
                HoldsLatest(p, k) =>
                   /\ HoldsLatest(p, k)'
                   /\ WillShow(p, k) => WillShow(p, k)'
      PROVE  UsageInv'
  <2>1. UsageType' /\ tracker'[p] = t /\ \A q \in Process \ {p} : tracker'[q] = tracker[q]
    BY Zenon, <1>0, <1>3, TrackerChange DEF UsageType
  <2>2. \A k \in UsedKey, q \in Process \ {p} :
           /\ HoldsLatest(q, k)' <=> HoldsLatest(q, k)
           /\ WillShow(q, k)' <=> WillShow(q, k)
    BY <1>3, <2>1 DEF HoldsLatest, WillShow
  <2>3. \A k \in UsedKey, q \in Process : Shows(q, k)' <=> Shows(q, k)
    BY Zenon, <1>3 DEF Shows
  <2>4. ASSUME NEW k \in UsedKey \ late
        PROVE  /\ \A q \in Process : HoldsLatest(q, k)'
               /\ \/ last_used'[k] = 0 /\ \A q \in Process : noted'[q][k] = 0
                  \/ \E q \in Process : Shows(q, k)' \/ WillShow(q, k)'
    BY Zenon, <1>3, <2>2, <2>3 DEF UsageInv
  <2> QED
    BY Zenon, <1>3, <2>1, <2>4 DEF UsageInv
<1>4. ASSUME NEW p \in Process, TakePending(p) PROVE UsageInv'
  <2> DEFINE old == tracker[p]
             t == [old EXCEPT !.flush = "taken", !.batch = old.pending, !.pending = NoUses]
  <2>1. tracker' = [tracker EXCEPT ![p] = t] /\ old.flush = "none"
        /\ UNCHANGED <<last_used, noted, late>>
    BY Zenon, <1>4 DEF TakePending
  <2>2. old \in Tracker /\ old.batch = NoUses
    BY Zenon, <1>0, <2>1 DEF UsageType
  <2>3. t \in Tracker /\ t.flush = "taken" /\ t.batch = old.pending /\ t.pending = NoUses
    BY Zenon, <1>0, <2>2 DEF Tracker
  <2> HIDE DEF t
  <2>4. tracker'[p] = t
    BY Zenon, <1>0, <2>1 DEF UsageType
  <2>5. ASSUME NEW k \in UsedKey \ late, HoldsLatest(p, k)
        PROVE  HoldsLatest(p, k)' /\ (WillShow(p, k) => WillShow(p, k)')
    <3>1. old.batch[k] = 0 /\ t.pending[k] = 0 /\ t.batch[k] = old.pending[k]
      BY Zenon, <2>2, <2>3 DEF NoUses
    <3> QED
      BY <1>a, <2>1, <2>3, <2>4, <2>5, <3>1 DEF HoldsLatest, WillShow
  <2> QED
    BY Zenon, <1>3, <2>1, <2>3, <2>5
<1>5. ASSUME NEW p \in Process, ReadRows(p) PROVE UsageInv'
  <2> DEFINE old == tracker[p]
             t == [old EXCEPT !.flush = "read", !.rows = last_used]
  <2>1. tracker' = [tracker EXCEPT ![p] = t] /\ UNCHANGED <<last_used, noted, late>>
    BY Zenon, <1>5 DEF ReadRows
  <2>2. old \in Tracker
    BY Zenon, <1>0 DEF UsageType
  <2>3. t \in Tracker /\ t.flush = "read" /\ t.batch = old.batch /\ t.pending = old.pending
        /\ t.rows = last_used
    BY Zenon, <1>0, <2>2 DEF Tracker, UsageType
  <2> HIDE DEF t
  <2>4. tracker'[p] = t
    BY Zenon, <1>0, <2>1 DEF UsageType
  <2>5. ASSUME NEW k \in UsedKey \ late, HoldsLatest(p, k)
        PROVE  HoldsLatest(p, k)' /\ (WillShow(p, k) => WillShow(p, k)')
    BY Zenon, <1>a, <2>1, <2>3, <2>4, <2>5 DEF HoldsLatest, WillShow
  <2> QED
    BY Zenon, <1>3, <2>1, <2>3, <2>5
<1>6. ASSUME NEW p \in Process, FailFlush(p) PROVE UsageInv'
  <2> DEFINE old == tracker[p]
             more == Merged(old.pending, old.batch)
             t == [old EXCEPT !.flush = "none", !.batch = NoUses, !.rows = NoUses,
                              !.pending = more, !.task = AfterFlush(old.task)]
  <2>1. tracker' = [tracker EXCEPT ![p] = t] /\ UNCHANGED <<last_used, noted, late>>
    BY Zenon, <1>6 DEF FailFlush
  <2>2. old \in Tracker /\ AfterFlush(old.task) \in {"running", "stopping", "ended", "closed"}
    BY Zenon, <1>0 DEF UsageType, AfterFlush, Tracker
  <2>3. more \in [UsedKey -> UsedAt] /\ \A k \in UsedKey : more[k] = Later(old.pending[k], old.batch[k])
    BY Zenon, <2>2 DEF Merged, Later, Tracker
  <2> HIDE DEF more
  <2>4. t \in Tracker /\ t.flush = "none" /\ t.batch = NoUses /\ t.pending = more
    BY Zenon, <1>0, <2>2, <2>3 DEF Tracker
  <2> HIDE DEF t
  <2>5. tracker'[p] = t
    BY Zenon, <1>0, <2>1 DEF UsageType
  <2>6. ASSUME NEW k \in UsedKey \ late, HoldsLatest(p, k)
        PROVE  HoldsLatest(p, k)' /\ (WillShow(p, k) => WillShow(p, k)')
    <3>1. t.batch[k] = 0 /\ t.pending[k] = Later(old.pending[k], old.batch[k])
      BY Zenon, <2>3, <2>4 DEF NoUses
    <3> QED
      BY <1>a, <2>1, <2>4, <2>5, <2>6, <3>1 DEF HoldsLatest, WillShow, Later
  <2> QED
    BY Zenon, <1>3, <2>1, <2>4, <2>6
<1>7. ASSUME NEW p \in Process, StopTracker(p) \/ TaskEnds(p) PROVE UsageInv'
  <2> DEFINE old == tracker[p]
  <2>1. PICK task \in {"running", "stopping", "ended", "closed"} :
           tracker' = [tracker EXCEPT ![p] = [old EXCEPT !.task = task]]
    BY Zenon, <1>7 DEF StopTracker, TaskEnds
  <2> DEFINE t == [old EXCEPT !.task = task]
  <2>2. old \in Tracker /\ (old.flush = "none" => old.batch = NoUses)
    BY Zenon, <1>0 DEF UsageType
  <2>3. t \in Tracker /\ t.flush = old.flush /\ t.batch = old.batch /\ t.pending = old.pending
        /\ t.rows = old.rows
    BY Zenon, <2>2 DEF Tracker
  <2> HIDE DEF t
  <2>4. tracker' = [tracker EXCEPT ![p] = t] /\ UNCHANGED <<last_used, noted, late>>
    BY Zenon, <1>7, <2>1 DEF StopTracker, TaskEnds, t
  <2>5. tracker'[p] = t
    BY Zenon, <1>0, <2>4 DEF UsageType
  <2>6. ASSUME NEW k \in UsedKey \ late, HoldsLatest(p, k)
        PROVE  HoldsLatest(p, k)' /\ (WillShow(p, k) => WillShow(p, k)')
    BY Zenon, <2>3, <2>4, <2>5, <2>6 DEF HoldsLatest, WillShow
  <2> QED
    BY ZenonT(60), <1>3, <2>2, <2>3, <2>4, <2>6
<1>8. ASSUME NEW p \in Process, WriteRows(p) PROVE UsageInv'
  <2> DEFINE old == tracker[p]
             t == [old EXCEPT !.flush = "none", !.batch = NoUses, !.rows = NoUses,
                              !.task = AfterFlush(old.task)]
  <2>1. tracker' = [tracker EXCEPT ![p] = t] /\ UNCHANGED <<noted, late>> /\ old.flush = "read"
        /\ last_used' = [k \in UsedKey |-> IF k \in Stale(p) THEN old.batch[k] ELSE last_used[k]]
    BY Zenon, <1>8 DEF WriteRows
  <2>2. old \in Tracker /\ AfterFlush(old.task) \in {"running", "stopping", "ended", "closed"}
    BY Zenon, <1>0 DEF UsageType, AfterFlush, Tracker
  <2>3. t \in Tracker /\ t.flush = "none" /\ t.batch = NoUses /\ t.pending = old.pending
    BY Zenon, <1>0, <2>2 DEF Tracker
  <2> HIDE DEF t
  <2>4. last_used' \in [UsedKey -> UsedAt]
    BY Zenon, <1>0, <2>1, <2>2 DEF UsageType, Tracker
  <2>5. UsageType' /\ tracker'[p] = t /\ \A q \in Process \ {p} : tracker'[q] = tracker[q]
    BY Zenon, <1>0, <2>1, <2>3, <2>4, TrackerChange DEF UsageType
  <2>6. ASSUME NEW k \in UsedKey \ late
        PROVE  /\ \A q \in Process : HoldsLatest(q, k)'
               /\ \/ last_used'[k] = 0 /\ \A q \in Process : noted'[q][k] = 0
                  \/ \E q \in Process : Shows(q, k)' \/ WillShow(q, k)'
    <3>1. t.batch[k] = 0 /\ t.pending[k] = old.pending[k]
      BY Zenon, <2>3 DEF NoUses
    <3>2. \A q \in Process : HoldsLatest(q, k)
      BY Zenon DEF UsageInv
    <3>3. \A q \in Process : HoldsLatest(q, k)'
      BY <1>a, <2>1, <2>5, <3>1, <3>2 DEF HoldsLatest
    <3>4. CASE k \in Stale(p)
      <4>1. last_used'[k] = old.batch[k] /\ old.batch[k] # 0
        BY Zenon, <2>1, <3>4 DEF Stale, Keep
      <4>2. HoldsLatest(p, k)
        BY Zenon, <3>2
      <4>3. Shows(p, k)' \/ WillShow(p, k)'
        BY SMTT(30), <1>a, <2>1, <2>5, <3>1, <4>1, <4>2 DEF HoldsLatest, Shows, WillShow
      <4> QED
        BY Zenon, <3>3, <4>3
    <3>5. CASE k \notin Stale(p)
      <4>1. last_used'[k] = last_used[k]
        BY Zenon, <2>1, <3>5
      <4>2. \A q \in Process : Shows(q, k)' <=> Shows(q, k)
        BY Zenon, <2>1, <4>1 DEF Shows
      <4>3. \A q \in Process \ {p} : WillShow(q, k)' <=> WillShow(q, k)
        BY Zenon, <2>1, <2>5, <4>1 DEF WillShow
      <4>4. WillShow(p, k) => WillShow(p, k)'
        BY <1>a, <2>1, <2>5, <3>1, <3>5, <4>1 DEF WillShow, Stale, Keep
      <4> QED
        BY Zenon, <2>1, <3>3, <4>1, <4>2, <4>3, <4>4 DEF UsageInv
    <3> QED
      BY Zenon, <3>4, <3>5
  <2> QED
    BY Zenon, <2>1, <2>5, <2>6 DEF UsageInv
<1> QED
  BY Zenon, <1>1, <1>2, <1>4, <1>5, <1>6, <1>7, <1>8 DEF UsageNext, Flushing

\* Once no process holds a use of a key, last_used_at shows the latest use
\* that some process noted, for any number of processes and keys, although
\* flushes overlap and fail, provided each process notes a key's uses in the
\* order of their times.
THEOREM UsageRows == UsageSpec => []UsageReported
<1>1. UsageInit => UsageInv
  BY UsageAssumption DEF UsageInit, UsageInv, UsageType, HoldsLatest, Tracker, NoUses, UsedAt
<1>2. UsageInv => UsageReported
  BY UsageAssumption DEF UsageInv, UsageReported, UsageType, Shows, WillShow, UsedAt
<1> QED
  BY <1>1, <1>2, UsageStep, PTL DEF UsageSpec
=============================================================================
