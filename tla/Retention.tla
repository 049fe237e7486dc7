------------------------------- MODULE Retention -------------------------------
(* What happens to the deliveries of a project once they have ended: the
   maintenance of the worker processes erases response bodies as the
   organization's policy says, operators purge old deliveries, and a client
   walks the dead ones by offset.

   A delivery has one attempt.  Its end carries the time its transaction began
   and is visible at the commit.  Retention periods are in units of the
   clock. *)
EXTENDS Integers, FiniteSets

CONSTANTS
    Letter,          \* deliveries, by id
    Janitor,         \* worker processes that run the maintenance
    Purger,          \* calls of the purge
    response_days,   \* values of response_retention_days
    delivery_days,   \* delivery_retention_days
    purge_batch,     \* delivery_purge_batch_size
    cleanup_batch,   \* lifecycle_cleanup_batch_size
    dead_page,       \* limit of a page of dead deliveries
    MaxEndAge,       \* bound: age of a transaction that ends a delivery
    MaxPolicies,     \* bound: changes of the policy
    MaxRollbacks,    \* bound: maintenance transactions that fail
    MaxKeepTime      \* bound: the clock

ASSUME RetentionAssumption ==
    /\ IsFiniteSet(Letter) /\ Letter \subseteq Nat /\ response_days \subseteq Nat
    /\ response_days # {} /\ delivery_days \in Nat /\ purge_batch \in Nat \ {0}
    /\ cleanup_batch \in Nat \ {0} /\ dead_page \in Nat \ {0}

VARIABLES
    letter,       \* deliveries and the response of their attempt
    policy,       \* response_retention_days, and how often it changed
    janitor,      \* rows a maintenance transaction has locked
    rollbacks,
    purger,       \* ids a purge has selected
    dead_walk,    \* the client's walk
    keep_clock
retention_vars == <<letter, policy, janitor, rollbacks, purger, dead_walk, keep_clock>>

Open == [status |-> "open", at |-> 0, body |-> "none", purged_at |-> 0]
IdleJanitor == [at |-> "idle", now |-> 0, rows |-> {}]
NoDeadWalk == [at |-> "idle", offset |-> 0, seen |-> {}, old |-> {}]

RetentionInit ==
    /\ letter = [d \in Letter |-> Open]
    /\ \E n \in response_days : policy = [days |-> n, changes |-> 0]
    /\ janitor = [j \in Janitor |-> IdleJanitor] /\ rollbacks = 0
    /\ purger = [p \in Purger |-> [at |-> "idle", ids |-> {}]]
    /\ dead_walk = NoDeadWalk /\ keep_clock = 0

\* A delivery ends, with the body of a response or without.
EndDelivery(d) ==
    /\ letter[d].status = "open"
    /\ \E status \in {"succeeded", "dead"}, body \in {"none", "kept"}, age \in 0 .. MaxEndAge :
          /\ age <= keep_clock
          /\ letter' = [letter EXCEPT ![d] = [status |-> status, at |-> keep_clock - age,
                                              body |-> body, purged_at |-> 0]]
    /\ UNCHANGED <<policy, janitor, rollbacks, purger, dead_walk, keep_clock>>

\* update_policy, with the policy row locked to its commit.
update_policy ==
    /\ policy.changes < MaxPolicies
    /\ \E n \in response_days \ {policy.days} :
          policy' = [days |-> n, changes |-> policy.changes + 1]
    /\ UNCHANGED <<letter, janitor, rollbacks, purger, dead_walk, keep_clock>>
-----------------------------------------------------------------------------
(* _purge_responses *)

\* The first n of a set of deliveries, by their end and id.
Earlier(c, d) == letter[c].at < letter[d].at \/ (letter[c].at = letter[d].at /\ c < d)
FirstOf(ds, n) == {d \in ds : Cardinality({c \in ds : Earlier(c, d)}) < n}

Ended(d) == letter[d].status \notin {"open", "gone"}
expired_by_policy(d) == Ended(d) /\ letter[d].at + policy.days <= keep_clock

\* _claim_rows skips the rows another transaction has locked.
Claimable(d) == \A j \in Janitor : d \notin janitor[j].rows

\* The rows of a transaction: expired, with a body left to erase, up to the
\* size of a batch.  Variant: the batch is cut before the bodies are looked at.
CutThenFilter ==
    {d \in FirstOf({c \in Letter : expired_by_policy(c)}, cleanup_batch) :
        letter[d].body = "kept" /\ Claimable(d)}
Batch ==
    FirstOf({d \in Letter : expired_by_policy(d) /\ letter[d].body = "kept" /\ Claimable(d)},
            cleanup_batch)

SelectResponses(j) ==
    /\ janitor[j].at = "idle" /\ Batch # {}
    /\ janitor' = [janitor EXCEPT ![j] = [at |-> "locked", now |-> keep_clock, rows |-> Batch]]
    /\ UNCHANGED <<letter, policy, rollbacks, purger, dead_walk, keep_clock>>

EraseResponses(j) ==
    /\ janitor[j].at = "locked"
    /\ letter' = [d \in Letter |->
                    IF d \in janitor[j].rows
                    THEN [letter[d] EXCEPT !.body = "erased", !.purged_at = janitor[j].now]
                    ELSE letter[d]]
    /\ janitor' = [janitor EXCEPT ![j] = IdleJanitor]
    /\ UNCHANGED <<policy, rollbacks, purger, dead_walk, keep_clock>>

RollBackJanitor(j) ==
    /\ janitor[j].at = "locked" /\ rollbacks < MaxRollbacks
    /\ janitor' = [janitor EXCEPT ![j] = IdleJanitor]
    /\ rollbacks' = rollbacks + 1
    /\ UNCHANGED <<letter, policy, purger, dead_walk, keep_clock>>
-----------------------------------------------------------------------------
(* purge_terminal_deliveries *)

\* Deliveries old enough to go.  Variant: whatever their status.
OldAtAll(d) == letter[d].status # "gone" /\ letter[d].at + delivery_days <= keep_clock
OldEnough(d) == Ended(d) /\ letter[d].at + delivery_days <= keep_clock

SelectEligible(p) ==
    /\ purger[p].at = "idle"
    /\ LET eligible == {d \in Letter : OldEnough(d)}
       IN  purger' = [purger EXCEPT ![p] =
              [at |-> "selected",
               ids |-> {d \in eligible : Cardinality({c \in eligible : c < d}) < purge_batch}]]
    /\ UNCHANGED <<letter, policy, janitor, rollbacks, dead_walk, keep_clock>>

\* A dry run deletes nothing.
DryRun(p) ==
    /\ purger[p].at = "selected"
    /\ purger' = [purger EXCEPT ![p] = [at |-> "done", ids |-> {}]]
    /\ UNCHANGED <<letter, policy, janitor, rollbacks, dead_walk, keep_clock>>

\* The rows are deleted by id, with their attempts, and wait for their locks.
DeleteEligible(p) ==
    /\ purger[p].at = "selected"
    /\ \A j \in Janitor : purger[p].ids \cap janitor[j].rows = {}
    /\ letter' = [d \in Letter |-> IF d \in purger[p].ids
                                   THEN [Open EXCEPT !.status = "gone"] ELSE letter[d]]
    /\ purger' = [purger EXCEPT ![p] = [at |-> "done", ids |-> {}]]
    /\ UNCHANGED <<policy, janitor, rollbacks, dead_walk, keep_clock>>
-----------------------------------------------------------------------------
(* list_dead_deliveries *)

\* A page: dead deliveries, latest first.  Variant: the page is cut before
\* those that are not dead are left out.
Page(ds, offset) ==
    {d \in ds : LET before == Cardinality({c \in ds : Earlier(d, c)})
                IN  offset <= before /\ before < offset + dead_page}
PageThenFilter(offset) ==
    {d \in Page({c \in Letter : letter[c].status # "gone"}, offset) : letter[d].status = "dead"}
dead_deliveries(offset) == Page({d \in Letter : letter[d].status = "dead"}, offset)

StartDeadWalk ==
    /\ dead_walk.at = "idle"
    /\ dead_walk' = [NoDeadWalk EXCEPT !.at = "walking",
                                       !.old = {d \in Letter : letter[d].status = "dead"}]
    /\ UNCHANGED <<letter, policy, janitor, rollbacks, purger, keep_clock>>

\* A page is read.  A short one is the last.
DeadPage ==
    /\ dead_walk.at = "walking"
    /\ LET page == dead_deliveries(dead_walk.offset)
       IN  dead_walk' = [dead_walk EXCEPT !.offset = @ + dead_page, !.seen = @ \cup page,
              !.at = IF Cardinality(page) = dead_page THEN "walking" ELSE "done"]
    /\ UNCHANGED <<letter, policy, janitor, rollbacks, purger, keep_clock>>

KeepTick ==
    /\ keep_clock < MaxKeepTime
    /\ keep_clock' = keep_clock + 1
    /\ UNCHANGED <<letter, policy, janitor, rollbacks, purger, dead_walk>>
-----------------------------------------------------------------------------
EndsAndPurges ==
    \/ KeepTick
    \/ \E d \in Letter : EndDelivery(d)
    \/ \E p \in Purger : SelectEligible(p) \/ DryRun(p) \/ DeleteEligible(p)
EraseNext ==
    \/ EndsAndPurges \/ update_policy
    \/ \E j \in Janitor : SelectResponses(j) \/ EraseResponses(j) \/ RollBackJanitor(j)
DeadNext == EndsAndPurges \/ StartDeadWalk \/ DeadPage

\* run_lifecycle_loop repeats the maintenance in every worker process, and a
\* transaction ends.
RetentionFairness ==
    \A j \in Janitor :
        /\ WF_retention_vars(SelectResponses(j))
        /\ WF_retention_vars(EraseResponses(j))

RetentionSpec == RetentionInit /\ [][EraseNext \/ DeadNext]_retention_vars /\ RetentionFairness

Overdue(d) == letter[d].body = "kept" /\ letter[d].at + policy.days <= keep_clock

\* Every body that outlives the policy is erased in the end, unless the policy
\* is changed to keep it: batches are filled with rows that have work left,
\* and a transaction that fails gives its rows back.
ResponsesErased == \A d \in Letter : Overdue(d) ~> ~Overdue(d)

\* A purge deletes no delivery that has not ended, and none before its
\* retention period is over, although it deletes by ids it selected without a
\* lock.
KeptLongEnough ==
    [][\A d \in Letter :
          letter'[d].status = "gone" /\ letter[d].status # "gone" =>
              /\ letter[d].status \in {"succeeded", "dead"}
              /\ letter[d].at + delivery_days <= keep_clock]_retention_vars

\* A walk by offset over the dead deliveries returns each one that was dead
\* when it began and is not purged before it ends, as long as no purge runs:
\* deliveries that die meanwhile only move the rest back.
DeadWalkComplete ==
    dead_walk.at = "done" /\ (\A d \in Letter : letter[d].status # "gone") =>
        dead_walk.old \subseteq dead_walk.seen
=============================================================================
