---------------------------- MODULE WorkerProcess ----------------------------
(* One worker process from its start to its exit: the loop that claims
   deliveries and starts a task for each, the tasks, the lifecycle loop and
   the metrics collector beside it, and the order in which a shutdown ends
   them before it closes the database.

   The process runs on one event loop: a step is what happens between two
   awaits.  What a claim or a delivery does in the database is
   DeliveryQueue's. *)
EXTENDS Naturals, FiniteSets

CONSTANTS
    Work,                \* deliveries the worker can claim
    worker_concurrency,
    worker_batch_size

ASSUME WorkerAssumption ==
    IsFiniteSet(Work) /\ worker_concurrency \in Nat /\ worker_batch_size \in Nat

VARIABLES
    stop,        \* the stop event
    loop,        \* where run_delivery_loop and then run_worker are
    work,        \* where each delivery is
    in_flight,   \* the tasks run_delivery_loop knows of
    lifecycle,   \* lifecycle_task
    collector,   \* the collector's task
    database,
    trouble      \* a call to the database has failed (history)
worker_vars == <<stop, loop, work, in_flight, lifecycle, collector, database, trouble>>

\* lost: the release failed, and only the end of the lease brings it back.
WorkState == {"queued", "leased", "delivering", "releasing", "shielded", "done",
              "released", "lost"}
Settled == {"done", "released", "lost"}

WorkerInit ==
    /\ stop = FALSE /\ loop = "top" /\ in_flight = {}
    /\ work = [d \in Work |-> "queued"]
    /\ lifecycle = "running" /\ collector = "waiting"
    /\ database = "open" /\ trouble = FALSE

At(states) == {d \in Work : work[d] \in states}
Running == At({"delivering", "releasing", "shielded"})

\* SIGINT or SIGTERM.
Signal ==
    /\ ~stop /\ stop' = TRUE
    /\ UNCHANGED <<loop, work, in_flight, lifecycle, collector, database, trouble>>
-----------------------------------------------------------------------------
\* The top of the loop: finished tasks are reaped, and free slots lead to a
\* claim.
Top ==
    /\ loop = "top"
    /\ in_flight' = IF stop THEN in_flight ELSE in_flight \ At(Settled)
    /\ loop' = CASE stop -> "draining"
                 [] ~stop /\ Cardinality(in_flight') < worker_concurrency -> "claiming"
                 [] OTHER -> "waiting"
    /\ UNCHANGED <<stop, work, lifecycle, collector, database, trouble>>

\* How many deliveries the loop asks for.
Asked ==
    LET available == worker_concurrency - Cardinality(in_flight)
    IN  IF worker_batch_size < available THEN worker_batch_size ELSE available

\* claim_due returns: a worker that was told to stop meanwhile gives the
\* claims back, otherwise each gets a task.
ClaimReturns ==
    /\ loop = "claiming"
    /\ \E claims \in SUBSET At({"queued"}) :
          /\ Cardinality(claims) <= Asked
          /\ work' = [d \in Work |->
                IF d \notin claims THEN work[d] ELSE IF stop THEN "leased" ELSE "delivering"]
          /\ in_flight' = IF stop THEN in_flight ELSE in_flight \union claims
          /\ loop' = CASE stop -> "returning"
                       [] ~stop /\ claims # {} -> "top"
                       [] OTHER -> "waiting"
    /\ UNCHANGED <<stop, lifecycle, collector, database, trouble>>

\* An exception of claim_due ends the loop.
ClaimFails ==
    /\ loop = "claiming"
    /\ loop' = "draining" /\ trouble' = TRUE
    /\ UNCHANGED <<stop, work, in_flight, lifecycle, collector, database>>

\* The releases of the claims that came too late, all at once.  The first one
\* that fails ends the wait for them; the others run on.
GiveBack(d) ==
    /\ work[d] = "leased"
    /\ \E result \in IF database = "open" THEN {"released", "lost"} ELSE {"lost"} :
          /\ work' = [work EXCEPT ![d] = result]
          /\ trouble' = (trouble \/ result = "lost")
          /\ loop' = IF loop = "returning" /\ result = "lost" THEN "draining" ELSE loop
    /\ UNCHANGED <<stop, in_flight, lifecycle, collector, database>>

GaveBack ==
    /\ loop = "returning" /\ At({"leased"}) = {}
    /\ loop' = "draining"
    /\ UNCHANGED <<stop, work, in_flight, lifecycle, collector, database, trouble>>

\* A task has finished, the poll interval is over, or the stop event is set.
Wake ==
    /\ loop = "waiting"
    /\ loop' = "top"
    /\ UNCHANGED <<stop, work, in_flight, lifecycle, collector, database, trouble>>
-----------------------------------------------------------------------------
\* _run_claim: the delivery ends, or raises and is released.
Deliver(d) ==
    /\ work[d] = "delivering"
    /\ \E result \in {"done", "releasing"} :
          /\ work' = [work EXCEPT ![d] = result]
          /\ trouble' = (trouble \/ result = "releasing")
    /\ UNCHANGED <<stop, loop, in_flight, lifecycle, collector, database>>

\* release_claim ends, one way or the other.
Release(d) ==
    /\ work[d] \in {"releasing", "shielded"}
    /\ \E result \in {"released", "lost"} :
          /\ work' = [work EXCEPT ![d] = result]
          /\ trouble' = (trouble \/ result = "lost")
    /\ UNCHANGED <<stop, loop, in_flight, lifecycle, collector, database>>
-----------------------------------------------------------------------------
\* The finally clause: the tasks get a grace period.
Drained ==
    /\ loop \in {"draining", "cancelling"}
    /\ in_flight \subseteq At(Settled)
    /\ loop' = "drained" /\ in_flight' = {}
    /\ stop' = TRUE
    /\ UNCHANGED <<work, lifecycle, collector, database, trouble>>

\* The grace period ends: a task that delivers is told to release, shielded
\* from further cancellation; one that was releasing already is cut off.
\* Variants: the tasks may take as long as they like; the loop does not wait
\* for the tasks it has cancelled.
GraceForEver == FALSE
CancelAndLeave ==
    /\ loop = "draining"
    /\ work' = [d \in Work |-> IF d \in in_flight /\ work[d] = "delivering" THEN "shielded"
                               ELSE work[d]]
    /\ loop' = "drained" /\ stop' = TRUE /\ in_flight' = {}
    /\ UNCHANGED <<lifecycle, collector, database, trouble>>
GraceEnds ==
    /\ loop = "draining" /\ ~(in_flight \subseteq At(Settled))
    /\ work' = [d \in Work |->
          IF d \notin in_flight THEN work[d]
          ELSE CASE work[d] = "delivering" -> "shielded"
                 [] work[d] = "releasing" -> "lost"
                 [] OTHER -> work[d]]
    /\ loop' = "cancelling"
    /\ UNCHANGED <<stop, in_flight, lifecycle, collector, database, trouble>>

\* run_lifecycle_loop: a round, which may fail, and a wait that the stop
\* event ends.
LifecycleRound ==
    /\ lifecycle = "running" \/ (lifecycle = "waiting" /\ ~stop)
    /\ lifecycle' = IF lifecycle = "running" THEN "waiting" ELSE "running"
    /\ UNCHANGED <<stop, loop, work, in_flight, collector, database, trouble>>

LifecycleStops ==
    /\ lifecycle = "waiting" /\ stop
    /\ lifecycle' = "ended"
    /\ UNCHANGED <<stop, loop, work, in_flight, collector, database, trouble>>

\* run_worker waits for the lifecycle loop, at most for the grace period,
\* then cancels it.
LifecycleEnded ==
    /\ loop = "drained"
    /\ lifecycle' = "ended" /\ loop' = "closing"
    /\ UNCHANGED <<stop, work, in_flight, collector, database, trouble>>

\* The collector's task: it waits, or reads the queue.
Collect ==
    /\ collector = "collecting" \/ (collector = "waiting" /\ loop # "closing")
    /\ collector' = IF collector = "waiting" THEN "collecting" ELSE "waiting"
    /\ UNCHANGED <<stop, loop, work, in_flight, lifecycle, database, trouble>>

\* collector.stop() waits for the round in progress.
CollectorStops ==
    /\ loop = "closing" /\ collector = "waiting"
    /\ collector' = "ended"
    /\ UNCHANGED <<stop, loop, work, in_flight, lifecycle, database, trouble>>

\* The database is closed last, and the process ends.
CloseDatabase ==
    /\ loop = "closing" /\ collector = "ended"
    /\ database' = "closed" /\ loop' = "closed"
    /\ UNCHANGED <<stop, work, in_flight, lifecycle, collector, trouble>>

LoopStep ==
    \/ Top \/ ClaimReturns \/ ClaimFails \/ GaveBack \/ Wake \/ Drained \/ GraceEnds
    \/ LifecycleEnded \/ CollectorStops \/ CloseDatabase

WorkerNext ==
    \/ Signal \/ LoopStep \/ LifecycleRound \/ LifecycleStops \/ Collect
    \/ \E d \in Work : Deliver(d) \/ Release(d) \/ GiveBack(d)

\* Every wait of the loop has a timeout, and calls to the database return.
\* Nothing is assumed of a delivery: a receiver may keep it for ever.
WorkerFairness ==
    /\ WF_worker_vars(LoopStep)
    /\ WF_worker_vars(collector = "collecting" /\ Collect)
    /\ \A d \in Work : WF_worker_vars(Release(d)) /\ WF_worker_vars(GiveBack(d))

WorkerSpec == WorkerInit /\ [][WorkerNext]_worker_vars /\ WorkerFairness
-----------------------------------------------------------------------------
\* The database outlives its users: when it is closed no task, lifecycle
\* round or collection is in progress, and every delivery the worker had
\* claimed is finished or given back.  A lease is left behind only after a
\* call to the database failed or was cut off.
DatabaseClosedLast ==
    database = "closed" =>
        /\ Running = {} /\ lifecycle = "ended" /\ collector = "ended"
        /\ ~trouble => At({"leased", "lost"}) = {}

\* A worker that is told to stop exits, also when a receiver never answers.
StopEnds == stop ~> loop = "closed"
=============================================================================
