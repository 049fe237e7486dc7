----------------------------- MODULE ApiKeyUsage -----------------------------
(* The last use of API keys: each API process collects the uses it accepts in
   memory, and a task of its writes them to the rows of the keys from time to
   time.  The write is one transaction that reads the rows, compares, and
   updates those that are older; two processes may do so at the same time. *)
EXTENDS Naturals, FiniteSets

CONSTANTS
    UsedKey,
    Process,
    max_entries,   \* api_key_usage_max_entries
    MaxUsedAt,     \* bound: times of use
    MaxUses,       \* bound: requests let in
    MaxFlushFails  \* bound: transactions that fail

ASSUME UsageAssumption ==
    /\ IsFiniteSet(UsedKey) /\ max_entries \in Nat /\ MaxUsedAt \in Nat
    /\ MaxUses \in Nat
    /\ MaxFlushFails \in Nat

\* 0 stands for no use.
UsedAt == 0 .. MaxUsedAt
NoUses == [k \in UsedKey |-> 0]

VARIABLES
    last_used,  \* api_keys.last_used_at
    tracker,    \* the trackers: _pending, the flush in progress, the task
    noted,      \* the latest use each process took note of (history)
    late,       \* keys with a use older than one its process had noted (history)
    uses, flush_fails
usage_vars == <<last_used, tracker, noted, late, uses, flush_fails>>

\* task: it runs, has been told to stop, or has ended and the last flush is
\* due; flush: none, the pending uses are taken, or the rows are read.
Tracker ==
    [task : {"running", "stopping", "ended", "closed"},
     flush : {"none", "taken", "read"},
     pending : [UsedKey -> UsedAt], batch : [UsedKey -> UsedAt],
     rows : [UsedKey -> UsedAt]]

Keep(us) == {k \in UsedKey : us[k] # 0}
Later(a, b) == IF a > b THEN a ELSE b
Noting(us, k, used_at) == [us EXCEPT ![k] = Later(@, used_at)]
Merged(us, more) == [k \in UsedKey |-> Later(us[k], more[k])]

UsageInit ==
    /\ last_used = NoUses
    /\ tracker = [p \in Process |->
          [task |-> "running", flush |-> "none", pending |-> NoUses, batch |-> NoUses,
           rows |-> NoUses]]
    /\ noted = [p \in Process |-> NoUses] /\ late = {} /\ uses = 0 /\ flush_fails = 0
-----------------------------------------------------------------------------
\* record: a key that is not pending yet needs room.
record(p, k, used_at) ==
    LET t == tracker[p]
        room == t.pending[k] # 0 \/ Cardinality(Keep(t.pending)) < max_entries
    IN  /\ t.task \in {"running", "stopping"} /\ uses < MaxUses
        /\ uses' = uses + 1
        /\ tracker' = IF room
                      THEN [tracker EXCEPT ![p].pending = Noting(t.pending, k, used_at)]
                      ELSE tracker
        /\ noted' = IF room THEN [noted EXCEPT ![p] = Noting(@, k, used_at)] ELSE noted
        /\ late' = IF room /\ used_at < noted[p][k] THEN late \union {k} ELSE late
        /\ UNCHANGED <<last_used, flush_fails>>

\* flush: take what is pending.  The task does so until it is told to stop,
\* stop() once more when the task has ended.
TakePending(p) ==
    /\ tracker[p].task \in {"running", "ended"} /\ tracker[p].flush = "none"
    /\ Keep(tracker[p].pending) # {}
    /\ tracker' = [tracker EXCEPT ![p].flush = "taken", ![p].batch = tracker[p].pending,
                                  ![p].pending = NoUses]
    /\ UNCHANGED <<last_used, noted, late, uses, flush_fails>>

\* The task after a flush: the flush of stop() is the last.
AfterFlush(task) == IF task = "ended" THEN "closed" ELSE task

ReadRows(p) ==
    /\ tracker[p].flush = "taken"
    /\ tracker' = [tracker EXCEPT ![p].flush = "read", ![p].rows = last_used]
    /\ UNCHANGED <<last_used, noted, late, uses, flush_fails>>

\* The rows the flush updates: those it read as older.
Stale(p) == {k \in Keep(tracker[p].batch) : tracker[p].rows[k] < tracker[p].batch[k]}

WriteRows(p) ==
    /\ tracker[p].flush = "read"
    /\ last_used' = [k \in UsedKey |->
          IF k \in Stale(p) THEN tracker[p].batch[k] ELSE last_used[k]]
    /\ tracker' = [tracker EXCEPT ![p].flush = "none", ![p].batch = NoUses,
                                  ![p].rows = NoUses, ![p].task = AfterFlush(@)]
    /\ UNCHANGED <<noted, late, uses, flush_fails>>

\* The transaction fails: the batch becomes pending again.  Variants: the
\* batch is forgotten; the exception ends the task.
FailFlushForgets(p) ==
    /\ tracker[p].flush # "none" /\ flush_fails < MaxFlushFails
    /\ tracker' = [tracker EXCEPT ![p].flush = "none", ![p].batch = NoUses,
                      ![p].rows = NoUses, ![p].task = AfterFlush(@)]
    /\ flush_fails' = flush_fails + 1
    /\ UNCHANGED <<last_used, noted, late, uses>>
FailFlushEndsTask(p) ==
    /\ tracker[p].flush # "none" /\ flush_fails < MaxFlushFails
    /\ tracker' = [tracker EXCEPT ![p].flush = "none", ![p].batch = NoUses,
                      ![p].rows = NoUses, ![p].pending = Merged(@, tracker[p].batch),
                      ![p].task = "failed"]
    /\ flush_fails' = flush_fails + 1
    /\ UNCHANGED <<last_used, noted, late, uses>>
FailFlush(p) ==
    /\ tracker[p].flush # "none" /\ flush_fails < MaxFlushFails
    /\ tracker' = [tracker EXCEPT ![p].flush = "none", ![p].batch = NoUses,
                      ![p].rows = NoUses, ![p].pending = Merged(@, tracker[p].batch),
                      ![p].task = AfterFlush(@)]
    /\ flush_fails' = flush_fails + 1
    /\ UNCHANGED <<last_used, noted, late, uses>>

\* stop: the task is told to stop, and ends when no flush is in progress.
StopTracker(p) ==
    /\ tracker[p].task = "running"
    /\ tracker' = [tracker EXCEPT ![p].task = "stopping"]
    /\ UNCHANGED <<last_used, noted, late, uses, flush_fails>>

TaskEnds(p) ==
    /\ tracker[p].task = "stopping" /\ tracker[p].flush = "none"
    /\ tracker' = [tracker EXCEPT ![p].task =
          IF Keep(tracker[p].pending) = {} THEN "closed" ELSE "ended"]
    /\ UNCHANGED <<last_used, noted, late, uses, flush_fails>>

Flushing(p) == TakePending(p) \/ ReadRows(p) \/ WriteRows(p) \/ FailFlush(p)

UsageNext ==
    \E p \in Process :
        \/ Flushing(p) \/ StopTracker(p) \/ TaskEnds(p)
        \/ \E k \in UsedKey, t \in 1 .. MaxUsedAt : record(p, k, t)

\* The interval timer wakes the task up, and a transaction ends.
UsageFairness == \A p \in Process : WF_usage_vars(Flushing(p)) /\ WF_usage_vars(TaskEnds(p))

UsageSpec == UsageInit /\ [][UsageNext]_usage_vars /\ UsageFairness
-----------------------------------------------------------------------------
\* Once no process holds a use of a key, the row shows the latest use that
\* some process noted, provided each noted the key's uses in the order of
\* their times: flushes that overlap can show the one of another process,
\* never an older one of their own, and a flush that failed loses nothing.
\* (A use carries the time its request's transaction began, so one process
\* may note a late one after a flush; that one can then be shown instead.)
UsageReported ==
    \A k \in UsedKey :
        (/\ \A p \in Process : tracker[p].pending[k] = 0 /\ tracker[p].batch[k] = 0
         /\ k \notin late
         /\ \E p \in Process : noted[p][k] # 0)
        => \E p \in Process : noted[p][k] # 0 /\ last_used[k] = noted[p][k]

\* A use that was noted reaches the row, or a later one does, although
\* flushes fail, unless the process stops and its last flush is the one that
\* fails.
UsageFlushed ==
    \A p \in Process, k \in UsedKey, t \in 1 .. MaxUsedAt :
        tracker[p].pending[k] = t ~> last_used[k] >= t \/ tracker[p].task = "closed"
=============================================================================
