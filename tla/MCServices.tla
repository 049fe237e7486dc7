------------------------------ MODULE MCServices ------------------------------
(* Instances of the smaller components for TLC.  They share no state: a
   behaviour belongs to one of them, part, and leaves the others as they
   began. *)
EXTENDS Retention, ApiKeyUsage, WorkerProcess, LoginThrottle, RateLimiter, Receiver,
        Accounts

VARIABLE part
mc_vars == <<part, retention_vars, usage_vars, worker_vars, login_vars, rate_vars, receiver_vars,
             account_vars>>

\* Bound: no response has a body where only the deliveries matter.
NoBodies == \A d \in Letter : letter'[d].body = "none"

MCInit ==
    /\ part \in {"erase", "dead", "usage", "worker", "login", "rate", "receiver", "accounts"}
    /\ RetentionInit /\ UsageInit /\ WorkerInit /\ LoginInit /\ RateInit /\ ReceiverInit
    /\ AccountsInit
    /\ part # "erase" => policy.days = CHOOSE n \in response_days : TRUE
    /\ part # "receiver" => secret = "legacy"
    /\ \A u \in DOMAIN users : users[u].email.box = CHOOSE b \in Mailbox : TRUE

MCNext ==
    /\ UNCHANGED part
    /\ \/ part = "erase" /\ EraseNext
       \/ part = "dead" /\ DeadNext /\ NoBodies
       \/ part \notin {"erase", "dead"} /\ UNCHANGED retention_vars
    /\ \/ part = "usage" /\ UsageNext
       \/ part # "usage" /\ UNCHANGED usage_vars
    /\ \/ part = "worker" /\ WorkerNext
       \/ part # "worker" /\ UNCHANGED worker_vars
    /\ \/ part = "login" /\ LoginNext
       \/ part # "login" /\ UNCHANGED login_vars
    /\ \/ part = "rate" /\ RateNext
       \/ part # "rate" /\ UNCHANGED rate_vars
    /\ \/ part = "receiver" /\ ReceiverNext
       \/ part # "receiver" /\ UNCHANGED receiver_vars
    /\ \/ part = "accounts" /\ AccountsNext
       \/ part # "accounts" /\ UNCHANGED account_vars

\* RetentionFairness, UsageFairness and WorkerFairness, each asked of the
\* behaviours of its own component.
MCFairness ==
    /\ \A j \in Janitor :
          /\ WF_retention_vars(part = "erase" /\ SelectResponses(j))
          /\ WF_retention_vars(part = "erase" /\ EraseResponses(j))
    /\ \A p \in Process :
          /\ WF_usage_vars(part = "usage" /\ Flushing(p))
          /\ WF_usage_vars(part = "usage" /\ TaskEnds(p))
    /\ WF_worker_vars(part = "worker" /\ LoopStep)
    /\ WF_worker_vars(part = "worker" /\ collector = "collecting" /\ Collect)
    /\ \A d \in Work :
          /\ WF_worker_vars(part = "worker" /\ Release(d))
          /\ WF_worker_vars(part = "worker" /\ GiveBack(d))

MCSpec == MCInit /\ [][MCNext]_mc_vars /\ MCFairness
=============================================================================
