--------------------------- MODULE OutboxContract ---------------------------
(***************************************************************************)
(* What the transactional outbox promises its application: a message that  *)
(* was enqueued is published at least once under its key, it is reported   *)
(* sent only after the platform has its event, and what was reported,      *)
(* sent or failed, is never taken back.                                    *)
(***************************************************************************)
CONSTANT Message

VARIABLES
    status,      \* what the outbox reports for each message
    accepted     \* messages whose event the platform has stored

vars == <<status, accepted>>

Init ==
    /\ status = [m \in Message |-> "absent"]
    /\ accepted = {}

Enqueue(m) ==
    /\ status[m] = "absent"
    /\ status' = [status EXCEPT ![m] = "queued"]
    /\ UNCHANGED accepted

\* The platform stores an event once; a repeated key is the same event.
Publish(m) ==
    /\ status[m] # "absent"
    /\ accepted' = accepted \union {m}
    /\ UNCHANGED status

Confirm(m) ==
    /\ status[m] = "queued" /\ m \in accepted
    /\ status' = [status EXCEPT ![m] = "sent"]
    /\ UNCHANGED accepted

GiveUp(m) ==
    /\ status[m] = "queued"
    /\ status' = [status EXCEPT ![m] = "failed"]
    /\ UNCHANGED accepted

Next == \E m \in Message : Enqueue(m) \/ Publish(m) \/ Confirm(m) \/ GiveUp(m)

Spec == Init /\ [][Next]_vars
=============================================================================
