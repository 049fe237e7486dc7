------------------------------ MODULE MCOutbox ------------------------------
(* Instances of Outbox for TLC. *)
EXTENDS Outbox

Skewed == [r \in Relay |-> IF r = CHOOSE x \in Relay : TRUE THEN 1 ELSE 0]
=============================================================================
