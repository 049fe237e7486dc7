-------------------------- MODULE MCDeliveryQueue --------------------------
(* Small instances of DeliveryQueue for TLC. *)
EXTENDS DeliveryQueue

OneEndpoint == [d \in Delivery |-> "e1"]
TwoEndpoints == [d \in Delivery |-> IF d = 1 THEN "e1" ELSE "e2"]
OneOrganization == [e \in Endpoint |-> "o1"]
=============================================================================
