----------------------- MODULE MCOrganizationDeletion -----------------------
(* Instances of OrganizationDeletion for TLC. *)
EXTENDS OrganizationDeletion

\* The deliveries all belong to e1; no endpoint subscribes to e2.
FirstEvent == [d \in Delivery |-> "e1"]
=============================================================================
