---------------------------- MODULE MCAdmission ----------------------------
(* Instances of Admission for TLC. *)
EXTENDS Admission, TLC

SlowRate == [q \in Quota |-> 1]
SmallBurst == [q \in Quota |-> IF q = "delivery" THEN 2 ELSE 1]
FastRate == [q \in Quota |-> 2]
LargeEventBurst == [q \in Quota |-> IF q = "event" THEN 4 ELSE 2]
Alike == Permutations(Request) \union Permutations(Key) \union Permutations(Content)
            \union Permutations(Endpoint)
=============================================================================
