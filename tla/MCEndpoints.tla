----------------------------- MODULE MCEndpoints -----------------------------
(* Instances of Endpoints for TLC. *)
EXTENDS Endpoints, TLC

\* Calls are interchangeable, and so are endpoints.
Alike == Permutations(Request) \union Permutations(Endpoint)
=============================================================================
