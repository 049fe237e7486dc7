--------------------------- MODULE FairCandidates ---------------------------
(***************************************************************************)
(* The ranking query of app/scheduling.py as pure operators.  The query    *)
(* numbers due deliveries with two window functions and keeps the best     *)
(* ranked; a rank is a count of the rows that sort no later.               *)
(*                                                                         *)
(* due   a set of delivery ids (integers, they break ties)                 *)
(* next  next_attempt_at of each of them                                   *)
(* ep    the endpoint of each of them                                      *)
(* org   the organization of each endpoint                                 *)
(***************************************************************************)
EXTENDS Integers, FiniteSets

MinOf(a, b) == IF a <= b THEN a ELSE b
MaxOf(a, b) == IF a <= b THEN b ELSE a

(* ORDER BY next_attempt_at, id *)
Before(next, x, y) ==
  \/ next[x] < next[y]
  \/ next[x] = next[y] /\ x <= y

(* row_number() OVER (PARTITION BY organization_id, endpoint_id
                      ORDER BY next_attempt_at, id) *)
endpoint_rank(due, next, ep, d) ==
  Cardinality({x \in due : ep[x] = ep[d] /\ Before(next, x, d)})

(* ORDER BY endpoint_rank, next_attempt_at, id *)
BeforeInTenant(due, next, ep, x, y) ==
  LET rx == endpoint_rank(due, next, ep, x)
      ry == endpoint_rank(due, next, ep, y)
  IN  rx < ry \/ (rx = ry /\ Before(next, x, y))

(* row_number() OVER (PARTITION BY organization_id
                      ORDER BY endpoint_rank, next_attempt_at, delivery_id) *)
tenant_rank(due, next, ep, org, d) ==
  Cardinality({x \in due : /\ org[ep[x]] = org[ep[d]]
                           /\ BeforeInTenant(due, next, ep, x, d)})

(* ORDER BY tenant_rank, next_attempt_at, delivery_id *)
BeforeInScan(due, next, ep, org, x, y) ==
  LET rx == tenant_rank(due, next, ep, org, x)
      ry == tenant_rank(due, next, ep, org, y)
  IN  rx < ry \/ (rx = ry /\ Before(next, x, y))

(* WHERE tenant_rank <= per_tenant_limit ... LIMIT scan_limit *)
fair_candidate_ids(due, next, ep, org, per_tenant_limit, scan_limit) ==
  LET ranked == {d \in due : tenant_rank(due, next, ep, org, d)
                               <= per_tenant_limit}
  IN  {d \in ranked :
         Cardinality({x \in ranked : BeforeInScan(due, next, ep, org, x, d)})
           <= scan_limit}
=============================================================================
