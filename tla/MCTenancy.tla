------------------------------ MODULE MCTenancy ------------------------------
(* Instances of Tenancy, ApiKeys and AuditTrail for TLC.  They share no state:
   a behaviour belongs to one of them, part, and leaves the others as they
   began. *)
EXTENDS Tenancy, ApiKeys, AuditTrail, TLC

VARIABLE part
mc_vars == <<part, tenancy, key_vars, audit_vars>>

MCListed == <<"members">>
MCTallied == <<"members", "deliveries">>

\* Bound: the audit rows of an export are written one after the other, all at
\* one time, as their order does not matter to it.
OneWriter ==
    /\ audit_clock' = 0
    /\ Cardinality({w \in AuditWriter : audit_writer'[w].at # "idle"}) <= 1

MCInit ==
    /\ part \in {"memberships", "keys", "walk", "export"}
    /\ TenancyInit /\ KeyInit /\ AuditInit

MCNext ==
    \/ part = "memberships" /\ TenancyNext /\ UNCHANGED <<part, key_vars, audit_vars>>
    \/ part = "keys" /\ KeyNext /\ UNCHANGED <<part, tenancy, audit_vars>>
    \/ part = "walk" /\ WalkNext /\ UNCHANGED <<part, tenancy, key_vars>>
    \/ part = "export" /\ ExportNext /\ OneWriter /\ UNCHANGED <<part, tenancy, key_vars>>

MCSpec == MCInit /\ [][MCNext]_mc_vars

\* The calls of one kind are interchangeable, and so are users.
Alike == Permutations(Call) \union Permutations(User) \union Permutations(KeyCall)
=============================================================================
