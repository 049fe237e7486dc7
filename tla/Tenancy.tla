------------------------------- MODULE Tenancy -------------------------------
(* Memberships of one organization and of one of its projects: who may change
   them, the row locks the changes take, and the audit rows they leave.

   A call is one transaction.  It is split where the statements of another
   call can come between its own: after the permission check, at each row
   lock, and between the two deletions of remove_member.  A call that is
   refused leaves no trace, so only its return to idle is shown.  The
   organization is active throughout; its deletion is OrganizationDeletion. *)
EXTENDS Naturals, Sequences, FiniteSets, FiniteSetsExt

CONSTANTS
    User,
    Call,        \* requests that can be in progress together
    NULL,
    Granted,     \* the project roles that calls assign
    MaxCalls     \* bound: calls made

OrganizationRole == {"owner", "admin", "member"}
ProjectRole == {"admin", "operator", "viewer"}

ASSUME TenancyAssumption ==
    /\ NULL \notin User /\ NULL \notin OrganizationRole \union ProjectRole
    /\ Granted \subseteq ProjectRole /\ MaxCalls \in Nat
    /\ IsFiniteSet(User)

VARIABLES
    account,       \* users: is_active, or deleted
    role,          \* organization_members: the role of each user
    project,       \* the project
    project_role,  \* project_members: the role of each user
    call,          \* calls in progress
    audit,         \* administrative_audit_events of memberships, oldest first
    loose,         \* users whose project_members row was inserted without a
                   \* lock on their membership (history)
    calls          \* calls made
tenancy == <<account, role, project, project_role, call, audit, loose, calls>>

Op == {"add_member", "update_member", "remove_member", "create_project",
       "deactivate_project", "add_project_member", "upsert_project_member",
       "update_project_member", "remove_project_member"}

Stage == {"idle", "authorized", "checked", "locked", "counting", "ready", "swept"}

CallRow ==
    [at : Stage, op : Op, caller : User \union {NULL}, target : User \union {NULL},
     to : OrganizationRole \union ProjectRole \union {NULL},
     locks : SUBSET User,   \* users whose organization_members row it locks
     seen : SUBSET User,    \* the owners when it began to lock them
     swept : BOOLEAN]       \* it has deleted the target's project_members row

AuditRow ==
    [user : User, previous : OrganizationRole \union {NULL},
     current : OrganizationRole \union {NULL}]

TenancyTypeOK ==
    /\ account \in [User -> {"active", "inactive", "deleted"}]
    /\ role \in [User -> OrganizationRole \union {NULL}]
    /\ project \in {"none", "active", "inactive"}
    /\ project_role \in [User -> ProjectRole \union {NULL}]
    /\ call \in [Call -> CallRow]
    /\ audit \in Seq(AuditRow)
    /\ loose \subseteq User
    /\ calls \in Nat

\* A connection that serves no call.
NoTenancyCall ==
    [at |-> "idle", op |-> "add_member", caller |-> NULL, target |-> NULL,
     to |-> NULL, locks |-> {}, seen |-> {}, swept |-> FALSE]

TenancyInit ==
    /\ account = [u \in User |-> "active"]
    /\ role = [u \in User |-> NULL]
    /\ project = "none"
    /\ project_role = [u \in User |-> NULL]
    /\ call = [c \in Call |-> NoTenancyCall]
    /\ audit = <<>> /\ loose = {} /\ calls = 0
-----------------------------------------------------------------------------
\* Permissions.  Those that no call of this module asks for are left out.
OrganizationPermissions(r) ==
    IF r \in {"owner", "admin"}
    THEN {"org:read", "member:manage", "project:read", "project:manage"}
    ELSE {"org:read"}

ProjectPermissions(r) ==
    IF r = "admin" THEN {"project:read", "project:manage"} ELSE {"project:read"}

authorize_organization(u, permission) ==
    role[u] # NULL /\ permission \in OrganizationPermissions(role[u])

\* Owners and administrators need no project role.
authorize_project(u, permission) ==
    /\ project # "none" /\ role[u] # NULL
    /\ \/ role[u] \in {"owner", "admin"}
       \/ /\ project_role[u] # NULL
          /\ permission \in ProjectPermissions(project_role[u])

MemberOps == {"add_member", "update_member", "remove_member"}
ProjectOps == Op \ (MemberOps \union {"create_project"})

Authorized(op, u) ==
    \/ op \in MemberOps /\ authorize_organization(u, "member:manage")
    \/ op = "create_project" /\ authorize_organization(u, "project:manage")
    \/ op \in ProjectOps /\ authorize_project(u, "project:manage")
-----------------------------------------------------------------------------
Owners == {u \in User : role[u] = "owner"}

\* The organization_members row of u is free for call c.
RowFree(c, u) == \A d \in Call \ {c} : u \notin call[d].locks

\* The project_members row of u is not about to be deleted by another call.
ProjectRowFree(c, u) ==
    \A d \in Call \ {c} : ~(call[d].swept /\ call[d].target = u)

Recorded(u, previous, current) ==
    Append(audit, [user |-> u, previous |-> previous, current |-> current])

End(c) == call' = [call EXCEPT ![c] = NoTenancyCall]
GoTo(c, stage) == call' = [call EXCEPT ![c].at = stage]

\* create_organization: its creator becomes the first owner.
CreateOrganization(u) ==
    /\ account[u] = "active" /\ audit = <<>>
    /\ role' = [role EXCEPT ![u] = "owner"]
    /\ audit' = Recorded(u, NULL, "owner")
    /\ UNCHANGED <<account, project, project_role, call, loose, calls>>

\* The role a call names, where it names one.
Named(op) ==
    CASE op \in {"add_member", "update_member"} -> OrganizationRole
      [] op \in {"add_project_member", "upsert_project_member",
                "update_project_member"} -> Granted
      [] OTHER -> {NULL}

\* The user a call by u is about.
Targets(op, u) == IF op \in {"create_project", "deactivate_project"} THEN {u} ELSE User

\* An active user's call passes its permission check.
BeginCall(c, op, u, target, to) ==
    /\ call[c].at = "idle" /\ calls < MaxCalls
    /\ account[u] = "active"
    /\ Authorized(op, u)
    /\ call' = [call EXCEPT ![c] =
          [at |-> "authorized", op |-> op, caller |-> u, target |-> target,
           to |-> to, locks |-> {}, seen |-> {}, swept |-> FALSE]]
    /\ calls' = calls + 1
    /\ UNCHANGED <<account, role, project, project_role, audit, loose>>

\* A refusal, a constraint violation, a lost connection, or the choice of the
\* database between calls that wait for each other.
AbortCall(c) ==
    /\ call[c].at # "idle"
    /\ End(c)
    /\ UNCHANGED <<account, role, project, project_role, audit, loose, calls>>
-----------------------------------------------------------------------------
\* _require_owner_for_owner_change: the caller's role is read without a lock.
OwnerChangeAllowed(c, roles) ==
    "owner" \in roles => role[call[c].caller] = "owner"

\* add_member up to its insertion.
CheckNewMember(c) ==
    LET t == call[c].target
    IN  /\ call[c].at = "authorized" /\ call[c].op = "add_member"
        /\ OwnerChangeAllowed(c, {call[c].to})
        /\ account[t] # "deleted" /\ role[t] = NULL
        /\ GoTo(c, "checked")
        /\ UNCHANGED <<account, role, project, project_role, audit, loose, calls>>

\* The insertion: a unique constraint and the user's foreign key.
\* Variant: nothing but the check before keeps a user from being added twice.
InsertMemberAgain(c) ==
    LET t == call[c].target
    IN  /\ call[c].at = "checked" /\ call[c].op = "add_member"
        /\ account[t] # "deleted"
        /\ role' = [role EXCEPT ![t] = call[c].to]
        /\ audit' = Recorded(t, NULL, call[c].to)
        /\ End(c)
        /\ UNCHANGED <<account, project, project_role, loose, calls>>
InsertMember(c) ==
    LET t == call[c].target
    IN  /\ call[c].at = "checked" /\ call[c].op = "add_member"
        /\ account[t] # "deleted" /\ role[t] = NULL
        /\ role' = [role EXCEPT ![t] = call[c].to]
        /\ audit' = Recorded(t, NULL, call[c].to)
        /\ End(c)
        /\ UNCHANGED <<account, project, project_role, loose, calls>>

\* The calls that read the target's membership with FOR UPDATE.
LockingOps == {"update_member", "remove_member", "upsert_project_member"}

\* The rows the read locks.  Variant: the upsert only looks.
MemberLocksOfChanges(c) ==
    IF call[c].op = "upsert_project_member" THEN {} ELSE {call[c].target}
MemberLocks(c) == {call[c].target}

\* SELECT ... FOR UPDATE of the target's membership.
LockMember(c) ==
    LET t == call[c].target
    IN  /\ call[c].at = "authorized" /\ call[c].op \in LockingOps
        /\ RowFree(c, t) /\ role[t] # NULL
        /\ call' = [call EXCEPT ![c].at = "locked", ![c].locks = MemberLocks(c)]
        /\ UNCHANGED <<account, role, project, project_role, audit, loose, calls>>

\* The role a member has after the call.
NewRole(c) == IF call[c].op = "remove_member" THEN NULL ELSE call[c].to

\* The call may take the last owner away.
NeedsAnotherOwner(c) == role[call[c].target] = "owner" /\ NewRole(c) # "owner"

\* The owner checks of update_member and remove_member.
RequireOwner(c) ==
    /\ call[c].at = "locked" /\ call[c].op \in {"update_member", "remove_member"}
    /\ OwnerChangeAllowed(c, {role[call[c].target], NewRole(c)})
    /\ call' = [call EXCEPT
          ![c].at = IF NeedsAnotherOwner(c) THEN "counting" ELSE "ready",
          ![c].seen = Owners]
    /\ UNCHANGED <<account, role, project, project_role, audit, loose, calls>>

\* Who is counted: rows are looked at again once their lock is granted.
\* Variant: as they were when the statement began.
SeenOwners(c) == call[c].seen
LockedOwners(c) == {u \in call[c].seen : role[u] = "owner"}

\* _ensure_not_last_owner: all owners are locked and counted.
LockOwners(c) ==
    /\ call[c].at = "counting"
    /\ \A u \in call[c].seen : RowFree(c, u)
    /\ Cardinality(LockedOwners(c)) > 1
    /\ call' = [call EXCEPT ![c].at = "ready", ![c].locks = @ \union LockedOwners(c)]
    /\ UNCHANGED <<account, role, project, project_role, audit, loose, calls>>

\* update_member writes and commits.
UpdateMember(c) ==
    LET t == call[c].target
    IN  /\ call[c].at = "ready" /\ call[c].op = "update_member"
        /\ role' = [role EXCEPT ![t] = call[c].to]
        /\ audit' = Recorded(t, role[t], call[c].to)
        /\ End(c)
        /\ UNCHANGED <<account, project, project_role, loose, calls>>

\* remove_member deletes the project roles it sees.
SweepProjectRoles(c) ==
    LET t == call[c].target
    IN  /\ call[c].at = "ready" /\ call[c].op = "remove_member"
        /\ ProjectRowFree(c, t)
        /\ call' = [call EXCEPT ![c].at = "swept", ![c].swept = project_role[t] # NULL]
        /\ UNCHANGED <<account, role, project, project_role, audit, loose, calls>>

\* remove_member deletes the membership and commits.
RemoveMember(c) ==
    LET t == call[c].target
    IN  /\ call[c].at = "swept"
        /\ role' = [role EXCEPT ![t] = NULL]
        /\ project_role' = IF call[c].swept
                           THEN [project_role EXCEPT ![t] = NULL] ELSE project_role
        /\ audit' = Recorded(t, role[t], NULL)
        /\ End(c)
        /\ UNCHANGED <<account, project, loose, calls>>
-----------------------------------------------------------------------------
\* create_project: the creator becomes a project administrator.
CreateProject(c) ==
    LET u == call[c].caller
    IN  /\ call[c].at = "authorized" /\ call[c].op = "create_project"
        /\ project = "none" /\ account[u] # "deleted"
        /\ project' = "active"
        /\ project_role' = [project_role EXCEPT ![u] = "admin"]
        /\ loose' = loose \union {u}
        /\ End(c)
        /\ UNCHANGED <<account, role, audit, calls>>

\* deactivate_project.
DeactivateProject(c) ==
    /\ call[c].at = "authorized" /\ call[c].op = "deactivate_project"
    /\ project' = "inactive"
    /\ End(c)
    /\ UNCHANGED <<account, role, project_role, audit, loose, calls>>

\* add_project_member reads the membership without a lock.
CheckProjectMember(c) ==
    LET t == call[c].target
    IN  /\ call[c].at = "authorized" /\ call[c].op = "add_project_member"
        /\ role[t] # NULL /\ project_role[t] = NULL
        /\ GoTo(c, "checked")
        /\ UNCHANGED <<account, role, project, project_role, audit, loose, calls>>

InsertProjectMember(c) ==
    LET t == call[c].target
    IN  /\ call[c].at = "checked" /\ call[c].op = "add_project_member"
        /\ project_role[t] = NULL /\ account[t] # "deleted"
        /\ project_role' = [project_role EXCEPT ![t] = call[c].to]
        /\ loose' = loose \union {t}
        /\ End(c)
        /\ UNCHANGED <<account, role, project, audit, calls>>

\* upsert_project_member holds the lock on the membership.
UpsertProjectMember(c) ==
    LET t == call[c].target
    IN  /\ call[c].at = "locked" /\ call[c].op = "upsert_project_member"
        /\ ProjectRowFree(c, t)
        /\ project_role' = [project_role EXCEPT ![t] = call[c].to]
        /\ loose' = IF project_role[t] = NULL THEN loose \ {t} ELSE loose
        /\ End(c)
        /\ UNCHANGED <<account, role, project, audit, calls>>

\* update_project_member and remove_project_member lock the row they change.
ChangeProjectMember(c) ==
    LET t == call[c].target
    IN  /\ call[c].at = "authorized"
        /\ call[c].op \in {"update_project_member", "remove_project_member"}
        /\ ProjectRowFree(c, t) /\ project_role[t] # NULL
        /\ project_role' = [project_role EXCEPT ![t] =
              IF call[c].op = "remove_project_member" THEN NULL ELSE call[c].to]
        /\ End(c)
        /\ UNCHANGED <<account, role, project, audit, loose, calls>>
-----------------------------------------------------------------------------
\* UserService.deactivate, of one's own account.
DeactivateUser(u) ==
    /\ account[u] = "active"
    /\ account' = [account EXCEPT ![u] = "inactive"]
    /\ UNCHANGED <<role, project, project_role, call, audit, loose, calls>>

\* UserService.delete, of one's own account: the database deletes the user's
\* memberships along with it and waits for the locks of their rows.
DeleteUser(u) ==
    /\ account[u] = "active"
    /\ \A c \in Call : /\ u \notin call[c].locks
                       /\ ~(call[c].swept /\ call[c].target = u)
    /\ account' = [account EXCEPT ![u] = "deleted"]
    /\ role' = [role EXCEPT ![u] = NULL]
    /\ project_role' = [project_role EXCEPT ![u] = NULL]
    /\ UNCHANGED <<project, call, audit, loose, calls>>

MemberStep(c) ==
    \/ CheckNewMember(c) \/ InsertMember(c) \/ LockMember(c) \/ RequireOwner(c)
    \/ LockOwners(c) \/ UpdateMember(c) \/ SweepProjectRoles(c) \/ RemoveMember(c)

ProjectStep(c) ==
    \/ CreateProject(c) \/ DeactivateProject(c) \/ CheckProjectMember(c)
    \/ InsertProjectMember(c) \/ UpsertProjectMember(c) \/ ChangeProjectMember(c)

TenancyNext ==
    \/ \E u \in User : CreateOrganization(u) \/ DeactivateUser(u) \/ DeleteUser(u)
    \/ \E c \in Call :
          \/ MemberStep(c) \/ ProjectStep(c) \/ AbortCall(c)
          \/ \E op \in Op, u \in User :
                \E t \in Targets(op, u), to \in Named(op) : BeginCall(c, op, u, t, to)

TenancySpec == TenancyInit /\ [][TenancyNext]_tenancy
-----------------------------------------------------------------------------
\* An organization must retain an owner: whatever calls demote and remove
\* owners at the same time, the last one leaves only by deleting their account.
OwnerKept ==
    [][Owners # {} /\ Owners' = {} =>
          \E u \in Owners : account[u] = "active" /\ account'[u] = "deleted"]_tenancy

\* remove_member takes a user's project roles along.  One that was inserted
\* under the lock of the membership (upsert_project_member) never outlives
\* the membership, so it does not come back with a later invitation.
ProjectRoleNeedsMembership ==
    \A u \in User : project_role[u] # NULL /\ role[u] = NULL => u \in loose

\* The role the first n events of the log left user u with.
RoleAfter(log, n, u) ==
    LET mine == {i \in 1..n : log[i].user = u}
    IN  IF mine = {} THEN NULL ELSE log[Max(mine)].current

\* The audit log explains the memberships: each event about a user continues
\* from the role the one before left, and the last one left the role the
\* user has, until the account is deleted.
AuditExplainsRoles ==
    /\ \A i \in DOMAIN audit :
          audit[i].previous = RoleAfter(audit, i - 1, audit[i].user)
    /\ \A u \in User :
          account[u] # "deleted" => role[u] = RoleAfter(audit, Len(audit), u)
=============================================================================
