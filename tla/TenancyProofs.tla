---------------------------- MODULE TenancyProofs ----------------------------
(* Memberships, API keys, and the audit log of roles, for every number of
   users and of calls in progress.

   The argument for OwnerKept: a call that takes an owner's role away has
   locked another owner's row before, found it to be an owner once the lock
   was granted, and keeps it locked; no call changes a row another one has
   locked.  For ProjectRoleNeedsMembership: a removal holds the membership
   from before it looks for project roles until it commits, so a row that
   appears in between comes from a call that takes no lock. *)
EXTENDS Tenancy, ApiKeys, FiniteSetTheorems, WellFoundedInduction, TLAPS

\* What a call in progress was given.
Arguments(c) ==
    call[c].at # "idle" =>
        /\ call[c].caller \in User /\ call[c].target \in User
        /\ call[c].op \in {"add_member", "update_member"} => call[c].to \in OrganizationRole
        /\ call[c].op \in {"add_project_member", "upsert_project_member",
                           "update_project_member"} => call[c].to \in ProjectRole

\* Which stages hold the lock of the target's membership, for which calls.
Locking(c) ==
    /\ call[c].at \in {"idle", "authorized", "checked"} => call[c].locks = {}
    /\ call[c].at \in {"locked", "counting", "ready", "swept"} =>
          call[c].target \in call[c].locks
    /\ call[c].at \in {"counting", "ready", "swept"} =>
          call[c].op \in {"update_member", "remove_member"}
    /\ call[c].at = "swept" => call[c].op = "remove_member"
    /\ call[c].swept => call[c].at = "swept"

\* A call that is about to take an owner's role away holds another owner.
AnotherOwner(c) ==
    call[c].at \in {"ready", "swept"} /\ role[call[c].target] = "owner"
       /\ (call[c].op = "remove_member" \/ call[c].to # "owner")
    => \E v \in call[c].locks : v # call[c].target /\ role[v] = "owner"

\* A project role that a removal has not seen was inserted without a lock.
Unseen(c) ==
    call[c].at = "swept" /\ ~call[c].swept /\ project_role[call[c].target] # NULL
    => call[c].target \in loose

Exclusive ==
    \A c, d \in Call : c # d => call[c].locks \intersect call[d].locks = {}

\* A locked row exists.
LockedRowsExist == \A c \in Call : \A u \in call[c].locks : role[u] # NULL

TenancyInv ==
    /\ TenancyTypeOK
    /\ \A c \in Call : Arguments(c) /\ Locking(c) /\ AnotherOwner(c) /\ Unseen(c)
    /\ Exclusive /\ LockedRowsExist
    /\ audit = <<>> => \A u \in User : role[u] = NULL
    /\ ProjectRoleNeedsMembership

\* The initial states.
LEMMA TenancyInitInv == TenancyInit => TenancyInv
BY TenancyAssumption
DEF TenancyInit, TenancyInv, TenancyTypeOK, CallRow, Stage, Op, NoTenancyCall,
    Arguments, Locking, AnotherOwner, Unseen, Exclusive, LockedRowsExist,
    ProjectRoleNeedsMembership

\* A step of call c that leaves the roles and the project roles alone, ends
\* with fewer locks or the same, and is not on its way to change an owner.
LEMMA QuietStep ==
    ASSUME TenancyInv, NEW c \in Call, NEW new \in CallRow,
           call' = [call EXCEPT ![c] = new],
           UNCHANGED <<account, role, project, project_role, audit, loose>>,
           calls' \in Nat,
           new.locks = {}, new.at \in {"idle", "authorized", "checked"}, ~new.swept,
           Arguments(c)'
    PROVE  TenancyInv'
BY DEF TenancyInv, TenancyTypeOK, Arguments, Locking, AnotherOwner, Unseen,
       Exclusive, LockedRowsExist, ProjectRoleNeedsMembership

\* The call ends.
LEMMA IdleRow == NoTenancyCall \in CallRow
BY Zenon DEF NoTenancyCall, CallRow, Stage, Op

\* Among more than one user there is another one.
LEMMA NotAlone ==
    ASSUME NEW S \in SUBSET User, Cardinality(S) > 1, NEW t
    PROVE  \E v \in S : v # t
<1>1. SUFFICES ASSUME S \subseteq {t} PROVE FALSE
  BY Zenon
<1>2. Cardinality(S) <= Cardinality({t}) /\ Cardinality({t}) = 1 /\ IsFiniteSet(S)
  BY ZenonT(60), <1>1, FS_Subset, FS_Singleton
<1> QED
  BY <1>2, FS_CardinalityType

\* Every step keeps the invariant.
LEMMA TenancyStep == TenancyInv /\ [TenancyNext]_tenancy => TenancyInv'
<1> SUFFICES ASSUME TenancyInv, [TenancyNext]_tenancy PROVE TenancyInv'
  BY Zenon
<1> USE TenancyAssumption
<1>1. ASSUME NEW u \in User, CreateOrganization(u) PROVE TenancyInv'
  BY <1>1 DEF CreateOrganization, Recorded, TenancyInv, TenancyTypeOK, Arguments,
     Locking, AnotherOwner, Unseen, Exclusive, LockedRowsExist,
     ProjectRoleNeedsMembership, OrganizationRole, AuditRow
<1>2. ASSUME NEW u \in User, DeactivateUser(u) PROVE TenancyInv'
  BY <1>2 DEF DeactivateUser, TenancyInv, TenancyTypeOK, Arguments,
     Locking, AnotherOwner, Unseen, Exclusive, LockedRowsExist,
     ProjectRoleNeedsMembership
<1>3. ASSUME NEW u \in User, DeleteUser(u) PROVE TenancyInv'
  BY <1>3 DEF DeleteUser, TenancyInv, TenancyTypeOK, Arguments,
     Locking, AnotherOwner, Unseen, Exclusive, LockedRowsExist,
     ProjectRoleNeedsMembership
<1>4. ASSUME NEW c \in Call, AbortCall(c) PROVE TenancyInv'
  BY ZenonT(60), <1>4, IdleRow, QuietStep DEF AbortCall, End, TenancyInv, TenancyTypeOK,
     NoTenancyCall, Arguments
<1>5. ASSUME NEW c \in Call, NEW op \in Op, NEW u \in User, NEW t \in Targets(op, u),
             NEW to \in Named(op), BeginCall(c, op, u, t, to)
      PROVE  TenancyInv'
  <2> DEFINE new == [at |-> "authorized", op |-> op, caller |-> u, target |-> t,
                     to |-> to, locks |-> {}, seen |-> {}, swept |-> FALSE]
  <2>1. t \in User /\ to \in OrganizationRole \union ProjectRole \union {NULL}
    BY Zenon DEF Targets, Named
  <2>2. new \in CallRow
    BY Zenon, <2>1 DEF CallRow, Stage
  <2>3. Arguments(c)'
    BY Zenon, <1>5, <2>1 DEF BeginCall, Arguments, Named, TenancyInv, TenancyTypeOK,
       ProjectRole
  <2>4. /\ call' = [call EXCEPT ![c] = new]
        /\ UNCHANGED <<account, role, project, project_role, audit, loose>>
        /\ calls' \in Nat
    BY <1>5 DEF BeginCall, TenancyInv, TenancyTypeOK
  <2>5. new.locks = {} /\ new.at = "authorized" /\ ~new.swept
    BY Zenon
  <2> HIDE DEF new
  <2> QED
    BY Zenon, <2>2, <2>3, <2>4, <2>5, QuietStep
<1>6. ASSUME NEW c \in Call, CheckNewMember(c) \/ CheckProjectMember(c) PROVE TenancyInv'
  <2> DEFINE new == [call[c] EXCEPT !.at = "checked"]
  <2>1. new \in CallRow /\ new.locks = {} /\ ~new.swept /\ new.at = "checked"
    BY SMTT(30), <1>6 DEF CheckNewMember, CheckProjectMember, TenancyInv, TenancyTypeOK, CallRow,
       Stage, Locking
  <2>2. call' = [call EXCEPT ![c] = new]
    BY Zenon, <1>6 DEF CheckNewMember, CheckProjectMember, GoTo
  <2>3. Arguments(c)'
    BY <1>6, <2>2 DEF CheckNewMember, CheckProjectMember, Arguments, TenancyInv,
       TenancyTypeOK
  <2> QED
    BY Zenon, <1>6, <2>1, <2>2, <2>3, QuietStep DEF CheckNewMember, CheckProjectMember,
       TenancyInv, TenancyTypeOK
<1>7. ASSUME NEW c \in Call, InsertMember(c) PROVE TenancyInv'
  <2>1. /\ call' = [call EXCEPT ![c] = NoTenancyCall]
        /\ call'[c] = NoTenancyCall
        /\ \A d \in Call : d # c => call'[d] = call[d]
        /\ call[c].target \in User /\ call[c] \in CallRow
    BY Zenon, <1>7 DEF InsertMember, End, TenancyInv, TenancyTypeOK, Arguments
  <2>2. TenancyTypeOK'
    BY <1>7, <2>1, IdleRow
    DEF InsertMember, Recorded, TenancyInv, TenancyTypeOK, Arguments,
       OrganizationRole, ProjectRole, AuditRow
  <2>3. \A d \in Call : Arguments(d)' /\ Locking(d)'
    BY <2>1 DEF TenancyInv, Arguments, Locking, NoTenancyCall
  <2>4. Exclusive'
    BY <2>1 DEF TenancyInv, Exclusive, NoTenancyCall
  <2>5. LockedRowsExist'
    BY <1>7, <2>1 DEF InsertMember, TenancyInv, Exclusive, LockedRowsExist,
       NoTenancyCall, TenancyTypeOK, Locking, OrganizationRole, Arguments
  <2>6. ASSUME NEW d \in Call PROVE AnotherOwner(d)'
    BY <1>7, <2>1 DEF InsertMember, TenancyInv, Exclusive, LockedRowsExist,
       NoTenancyCall, TenancyTypeOK, Locking, AnotherOwner, CallRow
  <2>7. ASSUME NEW d \in Call PROVE Unseen(d)'
    BY Zenon, <1>7, <2>1 DEF InsertMember, TenancyInv, Exclusive, NoTenancyCall,
       TenancyTypeOK, Locking, Unseen, Arguments
  <2>8. (audit = <<>> => \A u \in User : role[u] = NULL)'
    BY <1>7, <2>1 DEF InsertMember, Recorded, TenancyInv, TenancyTypeOK
  <2>9. ProjectRoleNeedsMembership'
    BY Zenon, <1>7, <2>1 DEF InsertMember, TenancyInv, TenancyTypeOK,
       ProjectRoleNeedsMembership, Unseen, Arguments, Locking, LockedRowsExist,
       OrganizationRole
  <2> QED
    BY Zenon, <2>2, <2>3, <2>4, <2>5, <2>6, <2>7, <2>8, <2>9 DEF TenancyInv
<1>8. ASSUME NEW c \in Call, LockMember(c) PROVE TenancyInv'
  <2>1. /\ \A d \in Call : d # c => call'[d] = call[d]
        /\ call[c].target \in User /\ call[c] \in CallRow
        /\ call'[c].target = call[c].target /\ call'[c].op = call[c].op
        /\ call'[c].to = call[c].to /\ call'[c].caller = call[c].caller
        /\ UNCHANGED <<account, role, project, project_role, audit, loose, calls>>
    BY <1>8 DEF LockMember, MemberLocks, TenancyInv, TenancyTypeOK, Arguments
  <2>2. TenancyTypeOK'
    BY ZenonT(60), <1>8, <2>1 DEF LockMember, MemberLocks, TenancyInv, TenancyTypeOK, CallRow, Stage
  <2>3. \A d \in Call : Arguments(d)'
    BY ZenonT(60), <1>8, <2>1 DEF LockMember, MemberLocks, TenancyInv, Arguments
  <2>4. \A d \in Call : Locking(d)'
    BY <1>8, <2>1 DEF LockMember, MemberLocks, TenancyInv, TenancyTypeOK, Locking,
       CallRow
  <2>5. Exclusive'
    BY <1>8, <2>1 DEF LockMember, MemberLocks, TenancyInv, TenancyTypeOK, Exclusive,
       RowFree, Locking, CallRow
  <2>6. LockedRowsExist'
    BY <1>8, <2>1 DEF LockMember, MemberLocks, TenancyInv, TenancyTypeOK,
       LockedRowsExist, CallRow
  <2>7. ASSUME NEW d \in Call PROVE AnotherOwner(d)'
    BY <1>8, <2>1 DEF LockMember, MemberLocks, TenancyInv, TenancyTypeOK,
       AnotherOwner, Locking, CallRow, NeedsAnotherOwner, NewRole
  <2>8. ASSUME NEW d \in Call PROVE Unseen(d)'
    BY SMTT(30), <1>8, <2>1 DEF LockMember, MemberLocks, TenancyInv, TenancyTypeOK, Unseen,
       Locking, CallRow
  <2> QED
    BY Zenon, <2>1, <2>2, <2>3, <2>4, <2>5, <2>6, <2>7, <2>8 DEF TenancyInv,
       ProjectRoleNeedsMembership
<1>9. ASSUME NEW c \in Call, RequireOwner(c) PROVE TenancyInv'
  <2>1. /\ \A d \in Call : d # c => call'[d] = call[d]
        /\ call[c].target \in User /\ call[c] \in CallRow
        /\ call'[c].target = call[c].target /\ call'[c].op = call[c].op
        /\ call'[c].to = call[c].to /\ call'[c].caller = call[c].caller
        /\ UNCHANGED <<account, role, project, project_role, audit, loose, calls>>
    BY <1>9 DEF RequireOwner, TenancyInv, TenancyTypeOK, Arguments
  <2>2. TenancyTypeOK'
    BY ZenonT(60), <1>9, <2>1 DEF RequireOwner, TenancyInv, TenancyTypeOK, CallRow, Stage, Owners
  <2>3. \A d \in Call : Arguments(d)'
    BY ZenonT(60), <1>9, <2>1 DEF RequireOwner, TenancyInv, Arguments
  <2>4. \A d \in Call : Locking(d)'
    BY <1>9, <2>1 DEF RequireOwner, TenancyInv, TenancyTypeOK, Locking, CallRow,
       LockingOps, Owners
  <2>5. Exclusive'
    BY <1>9, <2>1 DEF RequireOwner, TenancyInv, TenancyTypeOK, Exclusive, RowFree,
       Locking, CallRow, Owners
  <2>6. LockedRowsExist'
    BY <1>9, <2>1 DEF RequireOwner, TenancyInv, TenancyTypeOK, LockedRowsExist,
       CallRow, Owners
  <2>7. ASSUME NEW d \in Call PROVE AnotherOwner(d)'
    <3>1. CASE d # c
      BY ZenonT(60), <2>1, <3>1 DEF TenancyInv, AnotherOwner
    <3>2. CASE d = c
      <4>1. call'[c].at = IF NeedsAnotherOwner(c) THEN "counting" ELSE "ready"
        BY ZenonT(60), <1>9 DEF RequireOwner, TenancyInv, TenancyTypeOK, CallRow
      <4>2. CASE NeedsAnotherOwner(c)
        BY Zenon, <3>2, <4>1, <4>2 DEF AnotherOwner
      <4>3. CASE ~NeedsAnotherOwner(c)
        <5>1. role[call[c].target] = "owner" =>
                 call[c].op # "remove_member" /\ call[c].to = "owner"
          BY Zenon, <4>3 DEF NeedsAnotherOwner, NewRole, OrganizationRole
        <5> QED
          BY Zenon, <2>1, <3>2, <5>1 DEF AnotherOwner
      <4> QED
        BY Zenon, <4>2, <4>3
    <3> QED
      BY Zenon, <3>1, <3>2
  <2>8. ASSUME NEW d \in Call PROVE Unseen(d)'
    BY SMTT(30), <1>9, <2>1 DEF RequireOwner, TenancyInv, TenancyTypeOK, Unseen, Locking,
       CallRow, Owners
  <2> QED
    BY Zenon, <2>1, <2>2, <2>3, <2>4, <2>5, <2>6, <2>7, <2>8 DEF TenancyInv,
       ProjectRoleNeedsMembership
<1>10. ASSUME NEW c \in Call, LockOwners(c) PROVE TenancyInv'
  <2>1. /\ \A d \in Call : d # c => call'[d] = call[d]
        /\ call[c].target \in User /\ call[c] \in CallRow
        /\ call'[c].target = call[c].target /\ call'[c].op = call[c].op
        /\ call'[c].to = call[c].to /\ call'[c].caller = call[c].caller
        /\ UNCHANGED <<account, role, project, project_role, audit, loose, calls>>
    BY <1>10 DEF LockOwners, TenancyInv, TenancyTypeOK, Arguments
  <2>2. TenancyTypeOK'
    BY ZenonT(60), <1>10, <2>1 DEF LockOwners, TenancyInv, TenancyTypeOK, CallRow, Stage,
       LockedOwners
  <2>3. \A d \in Call : Arguments(d)'
    BY Zenon, <1>10, <2>1 DEF LockOwners, TenancyInv, Arguments
  <2>4. \A d \in Call : Locking(d)'
    BY <1>10, <2>1 DEF LockOwners, TenancyInv, TenancyTypeOK, Locking, CallRow,
       LockingOps, LockedOwners
  <2>5. Exclusive'
    BY <1>10, <2>1 DEF LockOwners, TenancyInv, TenancyTypeOK, Exclusive, RowFree,
       Locking, CallRow, LockedOwners
  <2>6. LockedRowsExist'
    BY <1>10, <2>1 DEF LockOwners, TenancyInv, TenancyTypeOK, LockedRowsExist,
       CallRow, LockedOwners
  <2>7. ASSUME NEW d \in Call PROVE AnotherOwner(d)'
    <3>1. PICK v \in LockedOwners(c) : v # call[c].target
      BY <1>10, <2>1, NotAlone DEF LockOwners, LockedOwners, CallRow
    <3>2. v \in call'[c].locks /\ role[v] = "owner"
      BY <1>10, <3>1 DEF LockOwners, LockedOwners, TenancyInv, TenancyTypeOK
    <3> QED
      BY ZenonT(60), <2>1, <3>1, <3>2 DEF TenancyInv, AnotherOwner
  <2>8. ASSUME NEW d \in Call PROVE Unseen(d)'
    BY SMTT(30), <1>10, <2>1 DEF LockOwners, TenancyInv, TenancyTypeOK, Unseen, Locking,
       CallRow, LockedOwners
  <2> QED
    BY Zenon, <2>1, <2>2, <2>3, <2>4, <2>5, <2>6, <2>7, <2>8 DEF TenancyInv,
       ProjectRoleNeedsMembership
<1>11. ASSUME NEW c \in Call, UpdateMember(c) PROVE TenancyInv'
  <2>1. /\ call' = [call EXCEPT ![c] = NoTenancyCall]
        /\ call'[c] = NoTenancyCall
        /\ \A d \in Call : d # c => call'[d] = call[d]
        /\ call[c].target \in User /\ call[c] \in CallRow
    BY Zenon, <1>11 DEF UpdateMember, End, TenancyInv, TenancyTypeOK, Arguments
  <2>2. TenancyTypeOK'
    BY SMTT(30), <1>11, <2>1, IdleRow
    DEF UpdateMember, Recorded, TenancyInv, TenancyTypeOK, Arguments,
       OrganizationRole, ProjectRole, AuditRow
  <2>3. \A d \in Call : Arguments(d)' /\ Locking(d)'
    BY <2>1 DEF TenancyInv, Arguments, Locking, NoTenancyCall
  <2>4. Exclusive'
    BY <2>1 DEF TenancyInv, Exclusive, NoTenancyCall
  <2>5. LockedRowsExist'
    BY SMTT(30), <1>11, <2>1 DEF UpdateMember, TenancyInv, Exclusive, LockedRowsExist,
       NoTenancyCall, TenancyTypeOK, Locking, OrganizationRole, Arguments
  <2>6. ASSUME NEW d \in Call PROVE AnotherOwner(d)'
    BY SMTT(30), <1>11, <2>1 DEF UpdateMember, TenancyInv, Exclusive, LockedRowsExist,
       NoTenancyCall, TenancyTypeOK, Locking, AnotherOwner, CallRow
  <2>7. ASSUME NEW d \in Call PROVE Unseen(d)'
    BY Zenon, <1>11, <2>1 DEF UpdateMember, TenancyInv, Exclusive, NoTenancyCall,
       TenancyTypeOK, Locking, Unseen, Arguments
  <2>8. (audit = <<>> => \A u \in User : role[u] = NULL)'
    BY <1>11, <2>1 DEF UpdateMember, Recorded, TenancyInv, TenancyTypeOK
  <2>9. ProjectRoleNeedsMembership'
    BY Zenon, <1>11, <2>1 DEF UpdateMember, TenancyInv, TenancyTypeOK,
       ProjectRoleNeedsMembership, Unseen, Arguments, Locking, LockedRowsExist,
       OrganizationRole
  <2> QED
    BY Zenon, <2>2, <2>3, <2>4, <2>5, <2>6, <2>7, <2>8, <2>9 DEF TenancyInv
<1>12. ASSUME NEW c \in Call, SweepProjectRoles(c) PROVE TenancyInv'
  <2>1. /\ \A d \in Call : d # c => call'[d] = call[d]
        /\ call[c].target \in User /\ call[c] \in CallRow
        /\ call'[c].target = call[c].target /\ call'[c].op = call[c].op
        /\ call'[c].to = call[c].to /\ call'[c].caller = call[c].caller
        /\ UNCHANGED <<account, role, project, project_role, audit, loose, calls>>
    BY <1>12 DEF SweepProjectRoles, TenancyInv, TenancyTypeOK, Arguments
  <2>2. TenancyTypeOK'
    BY Zenon, <1>12, <2>1 DEF SweepProjectRoles, TenancyInv, TenancyTypeOK, CallRow, Stage
  <2>3. \A d \in Call : Arguments(d)'
    BY ZenonT(60), <1>12, <2>1 DEF SweepProjectRoles, TenancyInv, Arguments
  <2>4. \A d \in Call : Locking(d)'
    BY <1>12, <2>1 DEF SweepProjectRoles, TenancyInv, TenancyTypeOK, Locking, CallRow
  <2>5. Exclusive'
    BY <1>12, <2>1 DEF SweepProjectRoles, TenancyInv, TenancyTypeOK, Exclusive,
       RowFree, Locking, CallRow
  <2>6. LockedRowsExist'
    BY <1>12, <2>1 DEF SweepProjectRoles, TenancyInv, TenancyTypeOK, LockedRowsExist,
       CallRow
  <2>7. ASSUME NEW d \in Call PROVE AnotherOwner(d)'
    BY <1>12, <2>1 DEF SweepProjectRoles, TenancyInv, TenancyTypeOK, AnotherOwner,
       Locking, CallRow, NeedsAnotherOwner, NewRole
  <2>8. ASSUME NEW d \in Call PROVE Unseen(d)'
    BY SMTT(30), <1>12, <2>1 DEF SweepProjectRoles, TenancyInv, TenancyTypeOK, Unseen, Locking,
       CallRow
  <2> QED
    BY Zenon, <2>1, <2>2, <2>3, <2>4, <2>5, <2>6, <2>7, <2>8 DEF TenancyInv,
       ProjectRoleNeedsMembership
<1>13. ASSUME NEW c \in Call, RemoveMember(c) PROVE TenancyInv'
  <2>1. /\ call' = [call EXCEPT ![c] = NoTenancyCall]
        /\ call'[c] = NoTenancyCall
        /\ \A d \in Call : d # c => call'[d] = call[d]
        /\ call[c].target \in User /\ call[c] \in CallRow
    BY Zenon, <1>13 DEF RemoveMember, End, TenancyInv, TenancyTypeOK, Arguments
  <2>2. TenancyTypeOK'
    BY SMTT(30), <1>13, <2>1, IdleRow
    DEF RemoveMember, Recorded, TenancyInv, TenancyTypeOK, Arguments,
       OrganizationRole, ProjectRole, AuditRow
  <2>3. \A d \in Call : Arguments(d)' /\ Locking(d)'
    BY <2>1 DEF TenancyInv, Arguments, Locking, NoTenancyCall
  <2>4. Exclusive'
    BY <2>1 DEF TenancyInv, Exclusive, NoTenancyCall
  <2>5. LockedRowsExist'
    BY SMTT(30), <1>13, <2>1 DEF RemoveMember, TenancyInv, Exclusive, LockedRowsExist,
       NoTenancyCall, TenancyTypeOK, Locking, OrganizationRole, Arguments
  <2>6. ASSUME NEW d \in Call PROVE AnotherOwner(d)'
    BY SMTT(30), <1>13, <2>1 DEF RemoveMember, TenancyInv, Exclusive, LockedRowsExist,
       NoTenancyCall, TenancyTypeOK, Locking, AnotherOwner, CallRow
  <2>7. ASSUME NEW d \in Call PROVE Unseen(d)'
    BY ZenonT(60), <1>13, <2>1 DEF RemoveMember, TenancyInv, Exclusive, NoTenancyCall,
       TenancyTypeOK, Locking, Unseen, Arguments
  <2>8. (audit = <<>> => \A u \in User : role[u] = NULL)'
    <3>1. PICK r : audit' = Append(audit, r)
      BY Zenon, <1>13 DEF RemoveMember, Recorded
    <3>2. audit \in Seq(AuditRow)
      BY Zenon DEF TenancyInv, TenancyTypeOK
    <3>3. audit' # <<>>
      BY <3>1, <3>2
    <3> QED
      BY Zenon, <3>3
  <2>9. ProjectRoleNeedsMembership'
    BY ZenonT(60), <1>13, <2>1 DEF RemoveMember, TenancyInv, TenancyTypeOK,
       ProjectRoleNeedsMembership, Unseen, Arguments, Locking, LockedRowsExist,
       OrganizationRole
  <2> QED
    BY Zenon, <2>2, <2>3, <2>4, <2>5, <2>6, <2>7, <2>8, <2>9 DEF TenancyInv
<1>14. ASSUME NEW c \in Call, CreateProject(c) PROVE TenancyInv'
  <2>1. /\ call' = [call EXCEPT ![c] = NoTenancyCall]
        /\ call'[c] = NoTenancyCall
        /\ \A d \in Call : d # c => call'[d] = call[d]
        /\ call[c].target \in User /\ call[c] \in CallRow
    BY Zenon, <1>14 DEF CreateProject, End, TenancyInv, TenancyTypeOK, Arguments
  <2>2. TenancyTypeOK'
    BY ZenonT(60), <1>14, <2>1, IdleRow
    DEF CreateProject, Recorded, TenancyInv, TenancyTypeOK, Arguments,
       OrganizationRole, ProjectRole, AuditRow
  <2>3. \A d \in Call : Arguments(d)' /\ Locking(d)'
    BY <2>1 DEF TenancyInv, Arguments, Locking, NoTenancyCall
  <2>4. Exclusive'
    BY <2>1 DEF TenancyInv, Exclusive, NoTenancyCall
  <2>5. LockedRowsExist'
    BY SMTT(30), <1>14, <2>1 DEF CreateProject, TenancyInv, Exclusive, LockedRowsExist,
       NoTenancyCall, TenancyTypeOK, Locking, OrganizationRole, Arguments
  <2>6. ASSUME NEW d \in Call PROVE AnotherOwner(d)'
    BY SMTT(30), <1>14, <2>1 DEF CreateProject, TenancyInv, Exclusive, LockedRowsExist,
       NoTenancyCall, TenancyTypeOK, Locking, AnotherOwner, CallRow
  <2>7. ASSUME NEW d \in Call PROVE Unseen(d)'
    BY ZenonT(60), <1>14, <2>1 DEF CreateProject, TenancyInv, Exclusive, NoTenancyCall,
       TenancyTypeOK, Locking, Unseen, Arguments
  <2>8. (audit = <<>> => \A u \in User : role[u] = NULL)'
    BY Zenon, <1>14, <2>1 DEF CreateProject, Recorded, TenancyInv, TenancyTypeOK
  <2>9. ProjectRoleNeedsMembership'
    BY Zenon, <1>14, <2>1 DEF CreateProject, TenancyInv, TenancyTypeOK,
       ProjectRoleNeedsMembership, Unseen, Arguments, Locking, LockedRowsExist,
       OrganizationRole
  <2> QED
    BY Zenon, <2>2, <2>3, <2>4, <2>5, <2>6, <2>7, <2>8, <2>9 DEF TenancyInv
<1>15. ASSUME NEW c \in Call, DeactivateProject(c) PROVE TenancyInv'
  <2>1. /\ call' = [call EXCEPT ![c] = NoTenancyCall]
        /\ call'[c] = NoTenancyCall
        /\ \A d \in Call : d # c => call'[d] = call[d]
        /\ call[c].target \in User /\ call[c] \in CallRow
    BY Zenon, <1>15 DEF DeactivateProject, End, TenancyInv, TenancyTypeOK, Arguments
  <2>2. TenancyTypeOK'
    BY Zenon, <1>15, <2>1, IdleRow
    DEF DeactivateProject, Recorded, TenancyInv, TenancyTypeOK, Arguments,
       OrganizationRole, ProjectRole, AuditRow
  <2>3. \A d \in Call : Arguments(d)' /\ Locking(d)'
    BY <2>1 DEF TenancyInv, Arguments, Locking, NoTenancyCall
  <2>4. Exclusive'
    BY <2>1 DEF TenancyInv, Exclusive, NoTenancyCall
  <2>5. LockedRowsExist'
    BY SMTT(30), <1>15, <2>1 DEF DeactivateProject, TenancyInv, Exclusive, LockedRowsExist,
       NoTenancyCall, TenancyTypeOK, Locking, OrganizationRole, Arguments
  <2>6. ASSUME NEW d \in Call PROVE AnotherOwner(d)'
    BY SMTT(30), <1>15, <2>1 DEF DeactivateProject, TenancyInv, Exclusive, LockedRowsExist,
       NoTenancyCall, TenancyTypeOK, Locking, AnotherOwner, CallRow
  <2>7. ASSUME NEW d \in Call PROVE Unseen(d)'
    BY ZenonT(60), <1>15, <2>1 DEF DeactivateProject, TenancyInv, Exclusive, NoTenancyCall,
       TenancyTypeOK, Locking, Unseen, Arguments
  <2>8. (audit = <<>> => \A u \in User : role[u] = NULL)'
    BY Zenon, <1>15, <2>1 DEF DeactivateProject, Recorded, TenancyInv, TenancyTypeOK
  <2>9. ProjectRoleNeedsMembership'
    BY Zenon, <1>15, <2>1 DEF DeactivateProject, TenancyInv, TenancyTypeOK,
       ProjectRoleNeedsMembership, Unseen, Arguments, Locking, LockedRowsExist,
       OrganizationRole
  <2> QED
    BY Zenon, <2>2, <2>3, <2>4, <2>5, <2>6, <2>7, <2>8, <2>9 DEF TenancyInv
<1>16. ASSUME NEW c \in Call, InsertProjectMember(c) PROVE TenancyInv'
  <2>1. /\ call' = [call EXCEPT ![c] = NoTenancyCall]
        /\ call'[c] = NoTenancyCall
        /\ \A d \in Call : d # c => call'[d] = call[d]
        /\ call[c].target \in User /\ call[c] \in CallRow
    BY Zenon, <1>16 DEF InsertProjectMember, End, TenancyInv, TenancyTypeOK, Arguments
  <2>2. TenancyTypeOK'
    BY Zenon, <1>16, <2>1, IdleRow
    DEF InsertProjectMember, Recorded, TenancyInv, TenancyTypeOK, Arguments,
       OrganizationRole, ProjectRole, AuditRow
  <2>3. \A d \in Call : Arguments(d)' /\ Locking(d)'
    BY <2>1 DEF TenancyInv, Arguments, Locking, NoTenancyCall
  <2>4. Exclusive'
    BY <2>1 DEF TenancyInv, Exclusive, NoTenancyCall
  <2>5. LockedRowsExist'
    BY SMTT(30), <1>16, <2>1 DEF InsertProjectMember, TenancyInv, Exclusive, LockedRowsExist,
       NoTenancyCall, TenancyTypeOK, Locking, OrganizationRole, Arguments
  <2>6. ASSUME NEW d \in Call PROVE AnotherOwner(d)'
    BY SMTT(30), <1>16, <2>1 DEF InsertProjectMember, TenancyInv, Exclusive, LockedRowsExist,
       NoTenancyCall, TenancyTypeOK, Locking, AnotherOwner, CallRow
  <2>7. ASSUME NEW d \in Call PROVE Unseen(d)'
    BY ZenonT(60), <1>16, <2>1 DEF InsertProjectMember, TenancyInv, Exclusive, NoTenancyCall,
       TenancyTypeOK, Locking, Unseen, Arguments
  <2>8. (audit = <<>> => \A u \in User : role[u] = NULL)'
    BY Zenon, <1>16, <2>1 DEF InsertProjectMember, Recorded, TenancyInv, TenancyTypeOK
  <2>9. ProjectRoleNeedsMembership'
    BY ZenonT(60), <1>16, <2>1 DEF InsertProjectMember, TenancyInv, TenancyTypeOK,
       ProjectRoleNeedsMembership, Unseen, Arguments, Locking, LockedRowsExist,
       OrganizationRole
  <2> QED
    BY Zenon, <2>2, <2>3, <2>4, <2>5, <2>6, <2>7, <2>8, <2>9 DEF TenancyInv
<1>17. ASSUME NEW c \in Call, UpsertProjectMember(c) PROVE TenancyInv'
  <2>1. /\ call' = [call EXCEPT ![c] = NoTenancyCall]
        /\ call'[c] = NoTenancyCall
        /\ \A d \in Call : d # c => call'[d] = call[d]
        /\ call[c].target \in User /\ call[c] \in CallRow
    BY Zenon, <1>17 DEF UpsertProjectMember, End, TenancyInv, TenancyTypeOK, Arguments
  <2>2. TenancyTypeOK'
    BY Zenon, <1>17, <2>1, IdleRow
    DEF UpsertProjectMember, Recorded, TenancyInv, TenancyTypeOK, Arguments,
       OrganizationRole, ProjectRole, AuditRow
  <2>3. \A d \in Call : Arguments(d)' /\ Locking(d)'
    BY <2>1 DEF TenancyInv, Arguments, Locking, NoTenancyCall
  <2>4. Exclusive'
    BY <2>1 DEF TenancyInv, Exclusive, NoTenancyCall
  <2>5. LockedRowsExist'
    BY SMTT(30), <1>17, <2>1 DEF UpsertProjectMember, TenancyInv, Exclusive, LockedRowsExist,
       NoTenancyCall, TenancyTypeOK, Locking, OrganizationRole, Arguments
  <2>6. ASSUME NEW d \in Call PROVE AnotherOwner(d)'
    BY SMTT(30), <1>17, <2>1 DEF UpsertProjectMember, TenancyInv, Exclusive, LockedRowsExist,
       NoTenancyCall, TenancyTypeOK, Locking, AnotherOwner, CallRow
  <2>7. ASSUME NEW d \in Call PROVE Unseen(d)'
    BY ZenonT(60), <1>17, <2>1 DEF UpsertProjectMember, TenancyInv, Exclusive, NoTenancyCall,
       TenancyTypeOK, Locking, Unseen, Arguments
  <2>8. (audit = <<>> => \A u \in User : role[u] = NULL)'
    BY Zenon, <1>17, <2>1 DEF UpsertProjectMember, Recorded, TenancyInv, TenancyTypeOK
  <2>9. ProjectRoleNeedsMembership'
    BY SMTT(30), <1>17, <2>1 DEF UpsertProjectMember, TenancyInv, TenancyTypeOK,
       ProjectRoleNeedsMembership, Unseen, Arguments, Locking, LockedRowsExist,
       OrganizationRole
  <2> QED
    BY Zenon, <2>2, <2>3, <2>4, <2>5, <2>6, <2>7, <2>8, <2>9 DEF TenancyInv
<1>18. ASSUME NEW c \in Call, ChangeProjectMember(c) PROVE TenancyInv'
  <2>1. /\ call' = [call EXCEPT ![c] = NoTenancyCall]
        /\ call'[c] = NoTenancyCall
        /\ \A d \in Call : d # c => call'[d] = call[d]
        /\ call[c].target \in User /\ call[c] \in CallRow
    BY Zenon, <1>18 DEF ChangeProjectMember, End, TenancyInv, TenancyTypeOK, Arguments
  <2>2. TenancyTypeOK'
    BY Zenon, <1>18, <2>1, IdleRow
    DEF ChangeProjectMember, Recorded, TenancyInv, TenancyTypeOK, Arguments,
       OrganizationRole, ProjectRole, AuditRow
  <2>3. \A d \in Call : Arguments(d)' /\ Locking(d)'
    BY <2>1 DEF TenancyInv, Arguments, Locking, NoTenancyCall
  <2>4. Exclusive'
    BY <2>1 DEF TenancyInv, Exclusive, NoTenancyCall
  <2>5. LockedRowsExist'
    BY SMTT(30), <1>18, <2>1 DEF ChangeProjectMember, TenancyInv, Exclusive, LockedRowsExist,
       NoTenancyCall, TenancyTypeOK, Locking, OrganizationRole, Arguments
  <2>6. ASSUME NEW d \in Call PROVE AnotherOwner(d)'
    BY SMTT(30), <1>18, <2>1 DEF ChangeProjectMember, TenancyInv, Exclusive, LockedRowsExist,
       NoTenancyCall, TenancyTypeOK, Locking, AnotherOwner, CallRow
  <2>7. ASSUME NEW d \in Call PROVE Unseen(d)'
    BY SMTT(30), <1>18, <2>1 DEF ChangeProjectMember, TenancyInv, Exclusive, NoTenancyCall,
       TenancyTypeOK, Locking, Unseen, Arguments
  <2>8. (audit = <<>> => \A u \in User : role[u] = NULL)'
    BY Zenon, <1>18, <2>1 DEF ChangeProjectMember, Recorded, TenancyInv, TenancyTypeOK
  <2>9. ProjectRoleNeedsMembership'
    BY Zenon, <1>18, <2>1 DEF ChangeProjectMember, TenancyInv, TenancyTypeOK,
       ProjectRoleNeedsMembership, Unseen, Arguments, Locking, LockedRowsExist,
       OrganizationRole
  <2> QED
    BY Zenon, <2>2, <2>3, <2>4, <2>5, <2>6, <2>7, <2>8, <2>9 DEF TenancyInv
<1>19. CASE UNCHANGED tenancy
  BY <1>19 DEF tenancy, TenancyInv, TenancyTypeOK, Arguments,
     Locking, AnotherOwner, Unseen, Exclusive, LockedRowsExist,
     ProjectRoleNeedsMembership
<1> QED
  BY Zenon, <1>1, <1>2, <1>3, <1>4, <1>5, <1>6, <1>7, <1>8, <1>9, <1>10, <1>11, <1>12, <1>13,
     <1>14, <1>15, <1>16, <1>17, <1>18, <1>19 DEF TenancyNext, MemberStep, ProjectStep

\* The inductive invariant.
THEOREM TenancySafe == TenancySpec => []TenancyInv
BY TenancyInitInv, TenancyStep, PTL DEF TenancySpec

\* A project role inserted by upsert_project_member never outlives the
\* membership of its user, however removals and invitations interleave.
THEOREM ProjectRolesFollow == TenancySpec => []ProjectRoleNeedsMembership
<1>1. TenancyInv => ProjectRoleNeedsMembership
  BY Zenon DEF TenancyInv
<1> QED
  BY <1>1, TenancySafe, PTL

\* The last owner is never demoted or removed: without the deletion of an
\* owner's account, an organization that has an owner has one afterwards.
LEMMA OwnerStep ==
    ASSUME TenancyInv, [TenancyNext]_tenancy, Owners # {}, Owners' = {}
    PROVE  \E u \in Owners : account[u] = "active" /\ account'[u] = "deleted"
<1> USE TenancyAssumption
<1>1. ASSUME NEW u \in User, CreateOrganization(u) PROVE FALSE
  BY Zenon, <1>1 DEF CreateOrganization, Owners, TenancyInv, TenancyTypeOK
<1>2. ASSUME NEW c \in Call, UpdateMember(c) \/ RemoveMember(c) PROVE FALSE
  <2>1. PICK o \in Owners : TRUE
    BY Zenon
  <2>2. CASE o # call[c].target
    BY Zenon, <1>2, <2>1, <2>2 DEF UpdateMember, RemoveMember, Owners, TenancyInv,
       TenancyTypeOK
  <2>3. CASE o = call[c].target /\ call[c].op = "update_member" /\ call[c].to = "owner"
    BY ZenonT(60), <1>2, <2>1, <2>3 DEF UpdateMember, RemoveMember, Owners, TenancyInv,
       TenancyTypeOK, Locking
  <2>4. CASE o = call[c].target /\ ~(call[c].op = "update_member" /\ call[c].to = "owner")
    <3>1. PICK v \in call[c].locks : v # call[c].target /\ role[v] = "owner"
      BY Zenon, <1>2, <2>1, <2>4 DEF UpdateMember, RemoveMember, Owners, TenancyInv,
         AnotherOwner, Locking
    <3>2. v \in User
      BY Zenon DEF TenancyInv, TenancyTypeOK, CallRow
    <3> QED
      BY Zenon, <1>2, <3>1, <3>2 DEF UpdateMember, RemoveMember, Owners, TenancyInv,
         TenancyTypeOK
  <2> QED
    BY Zenon, <2>2, <2>3, <2>4
<1>3. ASSUME NEW c \in Call, InsertMember(c) PROVE FALSE
  BY Zenon, <1>3 DEF InsertMember, Owners, TenancyInv, TenancyTypeOK, OrganizationRole
<1>4. ASSUME UNCHANGED role PROVE FALSE
  BY Zenon, <1>4 DEF Owners
<1>5. ASSUME NEW u \in User, DeleteUser(u)
      PROVE  u \in Owners /\ account[u] = "active" /\ account'[u] = "deleted"
  BY Zenon, <1>5 DEF DeleteUser, Owners, TenancyInv, TenancyTypeOK
<1>6. ASSUME NEW c \in Call, ProjectStep(c) PROVE UNCHANGED role
  BY Zenon, <1>6 DEF ProjectStep, CreateProject, DeactivateProject, CheckProjectMember,
     InsertProjectMember, UpsertProjectMember, ChangeProjectMember
<1>7. ASSUME NEW c \in Call, MemberStep(c)
      PROVE  InsertMember(c) \/ UpdateMember(c) \/ RemoveMember(c) \/ UNCHANGED role
  BY Zenon, <1>7 DEF MemberStep, CheckNewMember, LockMember, RequireOwner, LockOwners,
     SweepProjectRoles
<1>8. CASE \E u \in User : DeleteUser(u)
  BY Zenon, <1>5, <1>8
<1>9. CASE ~\E u \in User : DeleteUser(u)
  BY Zenon, <1>1, <1>2, <1>3, <1>4, <1>6, <1>7, <1>9
  DEF TenancyNext, tenancy, DeactivateUser, AbortCall, BeginCall
<1> QED
  BY Zenon, <1>8, <1>9

\* An organization retains an owner, for any number of concurrent calls.
THEOREM OwnersRemain == TenancySpec => OwnerKept
<1>1. TenancyInv /\ [TenancyNext]_tenancy =>
        [Owners # {} /\ Owners' = {} =>
           \E u \in Owners : account[u] = "active" /\ account'[u] = "deleted"]_tenancy
  BY Zenon, OwnerStep
<1> QED
  BY <1>1, TenancySafe, PTL DEF TenancySpec, OwnerKept
-----------------------------------------------------------------------------
\* The API keys.  A rotation holds the row of the key it replaces from its
\* checks to its commit: what it checked still holds when it writes.
KeyRow ==
    [family : Nat, rotated_from : Nat \union {NONE}, is_active : BOOLEAN,
     created_at : Nat, revoked_at : Nat \union {NONE}, expires_at : Nat]

KeyCallRow ==
    [at : {"idle", "begun", "locked"}, op : {"create", "rotate", "revoke", NONE},
     key : Nat \union {NONE}, arg : Nat \union {NONE}, now : Nat \union {NONE}]

KeyTypeOK ==
    /\ keys \in Seq(KeyRow) /\ key_project \in BOOLEAN /\ key_clock \in Nat
    /\ key_call \in [KeyCall -> KeyCallRow]

\* A call in progress, and what a rotation that holds its lock has checked.
KeyCallInv(c) ==
    /\ key_call[c].at # "idle" =>
          key_call[c].now \in Nat /\ key_call[c].op \in {"create", "rotate", "revoke"}
    /\ key_call[c].at # "idle" /\ key_call[c].op = "create" => key_call[c].arg \in Ttl
    /\ key_call[c].at # "idle" /\ key_call[c].op = "rotate" => key_call[c].arg \in Overlap
    /\ key_call[c].at # "idle" /\ key_call[c].op \in {"rotate", "revoke"} =>
          key_call[c].key \in DOMAIN keys
    /\ key_call[c].at = "locked" => key_call[c].op \in {"rotate", "revoke"}
    /\ key_call[c].at = "locked" /\ key_call[c].op = "rotate" =>
          /\ keys[key_call[c].key].revoked_at = NONE
          /\ \A s \in DOMAIN keys : keys[s].rotated_from # key_call[c].key

KeyLocksExclusive ==
    \A c, d \in KeyCall :
        c # d /\ key_call[c].at = "locked" /\ key_call[d].at = "locked"
        => key_call[c].key # key_call[d].key

\* The rows of replacements.
Replacement(s) ==
    LET k == keys[s].rotated_from
    IN  k # NONE => /\ k \in DOMAIN keys /\ keys[s].family = keys[k].family
                    /\ \E o \in Overlap : keys[k].expires_at <= keys[s].created_at + o

OneReplacement ==
    \A s, t \in DOMAIN keys :
        keys[s].rotated_from = keys[t].rotated_from /\ keys[s].rotated_from # NONE => s = t

KeyInv ==
    /\ KeyTypeOK /\ KeyLocksExclusive /\ OneReplacement
    /\ \A c \in KeyCall : KeyCallInv(c)
    /\ \A s \in DOMAIN keys : Replacement(s)

\* The initial states.
LEMMA KeyInitInv == KeyInit => KeyInv
BY ApiKeysAssumption
DEF KeyInit, KeyInv, KeyTypeOK, KeyLocksExclusive, OneReplacement, KeyCallInv,
    Replacement, NoKeyCall, KeyCallRow

\* A step that only moves call c, or the clock, or the project.
LEMMA KeysUntouched ==
    ASSUME KeyInv, KeyTypeOK', UNCHANGED keys, KeyLocksExclusive',
           \A c \in KeyCall : KeyCallInv(c)'
    PROVE  KeyInv'
BY Zenon DEF KeyInv, OneReplacement, Replacement

\* The times and flags of a stored row.
LEMMA KeyFields ==
    ASSUME NEW rows \in Seq(KeyRow), NEW k \in DOMAIN rows
    PROVE  /\ rows[k] \in KeyRow /\ rows[k].expires_at \in Nat
           /\ rows[k].created_at \in Nat /\ k \in Nat
<1>1. rows[k] \in KeyRow /\ k \in Nat
  OBVIOUS
<1> QED
  BY Zenon, <1>1 DEF KeyRow

\* What a rotation does: one new row, and one row's life shortened.
Rotated(c) ==
    LET k == key_call[c].key
        n == Len(keys) + 1
    IN  /\ k \in DOMAIN keys /\ keys[k].revoked_at = NONE
        /\ \A s \in DOMAIN keys : keys[s].rotated_from # k
        /\ keys' \in Seq(KeyRow)
        /\ DOMAIN keys' = DOMAIN keys \union {n} /\ n \notin DOMAIN keys
        /\ keys'[n].rotated_from = k /\ keys'[n].family = keys[k].family
        /\ \A j \in DOMAIN keys :
              /\ keys'[j].rotated_from = keys[j].rotated_from
              /\ keys'[j].family = keys[j].family
              /\ keys'[j].created_at = keys[j].created_at
              /\ keys'[j].revoked_at = keys[j].revoked_at
              /\ keys'[j].expires_at <= keys[j].expires_at
        /\ \E o \in Overlap : keys'[k].expires_at <= keys'[n].created_at + o

\* RotateKey does what Rotated says.
LEMMA RotateEffect ==
    ASSUME KeyInv, NEW c \in KeyCall, RotateKey(c)
    PROVE  Rotated(c)
<1> USE ApiKeysAssumption
<1> DEFINE k == key_call[c].key
           now == key_call[c].now
           arg == key_call[c].arg
           n == Len(keys) + 1
           end == ShortenedExpiry(keys[k].expires_at, now, arg)
           cut == [keys[k] EXCEPT !.expires_at = end]
           old == [keys EXCEPT ![k] = cut]
           row == [family |-> keys[k].family, rotated_from |-> k, is_active |-> TRUE,
                   created_at |-> now, revoked_at |-> NONE, expires_at |-> now + DefaultTtl]
<1>1. keys' = Append(old, row)
  BY Zenon DEF RotateKey
<1>2. KeyCallInv(c) /\ keys \in Seq(KeyRow)
  BY Zenon DEF KeyInv, KeyTypeOK
<1>3. /\ k \in DOMAIN keys /\ now \in Nat /\ arg \in Overlap /\ arg \in Nat
      /\ keys[k].revoked_at = NONE
      /\ \A s \in DOMAIN keys : keys[s].rotated_from # k
  BY ZenonT(60), <1>2 DEF RotateKey, KeyCallInv
<1>4. keys[k] \in KeyRow /\ keys[k].expires_at \in Nat /\ k \in Nat
  BY Zenon, <1>2, <1>3, KeyFields
<1>5. end \in Nat /\ end <= now + arg /\ end <= keys[k].expires_at
  BY <1>3, <1>4 DEF ShortenedExpiry
<1> HIDE DEF end
<1>6. /\ cut \in KeyRow /\ cut.expires_at = end
      /\ cut.rotated_from = keys[k].rotated_from /\ cut.family = keys[k].family
      /\ cut.created_at = keys[k].created_at /\ cut.revoked_at = keys[k].revoked_at
  BY Zenon, <1>4, <1>5 DEF KeyRow
<1>7. row \in KeyRow /\ row.rotated_from = k /\ row.family = keys[k].family
      /\ row.created_at = now
  BY SMTT(30), <1>3, <1>4 DEF KeyRow
<1> HIDE DEF cut, row
<1>8. /\ old \in Seq(KeyRow) /\ Len(old) = Len(keys) /\ DOMAIN old = DOMAIN keys
      /\ \A j \in DOMAIN keys : old[j] = IF j = k THEN cut ELSE keys[j]
  BY <1>2, <1>3, <1>6
<1> HIDE DEF old
<1>9. /\ keys' \in Seq(KeyRow)
      /\ DOMAIN keys' = DOMAIN keys \union {n} /\ n \notin DOMAIN keys
      /\ \A j \in DOMAIN keys : keys'[j] = old[j]
      /\ keys'[n] = row
  BY <1>1, <1>2, <1>7, <1>8
<1>10. ASSUME NEW j \in DOMAIN keys
       PROVE  /\ keys'[j].rotated_from = keys[j].rotated_from
              /\ keys'[j].family = keys[j].family
              /\ keys'[j].created_at = keys[j].created_at
              /\ keys'[j].revoked_at = keys[j].revoked_at
              /\ keys'[j].expires_at <= keys[j].expires_at
  <2>1. CASE j = k
    BY Zenon, <1>5, <1>6, <1>8, <1>9, <2>1
  <2>2. CASE j # k
    <3>1. keys'[j] = keys[j] /\ keys[j].expires_at \in Nat
      BY Zenon, <1>2, <1>8, <1>9, <2>2, KeyFields
    <3> QED
      BY <3>1
  <2> QED
    BY Zenon, <2>1, <2>2
<1>11. keys'[k].expires_at <= keys'[n].created_at + arg
  BY Zenon, <1>3, <1>5, <1>6, <1>7, <1>8, <1>9
<1> QED
  BY Zenon, <1>3, <1>7, <1>9, <1>10, <1>11 DEF Rotated

\* Every step keeps the invariant.
LEMMA KeyStep == KeyInv /\ [KeyNext]_key_vars => KeyInv'
<1> SUFFICES ASSUME KeyInv, [KeyNext]_key_vars PROVE KeyInv'
  BY Zenon
<1> USE ApiKeysAssumption
<1>1. CASE KeyTick \/ StopProject \/ UNCHANGED key_vars
  <2>1. UNCHANGED <<keys, key_call>>
    BY Zenon, <1>1 DEF KeyTick, StopProject, key_vars
  <2>2. key_project' \in BOOLEAN
    BY <1>1, Zenon DEF KeyTick, StopProject, key_vars, KeyInv, KeyTypeOK
  <2>3. key_clock' \in Nat
    <3>1. CASE KeyTick
      BY <3>1 DEF KeyTick, KeyInv, KeyTypeOK
    <3>2. CASE ~KeyTick
      BY <1>1, <3>2, Zenon DEF StopProject, key_vars, KeyInv, KeyTypeOK
    <3> QED
      BY Zenon, <3>1, <3>2
  <2>4. KeyTypeOK'
    BY Zenon, <2>1, <2>2, <2>3 DEF KeyInv, KeyTypeOK
  <2> QED
    BY ZenonT(60), <2>1, <2>4, KeysUntouched DEF KeyInv, KeyCallInv, KeyLocksExclusive
<1>2. ASSUME NEW c \in KeyCall, AbortKeyCall(c) PROVE KeyInv'
  <2>1. KeyTypeOK' /\ UNCHANGED keys /\ key_call' = [key_call EXCEPT ![c] = NoKeyCall]
    BY Zenon, <1>2 DEF AbortKeyCall, EndKeyCall, NoKeyCall, KeyCallRow, KeyInv, KeyTypeOK
  <2>2. KeyLocksExclusive' /\ \A d \in KeyCall : KeyCallInv(d)'
    BY ZenonT(60), <2>1 DEF NoKeyCall, KeyInv, KeyTypeOK, KeyCallInv, KeyLocksExclusive
  <2> QED
    BY Zenon, <2>1, <2>2, KeysUntouched
<1>3. ASSUME NEW c \in KeyCall, NEW op \in {"create", "rotate", "revoke"},
             NEW key \in DOMAIN keys \union {NONE}, NEW arg \in Ttl \union Overlap \union {NONE},
             BeginKeyCall(c, op, key, arg)
      PROVE  KeyInv'
  <2> DEFINE new == [at |-> "begun", op |-> op, key |-> key, arg |-> arg, now |-> key_clock]
  <2>1. new \in KeyCallRow /\ UNCHANGED <<keys, key_project, key_clock>>
        /\ key_call' = [key_call EXCEPT ![c] = new]
    BY <1>3 DEF BeginKeyCall, KeyCallRow, KeyInv, KeyTypeOK
  <2>2. KeyTypeOK'
    BY Zenon, <2>1 DEF KeyInv, KeyTypeOK
  <2>3. KeyLocksExclusive'
    BY Zenon, <2>1 DEF KeyInv, KeyTypeOK, KeyLocksExclusive
  <2>4. ASSUME NEW d \in KeyCall PROVE KeyCallInv(d)'
    <3>1. op = "create" => arg \in Ttl
      BY Zenon, <1>3 DEF BeginKeyCall
    <3>2. op = "rotate" => arg \in Overlap
      BY Zenon, <1>3 DEF BeginKeyCall
    <3>3. op # "create" => key \in DOMAIN keys
      BY Zenon, <1>3 DEF BeginKeyCall
    <3> QED
      BY ZenonT(60), <2>1, <3>1, <3>2, <3>3 DEF KeyInv, KeyTypeOK, KeyCallInv
  <2> QED
    BY Zenon, <2>1, <2>2, <2>3, <2>4, KeysUntouched
<1>4. ASSUME NEW c \in KeyCall, LockKey(c) PROVE KeyInv'
  <2>1. /\ UNCHANGED <<keys, key_project, key_clock>>
        /\ key_call' = [key_call EXCEPT ![c].at = "locked"]
        /\ key_call[c].at = "begun" /\ key_call[c].op # "create"
    BY Zenon, <1>4 DEF LockKey
  <2>2. KeyTypeOK'
    BY ZenonT(60), <2>1 DEF KeyInv, KeyTypeOK, KeyCallRow
  <2>3. KeyLocksExclusive'
    BY <1>4, <2>1 DEF LockKey, KeyFree, KeyInv, KeyTypeOK, KeyLocksExclusive
  <2>4. ASSUME NEW d \in KeyCall PROVE KeyCallInv(d)'
    <3>1. CASE d # c
      BY Zenon, <2>1, <3>1 DEF KeyInv, KeyTypeOK, KeyCallInv
    <3>2. CASE d = c
      <4>1. KeyCallInv(c) /\ key_call[c] \in KeyCallRow
        BY Zenon DEF KeyInv, KeyTypeOK
      <4>2. key_call'[c] = [key_call[c] EXCEPT !.at = "locked"]
        BY Zenon, <2>1 DEF KeyInv, KeyTypeOK
      <4>3. key_call[c].op \in {"rotate", "revoke"}
        BY Zenon, <2>1, <4>1 DEF KeyCallInv
      <4>4. key_call[c].op = "rotate" =>
              /\ keys[key_call[c].key].revoked_at = NONE
              /\ \A s \in DOMAIN keys : keys[s].rotated_from # key_call[c].key
        BY Zenon, <1>4 DEF LockKey, CanRotate, Alive, Successors
      <4> QED
        BY <2>1, <3>2, <4>1, <4>2, <4>3, <4>4 DEF KeyCallInv, KeyCallRow
    <3> QED
      BY Zenon, <3>1, <3>2
  <2> QED
    BY Zenon, <2>1, <2>2, <2>3, <2>4, KeysUntouched
<1>5. ASSUME NEW c \in KeyCall, create_api_key(c) PROVE KeyInv'
  <2> DEFINE row == [family |-> Len(keys) + 1, rotated_from |-> NONE, is_active |-> TRUE,
                     created_at |-> key_call[c].now, revoked_at |-> NONE,
                     expires_at |-> key_call[c].now + key_call[c].arg]
  <2>1. /\ keys' = Append(keys, row) /\ UNCHANGED <<key_project, key_clock>>
        /\ key_call' = [key_call EXCEPT ![c] = NoKeyCall]
    BY Zenon, <1>5 DEF create_api_key, EndKeyCall
  <2>2. row \in KeyRow
    <3>1. key_call[c].now \in Nat /\ key_call[c].arg \in Nat
      BY ZenonT(60), <1>5 DEF create_api_key, KeyInv, KeyCallInv
    <3>2. Len(keys) + 1 \in Nat
      BY DEF KeyInv, KeyTypeOK
    <3> QED
      BY <3>1, <3>2 DEF KeyRow
  <2>3. row.rotated_from = NONE
    BY Zenon
  <2> HIDE DEF row
  <2>4. /\ KeyTypeOK' /\ Len(keys') = Len(keys) + 1
        /\ DOMAIN keys' = DOMAIN keys \union {Len(keys) + 1}
        /\ \A k \in DOMAIN keys : keys'[k] = keys[k]
        /\ keys'[Len(keys) + 1] = row
    BY <2>1, <2>2 DEF KeyInv, KeyTypeOK, NoKeyCall, KeyCallRow
  <2>5. KeyLocksExclusive'
    BY Zenon, <2>1 DEF NoKeyCall, KeyInv, KeyTypeOK, KeyLocksExclusive
  <2>6. ASSUME NEW d \in KeyCall PROVE KeyCallInv(d)'
    <3>1. key_call[d].key # NONE => key_call[d].key \in Nat
      BY Zenon DEF KeyInv, KeyTypeOK, KeyCallRow
    <3> QED
      BY SMTT(30), <2>1, <2>3, <2>4, <3>1 DEF NoKeyCall, KeyInv, KeyTypeOK, KeyCallInv
  <2>7. OneReplacement'
    BY Zenon, <2>3, <2>4 DEF KeyInv, OneReplacement
  <2>8. ASSUME NEW s \in DOMAIN keys' PROVE Replacement(s)'
    BY <2>3, <2>4 DEF KeyInv, Replacement
  <2> QED
    BY Zenon, <2>4, <2>5, <2>6, <2>7, <2>8 DEF KeyInv
<1>6. ASSUME NEW c \in KeyCall, RotateKey(c) PROVE KeyInv'
  <2> DEFINE k == key_call[c].key
             n == Len(keys) + 1
  <2>1. UNCHANGED <<key_project, key_clock>> /\ key_call' = [key_call EXCEPT ![c] = NoKeyCall]
    BY Zenon, <1>6 DEF RotateKey, EndKeyCall
  <2>2. Rotated(c)
    BY Zenon, <1>6, RotateEffect
  <2>3. /\ k \in DOMAIN keys /\ keys' \in Seq(KeyRow)
        /\ DOMAIN keys' = DOMAIN keys \union {n} /\ n \notin DOMAIN keys
        /\ keys'[n].rotated_from = k /\ keys'[n].family = keys[k].family
        /\ \A s \in DOMAIN keys : keys[s].rotated_from # k
    BY Zenon, <2>2 DEF Rotated
  <2>4. \A j \in DOMAIN keys :
           /\ keys'[j].rotated_from = keys[j].rotated_from
           /\ keys'[j].family = keys[j].family /\ keys'[j].created_at = keys[j].created_at
           /\ keys'[j].revoked_at = keys[j].revoked_at
           /\ keys'[j].expires_at <= keys[j].expires_at
    BY Zenon, <2>2 DEF Rotated
  <2>5. \E o \in Overlap : keys'[k].expires_at <= keys'[n].created_at + o
    BY Zenon, <2>2 DEF Rotated
  <2>6. k # NONE
    BY SMTT(30), <2>3 DEF KeyInv, KeyTypeOK
  <2>9. KeyTypeOK'
    BY Zenon, <2>1, <2>3 DEF KeyInv, KeyTypeOK, NoKeyCall, KeyCallRow
  <2>10. KeyLocksExclusive'
    BY Zenon, <2>1 DEF NoKeyCall, KeyInv, KeyTypeOK, KeyLocksExclusive
  <2>11. ASSUME NEW d \in KeyCall PROVE KeyCallInv(d)'
    <3>1. CASE d = c
      BY Zenon, <2>1, <3>1 DEF NoKeyCall, KeyCallInv, KeyInv, KeyTypeOK
    <3>2. CASE d # c
      <4>1. key_call'[d] = key_call[d] /\ KeyCallInv(d)
        BY Zenon, <2>1, <3>2 DEF KeyInv, KeyTypeOK
      <4>2. key_call[d].at = "locked" => key_call[d].key # k
        BY ZenonT(60), <1>6, <3>2 DEF RotateKey, KeyInv, KeyLocksExclusive
      <4> QED
        BY <2>3, <2>4, <4>1, <4>2 DEF KeyCallInv
    <3> QED
      BY Zenon, <3>1, <3>2
  <2>12. OneReplacement'
    <3>1. ASSUME NEW s \in DOMAIN keys', NEW t \in DOMAIN keys',
                 keys'[s].rotated_from = keys'[t].rotated_from,
                 keys'[s].rotated_from # NONE
          PROVE  s = t
      BY SMTT(30), <2>3, <2>4, <3>1 DEF KeyInv, OneReplacement
    <3> QED
      BY Zenon, <3>1 DEF OneReplacement
  <2>13. ASSUME NEW s \in DOMAIN keys' PROVE Replacement(s)'
    <3>1. CASE s = n
      BY Zenon, <2>3, <2>4, <2>5, <3>1 DEF Replacement
    <3>2. CASE s \in DOMAIN keys /\ keys[s].rotated_from # NONE
      <4> DEFINE r == keys[s].rotated_from
      <4>1. PICK o \in Overlap : keys[r].expires_at <= keys[s].created_at + o
        BY Zenon, <3>2 DEF KeyInv, Replacement
      <4>2. r \in DOMAIN keys /\ keys[s].family = keys[r].family
        BY Zenon, <3>2 DEF KeyInv, Replacement
      <4>3. keys[r].expires_at \in Int /\ keys'[r].expires_at \in Int
            /\ keys[s].created_at \in Int
        BY SMTT(30), <2>3, <3>2, <4>2, KeyFields DEF KeyInv, KeyTypeOK
      <4>4. keys'[r].expires_at <= keys[r].expires_at
            /\ keys'[s].created_at = keys[s].created_at
        BY Zenon, <2>4, <3>2, <4>2
      <4>5. o \in Int
        OBVIOUS
      <4>6. keys'[r].expires_at <= keys'[s].created_at + o
        BY SMTT(30), <4>1, <4>3, <4>4, <4>5
      <4> QED
        BY Zenon, <2>3, <2>4, <3>2, <4>2, <4>6 DEF Replacement
    <3>3. CASE s \in DOMAIN keys /\ keys[s].rotated_from = NONE
      BY Zenon, <2>4, <3>3 DEF Replacement
    <3> QED
      BY Zenon, <2>3, <3>1, <3>2, <3>3
  <2> QED
    BY Zenon, <2>9, <2>10, <2>11, <2>12, <2>13 DEF KeyInv
<1>7. ASSUME NEW c \in KeyCall, RevokeKey(c) PROVE KeyInv'
  <2> DEFINE k == key_call[c].key
             row == [keys[k] EXCEPT !.is_active = FALSE,
                        !.revoked_at = IF @ = NONE THEN key_call[c].now ELSE @]
  <2>1. /\ keys' = [keys EXCEPT ![k] = row] /\ UNCHANGED <<key_project, key_clock>>
        /\ key_call' = [key_call EXCEPT ![c] = NoKeyCall]
    BY Zenon, <1>7 DEF RevokeKey, EndKeyCall
  <2>2. k \in DOMAIN keys /\ keys[k] \in KeyRow /\ key_call[c].now \in Nat
    BY <1>7 DEF RevokeKey, KeyInv, KeyTypeOK, KeyCallInv
  <2>3. row \in KeyRow /\ row.rotated_from = keys[k].rotated_from
        /\ row.family = keys[k].family /\ row.created_at = keys[k].created_at
        /\ row.expires_at = keys[k].expires_at
    BY ZenonT(60), <2>2 DEF KeyRow
  <2> HIDE DEF row
  <2>4. /\ keys' \in Seq(KeyRow) /\ DOMAIN keys' = DOMAIN keys
        /\ \A j \in DOMAIN keys :
              /\ j # k => keys'[j] = keys[j]
              /\ keys'[j].rotated_from = keys[j].rotated_from
              /\ keys'[j].family = keys[j].family
              /\ keys'[j].created_at = keys[j].created_at
              /\ keys'[j].expires_at = keys[j].expires_at
    BY SMTT(30), <2>1, <2>2, <2>3 DEF KeyInv, KeyTypeOK
  <2>5. KeyTypeOK'
    BY Zenon, <2>1, <2>4 DEF KeyInv, KeyTypeOK, NoKeyCall, KeyCallRow
  <2>6. KeyLocksExclusive'
    BY Zenon, <2>1 DEF NoKeyCall, KeyInv, KeyTypeOK, KeyLocksExclusive
  <2>7. ASSUME NEW d \in KeyCall PROVE KeyCallInv(d)'
    <3>1. CASE d = c
      BY Zenon, <2>1, <3>1 DEF NoKeyCall, KeyCallInv, KeyInv, KeyTypeOK
    <3>2. CASE d # c
      <4>1. key_call'[d] = key_call[d] /\ KeyCallInv(d)
        BY Zenon, <2>1, <3>2 DEF KeyInv, KeyTypeOK
      <4>2. key_call[d].at = "locked" => key_call[d].key # k
        BY Zenon, <1>7, <3>2 DEF RevokeKey, KeyInv, KeyLocksExclusive
      <4> QED
        BY <2>4, <4>1, <4>2 DEF KeyCallInv
    <3> QED
      BY Zenon, <3>1, <3>2
  <2>8. OneReplacement' /\ \A s \in DOMAIN keys' : Replacement(s)'
    BY SMTT(30), <2>4 DEF KeyInv, OneReplacement, Replacement
  <2> QED
    BY Zenon, <2>5, <2>6, <2>7, <2>8 DEF KeyInv
<1> QED
  BY Zenon, <1>1, <1>2, <1>3, <1>4, <1>5, <1>6, <1>7 DEF KeyNext

\* The inductive invariant of the keys.
THEOREM KeysSafe == KeySpec => []KeyInv
BY KeyInitInv, KeyStep, PTL DEF KeySpec

\* A key is replaced at most once, whatever rotations of it overlap.
THEOREM FamiliesAreChains == KeySpec => []FamilyIsChain
<1>1. KeyInv => FamilyIsChain
  BY ApiKeysAssumption DEF KeyInv, KeyTypeOK, OneReplacement, Replacement, FamilyIsChain, Successors
<1> QED
  BY <1>1, KeysSafe, PTL

\* What one step does to the rows of keys.
LEMMA KeyRowStep ==
    ASSUME KeyInv, [KeyNext]_key_vars, NEW k \in DOMAIN keys
    PROVE  /\ k \in DOMAIN keys'
           /\ keys'[k].expires_at <= keys[k].expires_at
           /\ keys[k].revoked_at # NONE =>
                 keys'[k].revoked_at = keys[k].revoked_at /\ Successors(k)' = Successors(k)
<1> USE ApiKeysAssumption
<1>1. keys[k] \in KeyRow /\ keys[k].expires_at \in Nat
  BY Zenon, KeyFields DEF KeyInv, KeyTypeOK
<1>2. CASE UNCHANGED keys
  BY SMTT(30), <1>1, <1>2 DEF Successors
<1>3. ASSUME NEW c \in KeyCall, create_api_key(c)
      PROVE  /\ DOMAIN keys' = DOMAIN keys \union {Len(keys) + 1}
             /\ \A j \in DOMAIN keys : keys'[j] = keys[j]
             /\ keys'[Len(keys) + 1].rotated_from = NONE
  BY <1>3 DEF create_api_key, KeyInv, KeyTypeOK
<1>4. ASSUME NEW c \in KeyCall, RotateKey(c)
      PROVE  /\ DOMAIN keys' = DOMAIN keys \union {Len(keys) + 1}
             /\ \A j \in DOMAIN keys :
                   /\ keys'[j].revoked_at = keys[j].revoked_at
                   /\ keys'[j].rotated_from = keys[j].rotated_from
             /\ keys'[k].expires_at <= keys[k].expires_at
             /\ keys'[Len(keys) + 1].rotated_from = key_call[c].key
             /\ keys[key_call[c].key].revoked_at = NONE
  BY Zenon, <1>4, RotateEffect DEF Rotated
<1>5. ASSUME NEW c \in KeyCall, RevokeKey(c)
      PROVE  /\ DOMAIN keys' = DOMAIN keys
             /\ \A j \in DOMAIN keys : keys'[j].rotated_from = keys[j].rotated_from
             /\ keys'[k].expires_at = keys[k].expires_at
             /\ keys[k].revoked_at # NONE => keys'[k].revoked_at = keys[k].revoked_at
  <2> DEFINE kk == key_call[c].key
             row == [keys[kk] EXCEPT !.is_active = FALSE,
                        !.revoked_at = IF @ = NONE THEN key_call[c].now ELSE @]
  <2>1. keys' = [keys EXCEPT ![kk] = row]
    BY ZenonT(60), <1>5 DEF RevokeKey
  <2>2. kk \in DOMAIN keys /\ keys \in Seq(KeyRow)
    BY Zenon, <1>5 DEF RevokeKey, KeyInv, KeyTypeOK, KeyCallInv
  <2>3. keys[kk] \in KeyRow
    BY Zenon, <2>2, KeyFields
  <2>4. /\ row.rotated_from = keys[kk].rotated_from /\ row.expires_at = keys[kk].expires_at
        /\ keys[kk].revoked_at # NONE => row.revoked_at = keys[kk].revoked_at
    BY Zenon, <2>3 DEF KeyRow
  <2> HIDE DEF row
  <2> QED
    BY Zenon, <2>1, <2>2, <2>4
<1>6. CASE \E c \in KeyCall : create_api_key(c)
  BY SMTT(30), <1>1, <1>3, <1>6 DEF Successors, KeyInv, KeyTypeOK
<1>7. CASE \E c \in KeyCall : RotateKey(c)
  BY SMTT(30), <1>1, <1>4, <1>7 DEF Successors, KeyInv, KeyTypeOK
<1>8. CASE \E c \in KeyCall : RevokeKey(c)
  BY <1>1, <1>5, <1>8 DEF Successors
<1> QED
  BY Zenon, <1>2, <1>6, <1>7, <1>8
  DEF KeyNext, key_vars, KeyTick, StopProject, LockKey, AbortKeyCall, BeginKeyCall

\* Revocation is final, whatever rotation, revocation or request comes after.
THEOREM RevocationHolds == KeySpec => RevocationIsFinal
<1>1. KeyInv /\ [KeyNext]_key_vars =>
        [\A k \in DOMAIN keys : keys[k].revoked_at # NONE =>
            /\ keys'[k].revoked_at = keys[k].revoked_at
            /\ ~Accepts(k, key_clock)'
            /\ Successors(k)' = Successors(k)]_key_vars
  BY Zenon, KeyRowStep DEF Accepts, Alive
<1> QED
  BY <1>1, KeysSafe, PTL DEF KeySpec, RevocationIsFinal

\* Rotation never prolongs a key's life, and bounds it by the overlap.
THEOREM RotationShortens == KeySpec => RotationOnlyShortens
<1>1. KeyInv' => \A k \in DOMAIN keys' : \A s \in Successors(k)' : \E o \in Overlap :
                    keys'[k].expires_at <= keys'[s].created_at + o
  BY ApiKeysAssumption DEF KeyInv, KeyTypeOK, Replacement, Successors
<1>2. KeyInv /\ KeyInv' /\ [KeyNext]_key_vars =>
        [\A k \in DOMAIN keys :
            /\ keys'[k].expires_at <= keys[k].expires_at
            /\ \A s \in Successors(k)' : \E o \in Overlap :
                  keys'[k].expires_at <= keys'[s].created_at + o]_key_vars
  BY Zenon, <1>1, KeyRowStep
<1> QED
  BY <1>2, KeysSafe, PTL DEF KeySpec, RotationOnlyShortens

-----------------------------------------------------------------------------
(* The audit log and the roles. *)

\* The role of a deleted account is gone with it.
ExplainedInv ==
    /\ \A u \in User : account[u] = "deleted" => role[u] = NULL
    /\ AuditExplainsRoles

\* A set of positions has a last one.
LEMMA MaxExists ==
    ASSUME NEW n \in Nat, NEW S \in SUBSET (1..n), S # {}
    PROVE  Max(S) \in S
<1> DEFINE After(x) == {y \in S : y > x}
           P == {After(x) : x \in S}
<1>1. IsFiniteSet(S)
  <2>1. IsFiniteSet(1..n)
    BY FS_Interval
  <2> QED
    BY Zenon, <2>1, FS_Subset
<1>2. IsWellFoundedOn(StrictSubsetOrdering(S), SUBSET S)
  BY Zenon, <1>1, FS_FiniteSubsetsOfFinite, FS_StrictSubsetOrderingWellFounded
<1>3. P \subseteq SUBSET S /\ P # {}
  BY Zenon
<1> HIDE DEF P
<1>4. PICK m \in P : \A z \in P : ~(<<z, m>> \in StrictSubsetOrdering(S))
  BY Zenon, <1>2, <1>3, WFMin
<1>5. PICK x \in S : m = After(x)
  BY Zenon DEF P
<1>6. ASSUME NEW y \in S, y > x PROVE FALSE
  <2>1. After(y) \in P
    BY Zenon DEF P
  <2>2. After(y) \subseteq m /\ y \in m /\ y \notin After(y)
    <3>1. S \subseteq Int
      OBVIOUS
    <3>2. \A z \in S : z > y => z > x
      BY <1>6, <3>1
    <3>3. ~(y > y)
      BY <3>1
    <3> QED
      BY Zenon, <1>5, <1>6, <3>2, <3>3
  <2>3. <<After(y), m>> \in StrictSubsetOrdering(S)
    BY Zenon, <1>3, <2>1, <2>2 DEF StrictSubsetOrdering
  <2> QED
    BY Zenon, <1>4, <2>1, <2>3
<1>7. \A y \in S : x >= y
  BY <1>6
<1> QED
  BY Zenon, <1>7 DEF Max

\* The largest of a set of positions that holds the last one.
LEMMA MaxIsLast ==
    ASSUME NEW n \in Nat, NEW S \in SUBSET (1..n), n \in S
    PROVE  Max(S) = n
<1>1. \A y \in S : n >= y
  OBVIOUS
<1>2. \A x \in S : (\A y \in S : x >= y) => x = n
  OBVIOUS
<1> QED
  BY Zenon, <1>1, <1>2 DEF Max

\* One more event in the log: what was left before stays so, and the event
\* says what its user has now.
LEMMA OneMoreEvent ==
    ASSUME NEW s \in Seq(AuditRow), NEW row \in AuditRow
    PROVE  /\ Len(Append(s, row)) = Len(s) + 1 /\ Append(s, row)[Len(s) + 1] = row
           /\ DOMAIN Append(s, row) = 1..(Len(s) + 1) /\ DOMAIN s = 1..Len(s)
           /\ Len(s) \in Nat
           /\ \A i \in 1..Len(s) : Append(s, row)[i] = s[i]
           /\ \A n \in 0..Len(s) : \A u : RoleAfter(Append(s, row), n, u) = RoleAfter(s, n, u)
           /\ \A u : RoleAfter(Append(s, row), Len(s) + 1, u) =
                        IF row.user = u THEN row.current ELSE RoleAfter(s, Len(s), u)
<1> DEFINE t == Append(s, row)
           len == Len(s)
<1>1. /\ Len(t) = len + 1 /\ t[len + 1] = row /\ len \in Nat
      /\ DOMAIN t = 1..(len + 1) /\ DOMAIN s = 1..len
      /\ \A i \in 1..len : t[i] = s[i]
  OBVIOUS
<1> HIDE DEF t, len
<1>2. ASSUME NEW u, NEW n \in 0..len
      PROVE  RoleAfter(t, n, u) = RoleAfter(s, n, u)
  <2> DEFINE mine == {i \in 1..n : s[i].user = u}
  <2>1. {i \in 1..n : t[i].user = u} = mine
    BY <1>1
  <2>2. CASE mine = {}
    BY Zenon, <2>1, <2>2 DEF RoleAfter
  <2>3. CASE mine # {}
    <3>1. Max(mine) \in mine
      <4>1. mine \in SUBSET (1..n) /\ n \in Nat
        BY <1>1
      <4> HIDE DEF mine
      <4> QED
        BY Zenon, <2>3, <4>1, MaxExists
    <3>2. RoleAfter(t, n, u) = t[Max(mine)].current
      BY Zenon, <2>1, <2>3 DEF RoleAfter
    <3>3. RoleAfter(s, n, u) = s[Max(mine)].current
      BY Zenon, <2>3 DEF RoleAfter
    <3>4. Max(mine) \in 1..len
      BY <1>1, <3>1
    <3> QED
      BY Zenon, <1>1, <3>2, <3>3, <3>4
  <2> QED
    BY Zenon, <2>2, <2>3
<1>3. ASSUME NEW u
      PROVE  RoleAfter(t, len + 1, u) = IF row.user = u THEN row.current
                                        ELSE RoleAfter(s, len, u)
  <2> DEFINE mine == {i \in 1..(len + 1) : t[i].user = u}
  <2>1. CASE row.user = u
    <3>1. Max(mine) = len + 1 /\ mine # {}
      <4>1. len + 1 \in mine /\ mine \in SUBSET (1..(len + 1)) /\ len + 1 \in Nat
        BY <1>1, <2>1
      <4> HIDE DEF mine
      <4> QED
        BY Zenon, <4>1, MaxIsLast
    <3> QED
      BY Zenon, <1>1, <2>1, <3>1 DEF RoleAfter
  <2>2. CASE row.user # u
    <3>1. mine = {i \in 1..len : t[i].user = u}
      BY <1>1, <2>2
    <3>2. RoleAfter(t, len + 1, u) = RoleAfter(t, len, u)
      BY Zenon, <3>1 DEF RoleAfter
    <3> QED
      BY <1>1, <1>2, <2>2, <3>2
  <2> QED
    BY Zenon, <2>1, <2>2
<1> QED
  BY Zenon, <1>1, <1>2, <1>3 DEF t, len

\* A step that changes one role and records the change, of a user who is there.
LEMMA RecordedChange ==
    ASSUME TenancyInv, ExplainedInv, NEW u \in User,
           NEW current \in OrganizationRole \union {NULL},
           account[u] # "deleted", account' = account,
           role' = [role EXCEPT ![u] = current],
           audit' = Recorded(u, role[u], current)
    PROVE  ExplainedInv'
<1> DEFINE row == [user |-> u, previous |-> role[u], current |-> current]
           len == Len(audit)
<1>1. audit \in Seq(AuditRow) /\ row \in AuditRow /\ role \in [User -> OrganizationRole \union {NULL}]
  BY Zenon DEF TenancyInv, TenancyTypeOK, AuditRow
<1>2. audit' = Append(audit, row) /\ row.user = u /\ row.previous = role[u]
      /\ row.current = current
  BY Zenon DEF Recorded
<1> HIDE DEF row
<1>3. /\ Len(audit') = len + 1 /\ audit'[len + 1] = row /\ len \in Nat
      /\ DOMAIN audit' = 1..(len + 1) /\ DOMAIN audit = 1..len
      /\ \A i \in 1..len : audit'[i] = audit[i]
      /\ \A n \in 0..len : \A v : RoleAfter(audit', n, v) = RoleAfter(audit, n, v)
      /\ \A v : RoleAfter(audit', len + 1, v) =
                   IF u = v THEN current ELSE RoleAfter(audit, len, v)
  <2> DEFINE t == Append(audit, row)
  <2>1. /\ Len(t) = len + 1 /\ t[len + 1] = row /\ len \in Nat
        /\ DOMAIN t = 1..(len + 1) /\ DOMAIN audit = 1..len
        /\ \A i \in 1..len : t[i] = audit[i]
        /\ \A n \in 0..len : \A v : RoleAfter(t, n, v) = RoleAfter(audit, n, v)
        /\ \A v : RoleAfter(t, len + 1, v) =
                     IF row.user = v THEN row.current ELSE RoleAfter(audit, len, v)
    BY Zenon, <1>1, OneMoreEvent
  <2>2. audit' = t
    BY Zenon, <1>2
  <2> HIDE DEF t, len
  <2> QED
    BY Zenon, <1>2, <2>1, <2>2
<1> HIDE DEF len
<1>4. \A v \in User : role'[v] = IF v = u THEN current ELSE role[v]
  BY Zenon, <1>1
<1>5. ASSUME NEW i \in DOMAIN audit'
      PROVE  audit'[i].previous = RoleAfter(audit', i - 1, audit'[i].user)
  <2>1. CASE i \in 1..len
    <3>1. i - 1 \in 0..len
      BY SMTT(30), <1>3, <2>1
    <3>2. audit[i].previous = RoleAfter(audit, i - 1, audit[i].user)
      BY Zenon, <1>3, <2>1 DEF ExplainedInv, AuditExplainsRoles
    <3> QED
      BY ZenonT(60), <1>3, <2>1, <3>1, <3>2
  <2>2. CASE i = len + 1
    <3>1. role[u] = RoleAfter(audit, len, u) /\ len \in 0..len /\ i - 1 = len
      BY SMTT(30), <1>3, <2>2 DEF ExplainedInv, AuditExplainsRoles, len
    <3> QED
      BY SMTT(30), <1>2, <1>3, <2>2, <3>1
  <2> QED
    BY SMTT(30), <1>3, <2>1, <2>2
<1>6. ASSUME NEW v \in User, account'[v] # "deleted"
      PROVE  role'[v] = RoleAfter(audit', Len(audit'), v)
  BY <1>3, <1>4, <1>6 DEF ExplainedInv, AuditExplainsRoles, len
<1>7. \A v \in User : account'[v] = "deleted" => role'[v] = NULL
  BY Zenon, <1>4 DEF ExplainedInv
<1> QED
  BY Zenon, <1>5, <1>6, <1>7 DEF ExplainedInv, AuditExplainsRoles

\* A step that records nothing changes no role but that of a deleted account.
LEMMA UnrecordedStep ==
    ASSUME ExplainedInv, audit' = audit,
           \A u \in User : \/ account'[u] = "deleted" /\ role'[u] = NULL
                           \/ /\ role'[u] = role[u]
                              /\ account'[u] = "deleted" <=> account[u] = "deleted"
    PROVE  ExplainedInv'
BY Zenon DEF ExplainedInv, AuditExplainsRoles

\* Every step keeps the log and the roles in agreement.
LEMMA ExplainedStep == TenancyInv /\ ExplainedInv /\ [TenancyNext]_tenancy => ExplainedInv'
<1> SUFFICES ASSUME TenancyInv, ExplainedInv, [TenancyNext]_tenancy PROVE ExplainedInv'
  BY Zenon
<1>1. ASSUME NEW u \in User, CreateOrganization(u) PROVE ExplainedInv'
  <2>1. role[u] = NULL
    BY Zenon, <1>1 DEF CreateOrganization, TenancyInv
  <2> QED
    BY Zenon, <1>1, <2>1, RecordedChange DEF CreateOrganization, OrganizationRole
<1>2. ASSUME NEW u \in User, DeactivateUser(u) \/ DeleteUser(u) PROVE ExplainedInv'
  <2>1. /\ account \in [User -> {"active", "inactive", "deleted"}]
        /\ role \in [User -> OrganizationRole \union {NULL}]
    BY Zenon DEF TenancyInv, TenancyTypeOK
  <2> QED
    BY Zenon, <1>2, <2>1, UnrecordedStep DEF DeactivateUser, DeleteUser
<1>3. ASSUME NEW c \in Call, InsertMember(c) PROVE ExplainedInv'
  <2>1. call[c].target \in User /\ call[c].to \in OrganizationRole
    BY Zenon, <1>3 DEF InsertMember, TenancyInv, Arguments
  <2> QED
    BY Zenon, <1>3, <2>1, RecordedChange DEF InsertMember
<1>4. ASSUME NEW c \in Call, UpdateMember(c) PROVE ExplainedInv'
  <2>1. call[c].target \in User /\ call[c].to \in OrganizationRole
    BY Zenon, <1>4 DEF UpdateMember, TenancyInv, Arguments
  <2>2. account[call[c].target] # "deleted"
    BY Zenon, <1>4, <2>1 DEF UpdateMember, TenancyInv, Locking, LockedRowsExist, ExplainedInv
  <2> QED
    BY ZenonT(60), <1>4, <2>1, <2>2, RecordedChange DEF UpdateMember
<1>5. ASSUME NEW c \in Call, RemoveMember(c) PROVE ExplainedInv'
  <2>1. call[c].target \in User
    BY Zenon, <1>5 DEF RemoveMember, TenancyInv, Arguments
  <2>2. account[call[c].target] # "deleted"
    BY Zenon, <1>5, <2>1 DEF RemoveMember, TenancyInv, Locking, LockedRowsExist, ExplainedInv
  <2> QED
    BY Zenon, <1>5, <2>1, <2>2, RecordedChange DEF RemoveMember
<1>6. CASE UNCHANGED <<account, role, audit>>
  BY Zenon, <1>6, UnrecordedStep
<1>7. ASSUME NEW c \in Call,
             \/ CheckNewMember(c) \/ LockMember(c) \/ RequireOwner(c) \/ LockOwners(c)
             \/ SweepProjectRoles(c) \/ ProjectStep(c) \/ AbortCall(c)
             \/ \E op, u, t, to : BeginCall(c, op, u, t, to)
      PROVE  UNCHANGED <<account, role, audit>>
  BY Zenon, <1>7 DEF CheckNewMember, LockMember, RequireOwner, LockOwners, SweepProjectRoles,
     ProjectStep, CreateProject, DeactivateProject, CheckProjectMember,
     InsertProjectMember, UpsertProjectMember, ChangeProjectMember, AbortCall, BeginCall
<1>8. CASE UNCHANGED tenancy
  BY Zenon, <1>6, <1>8 DEF tenancy
<1> QED
  BY Zenon, <1>1, <1>2, <1>3, <1>4, <1>5, <1>6, <1>7, <1>8 DEF TenancyNext, MemberStep

\* The audit log explains the memberships: for any users and any calls in
\* progress together, each event continues from the role the one before left,
\* and the last one left the role the user has.  The row locks of update_member
\* and remove_member, and the unique constraint behind add_member, keep the
\* role a call records from being changed before it writes.
THEOREM AuditExplains == TenancySpec => []AuditExplainsRoles
<1> DEFINE Inv == TenancyInv /\ ExplainedInv
<1>1. TenancyInit => Inv
  <2> SUFFICES ASSUME TenancyInit PROVE ExplainedInv
    BY Zenon, TenancyInitInv
  <2>1. audit = <<>> /\ Len(audit) = 0 /\ DOMAIN audit = {} /\ 1..0 = {}
    BY DEF TenancyInit
  <2> QED
    BY Zenon, <2>1 DEF TenancyInit, ExplainedInv, AuditExplainsRoles, RoleAfter
<1>2. Inv /\ [TenancyNext]_tenancy => Inv'
  BY Zenon, TenancyStep, ExplainedStep
<1>3. Inv => AuditExplainsRoles
  BY Zenon DEF ExplainedInv
<1> QED
  BY <1>1, <1>2, <1>3, PTL DEF TenancySpec
=============================================================================
