-------------------------- MODULE EndpointsProofs ---------------------------
(* Proofs about endpoints and their signing versions, for any number of
   endpoints, calls and versions and every setting, and about the receiver
   that verifies what is signed. *)
EXTENDS Endpoints, Receiver, FiniteSetTheorems, TLAPS

\* What is inductive whatever the age of transactions.
BaseInv ==
    /\ TypeOK
    /\ Young
    /\ LockShape
    /\ VersionShape
    /\ OneCurrentVersion
    /\ RoomForOne
    /\ EndpointLimitRespected

\* The two calls that hold nothing.
LEMMA CallConstants == NoCall \in Call /\ Done \in Call /\ Done.step = "done" /\ Done.kind = "none"
BY Zenon DEF NoCall, Done, Call

\* Active endpoints can be counted.
LEMMA ActiveFinite == IsFiniteSet(Active) /\ Cardinality(Active) \in Nat
<1>1. Active \subseteq Endpoint /\ IsFiniteSet(Endpoint)
    BY Zenon, EndpointsAssumption DEF Active, Existing, EndpointsAssumption
<1> QED
    BY Zenon, <1>1, FS_Subset, FS_CardinalityType

\* The first state: no endpoint, no call.
LEMMA InitBase == Init => BaseInv
<1> SUFFICES ASSUME Init PROVE BaseInv
    BY Zenon
<1>1. TypeOK
    BY Zenon, CallConstants DEF Init, TypeOK
<1>2. Existing = {} /\ Active = {}
    BY Zenon DEF Init, Existing, Active
<1>3. \A r \in Request : tx[r].step = "idle" /\ tx[r].kind = "none"
    BY Zenon DEF Init, NoCall
<1>4. Young /\ LockShape /\ RoomForOne
    BY Zenon, <1>3 DEF Young, LockShape, RoomForOne, Unfinished, HoldsEndpoint, LocksEndpoint
<1>5. VersionShape /\ OneCurrentVersion
    BY Zenon, <1>2 DEF VersionShape, OneCurrentVersion, Init
<1>6. EndpointLimitRespected
    BY <1>2, FS_EmptySet, EndpointsAssumption
       DEF EndpointLimitRespected, EndpointsAssumption
<1> QED
    BY Zenon, <1>1, <1>4, <1>5, <1>6 DEF BaseInv

\* A step of one call that leaves the tables alone.
LEMMA CallStep ==
    ASSUME BaseInv, NEW r \in Request,
           UNCHANGED <<clock, endpoint, retire_at, deliveries>>,
           tx' \in [Request -> Call], tenant' \in Request \union {NULL},
           \A s \in Request : s # r => tx'[s] = tx[s] /\ (tenant = s => tenant' = s),
           r \in Unfinished' =>
              /\ tx'[r].began <= clock /\ clock <= tx'[r].began + MaxTxAge
              /\ LocksEndpoint(r)' => tx'[r].endpoint \in Existing,
           tx'[r].step = "limit" => tx'[r].kind = "update",
           tx'[r].kind = "create" => tx'[r].endpoint = NULL,
           \A e \in Endpoint : HoldsEndpoint(r, e)' =>
              \A s \in Request : s # r => ~HoldsEndpoint(s, e),
           tx'[r].kind = "rotate" /\ tx'[r].step = "ready" =>
              tx'[r].version = endpoint[tx'[r].endpoint].secret_version,
           tx'[r].step = "ready" =>
              /\ tx'[r].kind = "create" =>
                    tenant' = r /\ Cardinality(Active) < EndpointLimit
              /\ tx'[r].kind = "update" /\ tx'[r].is_active =>
                    \/ endpoint[tx'[r].endpoint].is_active
                    \/ /\ tenant' = r
                       /\ Cardinality(Active \ {tx'[r].endpoint}) < EndpointLimit
    PROVE  BaseInv'
<1>1. Existing' = Existing /\ Active' = Active
    BY Zenon DEF Existing, Active
<1>2. TypeOK'
    BY Zenon DEF BaseInv, TypeOK
<1>3. Young'
    BY Zenon DEF BaseInv, Young, Unfinished
<1>4. LockShape'
    <2>1. ASSUME NEW s \in Unfinished' PROVE LocksEndpoint(s)' => tx'[s].endpoint \in Existing'
        BY Zenon, <1>1 DEF BaseInv, LockShape, Unfinished, LocksEndpoint
    <2>2. \A s, t \in Request, e \in Endpoint : HoldsEndpoint(s, e)' /\ HoldsEndpoint(t, e)' => s = t
        <3> SUFFICES ASSUME NEW s \in Request, NEW t \in Request, NEW e \in Endpoint,
                            HoldsEndpoint(s, e)', HoldsEndpoint(t, e)'
                     PROVE  s = t
            BY Zenon
        <3>1. \A u \in Request : u # r => (HoldsEndpoint(u, e)' <=> HoldsEndpoint(u, e))
            BY Zenon DEF HoldsEndpoint, LocksEndpoint
        <3>2. CASE s # r /\ t # r
            BY Zenon, <3>1, <3>2 DEF BaseInv, LockShape
        <3>3. CASE s = r \/ t = r
            BY Zenon, <3>1, <3>3
        <3> QED
            BY Zenon, <3>2, <3>3
    <2>3. ASSUME NEW s \in Request, tx'[s].kind = "rotate", tx'[s].step = "ready"
          PROVE  tx'[s].version = endpoint'[tx'[s].endpoint].secret_version
        <3>1. CASE s = r
            BY Zenon, <2>3, <3>1
        <3>2. CASE s # r
            BY Zenon, <2>3, <3>2 DEF BaseInv, LockShape
        <3> QED
            BY Zenon, <3>1, <3>2
    <2>4. ASSUME NEW s \in Request
          PROVE  /\ tx'[s].step = "limit" => tx'[s].kind = "update"
                 /\ tx'[s].kind = "create" => tx'[s].endpoint = NULL
        BY Zenon DEF BaseInv, LockShape
    <2> QED
        BY Zenon, <2>1, <2>2, <2>3, <2>4 DEF LockShape
<1>5. VersionShape' /\ OneCurrentVersion'
    BY Zenon, <1>1 DEF BaseInv, VersionShape, OneCurrentVersion
<1>6. RoomForOne'
    <2> SUFFICES ASSUME NEW s \in Request, tx'[s].step = "ready"
                 PROVE /\ tx'[s].kind = "create" =>
                             tenant' = s /\ Cardinality(Active') < EndpointLimit
                       /\ tx'[s].kind = "update" /\ tx'[s].is_active =>
                             \/ endpoint'[tx'[s].endpoint].is_active
                             \/ /\ tenant' = s
                                /\ Cardinality(Active' \ {tx'[s].endpoint}) < EndpointLimit
        BY Zenon DEF RoomForOne
    <2>1. CASE s = r
        BY Zenon, <2>1, <1>1
    <2>2. CASE s # r
        BY Zenon, <2>2, <1>1 DEF BaseInv, RoomForOne
    <2> QED
        BY Zenon, <2>1, <2>2
<1>7. EndpointLimitRespected'
    BY Zenon, <1>1 DEF BaseInv, EndpointLimitRespected
<1> QED
    BY Zenon, <1>2, <1>3, <1>4, <1>5, <1>6, <1>7 DEF BaseInv

\* Any of the calls begins.
LEMMA BeginBase ==
    ASSUME BaseInv, NEW r \in Request,
           NEW kind \in {"create", "update", "rotate", "ingest", "replay"},
           NEW e \in Endpoint \union {NULL}, NEW active \in BOOLEAN,
           NEW fanout \in SUBSET Snapshot,
           kind \in {"update", "rotate"} => e \in Existing,
           kind = "create" => e = NULL,
           Begin(r, kind, e, active, fanout)
    PROVE  BaseInv'
<1> DEFINE call == [NoCall EXCEPT !.kind = kind, !.step = "begun", !.endpoint = e,
                         !.is_active = active, !.began = clock, !.fanout = fanout]
<1>1. clock \in Nat /\ tx \in [Request -> Call]
    BY Zenon DEF BaseInv, TypeOK
<1>2. /\ call \in Call /\ call.kind = kind /\ call.step = "begun"
      /\ call.endpoint = e /\ call.began = clock
    BY Zenon, <1>1 DEF NoCall, Call
<1>3. tx' = [tx EXCEPT ![r] = call] /\ UNCHANGED <<clock, endpoint, retire_at, deliveries, tenant>>
    BY Zenon DEF Begin
<1> HIDE DEF call
<1>4. tx' \in [Request -> Call] /\ tx'[r] = call /\ \A s \in Request : s # r => tx'[s] = tx[s]
    BY Zenon, <1>1, <1>2, <1>3
<1>5. clock <= clock + MaxTxAge /\ clock <= clock
    BY <1>1, EndpointsAssumption DEF EndpointsAssumption
<1>6. LocksEndpoint(r)' => e \in Existing
    BY Zenon, <1>2, <1>4 DEF LocksEndpoint
<1>7. \A f \in Endpoint : ~HoldsEndpoint(r, f)'
    BY Zenon, <1>2, <1>4 DEF HoldsEndpoint
<1>8. tenant' \in Request \union {NULL} /\ tenant' = tenant
    BY Zenon, <1>3 DEF BaseInv, TypeOK
<1> QED
    BY Zenon, <1>2, <1>3, <1>4, <1>5, <1>6, <1>7, <1>8, CallStep

\* A call gets the lock of its endpoint row and reads it.
LEMMA LockEndpointBase ==
    ASSUME BaseInv, NEW r \in Request, LockEndpoint(r)
    PROVE  BaseInv'
<1> DEFINE call == tx[r]
           row == endpoint[call.endpoint]
           limited == call.kind = "update" /\ call.is_active /\ ~row.is_active
           next == IF limited THEN "limit" ELSE "ready"
<1>1. /\ LocksEndpoint(r) /\ call.step = "begun" /\ EndpointFree(r, call.endpoint)
      /\ tx' = [tx EXCEPT ![r].step = next, ![r].version = row.secret_version]
      /\ UNCHANGED <<clock, endpoint, retire_at, deliveries, tenant>>
    BY Zenon DEF LockEndpoint
<1>2. tx \in [Request -> Call] /\ call \in Call /\ tenant \in Request \union {NULL}
    BY Zenon DEF BaseInv, TypeOK
<1>3. r \in Unfinished /\ call.endpoint \in Existing
    BY Zenon, <1>1 DEF BaseInv, LockShape, Unfinished
<1>4. row \in EndpointRow /\ call.endpoint \in Endpoint
    BY Zenon, <1>3 DEF BaseInv, TypeOK, Existing
<1>5. /\ \A s \in Request : s # r => tx'[s] = tx[s]
      /\ tx'[r] = [call EXCEPT !.step = next, !.version = row.secret_version]
    BY Zenon, <1>1, <1>2
<1>6. /\ tx'[r] \in Call /\ tx'[r].step = next /\ tx'[r].version = row.secret_version
      /\ tx'[r].kind = call.kind /\ tx'[r].endpoint = call.endpoint
      /\ tx'[r].began = call.began /\ tx'[r].is_active = call.is_active
    BY Zenon, <1>2, <1>4, <1>5 DEF Call, EndpointRow
<1>7. tx' \in [Request -> Call]
    BY Zenon, <1>1, <1>2, <1>5, <1>6
<1>8. call.began <= clock /\ clock <= call.began + MaxTxAge
    BY Zenon, <1>3 DEF BaseInv, Young
<1>9. \A e \in Endpoint : HoldsEndpoint(r, e)' =>
         \A s \in Request : s # r => ~HoldsEndpoint(s, e)
    BY Zenon, <1>1, <1>6 DEF HoldsEndpoint, EndpointFree, LocksEndpoint
<1>10. call.kind \in {"update", "rotate"} /\ next \in {"limit", "ready"}
    BY Zenon, <1>1 DEF LocksEndpoint
<1>12. next = "limit" => call.kind = "update"
    BY Zenon
<1>11. next = "ready" /\ call.kind = "update" /\ call.is_active => row.is_active
    BY Zenon
<1> HIDE DEF next
<1> QED
    BY ZenonT(60), <1>1, <1>2, <1>3, <1>5, <1>6, <1>7, <1>8, <1>9, <1>10, <1>11, <1>12, CallStep

\* A call gets the quota row: it is refused, or there is room for one.
LEMMA LockTenantBase ==
    ASSUME BaseInv, NEW r \in Request, LockTenant(r)
    PROVE  BaseInv'
<1> DEFINE call == tx[r]
           denied == /\ call.kind \in {"create", "update"}
                      /\ LimitReached(Active \ {call.endpoint})
           reads == {[endpoint |-> e, version |-> endpoint[e].secret_version] : e \in Active}
           fanout == IF call.kind # "ingest" THEN call.fanout ELSE reads
<1>1. /\ WantsTenant(r) /\ tenant = NULL
      /\ UNCHANGED <<clock, endpoint, retire_at, deliveries>>
      /\ \/ tx' = [tx EXCEPT ![r] = Done] /\ UNCHANGED tenant
         \/ /\ ~denied /\ tenant' = r
            /\ tx' = [tx EXCEPT ![r].step = "ready", ![r].fanout = fanout]
    BY Zenon DEF LockTenant
<1>2. tx \in [Request -> Call] /\ call \in Call /\ tenant \in Request \union {NULL}
    BY Zenon DEF BaseInv, TypeOK
<1>3. \A s \in Request : tenant # s
    BY Zenon, <1>1, NullAssumption DEF NullAssumption
<1>4. CASE tx' = [tx EXCEPT ![r] = Done] /\ UNCHANGED tenant
    <2>1. tx' \in [Request -> Call] /\ tx'[r] = Done /\ \A s \in Request : s # r => tx'[s] = tx[s]
        BY Zenon, <1>2, <1>4, CallConstants
    <2>2. r \notin Unfinished' /\ \A e \in Endpoint : ~HoldsEndpoint(r, e)'
        BY Zenon, <2>1, CallConstants DEF Unfinished, HoldsEndpoint
    <2> QED
        BY Zenon, <1>1, <1>2, <1>3, <1>4, <2>1, <2>2, CallConstants, CallStep
<1>5. CASE /\ ~denied /\ tenant' = r
           /\ tx' = [tx EXCEPT ![r].step = "ready", ![r].fanout = fanout]
    <2>1. reads \in SUBSET Snapshot
        <3>1. ASSUME NEW e \in Active
              PROVE [endpoint |-> e, version |-> endpoint[e].secret_version] \in Snapshot
            <4>1. e \in Endpoint /\ endpoint[e] \in EndpointRow
                BY Zenon DEF Active, Existing, BaseInv, TypeOK
            <4> QED
                BY Zenon, <4>1 DEF Snapshot, EndpointRow
        <3> QED
            BY Zenon, <3>1
    <2>2. fanout \in SUBSET Snapshot
        BY Zenon, <1>2, <2>1 DEF Call
    <2> HIDE DEF fanout
    <2>3. /\ \A s \in Request : s # r => tx'[s] = tx[s]
          /\ tx'[r] = [call EXCEPT !.step = "ready", !.fanout = fanout]
        BY Zenon, <1>2, <1>5
    <2>14. call.kind = "create" => call.endpoint = NULL
        BY Zenon DEF BaseInv, LockShape
    <2>4. /\ tx'[r] \in Call /\ tx'[r].step = "ready" /\ tx'[r].version = call.version
          /\ tx'[r].kind = call.kind /\ tx'[r].endpoint = call.endpoint
          /\ tx'[r].began = call.began /\ tx'[r].is_active = call.is_active
        BY Zenon, <1>2, <2>2, <2>3 DEF Call
    <2>5. tx' \in [Request -> Call]
        BY Zenon, <1>2, <1>5, <2>3, <2>4
    <2>6. r \in Unfinished
        BY Zenon, <1>1 DEF WantsTenant, Unfinished
    <2>7. /\ call.began <= clock /\ clock <= call.began + MaxTxAge
          /\ LocksEndpoint(r) => call.endpoint \in Existing
        BY Zenon, <2>6 DEF BaseInv, Young, LockShape
    <2>8. LocksEndpoint(r)' <=> LocksEndpoint(r)
        BY Zenon, <2>4 DEF LocksEndpoint
    <2>9. call.kind # "rotate" /\ (LocksEndpoint(r) => call.step = "limit")
        BY Zenon, <1>1 DEF WantsTenant, LocksEndpoint, BaseInv, LockShape
    <2>10. ASSUME NEW e \in Endpoint, HoldsEndpoint(r, e)', NEW s \in Request, s # r
           PROVE  ~HoldsEndpoint(s, e)
        <3>1. HoldsEndpoint(r, e)
            BY Zenon, <2>4, <2>8, <2>9, <2>10 DEF HoldsEndpoint
        <3> QED
            BY Zenon, <3>1, <2>10 DEF BaseInv, LockShape
    <2>11. Cardinality(Active \ {call.endpoint}) \in Nat
        BY Zenon, ActiveFinite, FS_Difference, FS_CardinalityType
    <2>12. call.kind \in {"create", "update"} =>
              Cardinality(Active \ {call.endpoint}) < EndpointLimit
        BY <1>5, <2>11, EndpointsAssumption DEF LimitReached, EndpointsAssumption
    <2>13. call.kind = "create" => Cardinality(Active) < EndpointLimit
        <3>1. Cardinality(Active \ {call.endpoint}) = Cardinality(Active) \/ call.endpoint \in Active
            <4>1. call.endpoint \notin Active => Active \ {call.endpoint} = Active
                BY Zenon
            <4> QED
                BY Zenon, <4>1
        <3>3. NULL \notin Active
            BY Zenon, NullAssumption DEF NullAssumption, Active, Existing
        <3> QED
            BY Zenon, <2>12, <2>14, <3>1, <3>3
    <2> QED
        BY ZenonT(60), <1>1, <1>3, <1>5, <2>3, <2>4, <2>5, <2>7, <2>8, <2>9, <2>10, <2>12, <2>13, <2>14, CallStep
<1> QED
    BY Zenon, <1>1, <1>4, <1>5

\* A rolled-back call leaves the tables as they were.
LEMMA AbortBase ==
    ASSUME BaseInv, NEW r \in Request, Abort(r)
    PROVE  BaseInv'
<1>1. tx \in [Request -> Call] /\ tenant \in Request \union {NULL}
    BY Zenon DEF BaseInv, TypeOK
<1>2. /\ tx' = [tx EXCEPT ![r] = Done]
      /\ tenant' = IF tenant = r THEN NULL ELSE tenant
      /\ UNCHANGED <<clock, endpoint, retire_at, deliveries>>
    BY Zenon DEF Abort
<1>3. tx' \in [Request -> Call] /\ tx'[r] = Done /\ \A s \in Request : s # r => tx'[s] = tx[s]
    BY Zenon, <1>1, <1>2, CallConstants
<1>4. r \notin Unfinished' /\ \A e \in Endpoint : ~HoldsEndpoint(r, e)'
    BY Zenon, <1>3, CallConstants DEF Unfinished, HoldsEndpoint
<1>5. tenant' \in Request \union {NULL} /\ \A s \in Request : s # r /\ tenant = s => tenant' = s
    BY Zenon, <1>1, <1>2
<1> QED
    BY Zenon, <1>2, <1>3, <1>4, <1>5, CallConstants, CallStep

\* Time passes; only the ages of calls change.
LEMMA TickBase ==
    ASSUME BaseInv, Tick
    PROVE  BaseInv'
<1>1. UNCHANGED <<endpoint, retire_at, deliveries, tx, tenant>> /\ clock' = clock + 1
    BY Zenon DEF Tick
<1>2. Existing' = Existing /\ Active' = Active /\ Unfinished' = Unfinished
    BY Zenon, <1>1 DEF Existing, Active, Unfinished
<1>3. clock \in Nat /\ \A r \in Request : tx[r].began \in Nat
    BY Zenon DEF BaseInv, TypeOK, Call
<1>4. Young'
    <2> SUFFICES ASSUME NEW r \in Unfinished
                 PROVE  tx[r].began <= clock + 1 /\ clock + 1 <= tx[r].began + MaxTxAge
        BY Zenon, <1>1, <1>2 DEF Young
    <2>1. r \in Request /\ tx[r].began <= clock /\ clock - tx[r].began < MaxTxAge
        BY Zenon DEF BaseInv, Young, Tick, Unfinished
    <2> QED
        BY <2>1, <1>3, EndpointsAssumption DEF EndpointsAssumption
<1>5. TypeOK' /\ LockShape' /\ VersionShape' /\ OneCurrentVersion'
    BY <1>1, <1>2 DEF BaseInv, TypeOK, LockShape, VersionShape, OneCurrentVersion,
                      HoldsEndpoint, LocksEndpoint
<1>6. RoomForOne' /\ EndpointLimitRespected'
    BY Zenon, <1>1, <1>2 DEF BaseInv, RoomForOne, EndpointLimitRespected
<1> QED
    BY Zenon, <1>4, <1>5, <1>6 DEF BaseInv
-----------------------------------------------------------------------------
\* A committed call, whatever it wrote: the other calls are as they were.
LEMMA CommitCalls ==
    ASSUME BaseInv, NEW r \in Request, Commit(r)
    PROVE  /\ tx' \in [Request -> Call] /\ tx'[r] = Done
           /\ \A s \in Request : s # r => tx'[s] = tx[s]
           /\ tenant' \in Request \union {NULL} /\ tenant' # r
           /\ \A s \in Request : s # r => (tenant' = s <=> tenant = s)
           /\ r \in Unfinished /\ Unfinished' = Unfinished \ {r}
           /\ \A e \in Endpoint : ~HoldsEndpoint(r, e)'
           /\ \A s \in Request, e \in Endpoint : s # r => (HoldsEndpoint(s, e)' <=> HoldsEndpoint(s, e))
           /\ clock' = clock /\ Young'
<1>1. tx \in [Request -> Call] /\ tenant \in Request \union {NULL}
    BY Zenon DEF BaseInv, TypeOK
<1>2. /\ tx' = [tx EXCEPT ![r] = Done] /\ clock' = clock /\ tx[r].step = "ready"
      /\ tenant' = IF tenant = r THEN NULL ELSE tenant
    BY Zenon DEF Commit
<1>3. tx' \in [Request -> Call] /\ tx'[r] = Done /\ \A s \in Request : s # r => tx'[s] = tx[s]
    BY Zenon, <1>1, <1>2, CallConstants
<1>4. /\ tenant' \in Request \union {NULL} /\ tenant' # r
      /\ \A s \in Request : s # r => (tenant' = s <=> tenant = s)
    BY Zenon, <1>1, <1>2, NullAssumption DEF NullAssumption
<1>5. r \in Unfinished /\ Unfinished' = Unfinished \ {r}
    BY Zenon, <1>2, <1>3, CallConstants DEF Unfinished
<1>6. /\ \A e \in Endpoint : ~HoldsEndpoint(r, e)'
      /\ \A s \in Request, e \in Endpoint : s # r => (HoldsEndpoint(s, e)' <=> HoldsEndpoint(s, e))
    BY Zenon, <1>3, CallConstants DEF HoldsEndpoint, LocksEndpoint
<1>7. Young'
    BY Zenon, <1>2, <1>3, <1>5 DEF Young, BaseInv, Unfinished
<1> QED
    BY Zenon, <1>2, <1>3, <1>4, <1>5, <1>6, <1>7

\* A created endpoint uses the room that was left for it.
LEMMA CommitCreate ==
    ASSUME BaseInv, NEW r \in Request, Commit(r), tx[r].kind = "create"
    PROVE  BaseInv'
<1>1. PICK new \in Endpoint \ Existing :
         endpoint' = [endpoint EXCEPT ![new] = [is_active |-> TRUE, secret_version |-> 1]]
    BY Zenon DEF Commit, InsertEndpoint, WriteUpdate, WriteRotation, InsertDeliveries
<1>2. UNCHANGED <<retire_at, deliveries>> /\ tx[r].step = "ready"
    BY Zenon DEF Commit, InsertEndpoint, WriteUpdate, WriteRotation, InsertDeliveries
<1>3. /\ endpoint'[new].is_active /\ endpoint'[new].secret_version = 1
      /\ endpoint'[new] \in EndpointRow /\ endpoint'[new] # NULL
      /\ \A e \in Endpoint : e # new => endpoint'[e] = endpoint[e]
    <2>1. [is_active |-> TRUE, secret_version |-> 1] \in EndpointRow
        BY EndpointsAssumption DEF EndpointRow, Version, EndpointsAssumption
    <2>2. /\ endpoint'[new] = [is_active |-> TRUE, secret_version |-> 1]
          /\ \A e \in Endpoint : e # new => endpoint'[e] = endpoint[e]
        BY Zenon, <1>1 DEF BaseInv, TypeOK
    <2>3. endpoint'[new] \in EndpointRow
        BY Zenon, <2>1, <2>2
    <2>4. endpoint'[new] # NULL
        BY Zenon, <2>3, NullAssumption DEF NullAssumption
    <2>5. endpoint'[new].is_active /\ endpoint'[new].secret_version = 1
        BY <2>2
    <2> QED
        BY Zenon, <2>2, <2>3, <2>4, <2>5
<1>4. Existing' = Existing \union {new} /\ Active' = Active \union {new} /\ new \notin Active
    BY Zenon, <1>1, <1>3 DEF Existing, Active
<1>5. TypeOK'
    <2>1. endpoint' \in [Endpoint -> EndpointRow \union {NULL}]
        BY Zenon, <1>1, <1>3 DEF BaseInv, TypeOK
    <2> QED
        BY Zenon, <2>1, <1>2, CommitCalls DEF BaseInv, TypeOK
<1>6. LockShape'
    <2>1. ASSUME NEW s \in Unfinished' PROVE LocksEndpoint(s)' => tx'[s].endpoint \in Existing'
        BY Zenon, <1>4, CommitCalls DEF BaseInv, LockShape, LocksEndpoint, Unfinished
    <2>2. ASSUME NEW s \in Request
          PROVE  /\ tx'[s].step = "limit" => tx'[s].kind = "update"
                 /\ tx'[s].kind = "create" => tx'[s].endpoint = NULL
        BY ZenonT(60), CommitCalls, CallConstants DEF BaseInv, LockShape
    <2>3. ASSUME NEW s \in Request, tx'[s].kind = "rotate", tx'[s].step = "ready"
          PROVE  tx'[s].version = endpoint'[tx'[s].endpoint].secret_version
        <3>1. s # r /\ tx'[s] = tx[s] /\ s \in Unfinished /\ LocksEndpoint(s)
            BY Zenon, <2>3, CommitCalls, CallConstants DEF Unfinished, LocksEndpoint
        <3>2. tx[s].endpoint \in Existing
            BY Zenon, <3>1 DEF BaseInv, LockShape
        <3>3. endpoint'[tx[s].endpoint] = endpoint[tx[s].endpoint]
            BY Zenon, <1>1, <1>3, <3>2 DEF Existing
        <3> QED
            BY Zenon, <2>3, <3>1, <3>3 DEF BaseInv, LockShape
    <2>4. \A s, t \in Request, e \in Endpoint : HoldsEndpoint(s, e)' /\ HoldsEndpoint(t, e)' => s = t
        BY ZenonT(60), CommitCalls DEF BaseInv, LockShape
    <2> QED
        BY Zenon, <2>1, <2>2, <2>3, <2>4 DEF LockShape
<1>7. VersionShape'
    <2> SUFFICES ASSUME NEW e \in Endpoint, NEW v \in Version,
                        e \in Existing' => v > endpoint'[e].secret_version
                 PROVE  retire_at[e][v] = NULL
        BY Zenon, <1>2 DEF VersionShape
    <2>1. CASE e = new
        BY Zenon, <2>1, <1>1 DEF BaseInv, VersionShape
    <2>2. CASE e # new
        BY Zenon, <2>2, <1>3, <1>4 DEF BaseInv, VersionShape
    <2> QED
        BY Zenon, <2>1, <2>2
<1>8. OneCurrentVersion'
    <2> SUFFICES ASSUME NEW e \in Existing', NEW v \in 1..endpoint'[e].secret_version
                 PROVE  (retire_at[e][v] = NULL) = (v = endpoint'[e].secret_version)
        BY Zenon, <1>2 DEF OneCurrentVersion
    <2>1. CASE e = new
        <3>1. v = 1 /\ 1 \in Version
            BY <2>1, <1>3, EndpointsAssumption DEF Version, EndpointsAssumption
        <3>2. retire_at[new][1] = NULL
            BY Zenon, <3>1, <1>1 DEF BaseInv, VersionShape
        <3> QED
            BY Zenon, <2>1, <1>3, <3>1, <3>2
    <2>2. CASE e # new
        BY <2>2, <1>3, <1>4 DEF BaseInv, OneCurrentVersion, Existing
    <2> QED
        BY Zenon, <2>1, <2>2
<1>9. tenant = r /\ Cardinality(Active) < EndpointLimit
    BY Zenon, <1>2 DEF BaseInv, RoomForOne
<1>10. EndpointLimitRespected'
    <2>1. Cardinality(Active \union {new}) = Cardinality(Active) + 1
        BY Zenon, <1>4, ActiveFinite, FS_AddElement
    <2> QED
        BY <2>1, <1>4, <1>9, ActiveFinite, EndpointsAssumption
           DEF EndpointLimitRespected, EndpointsAssumption
<1>11. RoomForOne'
    <2> SUFFICES ASSUME NEW s \in Request, tx'[s].step = "ready"
                 PROVE /\ tx'[s].kind # "create"
                       /\ tx'[s].kind = "update" /\ tx'[s].is_active =>
                             endpoint'[tx'[s].endpoint].is_active
        BY Zenon DEF RoomForOne
    <2>1. s # r /\ tx'[s] = tx[s] /\ s \in Unfinished /\ tenant # s
        BY Zenon, <1>9, CommitCalls, CallConstants DEF Unfinished
    <2>2. tx[s].kind # "create"
        BY Zenon, <2>1 DEF BaseInv, RoomForOne
    <2>3. ASSUME tx[s].kind = "update", tx[s].is_active
          PROVE  endpoint'[tx[s].endpoint].is_active
        <3>1. tx[s].endpoint \in Existing /\ endpoint[tx[s].endpoint].is_active
            BY Zenon, <2>1, <2>3 DEF BaseInv, RoomForOne, LockShape, LocksEndpoint
        <3> QED
            BY Zenon, <3>1, <1>1, <1>3 DEF Existing
    <2> QED
        BY Zenon, <2>1, <2>2, <2>3
<1> QED
    BY Zenon, <1>5, <1>6, <1>7, <1>8, <1>10, <1>11, CommitCalls DEF BaseInv

\* An update changes is_active of the row it holds, nothing else.
LEMMA CommitUpdate ==
    ASSUME BaseInv, NEW r \in Request, Commit(r), tx[r].kind = "update"
    PROVE  BaseInv'
<1> DEFINE e == tx[r].endpoint
<1>1. /\ endpoint' = [endpoint EXCEPT ![e].is_active = tx[r].is_active]
      /\ UNCHANGED <<retire_at, deliveries>> /\ tx[r].step = "ready"
    BY Zenon DEF Commit, InsertEndpoint, WriteUpdate, WriteRotation, InsertDeliveries
<1>2. r \in Unfinished /\ LocksEndpoint(r) /\ HoldsEndpoint(r, e)
    BY Zenon, <1>1 DEF Unfinished, LocksEndpoint, HoldsEndpoint
<1>3. e \in Existing /\ e \in Endpoint /\ endpoint[e] \in EndpointRow /\ tx[r].is_active \in BOOLEAN
    <2>1. e \in Existing
        BY Zenon, <1>2 DEF BaseInv, LockShape
    <2> QED
        BY Zenon, <2>1 DEF BaseInv, TypeOK, Existing, Call
<1>4. /\ endpoint'[e] = [endpoint[e] EXCEPT !.is_active = tx[r].is_active]
      /\ \A f \in Endpoint : f # e => endpoint'[f] = endpoint[f]
    BY Zenon, <1>1, <1>3 DEF BaseInv, TypeOK
<1>5. endpoint'[e] \in EndpointRow /\ endpoint'[e].secret_version = endpoint[e].secret_version
    BY Zenon, <1>3, <1>4 DEF EndpointRow
<1>6. endpoint'[e].is_active = tx[r].is_active
    BY Zenon, <1>3, <1>4 DEF EndpointRow
<1>7. endpoint'[e] # NULL
    BY Zenon, <1>5, NullAssumption DEF NullAssumption
<1>8. Existing' = Existing
    BY Zenon, <1>3, <1>4, <1>7 DEF Existing
<1>9. \A f \in Existing : f \in Endpoint /\ endpoint'[f].secret_version = endpoint[f].secret_version
    BY Zenon, <1>4, <1>5 DEF Existing
<1>10. Active' = IF tx[r].is_active THEN Active \union {e} ELSE Active \ {e}
    BY Zenon, <1>3, <1>4, <1>6, <1>8 DEF Active, Existing
<1>11. TypeOK'
    <2>1. endpoint' \in [Endpoint -> EndpointRow \union {NULL}]
        BY Zenon, <1>1, <1>4, <1>5 DEF BaseInv, TypeOK
    <2> QED
        BY Zenon, <2>1, <1>1, CommitCalls DEF BaseInv, TypeOK
<1> HIDE DEF e
<1>12. \A s \in Request : s # r /\ s \in Unfinished /\ LocksEndpoint(s) /\ tx[s].step \in {"limit", "ready"} =>
             tx[s].endpoint # e /\ tx[s].endpoint \in Existing
    BY Zenon, <1>2, <1>3 DEF BaseInv, LockShape, HoldsEndpoint
<1>13. LockShape'
    <2>1. ASSUME NEW s \in Unfinished' PROVE LocksEndpoint(s)' => tx'[s].endpoint \in Existing'
        BY Zenon, <1>8, CommitCalls DEF BaseInv, LockShape, LocksEndpoint, Unfinished
    <2>2. ASSUME NEW s \in Request
          PROVE  /\ tx'[s].step = "limit" => tx'[s].kind = "update"
                 /\ tx'[s].kind = "create" => tx'[s].endpoint = NULL
        BY ZenonT(60), CommitCalls, CallConstants DEF BaseInv, LockShape
    <2>3. ASSUME NEW s \in Request, tx'[s].kind = "rotate", tx'[s].step = "ready"
          PROVE  tx'[s].version = endpoint'[tx'[s].endpoint].secret_version
        <3>1. s # r /\ tx'[s] = tx[s] /\ s \in Unfinished /\ LocksEndpoint(s)
            BY Zenon, <2>3, CommitCalls, CallConstants DEF Unfinished, LocksEndpoint
        <3>2. tx[s].endpoint \in Existing
            BY Zenon, <3>1 DEF BaseInv, LockShape
        <3> QED
            BY Zenon, <2>3, <3>1, <3>2, <1>9 DEF BaseInv, LockShape
    <2>4. \A s, t \in Request, f \in Endpoint : HoldsEndpoint(s, f)' /\ HoldsEndpoint(t, f)' => s = t
        BY ZenonT(60), CommitCalls DEF BaseInv, LockShape
    <2> QED
        BY Zenon, <2>1, <2>2, <2>3, <2>4 DEF LockShape
<1>14. VersionShape' /\ OneCurrentVersion'
    BY <1>1, <1>8, <1>9 DEF BaseInv, VersionShape, OneCurrentVersion
<1>15. tx[r].is_active => \/ Active' = Active
                          \/ tenant = r /\ Cardinality(Active) < EndpointLimit
    <2>1. CASE endpoint[e].is_active
        BY Zenon, <2>1, <1>3, <1>10 DEF Active
    <2>2. CASE ~endpoint[e].is_active
        <3>1. Active \ {e} = Active
            BY Zenon, <2>2 DEF Active
        <3> QED
            BY Zenon, <2>2, <3>1, <1>1 DEF BaseInv, RoomForOne, e
    <2> QED
        BY Zenon, <2>1, <2>2
<1>16. ~tx[r].is_active => Active' \subseteq Active
    BY Zenon, <1>10
<1>17. EndpointLimitRespected'
    <2>1. CASE Active' \subseteq Active
        BY <2>1, ActiveFinite, FS_Subset, FS_CardinalityType, EndpointsAssumption
           DEF BaseInv, EndpointLimitRespected, EndpointsAssumption
    <2>2. CASE tx[r].is_active /\ Cardinality(Active) < EndpointLimit
        <3>1. /\ Cardinality(Active \union {e}) = Cardinality(Active)
                 \/ Cardinality(Active \union {e}) = Cardinality(Active) + 1
              /\ Cardinality(Active) \in Nat
            BY Zenon, ActiveFinite, FS_AddElement, FS_CardinalityType
        <3> QED
            BY <2>2, <3>1, <1>10, EndpointsAssumption
               DEF EndpointLimitRespected, EndpointsAssumption
    <2> QED
        BY Zenon, <2>1, <2>2, <1>15, <1>16
<1>18. RoomForOne'
    <2> SUFFICES ASSUME NEW s \in Request, tx'[s].step = "ready"
                 PROVE /\ tx'[s].kind = "create" =>
                             tenant' = s /\ Cardinality(Active') < EndpointLimit
                       /\ tx'[s].kind = "update" /\ tx'[s].is_active =>
                             \/ endpoint'[tx'[s].endpoint].is_active
                             \/ /\ tenant' = s
                                /\ Cardinality(Active' \ {tx'[s].endpoint}) < EndpointLimit
        BY Zenon DEF RoomForOne
    <2>1. s # r /\ tx'[s] = tx[s] /\ s \in Unfinished /\ (tenant' = s <=> tenant = s)
        BY Zenon, CommitCalls, CallConstants DEF Unfinished
    <2>2. tenant = s => Active' \subseteq Active
        BY Zenon, <2>1, <1>15, <1>16
    <2>3. ASSUME tenant = s, NEW S, Cardinality(Active \ S) < EndpointLimit
          PROVE  Cardinality(Active' \ S) < EndpointLimit
        <3>1. Active' \ S \subseteq Active \ S /\ IsFiniteSet(Active \ S)
            BY Zenon, <2>2, <2>3, ActiveFinite, FS_Subset
        <3> QED
            BY <3>1, <2>3, FS_Subset, FS_CardinalityType, EndpointsAssumption
               DEF EndpointsAssumption
    <2>4. tx[s].kind = "create" => tenant' = s /\ Cardinality(Active') < EndpointLimit
        <3>1. Active \ {} = Active /\ Active' \ {} = Active'
            BY Zenon
        <3> QED
            BY Zenon, <2>1, <2>3, <3>1 DEF BaseInv, RoomForOne
    <2>5. ASSUME tx[s].kind = "update", tx[s].is_active
          PROVE  \/ endpoint'[tx[s].endpoint].is_active
                 \/ tenant' = s /\ Cardinality(Active' \ {tx[s].endpoint}) < EndpointLimit
        <3>1. tx[s].endpoint # e /\ tx[s].endpoint \in Existing
            BY Zenon, <2>1, <2>5, <1>12 DEF LocksEndpoint
        <3>2. endpoint'[tx[s].endpoint] = endpoint[tx[s].endpoint]
            BY Zenon, <3>1, <1>4 DEF Existing
        <3>3. \/ endpoint[tx[s].endpoint].is_active
              \/ tenant = s /\ Cardinality(Active \ {tx[s].endpoint}) < EndpointLimit
            BY Zenon, <2>1, <2>5 DEF BaseInv, RoomForOne
        <3> QED
            BY Zenon, <3>2, <3>3, <2>1, <2>3
    <2> QED
        BY Zenon, <2>1, <2>4, <2>5
<1> QED
    BY Zenon, <1>11, <1>13, <1>14, <1>17, <1>18, CommitCalls DEF BaseInv

\* What a rotation writes: the version it read under the lock retires, the next
\* one becomes current.
LEMMA RotateEffect ==
    ASSUME BaseInv, NEW r \in Request, Commit(r), tx[r].kind = "rotate"
    PROVE  LET e == tx[r].endpoint
               v == tx[r].version
           IN  /\ e \in Existing /\ e \in Endpoint
               /\ v \in Version /\ v + 1 \in Version /\ v = endpoint[e].secret_version
               /\ endpoint'[e] \in EndpointRow /\ endpoint'[e].secret_version = v + 1
               /\ endpoint'[e].is_active = endpoint[e].is_active
               /\ \A f \in Endpoint : f # e => endpoint'[f] = endpoint[f]
               /\ endpoint' \in [Endpoint -> EndpointRow \union {NULL}]
               /\ Existing' = Existing
               /\ retire_at' \in [Endpoint -> [Version -> Nat \union {NULL}]]
               /\ retire_at'[e][v] = tx[r].began + Overlap /\ retire_at'[e][v] \in Nat
               /\ \A f \in Endpoint, w \in Version :
                     f # e \/ w # v => retire_at'[f][w] = retire_at[f][w]
               /\ deliveries' = deliveries /\ HoldsEndpoint(r, e)
<1> DEFINE e == tx[r].endpoint
           v == tx[r].version
<1>1. /\ v < MaxVersion
      /\ endpoint' = [endpoint EXCEPT ![e].secret_version = v + 1]
      /\ retire_at' = [retire_at EXCEPT ![e][v] = tx[r].began + Overlap]
      /\ deliveries' = deliveries /\ tx[r].step = "ready"
    BY Zenon DEF Commit, InsertEndpoint, WriteUpdate, WriteRotation, InsertDeliveries, RetireAt
<1>2. r \in Unfinished /\ LocksEndpoint(r) /\ HoldsEndpoint(r, e)
    BY Zenon, <1>1 DEF Unfinished, LocksEndpoint, HoldsEndpoint
<1>3. e \in Existing /\ v = endpoint[e].secret_version
    BY Zenon, <1>1, <1>2 DEF BaseInv, LockShape
<1>4. e \in Endpoint /\ endpoint[e] \in EndpointRow /\ tx[r].began \in Nat
    BY Zenon, <1>3 DEF BaseInv, TypeOK, Existing, Call
<1>5. v \in Version /\ v + 1 \in Version
    BY <1>1, <1>3, <1>4, EndpointsAssumption DEF EndpointRow, Version, EndpointsAssumption
<1>6. /\ endpoint'[e] = [endpoint[e] EXCEPT !.secret_version = v + 1]
      /\ \A f \in Endpoint : f # e => endpoint'[f] = endpoint[f]
    BY Zenon, <1>1, <1>4 DEF BaseInv, TypeOK
<1>7. endpoint'[e] \in EndpointRow /\ endpoint'[e].secret_version = v + 1
    BY Zenon, <1>4, <1>5, <1>6 DEF EndpointRow
<1>8. endpoint'[e].is_active = endpoint[e].is_active
    BY Zenon, <1>4, <1>6 DEF EndpointRow
<1>9. endpoint' \in [Endpoint -> EndpointRow \union {NULL}]
    BY Zenon, <1>1, <1>6, <1>7 DEF BaseInv, TypeOK
<1>10. Existing' = Existing
    <2>1. endpoint'[e] # NULL
        BY Zenon, <1>7, NullAssumption DEF NullAssumption
    <2> QED
        BY Zenon, <2>1, <1>3, <1>6 DEF Existing
<1>11. tx[r].began + Overlap \in Nat
    BY <1>4, EndpointsAssumption DEF EndpointsAssumption
<1>12. retire_at \in [Endpoint -> [Version -> Nat \union {NULL}]]
    BY Zenon DEF BaseInv, TypeOK
<1> HIDE DEF e, v
<1>13. /\ retire_at' \in [Endpoint -> [Version -> Nat \union {NULL}]]
       /\ retire_at'[e][v] = tx[r].began + Overlap
       /\ \A f \in Endpoint, w \in Version :
             f # e \/ w # v => retire_at'[f][w] = retire_at[f][w]
    BY Zenon, <1>1, <1>4, <1>5, <1>11, <1>12
<1> QED
    BY <1>1, <1>2, <1>3, <1>4, <1>5, <1>6, <1>7, <1>8, <1>9, <1>10, <1>11, <1>13, Zenon DEF e, v

\* A rotation moves the current version of the row it holds.
LEMMA CommitRotate ==
    ASSUME BaseInv, NEW r \in Request, Commit(r), tx[r].kind = "rotate"
    PROVE  BaseInv'
<1> DEFINE e == tx[r].endpoint
           v == tx[r].version
<1>1. /\ e \in Existing /\ e \in Endpoint
      /\ v \in Version /\ v + 1 \in Version /\ v = endpoint[e].secret_version
      /\ endpoint'[e] \in EndpointRow /\ endpoint'[e].secret_version = v + 1
      /\ endpoint'[e].is_active = endpoint[e].is_active
      /\ \A f \in Endpoint : f # e => endpoint'[f] = endpoint[f]
      /\ Existing' = Existing
      /\ retire_at'[e][v] \in Nat
      /\ \A f \in Endpoint, w \in Version :
            f # e \/ w # v => retire_at'[f][w] = retire_at[f][w]
      /\ HoldsEndpoint(r, e)
    BY RotateEffect, Zenon
<1>2. /\ endpoint' \in [Endpoint -> EndpointRow \union {NULL}]
      /\ retire_at' \in [Endpoint -> [Version -> Nat \union {NULL}]]
      /\ deliveries' = deliveries
    BY RotateEffect, Zenon
<1> HIDE DEF e, v
<1>3. \A f \in Existing : f \in Endpoint /\ endpoint'[f].is_active = endpoint[f].is_active
    BY Zenon, <1>1 DEF Existing
<1>4. Active' = Active
    BY Zenon, <1>1, <1>3 DEF Active
<1>5. TypeOK'
    BY Zenon, <1>2, CommitCalls DEF BaseInv, TypeOK
<1>6. LockShape'
    <2>1. ASSUME NEW s \in Unfinished' PROVE LocksEndpoint(s)' => tx'[s].endpoint \in Existing'
        BY Zenon, <1>1, CommitCalls DEF BaseInv, LockShape, LocksEndpoint, Unfinished
    <2>2. ASSUME NEW s \in Request
          PROVE  /\ tx'[s].step = "limit" => tx'[s].kind = "update"
                 /\ tx'[s].kind = "create" => tx'[s].endpoint = NULL
        BY Zenon, CommitCalls, CallConstants DEF BaseInv, LockShape
    <2>3. ASSUME NEW s \in Request, tx'[s].kind = "rotate", tx'[s].step = "ready"
          PROVE  tx'[s].version = endpoint'[tx'[s].endpoint].secret_version
        <3>1. s # r /\ tx'[s] = tx[s] /\ s \in Unfinished /\ LocksEndpoint(s)
            BY Zenon, <2>3, CommitCalls, CallConstants DEF Unfinished, LocksEndpoint
        <3>2. tx[s].endpoint \in Existing
            BY Zenon, <3>1 DEF BaseInv, LockShape
        <3>3. tx[s].endpoint # e
            BY Zenon, <2>3, <3>1, <1>1 DEF BaseInv, LockShape, HoldsEndpoint
        <3>4. endpoint'[tx[s].endpoint] = endpoint[tx[s].endpoint]
            BY Zenon, <3>2, <3>3, <1>1 DEF Existing
        <3> QED
            BY Zenon, <2>3, <3>1, <3>4 DEF BaseInv, LockShape
    <2>4. \A s, t \in Request, f \in Endpoint : HoldsEndpoint(s, f)' /\ HoldsEndpoint(t, f)' => s = t
        BY Zenon, CommitCalls DEF BaseInv, LockShape
    <2> QED
        BY Zenon, <2>1, <2>2, <2>3, <2>4 DEF LockShape
<1>7. VersionShape'
    <2> SUFFICES ASSUME NEW f \in Endpoint, NEW w \in Version,
                        f \in Existing' => w > endpoint'[f].secret_version
                 PROVE  retire_at'[f][w] = NULL
        BY Zenon DEF VersionShape
    <2>1. CASE f = e
        <3>1. w > v /\ w # v
            BY SMTT(30), <2>1, <1>1 DEF Version
        <3> QED
            BY SMTT(30), <2>1, <3>1, <1>1 DEF BaseInv, VersionShape
    <2>2. CASE f # e
        BY <2>2, <1>1 DEF BaseInv, VersionShape
    <2> QED
        BY Zenon, <2>1, <2>2
<1>8. OneCurrentVersion'
    <2> SUFFICES ASSUME NEW f \in Existing', NEW w \in 1..endpoint'[f].secret_version
                 PROVE  (retire_at'[f][w] = NULL) = (w = endpoint'[f].secret_version)
        BY Zenon DEF OneCurrentVersion
    <2>1. CASE f = e /\ w = v + 1
        <3>1. v + 1 # v /\ v + 1 > v
            BY SMTT(30), <1>1 DEF Version
        <3>2. retire_at'[e][v + 1] = retire_at[e][v + 1]
            BY Zenon, <1>1, <3>1
        <3>3. retire_at[e][v + 1] = NULL
            BY Zenon, <1>1, <3>1 DEF BaseInv, VersionShape
        <3> QED
            BY Zenon, <2>1, <1>1, <3>2, <3>3
    <2>2. CASE f = e /\ w = v
        BY <2>2, <1>1, NullAssumption DEF NullAssumption, Version
    <2>3. CASE f = e /\ w # v /\ w # v + 1
        <3>0. endpoint'[f].secret_version = v + 1
            BY Zenon, <2>3, <1>1
        <3>1. w \in 1..v /\ w \in Version
            BY <2>3, <1>1, <3>0, EndpointsAssumption DEF Version, EndpointsAssumption
        <3>2. retire_at[e][w] # NULL
            <4>1. (retire_at[e][w] = NULL) = (w = v)
                BY Zenon, <3>1, <1>1 DEF BaseInv, OneCurrentVersion
            <4> QED
                BY Zenon, <4>1, <2>3
        <3> QED
            BY Zenon, <2>3, <3>1, <3>2, <1>1
    <2>4. CASE f # e
        <3>1. f \in Existing /\ f \in Endpoint /\ endpoint'[f] = endpoint[f] /\ endpoint[f] \in EndpointRow
            BY Zenon, <2>4, <1>1 DEF BaseInv, TypeOK, Existing
        <3>2. w \in Version
            BY <3>1, EndpointsAssumption DEF EndpointRow, Version, EndpointsAssumption
        <3>3. retire_at'[f][w] = retire_at[f][w]
            BY Zenon, <2>4, <3>1, <3>2, <1>1
        <3> QED
            BY <3>1, <3>3 DEF BaseInv, OneCurrentVersion
    <2> QED
        BY Zenon, <2>1, <2>2, <2>3, <2>4
<1>9. EndpointLimitRespected'
    BY Zenon, <1>4 DEF BaseInv, EndpointLimitRespected
<1>10. RoomForOne'
    <2> SUFFICES ASSUME NEW s \in Request, tx'[s].step = "ready"
                 PROVE /\ tx'[s].kind = "create" =>
                             tenant' = s /\ Cardinality(Active') < EndpointLimit
                       /\ tx'[s].kind = "update" /\ tx'[s].is_active =>
                             \/ endpoint'[tx'[s].endpoint].is_active
                             \/ /\ tenant' = s
                                /\ Cardinality(Active' \ {tx'[s].endpoint}) < EndpointLimit
        BY Zenon DEF RoomForOne
    <2>1. s # r /\ tx'[s] = tx[s] /\ s \in Unfinished /\ (tenant' = s <=> tenant = s)
        BY Zenon, CommitCalls, CallConstants DEF Unfinished
    <2>2. tx[s].kind = "update" => tx[s].endpoint \in Existing
        BY Zenon, <2>1 DEF BaseInv, LockShape, LocksEndpoint
    <2> QED
        BY Zenon, <2>1, <2>2, <1>3, <1>4 DEF BaseInv, RoomForOne
<1> QED
    BY Zenon, <1>5, <1>6, <1>7, <1>8, <1>9, <1>10, CommitCalls DEF BaseInv

\* Inserted deliveries leave endpoints and versions alone.
LEMMA CommitDeliveries ==
    ASSUME BaseInv, NEW r \in Request, Commit(r), tx[r].kind \in {"ingest", "replay"}
    PROVE  BaseInv'
<1>1. /\ UNCHANGED <<endpoint, retire_at>> /\ tx[r].step = "ready"
      /\ deliveries' = deliveries \union
            {[of |-> x, created |-> tx[r].began, replay |-> tx[r].kind = "replay"] : x \in tx[r].fanout}
    BY Zenon DEF Commit, InsertEndpoint, WriteUpdate, WriteRotation, InsertDeliveries
<1>2. Existing' = Existing /\ Active' = Active
    BY Zenon, <1>1 DEF Existing, Active
<1>3. tx[r].fanout \subseteq Snapshot /\ tx[r].began \in Nat
    BY Zenon DEF BaseInv, TypeOK, Call
<1>4. deliveries' \subseteq DeliveryRow
    <2>1. \A x \in tx[r].fanout :
             [of |-> x, created |-> tx[r].began, replay |-> tx[r].kind = "replay"] \in DeliveryRow
        BY Zenon, <1>3 DEF DeliveryRow
    <2> QED
        BY Zenon, <2>1, <1>1 DEF BaseInv, TypeOK
<1>5. TypeOK'
    BY Zenon, <1>1, <1>4, CommitCalls DEF BaseInv, TypeOK
<1>6. LockShape'
    <2>1. ASSUME NEW s \in Unfinished' PROVE LocksEndpoint(s)' => tx'[s].endpoint \in Existing'
        BY Zenon, <1>2, CommitCalls DEF BaseInv, LockShape, LocksEndpoint, Unfinished
    <2>2. ASSUME NEW s \in Request
          PROVE  /\ tx'[s].step = "limit" => tx'[s].kind = "update"
                 /\ tx'[s].kind = "create" => tx'[s].endpoint = NULL
        BY Zenon, CommitCalls, CallConstants DEF BaseInv, LockShape
    <2>3. ASSUME NEW s \in Request, tx'[s].kind = "rotate", tx'[s].step = "ready"
          PROVE  tx'[s].version = endpoint'[tx'[s].endpoint].secret_version
        <3>1. s # r /\ tx'[s] = tx[s]
            BY Zenon, <2>3, CommitCalls, CallConstants
        <3> QED
            BY Zenon, <2>3, <3>1, <1>1 DEF BaseInv, LockShape
    <2>4. \A s, t \in Request, f \in Endpoint : HoldsEndpoint(s, f)' /\ HoldsEndpoint(t, f)' => s = t
        BY Zenon, CommitCalls DEF BaseInv, LockShape
    <2> QED
        BY Zenon, <2>1, <2>2, <2>3, <2>4 DEF LockShape
<1>7. VersionShape' /\ OneCurrentVersion' /\ EndpointLimitRespected'
    BY Zenon, <1>1, <1>2 DEF BaseInv, VersionShape, OneCurrentVersion, EndpointLimitRespected
<1>8. RoomForOne'
    <2> SUFFICES ASSUME NEW s \in Request, tx'[s].step = "ready"
                 PROVE /\ tx'[s].kind = "create" =>
                             tenant' = s /\ Cardinality(Active') < EndpointLimit
                       /\ tx'[s].kind = "update" /\ tx'[s].is_active =>
                             \/ endpoint'[tx'[s].endpoint].is_active
                             \/ /\ tenant' = s
                                /\ Cardinality(Active' \ {tx'[s].endpoint}) < EndpointLimit
        BY Zenon DEF RoomForOne
    <2>1. s # r /\ tx'[s] = tx[s] /\ (tenant' = s <=> tenant = s)
        BY Zenon, CommitCalls, CallConstants
    <2> QED
        BY Zenon, <2>1, <1>1, <1>2 DEF BaseInv, RoomForOne
<1> QED
    BY Zenon, <1>5, <1>6, <1>7, <1>8, CommitCalls DEF BaseInv

\* Every step preserves the invariant.
LEMMA NextBase ==
    ASSUME BaseInv, [Next]_vars
    PROVE  BaseInv'
<1>1. CASE Tick
    BY Zenon, <1>1, TickBase
<1>2. ASSUME NEW r \in Request, Commit(r)
      PROVE  BaseInv'
    <2>1. tx[r].kind \in {"create", "update", "rotate", "ingest", "replay"}
        BY <1>2, Zenon DEF Commit, InsertEndpoint, WriteUpdate, WriteRotation, InsertDeliveries
    <2> QED
        BY Zenon, <1>2, <2>1, CommitCreate, CommitUpdate, CommitRotate, CommitDeliveries
<1>3. ASSUME NEW r \in Request,
             \/ CreateEndpoint(r) \/ IngestEvent(r)
             \/ \E e \in Endpoint :
                   \/ RotateEndpointSecret(r, e)
                   \/ \E active \in BOOLEAN : UpdateEndpoint(r, e, active)
             \/ \E d \in deliveries : ReplayDelivery(r, d)
      PROVE  BaseInv'
    <2>0. {} \in SUBSET Snapshot /\ NULL \in Endpoint \union {NULL}
        BY Zenon
    <2>1. deliveries \subseteq DeliveryRow
        BY Zenon DEF BaseInv, TypeOK
    <2>2. CASE CreateEndpoint(r)
        <3>1. Begin(r, "create", NULL, TRUE, {})
            BY Zenon, <2>2 DEF CreateEndpoint
        <3> QED
            BY Zenon, <3>1, <2>0, BeginBase
    <2>3. CASE IngestEvent(r)
        <3>1. Begin(r, "ingest", NULL, FALSE, {})
            BY Zenon, <2>3 DEF IngestEvent
        <3> QED
            BY Zenon, <3>1, <2>0, BeginBase
    <2>4. ASSUME NEW e \in Endpoint, RotateEndpointSecret(r, e) PROVE BaseInv'
        <3>1. e \in Existing /\ Begin(r, "rotate", e, FALSE, {})
            BY Zenon, <2>4 DEF RotateEndpointSecret
        <3> QED
            BY Zenon, <3>1, <2>0, BeginBase
    <2>5. ASSUME NEW e \in Endpoint, NEW active \in BOOLEAN, UpdateEndpoint(r, e, active) PROVE BaseInv'
        <3>1. e \in Existing /\ Begin(r, "update", e, active, {})
            BY Zenon, <2>5 DEF UpdateEndpoint
        <3> QED
            BY Zenon, <3>1, <2>0, BeginBase
    <2>6. ASSUME NEW d \in deliveries, ReplayDelivery(r, d) PROVE BaseInv'
        <3>1. {d.of} \in SUBSET Snapshot
            BY Zenon, <2>1 DEF DeliveryRow
        <3> QED
            BY Zenon, <2>6, <3>1, BeginBase DEF ReplayDelivery
    <2> QED
        BY Zenon, <1>3, <2>2, <2>3, <2>4, <2>5, <2>6
<1>4. ASSUME NEW r \in Request, LockEndpoint(r) \/ LockTenant(r) \/ Abort(r)
      PROVE  BaseInv'
    BY Zenon, <1>4, LockEndpointBase, LockTenantBase, AbortBase
<1>5. CASE UNCHANGED vars
    BY ZenonT(60), <1>5 DEF vars, BaseInv, TypeOK, Young, LockShape, VersionShape, OneCurrentVersion,
                RoomForOne, EndpointLimitRespected, Existing, Active, Unfinished,
                HoldsEndpoint, LocksEndpoint
<1> QED
    BY <1>1, <1>2, <1>3, <1>4, <1>5, Zenon DEF Next
-----------------------------------------------------------------------------
\* Locks, versions and the endpoint count agree in every reachable state.
THEOREM EndpointsInvariant == Spec => []BaseInv
<1>1. Init => BaseInv
    BY Zenon, InitBase
<1>2. BaseInv /\ [Next]_vars => BaseInv'
    BY Zenon, NextBase
<1> QED
    BY <1>1, <1>2, PTL DEF Spec

\* However calls that create and reactivate endpoints overlap, a project never
\* has more active endpoints than its limit: the count and the write that
\* relies on it are under one lock of the tenant's quota row.
THEOREM EndpointLimitCorrect == Spec => []EndpointLimitRespected
<1>1. BaseInv => EndpointLimitRespected
    BY Zenon DEF BaseInv
<1> QED
    BY <1>1, EndpointsInvariant, PTL

\* However rotations overlap, exactly one version of an endpoint has no
\* retirement time, the current one: each rotation reads the version it retires
\* under the lock of the endpoint's row.
THEOREM OneCurrentVersionCorrect == Spec => []OneCurrentVersion
<1>1. BaseInv => OneCurrentVersion
    BY Zenon DEF BaseInv
<1> QED
    BY <1>1, EndpointsInvariant, PTL
-----------------------------------------------------------------------------
\* Snapshots stay covered.  The step that could break it is a rotation, which
\* retires a version at its own now() plus the overlap: a snapshot taken while
\* it waited for its lock is at most MaxTxAge younger than that now().
CoverInv == BaseInv /\ SnapshotsCovered

\* A snapshot stays covered when endpoints and versions stay.
LEMMA UnchangedCovered ==
    ASSUME UNCHANGED <<endpoint, retire_at>>, NEW x, NEW c, NEW b, Covered(x, c, b)
    PROVE  Covered(x, c, b)'
BY Zenon DEF Covered, Existing

\* A new endpoint covers no snapshot of another.
LEMMA CreateCovered ==
    ASSUME BaseInv, NEW r \in Request, Commit(r), tx[r].kind = "create",
           NEW x \in Snapshot, NEW c, NEW b, Covered(x, c, b)
    PROVE  Covered(x, c, b)'
<1>1. PICK new \in Endpoint \ Existing :
         endpoint' = [endpoint EXCEPT ![new] = [is_active |-> TRUE, secret_version |-> 1]]
    BY Zenon DEF Commit, InsertEndpoint, WriteUpdate, WriteRotation, InsertDeliveries
<1>2. UNCHANGED retire_at
    BY Zenon DEF Commit, InsertEndpoint, WriteUpdate, WriteRotation, InsertDeliveries
<1>3. x.endpoint \in Existing /\ x.endpoint # new /\ x.endpoint \in Endpoint
    BY Zenon, <1>1 DEF Covered, Existing
<1>4. endpoint'[x.endpoint] = endpoint[x.endpoint]
    BY Zenon, <1>1, <1>3 DEF BaseInv, TypeOK
<1> QED
    BY Zenon, <1>2, <1>3, <1>4 DEF Covered, Existing

\* An update leaves versions alone.
LEMMA UpdateCovered ==
    ASSUME BaseInv, NEW r \in Request, Commit(r), tx[r].kind = "update",
           NEW x \in Snapshot, NEW c, NEW b, Covered(x, c, b)
    PROVE  Covered(x, c, b)'
<1> DEFINE f == x.endpoint
<1>1. /\ endpoint' = [endpoint EXCEPT ![tx[r].endpoint].is_active = tx[r].is_active]
      /\ UNCHANGED retire_at
    BY Zenon DEF Commit, InsertEndpoint, WriteUpdate, WriteRotation, InsertDeliveries
<1>2. f \in Endpoint /\ endpoint[f] # NULL /\ f \in Existing
    BY Zenon DEF Covered, Existing
<1>3. endpoint[f] \in EndpointRow /\ tx[r].is_active \in BOOLEAN
    BY Zenon, <1>2 DEF BaseInv, TypeOK, Call
<1>4. endpoint'[f] = endpoint[f] \/ endpoint'[f] = [endpoint[f] EXCEPT !.is_active = tx[r].is_active]
    BY Zenon, <1>1, <1>2 DEF BaseInv, TypeOK
<1>5. endpoint'[f] \in EndpointRow /\ endpoint'[f].secret_version = endpoint[f].secret_version
    BY Zenon, <1>3, <1>4 DEF EndpointRow
<1>6. endpoint'[f] # NULL
    BY Zenon, <1>5, NullAssumption DEF NullAssumption
<1> QED
    BY Zenon, <1>1, <1>2, <1>5, <1>6 DEF Covered, Existing

\* A rotation leaves the retired version valid for what was created before it.
LEMMA RotateCovered ==
    ASSUME BaseInv, MaxTxAge <= Margin, NEW r \in Request, Commit(r), tx[r].kind = "rotate",
           NEW x \in Snapshot, NEW c \in Nat, c <= clock, NEW b \in BOOLEAN, Covered(x, c, b)
    PROVE  Covered(x, c, b)'
<1> DEFINE e == tx[r].endpoint
           v == tx[r].version
<1>1. /\ e \in Existing /\ e \in Endpoint
      /\ v \in Version /\ v + 1 \in Version /\ v = endpoint[e].secret_version
      /\ endpoint'[e].secret_version = v + 1
      /\ \A f \in Endpoint : f # e => endpoint'[f] = endpoint[f]
      /\ Existing' = Existing
      /\ retire_at'[e][v] = tx[r].began + Overlap
      /\ \A f \in Endpoint, w \in Version :
            f # e \/ w # v => retire_at'[f][w] = retire_at[f][w]
    BY RotateEffect, Zenon
<1>2. tx[r].began \in Nat /\ clock \in Nat
    BY Zenon DEF BaseInv, TypeOK, Call
<1>3. clock <= tx[r].began + MaxTxAge
    BY Zenon DEF BaseInv, Young, Unfinished, Commit
<1> HIDE DEF e, v
<1>4. x.endpoint \in Endpoint /\ x.version \in Version /\ x.version \in Nat /\ x.endpoint \in Existing
    BY DEF Snapshot, Version, Covered
<1>5. x.version <= endpoint[x.endpoint].secret_version
    BY Zenon DEF Covered
<1>6. x.version <= endpoint'[x.endpoint].secret_version
    <2>1. CASE x.endpoint = e
        BY <2>1, <1>1, <1>4, <1>5 DEF Version
    <2>2. CASE x.endpoint # e
        BY Zenon, <2>2, <1>1, <1>4, <1>5
    <2> QED
        BY Zenon, <2>1, <2>2
<1>7. CASE x.endpoint = e /\ x.version = v
    <2>1. c + MaxAge <= tx[r].began + Overlap /\ c < tx[r].began + Overlap
        BY SMTT(30), <1>2, <1>3, EndpointsAssumption DEF EndpointsAssumption
    <2> QED
        BY Zenon, <2>1, <1>1, <1>4, <1>6, <1>7 DEF Covered
<1>8. CASE x.endpoint # e \/ x.version # v
    BY Zenon, <1>1, <1>4, <1>6, <1>8 DEF Covered
<1> QED
    BY Zenon, <1>7, <1>8

\* No step uncovers a snapshot.
LEMMA CoveredKept ==
    ASSUME BaseInv, MaxTxAge <= Margin, [Next]_vars,
           NEW x \in Snapshot, NEW c \in Nat, c <= clock, NEW b \in BOOLEAN, Covered(x, c, b)
    PROVE  Covered(x, c, b)'
<1>1. \/ UNCHANGED <<endpoint, retire_at>>
      \/ \E r \in Request : Commit(r) /\ tx[r].kind \in {"create", "update", "rotate"}
    <2>1. ASSUME NEW r \in Request, Commit(r)
          PROVE  \/ UNCHANGED <<endpoint, retire_at>>
                 \/ tx[r].kind \in {"create", "update", "rotate"}
        BY Zenon, <2>1 DEF Commit, InsertEndpoint, WriteUpdate, WriteRotation, InsertDeliveries
    <2>2. ASSUME NEW r \in Request,
                 \/ CreateEndpoint(r) \/ IngestEvent(r)
                 \/ \E e \in Endpoint :
                       \/ RotateEndpointSecret(r, e)
                       \/ \E active \in BOOLEAN : UpdateEndpoint(r, e, active)
                 \/ \E d \in deliveries : ReplayDelivery(r, d)
                 \/ LockEndpoint(r) \/ LockTenant(r) \/ Abort(r)
          PROVE  UNCHANGED <<endpoint, retire_at>>
        BY Zenon, <2>2 DEF CreateEndpoint, IngestEvent, RotateEndpointSecret, UpdateEndpoint,
                    ReplayDelivery, Begin, LockEndpoint, LockTenant, Abort
    <2>3. CASE Tick \/ UNCHANGED vars
        BY Zenon, <2>3 DEF Tick, vars
    <2> QED
        BY <2>1, <2>2, <2>3, Zenon DEF Next
<1> QED
    BY Zenon, <1>1, UnchangedCovered, CreateCovered, UpdateCovered, RotateCovered

\* The snapshots a call has after a step: those it had, the source of a replay
\* that begins, or the current versions an ingestion reads.
LEMMA FanoutSource ==
    ASSUME CoverInv, [Next]_vars, NEW r \in Unfinished', NEW x \in tx'[r].fanout
    PROVE  /\ x \in Snapshot /\ tx'[r].began \in Nat /\ tx'[r].began <= clock
           /\ Covered(x, tx'[r].began, tx'[r].kind = "replay")
<1>1. /\ tx \in [Request -> Call] /\ deliveries \subseteq DeliveryRow /\ clock \in Nat
      /\ endpoint \in [Endpoint -> EndpointRow \union {NULL}]
    BY Zenon DEF CoverInv, BaseInv, TypeOK
<1>2. r \in Request
    BY Zenon DEF Unfinished
<1>3. CASE tx'[r] = tx[r]
    <2>1. r \in Unfinished /\ x \in tx[r].fanout
        BY Zenon, <1>2, <1>3 DEF Unfinished
    <2>2. x \in Snapshot /\ tx[r].began \in Nat /\ tx[r].began <= clock
        BY Zenon, <1>1, <1>2, <2>1 DEF Call, CoverInv, BaseInv, Young
    <2> QED
        BY Zenon, <1>3, <2>1, <2>2 DEF CoverInv, SnapshotsCovered
<1>4. ASSUME NEW kind, NEW e, NEW active, NEW fanout, Begin(r, kind, e, active, fanout)
      PROVE  tx'[r].fanout = fanout /\ tx'[r].began = clock /\ tx'[r].kind = kind
    <2>1. tx'[r] = [NoCall EXCEPT !.kind = kind, !.step = "begun", !.endpoint = e,
                         !.is_active = active, !.began = clock, !.fanout = fanout]
        BY Zenon, <1>1, <1>2, <1>4 DEF Begin
    <2> QED
        BY Zenon, <2>1 DEF NoCall
<1>5. ASSUME NEW kind, NEW e, NEW active, Begin(r, kind, e, active, {})
      PROVE  FALSE
    BY <1>4, <1>5
<1>6. CASE \E d \in deliveries : ReplayDelivery(r, d)
    <2>1. PICK d \in deliveries : VersionLive(d.of) /\ Begin(r, "replay", NULL, FALSE, {d.of})
        BY Zenon, <1>6 DEF ReplayDelivery
    <2>2. x = d.of /\ tx'[r].began = clock /\ tx'[r].kind = "replay"
        <3>1. tx'[r].fanout = {d.of} /\ tx'[r].began = clock /\ tx'[r].kind = "replay"
            BY <2>1, <1>4, Zenon
        <3> QED
            BY Zenon, <3>1
    <2>3. x \in Snapshot /\ Covered(x, d.created, d.replay)
        BY Zenon, <1>1, <2>2 DEF DeliveryRow, CoverInv, SnapshotsCovered
    <2>4. LET end == retire_at[x.endpoint][x.version] IN end # NULL => end > clock
        BY Zenon, <2>1, <2>2 DEF VersionLive
    <2>5. x.endpoint \in Endpoint /\ x.version \in Version
        BY Zenon, <2>3 DEF Snapshot
    <2>6. retire_at[x.endpoint][x.version] \in Nat \union {NULL}
        BY Zenon, <2>5 DEF CoverInv, BaseInv, TypeOK
    <2>7. Covered(x, clock, TRUE)
        BY Zenon, <1>1, <2>3, <2>4, <2>6 DEF Covered
    <2>8. Covered(x, tx'[r].began, tx'[r].kind = "replay")
        <3>1. (tx'[r].kind = "replay") = TRUE
            BY Zenon, <2>2
        <3> QED
            BY <3>1, <2>2, <2>7, Zenon
    <2> QED
        BY <1>1, <2>2, <2>3, <2>8
<1>7. CASE LockEndpoint(r)
    <2>1. /\ tx'[r].fanout = tx[r].fanout /\ tx'[r].began = tx[r].began
          /\ tx'[r].kind = tx[r].kind /\ tx[r].step = "begun"
        BY ZenonT(60), <1>1, <1>2, <1>7 DEF LockEndpoint, Call
    <2>2. r \in Unfinished /\ x \in tx[r].fanout
        BY Zenon, <1>2, <2>1 DEF Unfinished
    <2>3. x \in Snapshot /\ tx[r].began \in Nat /\ tx[r].began <= clock
        BY Zenon, <1>1, <1>2, <2>2 DEF Call, CoverInv, BaseInv, Young
    <2> QED
        BY Zenon, <2>1, <2>2, <2>3 DEF CoverInv, SnapshotsCovered
<1>8. CASE LockTenant(r)
    <2> DEFINE now == IF tx[r].kind # "ingest" THEN tx[r].fanout ELSE
                       {[endpoint |-> e, version |-> endpoint[e].secret_version] : e \in Active}
    <2>1. r \in Unfinished
        BY Zenon, <1>2, <1>8 DEF LockTenant, WantsTenant, Unfinished
    <2>2. tx[r].began \in Nat /\ tx[r].began <= clock
        BY Zenon, <1>1, <1>2, <2>1 DEF Call, CoverInv, BaseInv, Young
    <2>3. \/ tx'[r] = Done
          \/ tx'[r] = [tx[r] EXCEPT !.step = "ready", !.fanout = now]
        BY Zenon, <1>1, <1>2, <1>8 DEF LockTenant
    <2>4. tx'[r] # Done
        BY Zenon, CallConstants DEF Unfinished
    <2>5. tx'[r].fanout = now /\ tx'[r].began = tx[r].began /\ tx'[r].kind = tx[r].kind
        BY ZenonT(60), <1>1, <1>2, <2>3, <2>4 DEF Call
    <2>6. CASE tx[r].kind # "ingest"
        <3>1. x \in tx[r].fanout /\ x \in Snapshot
            BY Zenon, <1>1, <1>2, <2>5, <2>6 DEF Call
        <3> QED
            BY ZenonT(60), <2>1, <2>2, <2>5, <3>1 DEF CoverInv, SnapshotsCovered
    <2>7. CASE tx[r].kind = "ingest"
        <3>1. PICK e \in Active : x = [endpoint |-> e, version |-> endpoint[e].secret_version]
            BY Zenon, <2>5, <2>7
        <3>2. e \in Existing /\ e \in Endpoint /\ endpoint[e] \in EndpointRow
            BY Zenon, <1>1 DEF Active, Existing
        <3>3. /\ endpoint[e].secret_version \in Version
              /\ endpoint[e].secret_version \in 1..endpoint[e].secret_version
            BY <3>2, EndpointsAssumption DEF EndpointRow, Version, EndpointsAssumption
        <3>4. retire_at[e][endpoint[e].secret_version] = NULL
            BY Zenon, <3>2, <3>3 DEF CoverInv, BaseInv, OneCurrentVersion
        <3>5. x \in Snapshot /\ x.endpoint = e /\ x.version = endpoint[e].secret_version
            BY Zenon, <3>1, <3>2, <3>3 DEF Snapshot
        <3>6. Covered(x, tx'[r].began, tx'[r].kind = "replay")
            BY SMTT(30), <3>2, <3>3, <3>4, <3>5 DEF Covered, Version
        <3> QED
            BY Zenon, <2>2, <2>5, <3>5, <3>6
    <2> QED
        BY Zenon, <2>6, <2>7
<1>9. CASE Commit(r) \/ Abort(r)
    <2>1. tx'[r] = Done
        BY Zenon, <1>1, <1>2, <1>9 DEF Commit, Abort
    <2> QED
        BY Zenon, <2>1, CallConstants DEF Unfinished
<1>10. ASSUME NEW s \in Request, s # r,
              \/ CreateEndpoint(s) \/ IngestEvent(s)
              \/ \E e \in Endpoint :
                    \/ RotateEndpointSecret(s, e)
                    \/ \E active \in BOOLEAN : UpdateEndpoint(s, e, active)
              \/ \E d \in deliveries : ReplayDelivery(s, d)
              \/ LockEndpoint(s) \/ LockTenant(s) \/ Commit(s) \/ Abort(s)
       PROVE  tx'[r] = tx[r]
    BY ZenonT(60), <1>1, <1>2, <1>10 DEF CreateEndpoint, IngestEvent, RotateEndpointSecret, UpdateEndpoint,
                ReplayDelivery, Begin, LockEndpoint, LockTenant, Commit, Abort
<1>11. CASE Tick \/ UNCHANGED vars
    BY Zenon, <1>3, <1>11 DEF Tick, vars
<1>12. CASE \/ CreateEndpoint(r) \/ IngestEvent(r)
            \/ \E e \in Endpoint :
                  \/ RotateEndpointSecret(r, e)
                  \/ \E active \in BOOLEAN : UpdateEndpoint(r, e, active)
    BY Zenon, <1>5, <1>12 DEF CreateEndpoint, IngestEvent, RotateEndpointSecret, UpdateEndpoint
<1> QED
    BY <1>2, <1>3, <1>6, <1>7, <1>8, <1>9, <1>10, <1>11, <1>12, Zenon DEF Next

\* The deliveries after a step: those there were, and the fan-out of a commit.
LEMMA DeliverySource ==
    ASSUME CoverInv, [Next]_vars, NEW d \in deliveries'
    PROVE  /\ d \in DeliveryRow /\ d.created <= clock
           /\ Covered(d.of, d.created, d.replay)
<1>1. CASE d \in deliveries
    BY Zenon, <1>1 DEF CoverInv, BaseInv, TypeOK, SnapshotsCovered
<1>2. ASSUME NEW r \in Request, Commit(r), d \notin deliveries
      PROVE  /\ d \in DeliveryRow /\ d.created <= clock
             /\ Covered(d.of, d.created, d.replay)
    <2>1. r \in Unfinished
        BY Zenon, <1>2 DEF Commit, Unfinished
    <2>2. PICK x \in tx[r].fanout :
             d = [of |-> x, created |-> tx[r].began, replay |-> tx[r].kind = "replay"]
        BY Zenon, <1>2 DEF Commit, InsertEndpoint, WriteUpdate, WriteRotation, InsertDeliveries
    <2>3. d.of = x /\ d.created = tx[r].began /\ d.replay = (tx[r].kind = "replay")
        BY Zenon, <2>2
    <2>4. x \in Snapshot /\ tx[r].began \in Nat /\ tx[r].began <= clock
        BY Zenon, <1>2, <2>1 DEF CoverInv, BaseInv, TypeOK, Call, Young
    <2>5. d \in DeliveryRow
        BY Zenon, <2>2, <2>4 DEF DeliveryRow
    <2>6. Covered(x, tx[r].began, tx[r].kind = "replay")
        BY Zenon, <2>1 DEF CoverInv, SnapshotsCovered
    <2>7. Covered(d.of, d.created, d.replay)
        BY <2>3, <2>6, Zenon
    <2> QED
        BY Zenon, <2>3, <2>4, <2>5, <2>7
<1>3. ASSUME NEW r \in Request,
             \/ CreateEndpoint(r) \/ IngestEvent(r)
             \/ \E e \in Endpoint :
                   \/ RotateEndpointSecret(r, e)
                   \/ \E active \in BOOLEAN : UpdateEndpoint(r, e, active)
             \/ \E b \in deliveries : ReplayDelivery(r, b)
             \/ LockEndpoint(r) \/ LockTenant(r) \/ Abort(r)
      PROVE  deliveries' = deliveries
    BY Zenon, <1>3 DEF CreateEndpoint, IngestEvent, RotateEndpointSecret, UpdateEndpoint,
                ReplayDelivery, Begin, LockEndpoint, LockTenant, Abort
<1>4. CASE Tick \/ UNCHANGED vars
    BY Zenon, <1>1, <1>4 DEF Tick, vars
<1> QED
    BY <1>1, <1>2, <1>3, <1>4, Zenon DEF Next

\* Every step preserves the coverage of snapshots.
LEMMA NextCover ==
    ASSUME CoverInv, MaxTxAge <= Margin, [Next]_vars
    PROVE  CoverInv'
<1>1. BaseInv'
    BY Zenon, NextBase DEF CoverInv
<1>2. clock \in Nat /\ clock' \in Nat /\ clock <= clock'
    <2>1. clock \in Nat /\ clock' \in Nat
        BY Zenon, <1>1 DEF CoverInv, BaseInv, TypeOK
    <2>2. clock' = clock \/ clock' = clock + 1
        BY Zenon DEF Next, CreateEndpoint, IngestEvent, RotateEndpointSecret, UpdateEndpoint, vars,
               ReplayDelivery, Begin, LockEndpoint, LockTenant, Commit, Abort, Tick
    <2> QED
        BY <2>1, <2>2
<1>3. ASSUME NEW d \in deliveries'
      PROVE  d.created <= clock' /\ Covered(d.of, d.created, d.replay)'
    <2>1. d \in DeliveryRow /\ d.created <= clock /\ Covered(d.of, d.created, d.replay)
        BY Zenon, DeliverySource
    <2>2. d.of \in Snapshot /\ d.created \in Nat /\ d.replay \in BOOLEAN
        BY Zenon, <2>1 DEF DeliveryRow
    <2>3. Covered(d.of, d.created, d.replay)'
        BY Zenon, <2>1, <2>2, CoveredKept DEF CoverInv
    <2> QED
        BY <1>2, <2>1, <2>2, <2>3
<1>4. ASSUME NEW r \in Unfinished', NEW x \in tx'[r].fanout
      PROVE  Covered(x, tx[r].began, tx[r].kind = "replay")'
    <2>1. /\ x \in Snapshot /\ tx'[r].began \in Nat /\ tx'[r].began <= clock
          /\ Covered(x, tx'[r].began, tx'[r].kind = "replay")
        BY Zenon, FanoutSource
    <2>2. PICK c \in Nat, b \in BOOLEAN : c = tx'[r].began /\ b = (tx'[r].kind = "replay")
        BY Zenon, <2>1
    <2>3. c <= clock /\ Covered(x, c, b)
        BY <2>1, <2>2, Zenon
    <2>4. Covered(x, c, b)'
        BY Zenon, <2>1, <2>2, <2>3, CoveredKept DEF CoverInv
    <2> QED
        BY Zenon, <2>2, <2>4 DEF Covered
<1> QED
    BY Zenon, <1>1, <1>3, <1>4 DEF CoverInv, SnapshotsCovered

\* Snapshots are covered while transactions are young.
LEMMA CoverInvariant == MaxTxAge <= Margin => (Spec => []CoverInv)
<1> SUFFICES ASSUME MaxTxAge <= Margin PROVE Spec => []CoverInv
    BY Zenon
<1>1. Init => CoverInv
    BY InitBase DEF CoverInv, SnapshotsCovered, Init, Unfinished, NoCall
<1>2. CoverInv /\ [Next]_vars => CoverInv'
    BY Zenon, NextCover
<1> QED
    BY <1>1, <1>2, PTL DEF Spec

\* While no transaction lives longer than the finalization margin, a delivery's
\* signing version is valid for the delivery's whole age, also when the event
\* was accepted while rotate_endpoint_secret ran.
THEOREM VersionOutlivesCorrect == MaxTxAge <= Margin => (Spec => []VersionOutlivesDelivery)
<1>1. CoverInv => VersionOutlivesDelivery
    BY ZenonT(60) DEF CoverInv, SnapshotsCovered, Covered, VersionOutlivesDelivery
<1> QED
    BY <1>1, CoverInvariant, PTL

\* Under the same bound, a replay is never created with a version that had
\* retired by then, although its check holds no lock.
THEOREM ReplayBeforeRetirementCorrect == MaxTxAge <= Margin => (Spec => []ReplayBeforeRetirement)
<1>1. CoverInv => ReplayBeforeRetirement
    BY Zenon DEF CoverInv, SnapshotsCovered, Covered, ReplayBeforeRetirement
<1> QED
    BY <1>1, CoverInvariant, PTL

-----------------------------------------------------------------------------
(* The receiver of webhooks. *)

\* A delivery at the worker, and what a request on its way looks like: it
\* carries the signature of its own event and time under one of the schemes.
SignedDelivery ==
    [status : {"none", "due", "sending", "succeeded", "dead"}, scheme : Scheme, attempts : Nat]
WellSigned(m) ==
    /\ m.event \in SignedEvent
    /\ \/ m.signature = sign_payload(m.event, m.timestamp)
       \/ m.signature = sign_payload_standard(m.event, m.timestamp)

\* The reservations are exactly the events that were carried out, and the
\* worker only takes those for succeeded.
ReceiverInv ==
    /\ sent \in [SignedEvent -> SignedDelivery]
    /\ secret \in Scheme /\ scheme.is \in Scheme
    /\ \A m \in wire : WellSigned(m)
    /\ effects = [e \in SignedEvent |-> IF e \in inbox THEN 1 ELSE 0]
    /\ \A e \in SignedEvent : sent[e].status = "succeeded" => e \in inbox
    /\ SchemesVerify

\* A recent request is refused only for a legacy signature after the receiver
\* has changed to the standard form of its secret.
LEMMA RefusedOnlyLegacy ==
    ASSUME NEW m, WellSigned(m), secret \in Scheme, ~Verifies(m)
    PROVE  secret = "standard" /\ m.signature.token = "t=,v1="
<1>1. CASE m.signature = sign_payload_standard(m.event, m.timestamp)
  <2>1. m.signature.token = "v1," /\ m.signature.key = DigestKey
        /\ m.signature.signed = <<m.event, m.timestamp, m.event>>
    <3> DEFINE s == sign_payload_standard(m.event, m.timestamp)
    <3>1. s.token = "v1," /\ s.key = DigestKey
      BY Zenon DEF sign_payload_standard
    <3>2. s.signed = <<m.event, m.timestamp, m.event>>
      BY Zenon DEF sign_payload_standard
    <3> HIDE DEF s
    <3>3. m.signature = s
      BY Zenon, <1>1 DEF s
    <3> QED
      BY Zenon, <3>1, <3>2, <3>3
  <2>2. secret_key_bytes(secret) = DigestKey
    BY Zenon DEF secret_key_bytes
  <2>3. verify_signature_standard(m)
    BY Zenon, <2>1, <2>2 DEF verify_signature_standard
  <2>4. m.signature.token # "t=,v1="
    BY Zenon, <2>1
  <2> QED
    BY Zenon, <2>3, <2>4 DEF Verifies
<1>2. CASE m.signature = sign_payload(m.event, m.timestamp)
  <2>1. m.signature.token = "t=,v1=" /\ m.signature.key = StringKey("legacy")
        /\ m.signature.signed = <<m.timestamp, m.event>>
    <3> DEFINE s == sign_payload(m.event, m.timestamp)
    <3>1. s.token = "t=,v1=" /\ s.key = StringKey("legacy")
      BY Zenon DEF sign_payload
    <3>2. s.signed = <<m.timestamp, m.event>>
      BY Zenon DEF sign_payload
    <3> HIDE DEF s
    <3>3. m.signature = s
      BY Zenon, <1>2 DEF s
    <3> QED
      BY ZenonT(60), <3>1, <3>2, <3>3
  <2>2. secret = "legacy" => verify_signature(m)
    BY ZenonT(60), <2>1 DEF verify_signature
  <2>3. secret # "legacy"
    BY Zenon, <2>1, <2>2 DEF Verifies
  <2> QED
    BY ZenonT(60), <2>1, <2>3 DEF Scheme
<1> QED
  BY Zenon, <1>1, <1>2 DEF WellSigned

\* Every step keeps it.
LEMMA ReceiverStep == ReceiverInv /\ [ReceiverNext]_receiver_vars => ReceiverInv'
<1> SUFFICES ASSUME ReceiverInv, [ReceiverNext]_receiver_vars PROVE ReceiverInv'
  BY Zenon
<1>0. CASE SwitchScheme
  <2>1. (CHOOSE s \in Scheme : s # scheme.is) \in Scheme
    <3>1. \E s \in Scheme : s # scheme.is
      BY Zenon DEF Scheme
    <3> QED
      BY Zenon, <3>1
  <2> QED
    BY Zenon, <1>0, <2>1 DEF ReceiverInv, SwitchScheme, WellSigned, SchemesVerify
<1>1. CASE InstallSecret \/ WireTick \/ UNCHANGED receiver_vars
  BY ZenonT(60), <1>1 DEF ReceiverInv, InstallSecret, WireTick, receiver_vars, WellSigned,
              SchemesVerify, Scheme
<1>2. ASSUME NEW e \in SignedEvent, AcceptSigned(e) PROVE ReceiverInv'
  BY Zenon, <1>2 DEF ReceiverInv, AcceptSigned, WellSigned, SchemesVerify, SignedDelivery
<1>3. ASSUME NEW e \in SignedEvent, ReplaySigned(e) \/ AttemptTimesOut(e) PROVE ReceiverInv'
  BY ZenonT(60), <1>3 DEF ReceiverInv, ReplaySigned, AttemptTimesOut, WellSigned, SchemesVerify, SignedDelivery
<1>4. ASSUME NEW e \in SignedEvent, SendSigned(e) PROVE ReceiverInv'
  <2>1. sent' \in [SignedEvent -> SignedDelivery]
        /\ \A f \in SignedEvent : sent'[f].status = "succeeded" => sent[f].status = "succeeded"
    BY <1>4 DEF ReceiverInv, SendSigned, SignedDelivery
  <2>2. \A m \in wire' : WellSigned(m)'
    BY <1>4 DEF ReceiverInv, SendSigned, WellSigned
  <2> QED
    BY Zenon, <1>4, <2>1, <2>2 DEF ReceiverInv, SendSigned, SchemesVerify
<1>5. ASSUME NEW m \in wire, LoseSigned(m) PROVE ReceiverInv'
  BY Zenon, <1>5 DEF ReceiverInv, LoseSigned, WellSigned, SchemesVerify
<1>6. ASSUME NEW m \in wire, ReceiveSigned(m) PROVE ReceiverInv'
  <2> DEFINE e == m.event
             good == verify_request(m)
  <2>1. e \in SignedEvent /\ WellSigned(m)
    BY Zenon DEF ReceiverInv, WellSigned
  <2>2. inbox' = inbox \union (IF good THEN {e} ELSE {})
        /\ effects' = [effects EXCEPT ![e] = @ + IF good /\ e \notin inbox THEN 1 ELSE 0]
        /\ Answered(m, good)
    BY ZenonT(60), <1>6 DEF ReceiveSigned, verify_and_claim
  <2>3. effects' = [f \in SignedEvent |-> IF f \in inbox' THEN 1 ELSE 0]
    BY <2>1, <2>2 DEF ReceiverInv
  <2>4. sent' \in [SignedEvent -> SignedDelivery]
        /\ \A f \in SignedEvent : sent'[f].status = "succeeded" => f \in inbox'
    BY <2>1, <2>2 DEF Answered, ReceiverInv, SignedDelivery
  <2>5. SchemesVerify'
    <3>1. ~Verifies(m) => secret = "standard" /\ m.signature.token = "t=,v1="
      BY Zenon, <2>1, RefusedOnlyLegacy DEF ReceiverInv
    <3>2. refused' \subseteq refused \union
             (IF Verifies(m) THEN {} ELSE {[held |-> secret, token |-> m.signature.token]})
      BY Zenon, <1>6 DEF ReceiveSigned
    <3> SUFFICES ASSUME NEW r \in refused'
                 PROVE  r.held = "standard" /\ r.token = "t=,v1="
      BY Zenon DEF SchemesVerify
    <3>3. CASE r \in refused
      BY Zenon, <3>3 DEF SchemesVerify, ReceiverInv
    <3>4. CASE r \notin refused
      <4>1. ~Verifies(m) /\ r = [held |-> secret, token |-> m.signature.token]
        BY Zenon, <3>2, <3>4
      <4> QED
        BY Zenon, <3>1, <4>1
    <3> QED
      BY Zenon, <3>3, <3>4
  <2>6. secret' \in Scheme /\ scheme'.is \in Scheme /\ \A n \in wire' : WellSigned(n)'
    BY Zenon, <1>6 DEF ReceiveSigned, ReceiverInv, WellSigned
  <2> QED
    BY Zenon, <2>3, <2>4, <2>5, <2>6 DEF ReceiverInv
<1> QED
  BY Zenon, <1>0, <1>1, <1>2, <1>3, <1>4, <1>5, <1>6 DEF ReceiverNext

\* It holds always.
LEMMA ReceiverInvariant == ReceiverSpec => []ReceiverInv
<1>1. ReceiverInit => ReceiverInv
  BY DEF ReceiverInit, ReceiverInv, SignedDelivery, Unsent, Scheme, SchemesVerify
<1> QED
  BY <1>1, ReceiverStep, PTL DEF ReceiverSpec

\* Whatever requests overlap, repeat or are lost, the receiver carries out an
\* event at most once (verify_and_claim reserves the id in the transaction
\* that carries it out).
THEOREM ReceiverOnce == ReceiverSpec => []CarriedOutOnce
<1>1. ReceiverInv => CarriedOutOnce
  BY DEF ReceiverInv, CarriedOutOnce
<1> QED
  BY <1>1, ReceiverInvariant, PTL

\* A delivery the worker takes for succeeded was carried out by the receiver,
\* for any number of events and requests in flight.
THEOREM ReceiverSuccess == ReceiverSpec => []SuccessMeansCarriedOut
<1>1. ReceiverInv => SuccessMeansCarriedOut
  BY DEF ReceiverInv, SuccessMeansCarriedOut
<1> QED
  BY <1>1, ReceiverInvariant, PTL

\* A receiver verifies every recent request of a scheme whose secret it holds,
\* however often the scheme is changed.
THEOREM ReceiverSchemes == ReceiverSpec => []SchemesVerify
<1>1. ReceiverInv => SchemesVerify
  BY Zenon DEF ReceiverInv
<1> QED
  BY <1>1, ReceiverInvariant, PTL
=============================================================================
