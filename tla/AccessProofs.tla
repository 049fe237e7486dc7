---------------------------- MODULE AccessProofs ----------------------------
(* Proofs about who may use the API, and how often: accounts, the rate limiter
   and the login throttle, for every setting and any number of overlapping
   requests.  Each has an inductive invariant, the lemma that every step keeps
   it, and the theorems it gives. *)
EXTENDS Accounts, RateLimiter, LoginThrottle, FiniteSetTheorems, TLAPS

(* Accounts. *)

\* Addresses as they are stored, the rows of users, and requests.
StoredEmail == {e \in Spelling : e.letters = "lower"}
AccountRow == [email : StoredEmail, hash : {"sha256", "bcrypt"}, is_active : BOOLEAN]
AccountRequest ==
    [at : {"idle", "register", "rehash", "login", "update", "deactivate", "delete"},
     id : Nat \union {Anyone}, email : StoredEmail \union {Anyone},
     seen : AccountRow \union {Anyone}]
Writing(r) == r.at \in {"register", "update"} => r.email \in StoredEmail

\* Every stored address is normalized and belongs to one account; an id is
\* used once.
UsersInv ==
    /\ users \in [DOMAIN users -> AccountRow]
    /\ last_user \in Nat /\ DOMAIN users \subseteq 1 .. last_user
    /\ \A u, v \in DOMAIN users : users[u].email = users[v].email => u = v

\* The address a request is about to store is normalized.
RequestsInv ==
    /\ request \in [AccountCall -> AccountRequest]
    /\ \A c \in AccountCall : Writing(request[c])

AccountsInv == UsersInv /\ RequestsInv

\* A normalized address is one that is stored, of the same mailbox.
LEMMA NormalizedIsStored ==
    ASSUME NEW s \in Spelling
    PROVE  normalize_email(s) \in StoredEmail /\ normalize_email(s).box = s.box
BY Zenon DEF Spelling, normalize_email, StoredEmail

\* A row of users is changed.
LEMMA ChangeAccount ==
    ASSUME UsersInv, NEW u \in DOMAIN users, NEW row \in AccountRow, Unique(u, row.email),
           users' = [users EXCEPT ![u] = row], last_user' = last_user
    PROVE  UsersInv'
<1>1. DOMAIN users' = DOMAIN users /\ users' \in [DOMAIN users -> AccountRow]
      /\ users'[u] = row /\ \A v \in DOMAIN users \ {u} : users'[v] = users[v]
  BY Zenon DEF UsersInv
<1> QED
  BY <1>1 DEF UsersInv, Unique

\* A request is replaced by another.
LEMMA ChangeRequest ==
    ASSUME RequestsInv, NEW c \in AccountCall, NEW r \in AccountRequest, Writing(r),
           request' = [request EXCEPT ![c] = r]
    PROVE  RequestsInv'
BY Zenon DEF RequestsInv

\* A request that ends leaves the others as they are.
LEMMA FinishKeeps ==
    ASSUME RequestsInv, NEW c \in AccountCall, Finish(c)
    PROVE  RequestsInv'
<1>1. NoRequest \in AccountRequest /\ Writing(NoRequest)
  BY Zenon DEF NoRequest, AccountRequest, Writing
<1> QED
  BY Zenon, <1>1, ChangeRequest DEF Finish

\* Every step keeps it.
LEMMA AccountsStep == AccountsInv /\ [AccountsNext]_account_vars => AccountsInv'
<1> SUFFICES ASSUME UsersInv, RequestsInv, [AccountsNext]_account_vars
             PROVE  UsersInv' /\ RequestsInv'
  BY Zenon DEF AccountsInv
<1> USE AccountsAssumption
<1>1. ASSUME NEW u \in token, ExpireToken(u) PROVE UsersInv' /\ RequestsInv'
  BY Zenon, <1>1 DEF ExpireToken, UsersInv, RequestsInv, Unique
<1>2. ASSUME NEW c \in AccountCall, InsertUser(c) PROVE UsersInv' /\ RequestsInv'
  <2> DEFINE u == last_user + 1
             row == [email |-> request[c].email, hash |-> "bcrypt", is_active |-> TRUE]
  <2>1. RequestsInv' /\ last_user' = u /\ u \in Nat /\ u \notin DOMAIN users
        /\ request[c].email \in StoredEmail
    BY <1>2, FinishKeeps DEF InsertUser, UsersInv, RequestsInv, Writing
  <2>2. CASE ~Unique(u, request[c].email)
    BY <1>2, <2>1, <2>2 DEF InsertUser, UsersInv
  <2>3. CASE Unique(u, request[c].email)
    <3>1. users' = [v \in DOMAIN users \union {u} |-> IF v = u THEN row ELSE users[v]]
      BY Zenon, <1>2, <2>3 DEF InsertUser
    <3>2. row \in AccountRow
      BY Zenon, <2>1 DEF AccountRow
    <3>3. DOMAIN users' = DOMAIN users \union {u} /\ users'[u] = row
          /\ \A v \in DOMAIN users : users'[v] = users[v]
      BY Zenon, <2>1, <3>1
    <3>4. users' \in [DOMAIN users' -> AccountRow]
      BY Zenon, <3>1, <3>2, <3>3 DEF UsersInv
    <3>5. \A v, w \in DOMAIN users' : users'[v].email = users'[w].email => v = w
      BY <2>3, <3>3 DEF UsersInv, Unique
    <3>6. DOMAIN users' \subseteq 1 .. last_user'
      BY <2>1, <3>3 DEF UsersInv
    <3> QED
      BY Zenon, <2>1, <3>4, <3>5, <3>6 DEF UsersInv
  <2> QED
    BY Zenon, <2>2, <2>3
<1>3. ASSUME NEW c \in AccountCall, Rehash(c) PROVE UsersInv' /\ RequestsInv'
  <2> DEFINE u == request[c].id
             row == [users[u] EXCEPT !.hash = "bcrypt"]
  <2>1. u \in DOMAIN users /\ row \in AccountRow /\ row.email = users[u].email
    BY <1>3 DEF Rehash, UsersInv, AccountRow
  <2>2. users' = [users EXCEPT ![u] = row] /\ last_user' = last_user /\ users'[u] = row
    BY Zenon, <1>3, <2>1 DEF Rehash, UsersInv
  <2>3. Unique(u, row.email)
    BY Zenon, <2>1 DEF UsersInv, Unique
  <2>4. UsersInv'
    BY Zenon, <2>1, <2>2, <2>3, ChangeAccount
  <2> DEFINE r == [request[c] EXCEPT !.at = "login", !.seen = row]
  <2>5. r \in AccountRequest /\ Writing(r)
    <3>1. request[c] \in AccountRequest
      BY Zenon DEF RequestsInv
    <3>2. r \in AccountRequest /\ r.at = "login"
      BY Zenon, <2>1, <3>1 DEF AccountRequest
    <3> QED
      BY Zenon, <3>2 DEF Writing
  <2>6. request' = [request EXCEPT ![c] = r]
    BY ZenonT(60), <1>3, <2>2 DEF Rehash, RequestsInv, AccountRequest
  <2> QED
    BY Zenon, <2>4, <2>5, <2>6, ChangeRequest
<1>4. ASSUME NEW c \in AccountCall, IssueToken(c) PROVE UsersInv' /\ RequestsInv'
  BY Zenon, <1>4, FinishKeeps DEF IssueToken, UsersInv, Unique
<1>5. ASSUME NEW c \in AccountCall, UpdateUser(c) PROVE UsersInv' /\ RequestsInv'
  <2> DEFINE u == request[c].id
  <2>1. u \in DOMAIN users /\ Unique(u, ChangedColumns(c).email)
        /\ users' = [users EXCEPT ![u] = ChangedColumns(c)] /\ last_user' = last_user
    BY Zenon, <1>5 DEF UpdateUser
  <2>2. ChangedColumns(c) \in AccountRow
    BY <1>5, <2>1 DEF UpdateUser, ChangedColumns, UsersInv, RequestsInv, Writing, AccountRow
  <2> QED
    BY Zenon, <1>5, <2>1, <2>2, ChangeAccount, FinishKeeps DEF UpdateUser
<1>6. ASSUME NEW c \in AccountCall, DeactivateAccount(c) PROVE UsersInv' /\ RequestsInv'
  <2> DEFINE u == request[c].id
             row == [users[u] EXCEPT !.is_active = FALSE]
  <2>1. u \in DOMAIN users /\ row \in AccountRow /\ row.email = users[u].email
    BY ZenonT(60), <1>6 DEF DeactivateAccount, UsersInv, AccountRow
  <2>2. users' = [users EXCEPT ![u] = row] /\ last_user' = last_user
    BY Zenon, <1>6, <2>1 DEF DeactivateAccount, UsersInv
  <2>3. Unique(u, row.email)
    BY Zenon, <2>1 DEF UsersInv, Unique
  <2> QED
    BY Zenon, <1>6, <2>1, <2>2, <2>3, ChangeAccount, FinishKeeps DEF DeactivateAccount
<1>7. ASSUME NEW c \in AccountCall, DeleteAccount(c) PROVE UsersInv' /\ RequestsInv'
  BY Zenon, <1>7, FinishKeeps DEF DeleteAccount, UsersInv
<1>8. ASSUME NEW c \in AccountCall, AbortRequest(c) PROVE UsersInv' /\ RequestsInv'
  BY Zenon, <1>8, FinishKeeps DEF AbortRequest, UsersInv
<1>9. ASSUME NEW c \in AccountCall, NEW s \in Spelling, CheckAddress(c, s)
      PROVE  UsersInv' /\ RequestsInv'
  <2> DEFINE r == [at |-> "register", id |-> Anyone, email |-> normalize_email(s),
                   seen |-> Anyone]
  <2>1. r \in AccountRequest /\ Writing(r)
    BY Zenon, NormalizedIsStored DEF AccountRequest, Writing
  <2> QED
    BY Zenon, <1>9, <2>1, ChangeRequest DEF CheckAddress, Begin, UsersInv
<1>10. ASSUME NEW c \in AccountCall, NEW s \in Spelling, Authenticate(c, s)
       PROVE  UsersInv' /\ RequestsInv'
  <2>1. PICK u \in get_by_email(s) :
           /\ Begin(c, [at |-> IF needs_rehash(users[u].hash) THEN "rehash" ELSE "login",
                        id |-> u, email |-> Anyone, seen |-> users[u]])
           /\ UNCHANGED <<users, last_user, token>>
    BY Zenon, <1>10 DEF Authenticate
  <2> DEFINE r == [at |-> IF needs_rehash(users[u].hash) THEN "rehash" ELSE "login",
                   id |-> u, email |-> Anyone, seen |-> users[u]]
  <2>2. r \in AccountRequest /\ Writing(r)
    BY DEF AccountRequest, Writing, get_by_email, UsersInv
  <2> QED
    BY ZenonT(60), <2>1, <2>2, ChangeRequest DEF Begin, UsersInv
<1>11. ASSUME NEW c \in AccountCall, NEW u, NEW s, NEW at \in {"update", "deactivate", "delete"},
              at = "update" => s \in Spelling, BeginOwn(c, u, at, s)
       PROVE  UsersInv' /\ RequestsInv'
  <2> DEFINE r == [at |-> at, id |-> u, seen |-> users[u],
                   email |-> IF at = "update" THEN UpdatedEmail(s) ELSE users[u].email]
  <2>1. u \in DOMAIN users /\ users[u] \in AccountRow /\ u \in Nat
    BY <1>11 DEF BeginOwn, MayAct, UsersInv
  <2>2. r \in AccountRequest /\ Writing(r)
    BY Zenon, <1>11, <2>1, NormalizedIsStored DEF AccountRequest, Writing, AccountRow, UpdatedEmail
  <2> QED
    BY ZenonT(60), <1>11, <2>2, ChangeRequest DEF BeginOwn, Begin, UsersInv
<1>12. CASE UNCHANGED account_vars
  BY Zenon, <1>12 DEF account_vars, UsersInv, RequestsInv
<1> QED
  BY Zenon, <1>1, <1>2, <1>3, <1>4, <1>5, <1>6, <1>7, <1>8, <1>9, <1>10, <1>11, <1>12 DEF AccountsNext

\* It holds at first.
LEMMA AccountsInitially == AccountsInit => AccountsInv
<1> SUFFICES ASSUME AccountsInit PROVE AccountsInv
  BY Zenon
<1>1. PICK s \in Spelling :
         users = [u \in {1} |-> [email |-> normalize_email(s), hash |-> "sha256",
                                 is_active |-> TRUE]]
  BY ZenonT(60) DEF AccountsInit
<1>2. UsersInv
  BY <1>1, NormalizedIsStored DEF AccountsInit, UsersInv, AccountRow
<1>3. RequestsInv
  BY Zenon DEF AccountsInit, RequestsInv, AccountRequest, Writing, NoRequest
<1> QED
  BY Zenon, <1>2, <1>3 DEF AccountsInv

\* It holds always.
LEMMA AccountsInvariant == AccountsSpec => []AccountsInv
BY AccountsInitially, AccountsStep, PTL DEF AccountsSpec

\* Whatever requests register and update at the same time, an account is the
\* only one of its mailbox and get_by_email finds it under every spelling: the
\* unique index decides, on the normalized address.
THEOREM AccountsAddresses == AccountsSpec => []AddressFindsAccount
<1>1. AccountsInv => AddressFindsAccount
  <2> SUFFICES ASSUME AccountsInv, NEW u \in DOMAIN users, NEW s \in Spelling,
                      s.box = users[u].email.box
               PROVE  get_by_email(s) = {u}
    BY Zenon DEF AddressFindsAccount
  <2>1. users[u].email = normalize_email(s)
    BY Zenon DEF AccountsInv, UsersInv, AccountRow, StoredEmail, Spelling, normalize_email
  <2> QED
    BY Zenon, <2>1 DEF AccountsInv, UsersInv, get_by_email
<1> QED
  BY <1>1, AccountsInvariant, PTL

\* No login, rehash or update that had read an account as active brings a
\* deactivated one back, for any number of accounts and requests.
THEOREM AccountsDeactivation == AccountsSpec => DeactivationHolds
<1>1. AccountsInv /\ [AccountsNext]_account_vars =>
         [\A u \in DOMAIN users \intersect DOMAIN users' :
             ~users[u].is_active => ~users'[u].is_active]_account_vars
  <2> SUFFICES ASSUME UsersInv, AccountsNext,
                      NEW u \in DOMAIN users \intersect DOMAIN users',
                      ~users[u].is_active
               PROVE  ~users'[u].is_active
    BY Zenon DEF AccountsInv
  <2>1. CASE UNCHANGED users
    BY Zenon, <2>1
  <2>2. ASSUME NEW c \in AccountCall, InsertUser(c) PROVE ~users'[u].is_active
    <3>1. u # last_user + 1
      BY DEF UsersInv
    <3> QED
      BY Zenon, <2>2, <3>1 DEF InsertUser
  <2>3. ASSUME NEW c \in AccountCall, Rehash(c) PROVE ~users'[u].is_active
    BY ZenonT(60), <2>3 DEF Rehash, UsersInv, AccountRow
  <2>4. ASSUME NEW c \in AccountCall, UpdateUser(c) PROVE ~users'[u].is_active
    BY ZenonT(60), <2>4 DEF UpdateUser, ChangedColumns, UsersInv, AccountRow
  <2>5. ASSUME NEW c \in AccountCall, DeactivateAccount(c) PROVE ~users'[u].is_active
    BY ZenonT(60), <2>5 DEF DeactivateAccount, UsersInv, AccountRow
  <2>6. ASSUME NEW c \in AccountCall, DeleteAccount(c) PROVE ~users'[u].is_active
    BY Zenon, <2>6 DEF DeleteAccount
  <2> QED
    BY ZenonT(60), <2>1, <2>2, <2>3, <2>4, <2>5, <2>6 DEF AccountsNext, ExpireToken, IssueToken,
       AbortRequest, CheckAddress, Authenticate, BeginOwn
<1> QED
  BY <1>1, AccountsInvariant, PTL DEF AccountsSpec, DeactivationHolds

-----------------------------------------------------------------------------
(* The rate limiter of the API. *)

\* What a key had admitted since t, and from t to before u.
Since(k, t) == {a \in AdmittedOf(k) : t <= a.at}
Between(k, t, u) == {a \in AdmittedOf(k) : t <= a.at /\ a.at < u}

\* The values of the variables; the requests admitted of a key are numbered.
RateType ==
    /\ rate_clock \in Nat
    /\ hits \in [DOMAIN hits -> [start : 0 .. rate_clock, count : Nat]] /\ DOMAIN hits \subseteq Client
    /\ IsFiniteSet(admitted)
    /\ admitted \in SUBSET [key : Client, at : 0 .. rate_clock, number : Nat]
    /\ \A a \in admitted : a.number <= Cardinality(AdmittedOf(a.key))

\* A window counts what it admitted, and what was admitted less than a window
\* before it began fits into one.  A key whose window is gone has nothing
\* admitted now, and no more than one window's requests not long ago.
WindowInv(k) ==
    LET s == hits[k].start IN
    /\ Cardinality(Since(k, s)) = hits[k].count /\ hits[k].count <= requests
    /\ \A a \in AdmittedOf(k) : a.at < s + rate_window
    /\ \A t \in Int : t > s - rate_window => Cardinality(Between(k, t, s)) <= requests
NoWindowInv(k) ==
    /\ \A a \in AdmittedOf(k) : a.at < rate_clock
    /\ \A t \in Int : t > rate_clock - rate_window => Cardinality(Since(k, t)) <= requests
KeyInv(k) ==
    /\ k \in DOMAIN hits => WindowInv(k)
    /\ k \notin DOMAIN hits => NoWindowInv(k)
    /\ \A t \in Int : Cardinality(AdmittedFrom(k, t)) <= 2 * requests
RateInv == RateType /\ \A k \in Client \ displaced : KeyInv(k)

\* Requests admitted are finitely many, so they can be counted.
LEMMA AdmittedFinite ==
    ASSUME RateType, NEW k
    PROVE  /\ IsFiniteSet(AdmittedOf(k)) /\ Cardinality(AdmittedOf(k)) \in Nat
           /\ \A t \in Int : /\ IsFiniteSet(Since(k, t)) /\ Cardinality(Since(k, t)) \in Nat
                             /\ IsFiniteSet(AdmittedFrom(k, t))
                             /\ Cardinality(AdmittedFrom(k, t)) \in Nat
                             /\ \A u \in Int : IsFiniteSet(Between(k, t, u))
                                               /\ Cardinality(Between(k, t, u)) \in Nat
<1>1. IsFiniteSet(admitted) /\ AdmittedOf(k) \subseteq admitted
  BY Zenon DEF RateType, AdmittedOf
<1>2. \A t \in Int : Since(k, t) \subseteq admitted /\ AdmittedFrom(k, t) \subseteq admitted
                     /\ \A u \in Int : Between(k, t, u) \subseteq admitted
  BY Zenon, <1>1 DEF Since, AdmittedFrom, Between
<1> QED
  BY Zenon, <1>1, <1>2, FS_Subset, FS_CardinalityType

\* A window that is over holds nothing back once it is gone.
LEMMA OverIsGone ==
    ASSUME RateType, NEW k \in DOMAIN hits, WindowInv(k), Over(k)
    PROVE  NoWindowInv(k)
<1> USE RateAssumption
<1> DEFINE s == hits[k].start
<1>1. s \in Nat /\ s + rate_window <= rate_clock /\ rate_clock \in Nat
  BY DEF RateType, Over
<1>2. \A a \in AdmittedOf(k) : a.at < rate_clock
  BY <1>1 DEF WindowInv, RateType, AdmittedOf
<1>3. ASSUME NEW t \in Int, t > rate_clock - rate_window
      PROVE  Cardinality(Since(k, t)) <= requests
  <2>1. Since(k, t) \subseteq Since(k, s)
    BY <1>1, <1>3 DEF Since, RateType, AdmittedOf
  <2>2. IsFiniteSet(Since(k, s)) /\ Cardinality(Since(k, s)) \in Nat
        /\ Cardinality(Since(k, t)) \in Nat
    <3> HIDE DEF s
    <3>1. s \in Int
      BY <1>1
    <3> QED
      BY Zenon, <3>1, AdmittedFinite
  <2>3. Cardinality(Since(k, t)) <= Cardinality(Since(k, s))
    BY Zenon, <2>1, <2>2, FS_Subset
  <2>4. Cardinality(Since(k, s)) <= requests
    BY Zenon DEF WindowInv
  <2> QED
    BY <2>2, <2>3, <2>4
<1> QED
  BY Zenon, <1>2, <1>3 DEF NoWindowInv

\* An admission adds one request of its key, now.
LEMMA AdmitAdds ==
    ASSUME RateType, NEW k \in Client, Admit(k), rate_clock' = rate_clock,
           hits' \in [DOMAIN hits' -> [start : 0 .. rate_clock, count : Nat]],
           DOMAIN hits' \subseteq Client
    PROVE  /\ RateType'
           /\ \E b : /\ b \notin AdmittedOf(k) /\ b.at = rate_clock
                     /\ AdmittedOf(k)' = AdmittedOf(k) \union {b}
           /\ \A j : j # k => AdmittedOf(j)' = AdmittedOf(j)
<1> DEFINE n == Cardinality(AdmittedOf(k))
           b == [key |-> k, at |-> rate_clock, number |-> n + 1]
<1>1. admitted' = admitted \union {b}
  BY Zenon DEF Admit
<1>2. n \in Nat /\ IsFiniteSet(AdmittedOf(k))
  BY Zenon, AdmittedFinite
<1> HIDE DEF n
<1>3. b \in [key : Client, at : 0 .. rate_clock, number : Nat]
  BY <1>2 DEF RateType
<1>4. \A a \in AdmittedOf(k) : a.number <= n
  BY Zenon DEF RateType, AdmittedOf, n
<1>5. b.number = n + 1 /\ b.key = k /\ b.at = rate_clock
  BY Zenon
<1> HIDE DEF b
<1>6. b \notin AdmittedOf(k)
  BY <1>2, <1>4, <1>5
<1>7. AdmittedOf(k)' = AdmittedOf(k) \union {b}
  BY Zenon, <1>1, <1>5 DEF AdmittedOf
<1>8. \A j : j # k => AdmittedOf(j)' = AdmittedOf(j)
  BY Zenon, <1>1, <1>5 DEF AdmittedOf
<1>9. IsFiniteSet(admitted') /\ Cardinality(AdmittedOf(k)') = n + 1
  BY Zenon, <1>1, <1>2, <1>6, <1>7, FS_AddElement DEF RateType, n
<1>10. \A a \in admitted' : a.number <= Cardinality(AdmittedOf(a.key)')
  <2> SUFFICES ASSUME NEW a \in admitted' PROVE a.number <= Cardinality(AdmittedOf(a.key)')
    BY Zenon
  <2>1. CASE a.key = k
    <3>1. a \in AdmittedOf(k) \/ a = b
      BY Zenon, <1>1, <2>1 DEF AdmittedOf
    <3>2. a.number \in Nat
      BY Zenon, <1>1, <1>3, <3>1 DEF AdmittedOf, RateType
    <3> QED
      BY <1>2, <1>4, <1>5, <1>9, <2>1, <3>1, <3>2
  <2>2. CASE a.key # k
    BY Zenon, <1>1, <1>5, <1>8, <2>2 DEF RateType
  <2> QED
    BY Zenon, <2>1, <2>2
<1>11. admitted' \in SUBSET [key : Client, at : 0 .. rate_clock, number : Nat]
  BY Zenon, <1>1, <1>3 DEF RateType
<1>12. RateType'
  BY Zenon, <1>9, <1>10, <1>11 DEF RateType
<1> QED
  BY Zenon, <1>5, <1>6, <1>7, <1>8, <1>12

\* A key keeps to two windows' requests when the one it is in holds.
LEMMA WindowKeeps ==
    ASSUME RateType, RateType', rate_clock' = rate_clock, NEW k,
           NEW b, AdmittedOf(k)' = AdmittedOf(k) \union {b}, b.at = rate_clock,
           NEW s \in Int, s <= rate_clock,
           Cardinality(Since(k, s)') <= requests,
           \A t \in Int : t > s - rate_window => Cardinality(Between(k, t, s)') <= requests,
           \A t \in Int : Cardinality(AdmittedFrom(k, t)) <= 2 * requests
    PROVE  \A t \in Int : Cardinality(AdmittedFrom(k, t)') <= 2 * requests
<1> USE RateAssumption
<1> SUFFICES ASSUME NEW t \in Int PROVE Cardinality(AdmittedFrom(k, t)') <= 2 * requests
  BY Zenon
<1>0. rate_clock \in Nat /\ \A a \in AdmittedOf(k)' : a.at \in Nat
  BY DEF RateType, AdmittedOf
<1>1. CASE t + rate_window <= rate_clock
  <2>1. AdmittedFrom(k, t)' = AdmittedFrom(k, t)
    BY <1>0, <1>1 DEF AdmittedFrom
  <2> QED
    BY Zenon, <2>1
<1>2. CASE ~(t + rate_window <= rate_clock)
  <2> DEFINE P == Between(k, t, s)'
             Q == Since(k, s)'
  <2>0. t > s - rate_window
    BY <1>0, <1>2
  <2>1. Cardinality(P) <= requests /\ Cardinality(Q) <= requests
    BY Zenon, <2>0
  <2>2. AdmittedFrom(k, t)' \subseteq P \union Q
    BY <1>0 DEF AdmittedFrom, Between, Since
  <2>3. IsFiniteSet(P) /\ Cardinality(P) \in Nat /\ IsFiniteSet(Q) /\ Cardinality(Q) \in Nat
    <3>1. P \subseteq admitted' /\ Q \subseteq admitted' /\ IsFiniteSet(admitted')
      BY Zenon DEF RateType, Between, Since, AdmittedOf
    <3> QED
      BY Zenon, <3>1, FS_Subset, FS_CardinalityType
  <2>4. IsFiniteSet(P \intersect Q) /\ Cardinality(P \intersect Q) \in Nat
    BY Zenon, <2>3, FS_Intersection, FS_CardinalityType
  <2>5. IsFiniteSet(P \union Q)
        /\ Cardinality(P \union Q) = Cardinality(P) + Cardinality(Q) - Cardinality(P \intersect Q)
    BY Zenon, <2>3, FS_Union
  <2>6. Cardinality(AdmittedFrom(k, t)') <= Cardinality(P \union Q)
    BY Zenon, <2>2, <2>5, FS_Subset
  <2>7. Cardinality(AdmittedFrom(k, t)') \in Nat
    BY Zenon, <2>2, <2>5, FS_Subset, FS_CardinalityType
  <2> HIDE DEF P, Q
  <2> QED
    BY <2>1, <2>3, <2>4, <2>5, <2>6, <2>7
<1> QED
  BY Zenon, <1>1, <1>2

\* Every step keeps it.
LEMMA RateStep == RateInv /\ [RateNext]_rate_vars => RateInv'
<1> SUFFICES ASSUME RateInv, [RateNext]_rate_vars PROVE RateInv'
  BY Zenon
<1> USE RateAssumption
<1>0. RateType /\ rate_clock \in Nat
  BY Zenon DEF RateInv, RateType
<1>1. CASE UNCHANGED rate_vars
  <2>1. rate_clock' = rate_clock /\ hits' = hits /\ admitted' = admitted /\ displaced' = displaced
    BY Zenon, <1>1 DEF rate_vars
  <2>2. RateType'
    BY Zenon, <1>0, <2>1 DEF RateType, AdmittedOf
  <2>3. ASSUME NEW k \in Client \ displaced PROVE KeyInv(k)'
    <3>1. KeyInv(k)
      BY Zenon DEF RateInv
    <3>2. (WindowInv(k) => WindowInv(k)') /\ (NoWindowInv(k) => NoWindowInv(k)')
      BY Zenon, <2>1 DEF WindowInv, NoWindowInv, Since, Between, AdmittedOf
    <3> QED
      BY Zenon, <2>1, <3>1, <3>2 DEF KeyInv, AdmittedFrom, AdmittedOf
  <2> QED
    BY Zenon, <2>1, <2>2, <2>3 DEF RateInv
<1>2. CASE RateTick
  <2>1. rate_clock' = rate_clock + 1 /\ hits' = hits /\ admitted' = admitted
        /\ displaced' = displaced
    BY Zenon, <1>2 DEF RateTick
  <2>2. RateType'
    BY <1>0, <2>1 DEF RateType, AdmittedOf
  <2>3. ASSUME NEW k \in Client \ displaced PROVE KeyInv(k)'
    <3>1. KeyInv(k)
      BY Zenon DEF RateInv
    <3>2. WindowInv(k) => WindowInv(k)'
      BY Zenon, <2>1 DEF WindowInv, Since, Between, AdmittedOf
    <3>3. NoWindowInv(k) => NoWindowInv(k)'
      <4> SUFFICES ASSUME NoWindowInv(k) PROVE NoWindowInv(k)'
        BY Zenon
      <4>1. \A a \in AdmittedOf(k)' : a.at < rate_clock'
        BY <1>0, <2>1 DEF NoWindowInv, AdmittedOf, RateType
      <4>2. ASSUME NEW t \in Int, t > rate_clock' - rate_window
            PROVE  Cardinality(Since(k, t)') <= requests
        <5>1. t > rate_clock - rate_window
          BY <1>0, <2>1, <4>2
        <5> QED
          BY Zenon, <2>1, <5>1 DEF NoWindowInv, Since, AdmittedOf
      <4> QED
        BY Zenon, <4>1, <4>2 DEF NoWindowInv
    <3> QED
      BY Zenon, <2>1, <3>1, <3>2, <3>3 DEF KeyInv, AdmittedFrom, AdmittedOf
  <2> QED
    BY Zenon, <2>1, <2>2, <2>3 DEF RateInv
<1>3. ASSUME NEW k \in Client, StartWindow(k) PROVE RateInv'
  <2>1. PICK keep \in make_room(k) :
           /\ hits' = [j \in keep \cup {k} |->
                         IF j = k THEN [start |-> rate_clock, count |-> 1] ELSE hits[j]]
           /\ displaced' = displaced \cup {j \in DOMAIN hits \ keep : ~Over(j)}
    BY Zenon, <1>3 DEF StartWindow
  <2>2. keep \subseteq DOMAIN hits /\ Admit(k) /\ rate_clock' = rate_clock
    BY ZenonT(60), <1>3 DEF StartWindow, make_room
  <2>3. hits' \in [DOMAIN hits' -> [start : 0 .. rate_clock, count : Nat]]
        /\ DOMAIN hits' = keep \union {k} /\ hits'[k] = [start |-> rate_clock, count |-> 1]
        /\ \A j \in keep \ {k} : hits'[j] = hits[j]
    BY <1>0, <2>1, <2>2 DEF RateType
  <2>4. DOMAIN hits' \subseteq Client
    BY Zenon, <1>0, <2>2, <2>3 DEF RateType
  <2>5. RateType' /\ \A j : j # k => AdmittedOf(j)' = AdmittedOf(j)
    BY Zenon, <1>0, <2>2, <2>3, <2>4, AdmitAdds
  <2>6. PICK b : b \notin AdmittedOf(k) /\ b.at = rate_clock
                 /\ AdmittedOf(k)' = AdmittedOf(k) \union {b}
    BY Zenon, <1>0, <2>2, <2>3, <2>4, AdmitAdds
  <2>7. ASSUME NEW j \in Client \ displaced', j # k PROVE KeyInv(j)'
    <3>1. KeyInv(j) /\ AdmittedOf(j)' = AdmittedOf(j)
      BY Zenon, <2>1, <2>5, <2>7 DEF RateInv
    <3>2. \A t \in Int : Cardinality(AdmittedFrom(j, t)') <= 2 * requests
      BY Zenon, <3>1 DEF KeyInv, AdmittedFrom
    <3>3. ASSUME j \in DOMAIN hits' PROVE WindowInv(j)'
      <4>1. j \in DOMAIN hits /\ hits'[j] = hits[j]
        BY Zenon, <2>2, <2>3, <2>7, <3>3
      <4> QED
        BY Zenon, <3>1, <4>1 DEF KeyInv, WindowInv, Since, Between
    <3>4. ASSUME j \notin DOMAIN hits' PROVE NoWindowInv(j)'
      <4>1. j \in DOMAIN hits => Over(j)
        BY Zenon, <2>1, <2>3, <2>7, <3>4
      <4>2. NoWindowInv(j)
        BY Zenon, <1>0, <3>1, <4>1, OverIsGone DEF KeyInv
      <4> QED
        BY Zenon, <2>2, <3>1, <4>2 DEF NoWindowInv, Since
    <3> QED
      BY Zenon, <3>2, <3>3, <3>4 DEF KeyInv
  <2>8. ASSUME k \notin displaced PROVE KeyInv(k)'
    <3> DEFINE s == rate_clock
    <3>1. KeyInv(k) /\ NoWindowInv(k)
      <4>1. KeyInv(k)
        BY Zenon, <2>8 DEF RateInv
      <4> QED
        BY Zenon, <1>0, <1>3, <4>1, OverIsGone DEF KeyInv, StartWindow
    <3>2. Since(k, s)' = {b}
      <4>1. \A a \in AdmittedOf(k) : a.at < rate_clock /\ a.at \in Nat
        BY <1>0, <3>1 DEF NoWindowInv, AdmittedOf, RateType
      <4> QED
        BY <1>0, <2>2, <2>6, <4>1 DEF Since
    <3>3. Cardinality(Since(k, s)') = 1
      BY Zenon, <3>2, FS_Singleton
    <3>4. ASSUME NEW t \in Int, t > s - rate_window PROVE Cardinality(Between(k, t, s)') <= requests
      <4>1. \A a \in AdmittedOf(k) : a.at \in Nat
        BY <1>0 DEF AdmittedOf, RateType
      <4>2. Between(k, t, s)' \subseteq Since(k, t)
        BY <1>0, <2>2, <2>6, <4>1 DEF Between, Since
      <4>3. IsFiniteSet(Since(k, t)) /\ Cardinality(Since(k, t)) \in Nat
        BY Zenon, <1>0, AdmittedFinite
      <4>4. Cardinality(Between(k, t, s)') <= Cardinality(Since(k, t))
            /\ Cardinality(Between(k, t, s)') \in Nat
        BY Zenon, <4>2, <4>3, FS_Subset, FS_CardinalityType
      <4>5. Cardinality(Since(k, t)) <= requests
        BY Zenon, <3>1, <3>4 DEF NoWindowInv
      <4> QED
        BY <4>3, <4>4, <4>5
    <3>5. \A a \in AdmittedOf(k)' : a.at < s + rate_window
      BY <1>0, <2>5, <2>2 DEF RateType, AdmittedOf
    <3>6. hits'[k].start = s /\ hits'[k].count = 1 /\ k \in DOMAIN hits' /\ s' = s /\ s \in Int
      BY SMTT(30), <1>0, <2>2, <2>3
    <3>7. \A t \in Int : Cardinality(AdmittedFrom(k, t)') <= 2 * requests
      <4>1. \A t \in Int : Cardinality(AdmittedFrom(k, t)) <= 2 * requests
        BY Zenon, <3>1 DEF KeyInv
      <4> QED
        BY <1>0, <2>2, <2>5, <2>6, <3>3, <3>4, <3>6, <4>1, WindowKeeps
    <3>8. WindowInv(k)'
      BY <3>3, <3>4, <3>5, <3>6 DEF WindowInv
    <3> QED
      BY Zenon, <3>6, <3>7, <3>8 DEF KeyInv
  <2> QED
    BY Zenon, <2>1, <2>5, <2>7, <2>8 DEF RateInv
<1>4. ASSUME NEW k \in Client, CountHit(k) PROVE RateInv'
  <2> DEFINE s == hits[k].start
             n == hits[k].count
  <2>1. k \in DOMAIN hits /\ ~Over(k) /\ n < requests /\ Admit(k) /\ rate_clock' = rate_clock
        /\ displaced' = displaced /\ s \in 0 .. rate_clock /\ n \in Nat
    BY <1>0, <1>4 DEF CountHit, Full, RateType
  <2>2. /\ DOMAIN hits' = DOMAIN hits /\ hits'[k].start = s /\ hits'[k].count = n + 1
        /\ \A j \in DOMAIN hits \ {k} : hits'[j] = hits[j]
        /\ hits' \in [DOMAIN hits' -> [start : 0 .. rate_clock, count : Nat]]
    BY <1>0, <1>4, <2>1 DEF CountHit, RateType
  <2> HIDE DEF s, n
  <2>3. DOMAIN hits' \subseteq Client
    BY Zenon, <1>0, <2>2 DEF RateType
  <2>4. RateType' /\ \A j : j # k => AdmittedOf(j)' = AdmittedOf(j)
    BY Zenon, <1>0, <2>1, <2>2, <2>3, AdmitAdds
  <2>5. PICK b : b \notin AdmittedOf(k) /\ b.at = rate_clock
                 /\ AdmittedOf(k)' = AdmittedOf(k) \union {b}
    BY Zenon, <1>0, <2>1, <2>2, <2>3, AdmitAdds
  <2>6. ASSUME NEW j \in Client \ displaced', j # k PROVE KeyInv(j)'
    <3>1. KeyInv(j) /\ AdmittedOf(j)' = AdmittedOf(j)
      BY Zenon, <2>1, <2>4, <2>6 DEF RateInv
    <3>2. \A t \in Int : Cardinality(AdmittedFrom(j, t)') <= 2 * requests
      BY Zenon, <3>1 DEF KeyInv, AdmittedFrom
    <3>3. ASSUME j \in DOMAIN hits' PROVE WindowInv(j)'
      <4>1. j \in DOMAIN hits /\ hits'[j] = hits[j]
        BY Zenon, <2>2, <2>6, <3>3
      <4> QED
        BY Zenon, <3>1, <4>1 DEF KeyInv, WindowInv, Since, Between
    <3>4. ASSUME j \notin DOMAIN hits' PROVE NoWindowInv(j)'
      <4>1. NoWindowInv(j)
        BY Zenon, <2>2, <3>1, <3>4 DEF KeyInv
      <4> QED
        BY Zenon, <2>1, <3>1, <4>1 DEF NoWindowInv, Since
    <3> QED
      BY Zenon, <3>2, <3>3, <3>4 DEF KeyInv
  <2>7. ASSUME k \notin displaced PROVE KeyInv(k)'
    <3>1. KeyInv(k) /\ WindowInv(k)
      BY Zenon, <2>1, <2>7 DEF RateInv, KeyInv
    <3>2. s \in Int /\ s <= rate_clock /\ rate_clock < s + rate_window
      BY <1>0, <2>1 DEF Over, s
    <3>3. \A a \in AdmittedOf(k) : a.at \in Nat /\ a.at < s + rate_window
      BY <1>0, <3>1 DEF AdmittedOf, RateType, WindowInv, s
    <3>4. {a \in AdmittedOf(k)' : s <= a.at} = Since(k, s) \union {b} /\ b \notin Since(k, s)
      BY Zenon, <2>5, <3>2 DEF Since
    <3>5. Cardinality({a \in AdmittedOf(k)' : s <= a.at}) = n + 1
      <4>1. IsFiniteSet(Since(k, s))
        BY Zenon, <1>0, <3>2, AdmittedFinite
      <4>2. Cardinality(Since(k, s)) = n
        BY Zenon, <3>1 DEF WindowInv, s, n
      <4> QED
        BY Zenon, <3>4, <4>1, <4>2, FS_AddElement
    <3>6. ASSUME NEW t \in Int, t > s - rate_window
          PROVE  Cardinality({a \in AdmittedOf(k)' : t <= a.at /\ a.at < s}) <= requests
      <4>1. {a \in AdmittedOf(k)' : t <= a.at /\ a.at < s} = Between(k, t, s)
        BY <1>0, <2>5, <3>2 DEF Between
      <4> QED
        BY Zenon, <3>1, <3>6, <4>1 DEF WindowInv, s
    <3>7. \A a \in AdmittedOf(k)' : a.at < s + rate_window
      BY Zenon, <2>5, <3>2, <3>3
    <3>8. PICK start \in Int : start = s
      BY Zenon, <3>2
    <3>9. Cardinality(Since(k, start)') = n + 1
          /\ \A t \in Int : t > start - rate_window => Cardinality(Between(k, t, start)') <= requests
      BY Zenon, <3>5, <3>6, <3>8 DEF Since, Between
    <3>10. WindowInv(k)'
      BY <2>1, <2>2, <3>7, <3>8, <3>9 DEF WindowInv
    <3>11. \A t \in Int : Cardinality(AdmittedFrom(k, t)') <= 2 * requests
      <4>1. \A t \in Int : Cardinality(AdmittedFrom(k, t)) <= 2 * requests
        BY Zenon, <3>1 DEF KeyInv
      <4>2. Cardinality(Since(k, start)') <= requests /\ start <= rate_clock
        BY <2>1, <3>2, <3>8, <3>9
      <4> QED
        BY Zenon, <1>0, <2>1, <2>4, <2>5, <3>9, <4>1, <4>2, WindowKeeps
    <3> QED
      BY Zenon, <2>1, <2>2, <3>10, <3>11 DEF KeyInv
  <2> QED
    BY Zenon, <2>1, <2>4, <2>6, <2>7 DEF RateInv
<1> QED
  BY Zenon, <1>1, <1>2, <1>3, <1>4 DEF RateNext

\* A fixed window admits at most two windows' requests of a key in any span as
\* long as a window, for every limit and window, while the key's window is not
\* dropped to make room for another.
THEOREM RateLimited == RateSpec => []RateKept
<1>1. RateInit => RateInv
  <2> SUFFICES ASSUME RateInit PROVE RateInv
    BY Zenon
  <2>1. DOMAIN hits = {} /\ rate_clock = 0 /\ admitted = {} /\ displaced = {}
    BY Zenon DEF RateInit
  <2>2. RateType
    BY <2>1, FS_EmptySet DEF RateInit, RateType
  <2>3. \A k \in Client : AdmittedOf(k) = {}
        /\ \A t \in Int : Since(k, t) = {} /\ AdmittedFrom(k, t) = {}
    BY Zenon, <2>1 DEF AdmittedOf, Since, AdmittedFrom
  <2>4. ASSUME NEW k \in Client PROVE KeyInv(k)
    <3>1. Cardinality({}) = 0 /\ 0 <= requests /\ 0 <= 2 * requests
      BY FS_EmptySet, RateAssumption
    <3>2. NoWindowInv(k)
      BY Zenon, <2>3, <3>1 DEF NoWindowInv
    <3> QED
      BY ZenonT(60), <2>1, <2>3, <3>1, <3>2 DEF KeyInv
  <2> QED
    BY Zenon, <2>2, <2>4 DEF RateInv
<1>2. RateInv => RateKept
  BY DEF RateInv, KeyInv, RateKept, RateTime
<1> QED
  BY <1>1, <1>2, RateStep, PTL DEF RateSpec

-----------------------------------------------------------------------------
(* The login throttle. *)

\* Logins that were evaluated as wrong and are not counted yet, of a span, and
\* those among them that have not looked for the row.
Pending(t) == {l \in Login : /\ login[l].at \in {"wrong", "found"}
                             /\ t <= login[l].now /\ login[l].now < t + Span}
Unfound(t) == {l \in Pending(t) : login[l].at = "wrong"}

\* Logins in progress that began before a time.
Early(time) == {l \in Login : login[l].at # "idle" /\ login[l].now < time}

LoginType ==
    /\ throttle \in ThrottleRow \union {NoRow}
    /\ login \in [Login -> [at : {"idle", "allowed", "wrong", "found"}, now : Nat]]
    /\ login_clock \in Nat
    /\ \A l \in Login : login[l].at # "idle" =>
          login[l].now <= login_clock /\ login_clock <= login[l].now + MaxLoginAge

\* What was evaluated is numbered for each time.
WrongType ==
    /\ IsFiniteSet(wrong) /\ wrong \in SUBSET [began : Nat, number : Nat]
    /\ \A w \in wrong : w.began <= login_clock /\ w.number <= Cardinality(WrongAt(w.began))

\* A lock lasts from the last failure; the logins that passed before it are
\* few and began before it.
LockInv ==
    LET c == throttle.failure_count
        until == throttle.locked_until
    IN  /\ c < max_failures => until = 0
        /\ c >= max_failures =>
              /\ until = throttle.updated_at + lockout
              /\ c + Cardinality(Early(until)) <= max_failures + Cardinality(Login) - 1
              /\ \A l \in Login : login[l].at # "idle" =>
                    login[l].now <= throttle.updated_at + MaxLoginAge \/ login[l].now >= until

\* Wrong credentials of a span that begins well after the row's window did are
\* counted in it or pending.  A span that reaches the logins in progress may
\* hold another window's besides, and after the last failure all are pending.
\* Without a row, those are pending or were found missing.
RowInv ==
    LET c == throttle.failure_count
    IN  /\ \A t \in Int : t > throttle.window_started_at + MaxLoginAge =>
              Cardinality(WrongSince(t)) <= c + Cardinality(Pending(t))
        /\ \A t \in Int : t > login_clock - MaxLoginAge - Span =>
              Cardinality(WrongSince(t)) <=
                 max_failures + Cardinality(Login) - 1 + c + Cardinality(Pending(t))
        /\ \A t \in Int : t > throttle.updated_at + MaxLoginAge =>
              Cardinality(WrongSince(t)) <= Cardinality(Pending(t))
NoRowInv ==
    \A t \in Int : t > login_clock - MaxLoginAge - Span =>
        Cardinality(WrongSince(t)) <= Cardinality(Unfound(t)) + Cardinality(Login)
WithinBudget ==
    \A t \in Int : Cardinality(WrongSince(t)) <= 2 * (max_failures + Cardinality(Login))

LoginInv ==
    /\ LoginType /\ WrongType /\ WithinBudget
    /\ throttle # NoRow => LockInv /\ RowInv
    /\ throttle = NoRow => NoRowInv

\* Logins are counted.
LEMMA LoginCount ==
    ASSUME NEW T \in SUBSET Login, NEW S \in SUBSET T
    PROVE  /\ IsFiniteSet(T) /\ Cardinality(S) \in Nat /\ Cardinality(T) \in Nat
           /\ Cardinality(S) <= Cardinality(T) /\ Cardinality(T) <= Cardinality(Login)
           /\ Cardinality(Login) \in Nat
BY Zenon, LoginAssumption, FS_Subset, FS_CardinalityType DEF LoginAssumption

\* One element more makes at most one more.
LEMMA AtMostOneMore ==
    ASSUME NEW S, IsFiniteSet(S), NEW x
    PROVE  Cardinality(S \union {x}) <= Cardinality(S) + 1
           /\ Cardinality(S \union {x}) \in Nat /\ Cardinality(S) \in Nat
<1>1. Cardinality(S) \in Nat
  BY Zenon, FS_CardinalityType
<1>2. Cardinality(S \union {x}) =
         IF x \in S THEN Cardinality(S) ELSE Cardinality(S) + 1
  BY Zenon, FS_AddElement
<1> QED
  BY <1>1, <1>2

\* One login more makes one more.
LEMMA LoginOneMore ==
    ASSUME NEW T \in SUBSET Login, NEW l \in Login, NEW S \in SUBSET (T \union {l})
    PROVE  Cardinality(S) <= Cardinality(T) + 1
<1>1. T \union {l} \in SUBSET Login /\ IsFiniteSet(T) /\ Cardinality(T) \in Nat
  BY Zenon, LoginCount
<1>2. Cardinality(T \union {l}) <= Cardinality(T) + 1
  BY Zenon, <1>1, AtMostOneMore
<1>3. Cardinality(S) <= Cardinality(T \union {l}) /\ Cardinality(S) \in Nat
      /\ Cardinality(T \union {l}) \in Nat
  BY Zenon, <1>1, LoginCount
<1> QED
  BY <1>1, <1>2, <1>3

\* What was evaluated in a span is counted.
LEMMA WrongCount ==
    ASSUME WrongType, NEW t
    PROVE  IsFiniteSet(WrongSince(t)) /\ Cardinality(WrongSince(t)) \in Nat
<1>1. IsFiniteSet(wrong) /\ WrongSince(t) \subseteq wrong
  BY Zenon DEF WrongType, WrongSince
<1> QED
  BY Zenon, <1>1, FS_Subset, FS_CardinalityType

\* Nothing was evaluated for a login that begins later.
LEMMA NothingLater ==
    ASSUME WrongType, NEW t \in Int, t > login_clock, login_clock \in Nat
    PROVE  Cardinality(WrongSince(t)) = 0
<1>1. WrongSince(t) = {}
  BY DEF WrongType, WrongSince
<1> QED
  BY Zenon, <1>1, FS_EmptySet

\* The settings are numbers.
LEMMA LoginSettings ==
    /\ max_failures \in Nat /\ max_failures >= 1 /\ window \in Nat /\ lockout \in Nat
    /\ MaxLoginAge \in Nat /\ Span \in Int /\ Cardinality(Login) \in Nat
    /\ Span <= window - 2 * MaxLoginAge /\ Span <= lockout - 2 * MaxLoginAge
<1>1. Cardinality(Login) \in Nat
  BY Zenon, LoginAssumption, FS_CardinalityType DEF LoginAssumption
<1> QED
  BY <1>1, LoginAssumption DEF LoginAssumption, Span

\* A row is a record of numbers.
LEMMA ThrottleFields ==
    ASSUME LoginType, throttle # NoRow
    PROVE  /\ throttle.failure_count \in Nat /\ throttle.window_started_at \in Nat
           /\ throttle.locked_until \in Nat /\ throttle.updated_at \in Nat
BY Zenon DEF LoginType, ThrottleRow

\* Spans that reach the logins of a later time reach those of an earlier one.
LEMMA LaterSpans ==
    ASSUME NEW a \in Nat, NEW b \in Nat, b >= a
    PROVE  \A t \in Int : t > b - MaxLoginAge - Span => t > a - MaxLoginAge - Span
<1>1. MaxLoginAge \in Int /\ Span \in Int
  BY SMTT(30), LoginSettings
<1> HIDE DEF Span
<1> QED
  BY <1>1

\* A step that leaves the row and what was evaluated alone, and lets no login
\* begin under a lock.
LEMMA QuietLogin ==
    ASSUME LoginInv, LoginType', wrong' = wrong, throttle' = throttle,
           login_clock' \in {login_clock, login_clock + 1},
           \A t \in Int : Pending(t)' = Pending(t),
           throttle = NoRow => \A t \in Int : Unfound(t)' = Unfound(t),
           throttle # NoRow /\ throttle.failure_count >= max_failures =>
              /\ Early(throttle.locked_until)' \subseteq Early(throttle.locked_until)
              /\ \A l \in Login : login'[l].at # "idle" =>
                    login'[l] = login[l] \/ login'[l].now >= throttle.locked_until
                    \/ (login'[l].now = login[l].now /\ login[l].at # "idle")
    PROVE  LoginInv'
<1>1. login_clock \in Nat /\ login_clock' >= login_clock /\ login_clock' \in Nat
  BY SMTT(30) DEF LoginInv, LoginType
<1>2. \A t : WrongSince(t)' = WrongSince(t) /\ WrongAt(t)' = WrongAt(t)
  BY Zenon DEF WrongSince, WrongAt
<1>3. WrongType'
  BY SMTT(30), <1>1, <1>2 DEF LoginInv, WrongType
<1>4. WithinBudget'
  BY Zenon, <1>2 DEF LoginInv, WithinBudget
<1>5. \A t \in Int : t > login_clock' - MaxLoginAge - Span =>
                     t > login_clock - MaxLoginAge - Span
  BY Zenon, <1>1, LaterSpans
<1>6. ASSUME throttle = NoRow PROVE NoRowInv'
  BY Zenon, <1>2, <1>5, <1>6 DEF LoginInv, NoRowInv
<1>7. ASSUME throttle # NoRow PROVE RowInv'
  BY Zenon, <1>2, <1>5, <1>7 DEF LoginInv, RowInv
<1>8. ASSUME throttle # NoRow PROVE LockInv'
  <2> DEFINE c == throttle.failure_count
             until == throttle.locked_until
  <2>1. /\ c < max_failures => until = 0
        /\ c >= max_failures =>
              /\ until = throttle.updated_at + lockout
              /\ c + Cardinality(Early(until)) <= max_failures + Cardinality(Login) - 1
              /\ \A l \in Login : login[l].at # "idle" =>
                    login[l].now <= throttle.updated_at + MaxLoginAge \/ login[l].now >= until
    BY ZenonT(60), <1>8 DEF LoginInv, LockInv
  <2>2. ASSUME c >= max_failures
        PROVE  c + Cardinality(Early(until)') <= max_failures + Cardinality(Login) - 1
    <3>1. Early(until) \in SUBSET Login
      BY Zenon DEF Early
    <3>2. Early(until)' \in SUBSET Early(until)
      BY Zenon, <1>8, <2>2
    <3>3. /\ Cardinality(Early(until)') \in Nat /\ Cardinality(Early(until)) \in Nat
          /\ Cardinality(Early(until)') <= Cardinality(Early(until))
      BY Zenon, <3>1, <3>2, LoginCount
    <3>4. c \in Nat
      BY Zenon, <1>8, ThrottleFields DEF LoginInv
    <3> QED
      BY SMTT(30), <2>1, <2>2, <3>3, <3>4, LoginSettings
  <2>3. ASSUME c >= max_failures, NEW l \in Login, login'[l].at # "idle"
        PROVE  login'[l].now <= throttle.updated_at + MaxLoginAge \/ login'[l].now >= until
    BY Zenon, <1>8, <2>1, <2>3
  <2> QED
    BY Zenon, <2>1, <2>2, <2>3 DEF LockInv
<1> QED
  BY Zenon, <1>3, <1>4, <1>6, <1>7, <1>8 DEF LoginInv

\* One more in a set whose members of one time are numbered.
LEMMA NumberedAdd ==
    ASSUME NEW S \in SUBSET [began : Nat, number : Nat], IsFiniteSet(S),
           \A w \in S : w.number <= Cardinality({v \in S : v.began = w.began}),
           NEW now \in Nat, NEW b,
           b = [began |-> now, number |-> Cardinality({v \in S : v.began = now}) + 1],
           NEW T, T = S \union {b}
    PROVE  /\ IsFiniteSet(T) /\ T \in SUBSET [began : Nat, number : Nat] /\ b.began = now
           /\ \A w \in T : w.number <= Cardinality({v \in T : v.began = w.began})
<1> DEFINE mine == {v \in S : v.began = now}
           n == Cardinality(mine)
<1>1. mine \subseteq S /\ IsFiniteSet(mine) /\ n \in Nat
  BY Zenon, FS_Subset, FS_CardinalityType
<1>2. b.began = now /\ b.number = n + 1 /\ b \in [began : Nat, number : Nat]
  BY <1>1
<1>3. \A w \in mine : w.number <= n /\ w.number \in Nat
  BY Zenon
<1>4. b \notin mine
  <2> HIDE DEF n, mine
  <2> QED
    BY <1>1, <1>2, <1>3
<1>5. {v \in T : v.began = now} = mine \union {b}
  BY Zenon, <1>2
<1>6. Cardinality(mine \union {b}) = n + 1 /\ IsFiniteSet(T)
  BY Zenon, <1>1, <1>4, FS_AddElement
<1>7. ASSUME NEW w \in T PROVE w.number <= Cardinality({v \in T : v.began = w.began})
  <2>1. CASE w.began = now
    <3>1. Cardinality({v \in T : v.began = w.began}) = n + 1
      BY Zenon, <1>5, <1>6, <2>1
    <3>2. w = b \/ w \in mine
      BY Zenon, <2>1
    <3>3. w.number <= n + 1
      <4> HIDE DEF n, mine
      <4> QED
        BY <1>1, <1>2, <1>3, <3>2
    <3> QED
      BY Zenon, <3>1, <3>3
  <2>2. CASE w.began # now
    <3>1. {v \in T : v.began = w.began} = {v \in S : v.began = w.began} /\ w \in S
      BY Zenon, <1>2, <2>2
    <3> QED
      BY Zenon, <3>1
  <2> QED
    BY Zenon, <2>1, <2>2
<1>8. T \in SUBSET [began : Nat, number : Nat]
  BY Zenon, <1>2
<1> QED
  BY Zenon, <1>2, <1>6, <1>7, <1>8

\* One more evaluation, which is pending.
LEMMA EvaluateAdds ==
    ASSUME LoginType, WrongType, NEW l \in Login, EvaluateWrong(l),
           NEW now, now = login[l].now
    PROVE  /\ WrongType'
           /\ \A t \in Int :
                 LET within == t <= now /\ now < t + Span
                 IN  /\ ~within => WrongSince(t)' = WrongSince(t) /\ Pending(t)' = Pending(t)
                                   /\ Unfound(t)' = Unfound(t)
                     /\ within => /\ Cardinality(WrongSince(t)') <= Cardinality(WrongSince(t)) + 1
                                  /\ Cardinality(Pending(t)') = Cardinality(Pending(t)) + 1
                                  /\ Cardinality(Unfound(t)') = Cardinality(Unfound(t)) + 1
<1>1. PICK b : /\ b = [began |-> now, number |-> Cardinality({v \in wrong : v.began = now}) + 1]
               /\ wrong' = wrong \union {b}
  BY Zenon DEF EvaluateWrong, WrongAt
<1>2. /\ login_clock' = login_clock /\ login_clock \in Nat
      /\ login[l].at = "allowed" /\ now \in Nat /\ now <= login_clock
      /\ login'[l].at = "wrong" /\ login'[l].now = now
      /\ \A k \in Login \ {l} : login'[k] = login[k]
  BY Zenon DEF EvaluateWrong, LoginType
<1>3. /\ IsFiniteSet(wrong') /\ wrong' \in SUBSET [began : Nat, number : Nat] /\ b.began = now
      /\ \A w \in wrong' : w.number <= Cardinality({v \in wrong' : v.began = w.began})
  <2>1. /\ IsFiniteSet(wrong) /\ wrong \in SUBSET [began : Nat, number : Nat]
        /\ \A w \in wrong : w.number <= Cardinality({v \in wrong : v.began = w.began})
    BY Zenon DEF WrongType, WrongAt
  <2> QED
    BY SMTT(30), <1>1, <1>2, <2>1, NumberedAdd
<1>4. WrongType'
  <2>1. \A w \in wrong' : w.began <= login_clock'
    BY ZenonT(60), <1>1, <1>2, <1>3 DEF WrongType
  <2> QED
    BY Zenon, <1>3, <2>1 DEF WrongType, WrongAt
<1>5. ASSUME NEW t \in Int, ~(t <= now /\ now < t + Span)
      PROVE  WrongSince(t)' = WrongSince(t) /\ Pending(t)' = Pending(t)
             /\ Unfound(t)' = Unfound(t)
  <2>1. WrongSince(t)' = WrongSince(t)
    BY ZenonT(60), <1>1, <1>3, <1>5 DEF WrongSince
  <2>2. Pending(t)' = Pending(t) /\ l \notin Pending(t)
    BY Zenon, <1>2, <1>5 DEF Pending
  <2>3. Unfound(t)' = Unfound(t)
    BY Zenon, <1>2, <2>2 DEF Unfound, Pending
  <2> QED
    BY Zenon, <2>1, <2>2, <2>3
<1>6. ASSUME NEW t \in Int, t <= now /\ now < t + Span
      PROVE  /\ Cardinality(WrongSince(t)') <= Cardinality(WrongSince(t)) + 1
             /\ Cardinality(Pending(t)') = Cardinality(Pending(t)) + 1
             /\ Cardinality(Unfound(t)') = Cardinality(Unfound(t)) + 1
  <2>1. WrongSince(t)' = WrongSince(t) \union {b}
    BY Zenon, <1>1, <1>3, <1>6 DEF WrongSince
  <2>2. Pending(t)' = Pending(t) \union {l} /\ l \notin Pending(t)
    BY Zenon, <1>2, <1>6 DEF Pending
  <2>3. Unfound(t)' = Unfound(t) \union {l} /\ l \notin Unfound(t)
    BY Zenon, <1>2, <2>2 DEF Unfound, Pending
  <2>4. IsFiniteSet(Pending(t)) /\ IsFiniteSet(Unfound(t))
    <3>1. Pending(t) \in SUBSET Login /\ Unfound(t) \in SUBSET Login
      BY Zenon DEF Pending, Unfound
    <3> QED
      BY Zenon, <3>1, LoginCount
  <2>5. IsFiniteSet(WrongSince(t)) /\ Cardinality(WrongSince(t)) \in Nat
    BY Zenon, WrongCount
  <2>6. Cardinality(WrongSince(t) \union {b}) <= Cardinality(WrongSince(t)) + 1
    BY Zenon, <2>5, AtMostOneMore
  <2>7. /\ Cardinality(Pending(t) \union {l}) = Cardinality(Pending(t)) + 1
        /\ Cardinality(Unfound(t) \union {l}) = Cardinality(Unfound(t)) + 1
    BY Zenon, <2>2, <2>3, <2>4, FS_AddElement
  <2> QED
    BY Zenon, <2>1, <2>2, <2>3, <2>6, <2>7
<1> QED
  BY Zenon, <1>4, <1>5, <1>6

\* No more is pending than there are logins, and the row's count, if locked,
\* leaves room for those that are.
LEMMA CountAndPending ==
    ASSUME LoginType, throttle # NoRow, LockInv, RowInv, NEW t \in Int
    PROVE  \/ throttle.failure_count + Cardinality(Pending(t))
                 <= max_failures + Cardinality(Login) - 1
           \/ Cardinality(WrongSince(t)) <= Cardinality(Pending(t))
<1> DEFINE c == throttle.failure_count
           until == throttle.locked_until
           u == throttle.updated_at
<1>1. Pending(t) \in SUBSET Login /\ c \in Nat /\ until \in Nat /\ u \in Nat
  BY Zenon, ThrottleFields DEF Pending
<1>2. /\ Cardinality(Pending(t)) \in Nat /\ Cardinality(Pending(t)) <= Cardinality(Login)
      /\ Cardinality(Login) \in Nat
  BY Zenon, <1>1, LoginCount
<1>3. CASE c < max_failures
  BY <1>1, <1>2, <1>3, LoginSettings
<1>4. CASE c >= max_failures /\ Pending(t) \subseteq Early(until)
  <2>1. Early(until) \in SUBSET Login
    BY Zenon DEF Early
  <2>2. Cardinality(Pending(t)) <= Cardinality(Early(until)) /\ Cardinality(Early(until)) \in Nat
    BY Zenon, <1>4, <2>1, LoginCount
  <2>3. c + Cardinality(Early(until)) <= max_failures + Cardinality(Login) - 1
    BY Zenon, <1>4 DEF LockInv
  <2> QED
    BY <1>1, <1>2, <2>2, <2>3, LoginSettings
<1>5. CASE c >= max_failures /\ ~(Pending(t) \subseteq Early(until))
  <2>1. PICK l \in Pending(t) : l \notin Early(until)
    BY Zenon, <1>5
  <2>2. login[l].now \in Nat /\ login[l].now >= until /\ login[l].now < t + Span
    BY <1>1, <2>1 DEF Pending, Early, LoginType
  <2>3. until = u + lockout
    BY Zenon, <1>5 DEF LockInv
  <2>4. t > u + MaxLoginAge
    BY SMTT(30), <1>1, <2>2, <2>3, LoginSettings
  <2> QED
    BY Zenon, <2>4 DEF RowInv
<1> QED
  BY <1>1, <1>3, <1>4, <1>5, LoginSettings

\* Wrong credentials are evaluated within the budget.
LEMMA EvaluateStep ==
    ASSUME LoginInv, LoginType', NEW l \in Login, EvaluateWrong(l)
    PROVE  LoginInv'
<1>1. PICK now : now = login[l].now
  BY Zenon
<1>2. /\ throttle' = throttle /\ login_clock' = login_clock /\ login_clock \in Nat
      /\ login[l].at = "allowed" /\ now \in Nat /\ login_clock <= now + MaxLoginAge
      /\ login'[l].at = "wrong" /\ login'[l].now = now
      /\ \A k \in Login \ {l} : login'[k] = login[k]
  BY Zenon, <1>1 DEF EvaluateWrong, LoginInv, LoginType
<1>3. /\ WrongType'
      /\ \A t \in Int :
            /\ ~(t <= now /\ now < t + Span) =>
                  WrongSince(t)' = WrongSince(t) /\ Pending(t)' = Pending(t)
                  /\ Unfound(t)' = Unfound(t)
            /\ (t <= now /\ now < t + Span) =>
                  /\ Cardinality(WrongSince(t)') <= Cardinality(WrongSince(t)) + 1
                  /\ Cardinality(Pending(t)') = Cardinality(Pending(t)) + 1
                  /\ Cardinality(Unfound(t)') = Cardinality(Unfound(t)) + 1
  BY Zenon, <1>1, EvaluateAdds DEF LoginInv
<1>4. ASSUME NEW t \in Int
      PROVE  /\ Cardinality(WrongSince(t)) \in Nat /\ Cardinality(WrongSince(t)') \in Nat
             /\ Cardinality(Pending(t)) \in Nat /\ Cardinality(Pending(t)') \in Nat
             /\ Cardinality(Unfound(t)) \in Nat /\ Cardinality(Unfound(t)') \in Nat
             /\ Cardinality(Unfound(t)') <= Cardinality(Login)
  <2>1. /\ Pending(t) \in SUBSET Login /\ Pending(t)' \in SUBSET Login
        /\ Unfound(t) \in SUBSET Login /\ Unfound(t)' \in SUBSET Login
    BY Zenon DEF Pending, Unfound
  <2>2. Cardinality(WrongSince(t)) \in Nat
    BY Zenon, WrongCount DEF LoginInv
  <2>3. Cardinality(WrongSince(t)') \in Nat
    <3>1. IsFiniteSet(wrong') /\ WrongSince(t)' \subseteq wrong'
      BY Zenon, <1>3 DEF WrongType, WrongSince
    <3> QED
      BY Zenon, <3>1, FS_Subset, FS_CardinalityType
  <2> QED
    BY Zenon, <2>1, <2>2, <2>3, LoginCount
<1>5. ASSUME NEW t \in Int
      PROVE  \/ /\ Cardinality(WrongSince(t)') = Cardinality(WrongSince(t))
                /\ Cardinality(Pending(t)') = Cardinality(Pending(t))
                /\ Cardinality(Unfound(t)') = Cardinality(Unfound(t))
             \/ /\ t > login_clock - MaxLoginAge - Span
                /\ Cardinality(WrongSince(t)') <= Cardinality(WrongSince(t)) + 1
                /\ Cardinality(Pending(t)') = Cardinality(Pending(t)) + 1
                /\ Cardinality(Unfound(t)') = Cardinality(Unfound(t)) + 1
  <2>1. CASE ~(t <= now /\ now < t + Span)
    BY Zenon, <1>3, <2>1
  <2>2. CASE t <= now /\ now < t + Span
    <3>1. t > login_clock - MaxLoginAge - Span
      BY SMTT(30), <1>2, <2>2, LoginSettings
    <3> QED
      BY Zenon, <1>3, <2>2, <3>1
  <2> QED
    BY Zenon, <2>1, <2>2
<1>6. ASSUME throttle = NoRow PROVE NoRowInv' /\ WithinBudget'
  <2>1. ASSUME NEW t \in Int, t > login_clock - MaxLoginAge - Span
        PROVE  Cardinality(WrongSince(t)') <= Cardinality(Unfound(t)') + Cardinality(Login)
    <3>1. Cardinality(WrongSince(t)) <= Cardinality(Unfound(t)) + Cardinality(Login)
      BY Zenon, <1>6, <2>1 DEF LoginInv, NoRowInv
    <3> QED
      BY SMTT(30), <1>4, <1>5, <3>1, LoginSettings
  <2>2. ASSUME NEW t \in Int
        PROVE  Cardinality(WrongSince(t)') <= 2 * (max_failures + Cardinality(Login))
    <3>1. CASE t > login_clock - MaxLoginAge - Span
      BY <1>4, <2>1, <3>1, LoginSettings
    <3>2. CASE ~(t > login_clock - MaxLoginAge - Span)
      BY Zenon, <1>5, <3>2 DEF LoginInv, WithinBudget
    <3> QED
      BY Zenon, <3>1, <3>2
  <2> QED
    BY Zenon, <1>2, <2>1, <2>2 DEF NoRowInv, WithinBudget
<1>7. ASSUME throttle # NoRow PROVE LockInv' /\ RowInv' /\ WithinBudget'
  <2> DEFINE c == throttle.failure_count
  <2>1. /\ c \in Nat /\ throttle.window_started_at \in Nat
        /\ throttle.locked_until \in Nat /\ throttle.updated_at \in Nat
        /\ LockInv /\ RowInv
    BY Zenon, <1>7, ThrottleFields DEF LoginInv
  <2>2. LockInv'
    <3>1. Early(throttle.locked_until)' = Early(throttle.locked_until)
      BY Zenon, <1>1, <1>2 DEF Early, LoginInv, LoginType
    <3>2. \A k \in Login : login'[k].now = login[k].now
                           /\ (login'[k].at # "idle" => login[k].at # "idle")
      BY Zenon, <1>1, <1>2
    <3> QED
      BY Zenon, <1>2, <2>1, <3>1, <3>2 DEF LockInv
  <2>3. RowInv'
    <3>1. ASSUME NEW t \in Int, NEW b \in Nat,
                 Cardinality(WrongSince(t)) <= b + Cardinality(Pending(t))
          PROVE  Cardinality(WrongSince(t)') <= b + Cardinality(Pending(t)')
      BY SMTT(30), <1>4, <1>5, <3>1
    <3>2. \A t \in Int : t > throttle.window_started_at + MaxLoginAge =>
              Cardinality(WrongSince(t)') <= c + Cardinality(Pending(t)')
      BY Zenon, <2>1, <3>1 DEF RowInv
    <3>3. \A t \in Int : t > login_clock - MaxLoginAge - Span =>
              Cardinality(WrongSince(t)') <=
                 max_failures + Cardinality(Login) - 1 + c + Cardinality(Pending(t)')
      <4>1. max_failures + Cardinality(Login) - 1 + c \in Nat
        BY <2>1, LoginSettings
      <4> QED
        BY Zenon, <2>1, <3>1, <4>1 DEF RowInv
    <3>4. \A t \in Int : t > throttle.updated_at + MaxLoginAge =>
              Cardinality(WrongSince(t)') <= Cardinality(Pending(t)')
      <4> SUFFICES ASSUME NEW t \in Int, t > throttle.updated_at + MaxLoginAge
                   PROVE  Cardinality(WrongSince(t)') <= Cardinality(Pending(t)')
        BY Zenon
      <4>1. Cardinality(WrongSince(t)) <= 0 + Cardinality(Pending(t))
        BY SMTT(30), <1>4, <2>1 DEF RowInv
      <4> QED
        BY <1>4, <3>1, <4>1
    <3> QED
      BY Zenon, <1>2, <3>2, <3>3, <3>4 DEF RowInv
  <2>4. ASSUME NEW t \in Int
        PROVE  Cardinality(WrongSince(t)') <= 2 * (max_failures + Cardinality(Login))
    <3>1. CASE ~(t > login_clock - MaxLoginAge - Span)
      BY Zenon, <1>5, <3>1 DEF LoginInv, WithinBudget
    <3>2. CASE t > login_clock - MaxLoginAge - Span
      <4>1. \/ c + Cardinality(Pending(t)) <= max_failures + Cardinality(Login) - 1
            \/ Cardinality(WrongSince(t)) <= Cardinality(Pending(t))
        BY Zenon, <1>7, <2>1, CountAndPending DEF LoginInv
      <4>2. Cardinality(WrongSince(t)) <=
               max_failures + Cardinality(Login) - 1 + c + Cardinality(Pending(t))
        BY Zenon, <2>1, <3>2 DEF RowInv
      <4>3. Cardinality(Pending(t)) <= Cardinality(Login)
        BY Zenon, LoginCount DEF Pending
      <4>4. Cardinality(WrongSince(t)') <= Cardinality(WrongSince(t)) + 1
        BY <1>4, <1>5
      <4>5. /\ Cardinality(WrongSince(t)) \in Nat /\ Cardinality(WrongSince(t)') \in Nat
            /\ Cardinality(Pending(t)) \in Nat
        BY Zenon, <1>4
      <4>6. Cardinality(WrongSince(t)) <= 2 * max_failures + 2 * Cardinality(Login) - 1
        BY <2>1, <4>1, <4>2, <4>3, <4>5, LoginSettings
      <4> QED
        BY SMTT(30), <4>4, <4>5, <4>6, LoginSettings
    <3> QED
      BY Zenon, <3>1, <3>2
  <2> QED
    BY Zenon, <2>2, <2>3, <2>4 DEF WithinBudget
<1> QED
  BY Zenon, <1>2, <1>3, <1>6, <1>7 DEF LoginInv

\* The row r after a failure that row was there for: a fresh window when its
\* window or its lock has passed, or one failure more.
Freshly(row, now) == \/ row.window_started_at + window <= now
                     \/ row.locked_until # 0 /\ row.locked_until <= now
WindowBegun(now, r) ==
    /\ r.failure_count = 1 /\ r.window_started_at = now
    /\ r.locked_until = IF 1 >= max_failures THEN now + lockout ELSE 0
WindowGoesOn(row, now, r) ==
    /\ r.failure_count = row.failure_count + 1
    /\ r.window_started_at = row.window_started_at
    /\ r.locked_until = IF row.failure_count + 1 >= max_failures
                        THEN now + lockout ELSE row.locked_until

\* The row after a failure.
LEMMA CountedRow ==
    ASSUME NEW row \in ThrottleRow, NEW now \in Nat
    PROVE  /\ Counted(row, now) \in ThrottleRow /\ Counted(row, now).updated_at = now
           /\ Freshly(row, now) => WindowBegun(now, Counted(row, now))
           /\ ~Freshly(row, now) => WindowGoesOn(row, now, Counted(row, now))
BY LoginSettings DEF Counted, OneMore, ThrottleRow, Freshly, WindowBegun, WindowGoesOn

\* Every step keeps the types.
LEMMA LoginTyping ==
    ASSUME LoginType, [LoginNext]_login_vars
    PROVE  LoginType'
<1>1. CASE UNCHANGED login_vars
  BY Zenon, <1>1 DEF LoginType, login_vars
<1>2. CASE PurgeThrottle
  BY Zenon, <1>2 DEF LoginType, PurgeThrottle
<1>3. CASE LoginTick
  BY <1>3, LoginSettings DEF LoginType, LoginTick
<1>4. ASSUME NEW l \in Login,
             check_login_allowed(l) \/ EvaluateWrong(l) \/ FindRow(l) \/ RefuseInactive(l)
      PROVE  LoginType'
  BY SMTT(30), <1>4, LoginSettings DEF LoginType, check_login_allowed, EvaluateWrong, FindRow,
     RefuseInactive, EndLogin, NoLogin
<1>5. ASSUME NEW l \in Login, RecordSuccess(l)
      PROVE  LoginType'
  BY Zenon, <1>5 DEF LoginType, RecordSuccess, EndLogin, NoLogin
<1>6. ASSUME NEW l \in Login, RecordFirstFailure(l) \/ RecordFailure(l)
      PROVE  LoginType'
  <2>1. login[l].now \in Nat /\ EmptyRow(login[l].now) \in ThrottleRow
    BY Zenon DEF LoginType, EmptyRow, ThrottleRow
  <2>2. throttle' \in ThrottleRow \union {NoRow}
    BY SMTT(30), <1>6, <2>1, CountedRow DEF RecordFirstFailure, RecordFailure, LoginType
  <2>3. login' \in [Login -> [at : {"idle", "allowed", "wrong", "found"}, now : Nat]]
        /\ login_clock' = login_clock /\ login'[l].at = "idle"
        /\ \A k \in Login \ {l} : login'[k] = login[k]
    BY SMTT(30), <1>6 DEF LoginType, RecordFirstFailure, RecordFailure, EndLogin, NoLogin
  <2> QED
    BY Zenon, <2>2, <2>3 DEF LoginType
<1> QED
  BY Zenon, <1>1, <1>2, <1>3, <1>4, <1>5, <1>6 DEF LoginNext

\* A login that ends after a wrong password: what changes.
LEMMA FailureEnds ==
    ASSUME LoginInv, LoginType', NEW l \in Login, login[l].at \in {"wrong", "found"}, EndLogin(l),
           login_clock' = login_clock, wrong' = wrong, NEW now, now = login[l].now
    PROVE  /\ now \in Nat /\ login_clock \in Nat
           /\ now <= login_clock /\ login_clock <= now + MaxLoginAge
           /\ WrongType' /\ WithinBudget'
           /\ \A k \in Login : login'[k].at # "idle" =>
                 k # l /\ login'[k] = login[k] /\ login[k].now \in Nat
                 /\ login[k].now <= now + MaxLoginAge /\ login[k].now <= login_clock
           /\ \A t \in Int :
                 /\ WrongSince(t)' = WrongSince(t)
                 /\ t > now + MaxLoginAge => Cardinality(WrongSince(t)) = 0
                 /\ Cardinality(WrongSince(t)) \in Nat
                 /\ Cardinality(Pending(t)) \in Nat /\ Cardinality(Pending(t)') \in Nat
                 /\ Cardinality(Unfound(t)) \in Nat
                 /\ Cardinality(Pending(t)) <= Cardinality(Pending(t)') + 1
                 /\ Cardinality(Unfound(t)) <= Cardinality(Pending(t)') + 1
<1>1. /\ now \in Nat /\ login_clock \in Nat
      /\ now <= login_clock /\ login_clock <= now + MaxLoginAge
  BY Zenon DEF LoginInv, LoginType
<1>2. /\ login'[l].at = "idle" /\ \A k \in Login \ {l} : login'[k] = login[k]
  BY Zenon DEF LoginInv, LoginType, EndLogin, NoLogin
<1>3. WrongType' /\ WithinBudget' /\ \A t \in Int : WrongSince(t)' = WrongSince(t)
  BY Zenon DEF LoginInv, WrongType, WithinBudget, WrongSince, WrongAt
<1>4. \A k \in Login : login'[k].at # "idle" =>
         k # l /\ login'[k] = login[k] /\ login[k].now \in Nat
         /\ login[k].now <= now + MaxLoginAge /\ login[k].now <= login_clock
  BY SMTT(30), <1>1, <1>2, LoginSettings DEF LoginInv, LoginType
<1>5. ASSUME NEW t \in Int
      PROVE  /\ t > now + MaxLoginAge => Cardinality(WrongSince(t)) = 0
             /\ Cardinality(WrongSince(t)) \in Nat
             /\ Cardinality(Pending(t)) \in Nat /\ Cardinality(Pending(t)') \in Nat
             /\ Cardinality(Unfound(t)) \in Nat
             /\ Cardinality(Pending(t)) <= Cardinality(Pending(t)') + 1
             /\ Cardinality(Unfound(t)) <= Cardinality(Pending(t)') + 1
  <2>1. ASSUME t > now + MaxLoginAge PROVE Cardinality(WrongSince(t)) = 0
    <3>1. t > login_clock
      BY SMTT(30), <1>1, <2>1, LoginSettings
    <3> QED
      BY Zenon, <1>1, <3>1, NothingLater DEF LoginInv
  <2>2. Cardinality(WrongSince(t)) \in Nat
    BY Zenon, WrongCount DEF LoginInv
  <2>3. /\ Pending(t) \in SUBSET Login /\ Pending(t)' \in SUBSET Login
        /\ Unfound(t) \in SUBSET Pending(t)
    BY Zenon DEF Pending, Unfound
  <2>4. Pending(t) \in SUBSET (Pending(t)' \union {l})
    BY Zenon, <1>2 DEF Pending
  <2>5. Unfound(t) \in SUBSET (Pending(t)' \union {l})
    BY Zenon, <2>3, <2>4
  <2>6. /\ Cardinality(Pending(t)) <= Cardinality(Pending(t)') + 1
        /\ Cardinality(Unfound(t)) <= Cardinality(Pending(t)') + 1
    BY Zenon, <2>3, <2>4, <2>5, LoginOneMore
  <2>7. /\ Cardinality(Pending(t)) \in Nat /\ Cardinality(Pending(t)') \in Nat
        /\ Cardinality(Unfound(t)) \in Nat
    BY Zenon, <2>3, LoginCount
  <2> QED
    BY Zenon, <2>1, <2>2, <2>6, <2>7
<1> QED
  BY ZenonT(60), <1>1, <1>3, <1>4, <1>5

\* A row that begins a window.
LEMMA WindowBegins ==
    ASSUME LoginInv, LoginType', NEW l \in Login, login[l].at \in {"wrong", "found"}, EndLogin(l),
           login_clock' = login_clock, wrong' = wrong, NEW now, now = login[l].now,
           throttle' # NoRow, throttle'.updated_at = now, throttle'.failure_count = 1,
           throttle'.window_started_at = now,
           throttle'.locked_until = IF 1 >= max_failures THEN now + lockout ELSE 0,
           \A t \in Int : t > login_clock - MaxLoginAge - Span =>
              Cardinality(WrongSince(t)) <= max_failures + Cardinality(Login) + Cardinality(Pending(t)')
    PROVE  LoginInv'
<1>1. /\ now \in Nat /\ login_clock \in Nat
      /\ WrongType' /\ WithinBudget'
      /\ \A k \in Login : login'[k].at # "idle" =>
            k # l /\ login'[k] = login[k] /\ login[k].now <= now + MaxLoginAge
      /\ \A t \in Int :
            /\ WrongSince(t)' = WrongSince(t)
            /\ t > now + MaxLoginAge => Cardinality(WrongSince(t)) = 0
            /\ Cardinality(Pending(t)') \in Nat
  BY Zenon, FailureEnds
<1>2. LockInv'
  <2>1. CASE 1 < max_failures
    BY SMTT(30), <2>1, LoginSettings DEF LockInv
  <2>2. CASE 1 >= max_failures
    <3>1. max_failures = 1
      BY SMTT(30), <2>2, LoginSettings
    <3>2. Cardinality(Login \ {l}) = Cardinality(Login) - 1 /\ Login \ {l} \in SUBSET Login
      BY ZenonT(60), LoginAssumption, FS_RemoveElement DEF LoginAssumption
    <3>3. Early(throttle.locked_until)' \in SUBSET (Login \ {l})
      BY Zenon, <1>1 DEF Early
    <3>4. Cardinality(Early(throttle.locked_until)') <= Cardinality(Login) - 1
          /\ Cardinality(Early(throttle.locked_until)') \in Nat
      BY Zenon, <3>2, <3>3, LoginCount
    <3>5. \A k \in Login : login'[k].at # "idle" =>
             login'[k].now <= throttle'.updated_at + MaxLoginAge
      BY ZenonT(60), <1>1
    <3> QED
      BY SMTT(30), <3>1, <3>4, <3>5, LoginSettings DEF LockInv
  <2> QED
    BY SMTT(30), <2>1, <2>2, LoginSettings
<1>3. RowInv'
  <2>1. \A t \in Int : t > now + MaxLoginAge =>
           /\ Cardinality(WrongSince(t)') <= 1 + Cardinality(Pending(t)')
           /\ Cardinality(WrongSince(t)') <= Cardinality(Pending(t)')
    <3> SUFFICES ASSUME NEW t \in Int, t > now + MaxLoginAge
                 PROVE  /\ Cardinality(WrongSince(t)') <= 1 + Cardinality(Pending(t)')
                        /\ Cardinality(WrongSince(t)') <= Cardinality(Pending(t)')
      BY Zenon
    <3>1. Cardinality(WrongSince(t)') = 0 /\ Cardinality(Pending(t)') \in Nat
      BY Zenon, <1>1
    <3> QED
      BY SMTT(30), <3>1
  <2>2. \A t \in Int : t > login_clock - MaxLoginAge - Span =>
           Cardinality(WrongSince(t)') <=
              max_failures + Cardinality(Login) - 1 + 1 + Cardinality(Pending(t)')
    BY SMTT(30), <1>1, LoginSettings
  <2> QED
    BY Zenon, <2>1, <2>2 DEF RowInv
<1> QED
  BY ZenonT(60), <1>1, <1>2, <1>3 DEF LoginInv

\* The first failure begins a window: without a row, few were evaluated.
LEMMA RecordFirstStep ==
    ASSUME LoginInv, LoginType', NEW l \in Login, RecordFirstFailure(l)
    PROVE  LoginInv'
<1>1. PICK now : now = login[l].now
  BY Zenon
<1>2. /\ login[l].at \in {"wrong", "found"} /\ EndLogin(l) /\ throttle = NoRow
      /\ login_clock' = login_clock /\ wrong' = wrong
      /\ throttle' = Counted(EmptyRow(now), now)
  BY ZenonT(60), <1>1 DEF RecordFirstFailure
<1>3. /\ now \in Nat /\ login_clock \in Nat
      /\ \A t \in Int :
            /\ Cardinality(WrongSince(t)) \in Nat
            /\ Cardinality(Unfound(t)) \in Nat /\ Cardinality(Pending(t)') \in Nat
            /\ Cardinality(Unfound(t)) <= Cardinality(Pending(t)') + 1
  BY ZenonT(60), <1>1, <1>2, FailureEnds
<1>4. /\ EmptyRow(now) \in ThrottleRow /\ EmptyRow(now).window_started_at = now
      /\ EmptyRow(now).locked_until = 0 /\ EmptyRow(now).failure_count = 0
  BY Zenon, <1>3 DEF EmptyRow, ThrottleRow
<1>5. /\ throttle' \in ThrottleRow
      /\ throttle'.updated_at = now /\ throttle'.failure_count = 1
      /\ throttle'.window_started_at = now
      /\ throttle'.locked_until = IF 1 >= max_failures THEN now + lockout ELSE 0
  <2>1. window \in Nat /\ window >= 1
    BY SMTT(30), LoginAssumption DEF LoginAssumption
  <2>2. ~Freshly(EmptyRow(now), now)
    BY SMTT(30), <1>3, <1>4, <2>1 DEF Freshly
  <2>3. /\ throttle' \in ThrottleRow /\ throttle'.updated_at = now
        /\ WindowGoesOn(EmptyRow(now), now, throttle')
    BY ZenonT(60), <1>2, <1>3, <1>4, <2>2, CountedRow
  <2> QED
    BY <1>4, <2>3 DEF WindowGoesOn
<1>6. throttle' # NoRow
  BY Zenon, <1>5, LoginAssumption DEF LoginAssumption
<1>7. ASSUME NEW t \in Int, t > login_clock - MaxLoginAge - Span
      PROVE  Cardinality(WrongSince(t)) <=
                max_failures + Cardinality(Login) + Cardinality(Pending(t)')
  <2>1. Cardinality(WrongSince(t)) <= Cardinality(Unfound(t)) + Cardinality(Login)
    BY Zenon, <1>2, <1>7 DEF LoginInv, NoRowInv
  <2> QED
    BY SMTT(30), <1>3, <2>1, LoginSettings
<1> QED
  BY Zenon, <1>1, <1>2, <1>5, <1>6, <1>7, WindowBegins

\* A later failure goes on with the row's window or begins another one, after
\* the window or the lock of the row has passed.
LEMMA RecordFailureStep ==
    ASSUME LoginInv, LoginType', Span > 0, NEW l \in Login, RecordFailure(l)
    PROVE  LoginInv'
<1>1. PICK now : now = login[l].now
  BY Zenon
<1>2. /\ login[l].at = "found" /\ login[l].at \in {"wrong", "found"} /\ EndLogin(l)
      /\ login_clock' = login_clock /\ wrong' = wrong
      /\ throttle' = IF throttle = NoRow THEN NoRow ELSE Counted(throttle, now)
  BY ZenonT(60), <1>1 DEF RecordFailure
<1>3. /\ now \in Nat /\ login_clock \in Nat
      /\ now <= login_clock /\ login_clock <= now + MaxLoginAge
      /\ WrongType' /\ WithinBudget'
      /\ \A k \in Login : login'[k].at # "idle" =>
            k # l /\ login'[k] = login[k] /\ login[k].now \in Nat
            /\ login[k].now <= now + MaxLoginAge /\ login[k].now <= login_clock
      /\ \A t \in Int :
            /\ WrongSince(t)' = WrongSince(t)
            /\ t > now + MaxLoginAge => Cardinality(WrongSince(t)) = 0
            /\ Cardinality(WrongSince(t)) \in Nat
            /\ Cardinality(Pending(t)) \in Nat /\ Cardinality(Pending(t)') \in Nat
            /\ Cardinality(Pending(t)) <= Cardinality(Pending(t)') + 1
  BY ZenonT(60), <1>1, <1>2, FailureEnds
<1>4. CASE throttle = NoRow
  <2>1. \A t \in Int : Unfound(t)' = Unfound(t)
    BY Zenon, <1>2 DEF Unfound, Pending, EndLogin, NoLogin, LoginInv, LoginType
  <2> QED
    BY ZenonT(60), <1>2, <1>3, <1>4, <2>1 DEF LoginInv, NoRowInv
<1>5. CASE throttle # NoRow
  <2> DEFINE c == throttle.failure_count
             s == throttle.window_started_at
             until == throttle.locked_until
             u == throttle.updated_at
  <2>1. /\ throttle \in ThrottleRow /\ c \in Nat /\ s \in Nat /\ until \in Nat /\ u \in Nat
        /\ LockInv /\ RowInv
    BY Zenon, <1>5, ThrottleFields DEF LoginInv, LoginType
  <2>2. /\ throttle' \in ThrottleRow /\ throttle'.updated_at = now
        /\ Freshly(throttle, now) => WindowBegun(now, throttle')
        /\ ~Freshly(throttle, now) => WindowGoesOn(throttle, now, throttle')
    BY ZenonT(60), <1>2, <1>3, <1>5, <2>1, CountedRow
  <2>3. throttle' # NoRow
    BY Zenon, <2>2, LoginAssumption DEF LoginAssumption
  <2>4. CASE Freshly(throttle, now)
    <3>1. ASSUME NEW t \in Int, t > login_clock - MaxLoginAge - Span
          PROVE  Cardinality(WrongSince(t)) <=
                    max_failures + Cardinality(Login) + Cardinality(Pending(t)')
      <4>1. /\ Cardinality(WrongSince(t)) \in Nat
            /\ Cardinality(Pending(t)) \in Nat /\ Cardinality(Pending(t)') \in Nat
            /\ Cardinality(Pending(t)) <= Cardinality(Pending(t)') + 1
        BY Zenon, <1>3
      <4>2. CASE Cardinality(WrongSince(t)) <= Cardinality(Pending(t))
        BY SMTT(30), <4>1, <4>2, LoginSettings
      <4>3. CASE ~(Cardinality(WrongSince(t)) <= Cardinality(Pending(t)))
        <5>1. c + Cardinality(Pending(t)) <= max_failures + Cardinality(Login) - 1
          BY Zenon, <1>5, <2>1, <4>3, CountAndPending DEF LoginInv
        <5>2. ~(t > u + MaxLoginAge)
          BY Zenon, <2>1, <4>3 DEF RowInv
        <5>3. ~(until # 0 /\ until <= now)
          <6>1. SUFFICES ASSUME until # 0, until <= now PROVE t > u + MaxLoginAge
            BY Zenon, <5>2
          <6>2. until = u + lockout
            BY SMTT(30), <2>1, <6>1, LoginSettings DEF LockInv
          <6> QED
            BY SMTT(30), <1>3, <2>1, <3>1, <6>1, <6>2, LoginSettings
        <5>4. t > s + MaxLoginAge
          BY SMTT(30), <1>3, <2>1, <2>4, <3>1, <5>3, LoginSettings DEF Freshly
        <5>5. Cardinality(WrongSince(t)) <= c + Cardinality(Pending(t))
          BY Zenon, <2>1, <5>4 DEF RowInv
        <5> QED
          BY SMTT(30), <2>1, <4>1, <5>1, <5>5, LoginSettings
      <4> QED
        BY Zenon, <4>2, <4>3
    <3> QED
      BY Zenon, <1>1, <1>2, <2>2, <2>3, <2>4, <3>1, WindowBegins DEF WindowBegun
  <2>5. CASE ~Freshly(throttle, now)
    <3>0. /\ ~(until # 0 /\ until <= now)
          /\ throttle'.failure_count = c + 1
          /\ throttle'.window_started_at = s
          /\ throttle'.locked_until = IF c + 1 >= max_failures THEN now + lockout ELSE until
      BY Zenon, <2>2, <2>5 DEF Freshly, WindowGoesOn
    <3>1. LockInv'
      <4>1. CASE c + 1 < max_failures
        BY SMTT(30), <2>1, <3>0, <4>1, LoginSettings DEF LockInv
      <4>2. CASE c + 1 >= max_failures
        <5>1. throttle'.locked_until = now + lockout
          BY Zenon, <3>0, <4>2
        <5>2. \A k \in Login : login'[k].at # "idle" =>
                 login'[k].now <= throttle'.updated_at + MaxLoginAge
          BY ZenonT(60), <1>3, <2>2
        <5>3. c + 1 + Cardinality(Early(throttle.locked_until)') <=
                 max_failures + Cardinality(Login) - 1
          <6>1. CASE c < max_failures
            <7>1. Cardinality(Login \ {l}) = Cardinality(Login) - 1 /\ Login \ {l} \in SUBSET Login
              BY Zenon, LoginAssumption, FS_RemoveElement DEF LoginAssumption
            <7>2. Early(throttle.locked_until)' \in SUBSET (Login \ {l})
              BY Zenon, <1>3 DEF Early
            <7>3. Cardinality(Early(throttle.locked_until)') <= Cardinality(Login) - 1
                  /\ Cardinality(Early(throttle.locked_until)') \in Nat
              BY Zenon, <7>1, <7>2, LoginCount
            <7> QED
              BY SMTT(30), <2>1, <6>1, <7>3, LoginSettings
          <6>2. CASE c >= max_failures
            <7>1. /\ until = u + lockout
                  /\ c + Cardinality(Early(until)) <= max_failures + Cardinality(Login) - 1
                  /\ \A k \in Login : login[k].at # "idle" =>
                        login[k].now <= u + MaxLoginAge \/ login[k].now >= until
              BY Zenon, <2>1, <6>2 DEF LockInv
            <7>2. now < until /\ now <= u + MaxLoginAge
              <8>1. until # 0
                BY SMTT(30), <2>1, <7>1, LoginAssumption DEF LoginAssumption
              <8>2. now < until
                BY SMTT(30), <1>3, <2>1, <3>0, <8>1
              <8> QED
                BY SMTT(30), <1>1, <1>2, <1>3, <2>1, <7>1, <8>2
            <7>3. l \in Early(until)
              BY ZenonT(60), <1>1, <1>2, <7>2 DEF Early
            <7>4. Early(throttle.locked_until)' \in SUBSET (Early(until) \ {l})
              <8> SUFFICES ASSUME NEW k \in Early(throttle.locked_until)'
                           PROVE  k \in Early(until) /\ k # l
                BY Zenon
              <8>1. /\ k \in Login /\ k # l /\ login[k].at # "idle" /\ login[k].now \in Nat
                    /\ login[k].now <= login_clock
                BY Zenon, <1>3 DEF Early
              <8>2. login[k].now < u + lockout
                BY SMTT(30), <1>3, <2>1, <7>2, <8>1, LoginSettings
              <8> QED
                BY Zenon, <7>1, <8>1, <8>2 DEF Early
            <7>5. Early(until) \in SUBSET Login /\ Early(until) \ {l} \in SUBSET Login
              BY Zenon DEF Early
            <7>6. Cardinality(Early(until) \ {l}) = Cardinality(Early(until)) - 1
                  /\ Cardinality(Early(until)) \in Nat
              BY Zenon, <7>3, <7>5, LoginCount, FS_RemoveElement
            <7>7. Cardinality(Early(throttle.locked_until)') <= Cardinality(Early(until)) - 1
                  /\ Cardinality(Early(throttle.locked_until)') \in Nat
              BY Zenon, <7>4, <7>5, <7>6, LoginCount
            <7> QED
              BY SMTT(30), <2>1, <7>1, <7>6, <7>7, LoginSettings
          <6> QED
            BY SMTT(30), <2>1, <6>1, <6>2, LoginSettings
        <5> QED
          BY SMTT(30), <2>1, <2>2, <3>0, <4>2, <5>1, <5>2, <5>3, LoginSettings DEF LockInv
      <4> QED
        BY SMTT(30), <2>1, <4>1, <4>2, LoginSettings
    <3>2. ASSUME NEW t \in Int, NEW b \in Nat,
                 Cardinality(WrongSince(t)) <= b + c + Cardinality(Pending(t))
          PROVE  Cardinality(WrongSince(t)') <= b + (c + 1) + Cardinality(Pending(t)')
      <4>1. /\ Cardinality(WrongSince(t)') = Cardinality(WrongSince(t))
            /\ Cardinality(WrongSince(t)) \in Nat
            /\ Cardinality(Pending(t)) \in Nat /\ Cardinality(Pending(t)') \in Nat
            /\ Cardinality(Pending(t)) <= Cardinality(Pending(t)') + 1
        BY Zenon, <1>3
      <4> QED
        BY <2>1, <3>2, <4>1
    <3>3. RowInv'
      <4>1. ASSUME NEW t \in Int, t > s + MaxLoginAge
            PROVE  Cardinality(WrongSince(t)') <= c + 1 + Cardinality(Pending(t)')
        <5>1. Cardinality(WrongSince(t)) <= 0 + c + Cardinality(Pending(t))
          BY <2>1, <4>1 DEF RowInv
        <5>2. Cardinality(WrongSince(t)') <= 0 + (c + 1) + Cardinality(Pending(t)')
          BY Zenon, <3>2, <5>1
        <5> QED
          BY <2>1, <5>2
      <4>2. ASSUME NEW t \in Int, t > login_clock - MaxLoginAge - Span
            PROVE  Cardinality(WrongSince(t)') <=
                      max_failures + Cardinality(Login) - 1 + (c + 1) + Cardinality(Pending(t)')
        <5>1. max_failures + Cardinality(Login) - 1 \in Nat
          BY LoginSettings
        <5>2. Cardinality(WrongSince(t)) <=
                 max_failures + Cardinality(Login) - 1 + c + Cardinality(Pending(t))
          BY Zenon, <2>1, <4>2 DEF RowInv
        <5> QED
          BY Zenon, <3>2, <5>1, <5>2
      <4>3. ASSUME NEW t \in Int, t > now + MaxLoginAge
            PROVE  Cardinality(WrongSince(t)') <= Cardinality(Pending(t)')
        <5>1. Cardinality(WrongSince(t)') = 0 /\ Cardinality(Pending(t)') \in Nat
          BY Zenon, <1>3, <4>3
        <5> QED
          BY <5>1
      <4> QED
        BY Zenon, <1>2, <2>2, <3>0, <4>1, <4>2, <4>3 DEF RowInv
    <3> QED
      BY Zenon, <1>3, <2>3, <3>1, <3>3 DEF LoginInv
  <2> QED
    BY Zenon, <2>4, <2>5
<1> QED
  BY Zenon, <1>4, <1>5

\* A success forgets what was evaluated.
LEMMA RecordSuccessStep ==
    ASSUME LoginInv, LoginType', NEW l \in Login, RecordSuccess(l)
    PROVE  LoginInv'
<1>1. wrong' = {} /\ throttle' = NoRow
  BY Zenon DEF RecordSuccess
<1>2. \A t \in Int : WrongSince(t)' = {}
  BY Zenon, <1>1 DEF WrongSince
<1>3. \A t \in Int : Cardinality(WrongSince(t)') = 0
  BY Zenon, <1>2, FS_EmptySet
<1>4. \A t \in Int : Unfound(t)' \in SUBSET Login /\ Cardinality(Unfound(t)') \in Nat
  BY Zenon, LoginCount DEF Unfound, Pending
<1>5. WrongType'
  BY Zenon, <1>1, FS_EmptySet DEF WrongType
<1>6. NoRowInv' /\ WithinBudget'
  BY <1>3, <1>4, LoginSettings DEF NoRowInv, WithinBudget
<1> QED
  BY Zenon, <1>1, <1>5, <1>6 DEF LoginInv

\* A row is purged only when all that was evaluated lately is pending.
LEMMA PurgeThrottleStep ==
    ASSUME LoginInv, LoginType', PurgeThrottle
    PROVE  LoginInv'
<1>1. /\ throttle # NoRow /\ throttle' = NoRow /\ login' = login /\ wrong' = wrong
      /\ login_clock' = login_clock /\ throttle.updated_at + window <= login_clock
  BY Zenon DEF PurgeThrottle
<1>2. WrongType' /\ WithinBudget' /\ \A t \in Int : WrongSince(t)' = WrongSince(t)
  BY Zenon, <1>1 DEF LoginInv, WrongType, WithinBudget, WrongSince, WrongAt
<1>3. throttle.updated_at \in Nat /\ login_clock \in Nat /\ RowInv
  BY Zenon, <1>1, ThrottleFields DEF LoginInv, LoginType
<1>4. ASSUME NEW t \in Int, t > login_clock - MaxLoginAge - Span
      PROVE  Cardinality(WrongSince(t)') <= Cardinality(Unfound(t)') + Cardinality(Login)
  <2>1. t > throttle.updated_at + MaxLoginAge
    BY SMTT(30), <1>1, <1>3, <1>4, LoginSettings
  <2>2. Cardinality(WrongSince(t)) <= Cardinality(Pending(t))
    BY Zenon, <1>3, <2>1 DEF RowInv
  <2>3. Pending(t) \in SUBSET Login /\ Unfound(t)' \in SUBSET Login
    BY Zenon, <1>1 DEF Pending, Unfound
  <2>4. /\ Cardinality(Pending(t)) <= Cardinality(Login) /\ Cardinality(Pending(t)) \in Nat
        /\ Cardinality(Unfound(t)') \in Nat
    BY Zenon, <2>3, LoginCount
  <2>5. Cardinality(WrongSince(t)') = Cardinality(WrongSince(t))
        /\ Cardinality(WrongSince(t)) \in Nat
    BY Zenon, <1>2, WrongCount DEF LoginInv
  <2> QED
    BY <2>2, <2>4, <2>5, LoginSettings
<1> QED
  BY Zenon, <1>1, <1>2, <1>4 DEF LoginInv, NoRowInv

\* The steps that only read the row.
LEMMA QuietSteps ==
    ASSUME LoginInv, LoginType',
           \/ UNCHANGED login_vars \/ LoginTick
           \/ \E l \in Login : check_login_allowed(l) \/ FindRow(l) \/ RefuseInactive(l)
    PROVE  LoginInv'
<1>1. wrong' = wrong /\ throttle' = throttle /\ login_clock' \in {login_clock, login_clock + 1}
  BY Zenon DEF login_vars, LoginTick, check_login_allowed, FindRow, RefuseInactive
<1>2. CASE login' = login
  BY Zenon, <1>1, <1>2, QuietLogin DEF Pending, Unfound, Early
<1>3. ASSUME NEW l \in Login, check_login_allowed(l) PROVE LoginInv'
  <2>1. /\ login[l].at = "idle" /\ ~Locked(login_clock)
        /\ login'[l].at = "allowed" /\ login'[l].now = login_clock /\ login_clock \in Nat
        /\ \A k \in Login \ {l} : login'[k] = login[k]
    BY Zenon, <1>3 DEF check_login_allowed, LoginInv, LoginType
  <2>2. \A t \in Int : Pending(t)' = Pending(t) /\ Unfound(t)' = Unfound(t)
    BY ZenonT(60), <2>1 DEF Pending, Unfound
  <2>3. ASSUME throttle # NoRow
        PROVE  /\ login'[l].now >= throttle.locked_until
               /\ Early(throttle.locked_until)' \subseteq Early(throttle.locked_until)
    <3>1. login'[l].now >= throttle.locked_until /\ throttle.locked_until \in Nat
      BY SMTT(30), <2>1, <2>3, ThrottleFields DEF Locked, LoginInv
    <3> QED
      BY SMTT(30), <1>1, <2>1, <3>1 DEF Early
  <2> QED
    BY Zenon, <1>1, <2>1, <2>2, <2>3, QuietLogin
<1>4. ASSUME NEW l \in Login, FindRow(l) PROVE LoginInv'
  <2>1. /\ throttle # NoRow /\ login[l].at = "wrong" /\ login'[l].at = "found"
        /\ login'[l].now = login[l].now /\ \A k \in Login \ {l} : login'[k] = login[k]
    BY Zenon, <1>4 DEF FindRow, LoginInv, LoginType
  <2>2. \A t \in Int : Pending(t)' = Pending(t)
    BY ZenonT(60), <2>1 DEF Pending
  <2>3. Early(throttle.locked_until)' \subseteq Early(throttle.locked_until)
    BY ZenonT(60), <1>1, <2>1 DEF Early
  <2> QED
    BY Zenon, <1>1, <2>1, <2>2, <2>3, QuietLogin
<1>5. ASSUME NEW l \in Login, RefuseInactive(l) PROVE LoginInv'
  <2>1. /\ login[l].at = "allowed" /\ login'[l].at = "idle"
        /\ \A k \in Login \ {l} : login'[k] = login[k]
    BY Zenon, <1>5 DEF RefuseInactive, EndLogin, NoLogin, LoginInv, LoginType
  <2>2. \A t \in Int : Pending(t)' = Pending(t) /\ Unfound(t)' = Unfound(t)
    BY ZenonT(60), <2>1 DEF Pending, Unfound
  <2>3. Early(throttle.locked_until)' \subseteq Early(throttle.locked_until)
    BY ZenonT(60), <1>1, <2>1 DEF Early
  <2> QED
    BY ZenonT(60), <1>1, <2>1, <2>2, <2>3, QuietLogin
<1> QED
  BY Zenon, <1>2, <1>3, <1>4, <1>5 DEF login_vars, LoginTick

\* Every step keeps it.
LEMMA LoginStep ==
    ASSUME LoginInv, Span > 0, [LoginNext]_login_vars
    PROVE  LoginInv'
<1>1. LoginType'
  BY Zenon, LoginTyping DEF LoginInv
<1> QED
  BY Zenon, <1>1, QuietSteps, EvaluateStep, RecordFirstStep, RecordFailureStep, RecordSuccessStep,
     PurgeThrottleStep DEF LoginNext

\* What was evaluated is numbered, whatever the settings.
LEMMA WrongTyping ==
    ASSUME LoginType, WrongType, [LoginNext]_login_vars
    PROVE  WrongType'
<1>1. ASSUME NEW l \in Login, EvaluateWrong(l) PROVE WrongType'
  BY Zenon, <1>1, EvaluateAdds
<1>2. ASSUME NEW l \in Login, RecordSuccess(l) PROVE WrongType'
  <2>1. wrong' = {}
    BY Zenon, <1>2 DEF RecordSuccess
  <2> QED
    BY Zenon, <2>1, FS_EmptySet DEF WrongType
<1>3. CASE wrong' = wrong /\ login_clock' \in {login_clock, login_clock + 1}
  <2>1. \A w \in wrong : WrongAt(w.began)' = WrongAt(w.began)
    BY Zenon, <1>3 DEF WrongAt
  <2>2. login_clock \in Nat /\ login_clock' \in Nat /\ login_clock <= login_clock'
    BY <1>3 DEF LoginType
  <2>3. \A w \in wrong : w.began \in Nat /\ w.began <= login_clock'
    BY <2>2 DEF WrongType
  <2> QED
    BY Zenon, <1>3, <2>1, <2>3 DEF WrongType
<1> QED
  <2>1. CASE \E l \in Login : EvaluateWrong(l) \/ RecordSuccess(l)
    BY Zenon, <1>1, <1>2, <2>1
  <2>2. CASE ~ \E l \in Login : EvaluateWrong(l) \/ RecordSuccess(l)
    BY Zenon, <1>3, <2>2 DEF LoginNext, login_vars, PurgeThrottle, LoginTick, check_login_allowed,
       RecordFirstFailure, FindRow, RecordFailure, RefuseInactive
  <2> QED
    BY Zenon, <2>1, <2>2

\* It holds at first.
LEMMA LoginInitially ==
    ASSUME LoginInit
    PROVE  LoginInv
<1>1. LoginType
  BY Zenon, LoginSettings DEF LoginInit, LoginType, NoLogin
<1>2. WrongType
  BY Zenon, FS_EmptySet DEF LoginInit, WrongType
<1>3. \A t \in Int : Cardinality(WrongSince(t)) = 0
  <2>1. \A t \in Int : WrongSince(t) = {}
    BY Zenon DEF LoginInit, WrongSince
  <2> QED
    BY Zenon, <2>1, FS_EmptySet
<1>4. \A t \in Int : Cardinality(Unfound(t)) \in Nat
  BY Zenon, LoginCount DEF Unfound, Pending
<1> QED
  BY SMTT(30), <1>1, <1>2, <1>3, <1>4, LoginSettings DEF LoginInit, LoginInv, NoRowInv, WithinBudget

\* However many logins of an account overlap, and whatever the purge deletes
\* meanwhile, two windows bound the wrong credentials that are evaluated in
\* a span, for all settings of the throttle and all numbers of logins.
THEOREM LoginBudget == LoginSpec => []BudgetKept
<1>1. CASE Span > 0
  <2>1. LoginInv => BudgetKept
    <3>1. \A t \in LoginTime : t \in Int
      BY LoginAssumption DEF LoginTime, LoginAssumption
    <3> QED
      BY Zenon, <3>1 DEF LoginInv, WithinBudget, BudgetKept
  <2>2. LoginInv /\ [LoginNext]_login_vars => LoginInv'
    BY Zenon, <1>1, LoginStep
  <2>3. LoginInit => LoginInv
    BY Zenon, LoginInitially
  <2> QED
    BY <2>1, <2>2, <2>3, PTL DEF LoginSpec
<1>2. CASE ~(Span > 0)
  <2> DEFINE Types == LoginType /\ WrongType
  <2>1. Types => BudgetKept
    <3> SUFFICES ASSUME Types, NEW t \in LoginTime
                 PROVE  Cardinality(WrongSince(t)) <= 2 * (max_failures + Cardinality(Login))
      BY Zenon DEF BudgetKept
    <3>1. t \in Int
      BY LoginAssumption DEF LoginTime, LoginAssumption
    <3>2. WrongSince(t) = {}
      BY <1>2, <3>1, LoginSettings DEF WrongSince, WrongType
    <3>3. Cardinality(WrongSince(t)) = 0
      BY Zenon, <3>2, FS_EmptySet
    <3> QED
      BY <3>3, LoginSettings
  <2>2. Types /\ [LoginNext]_login_vars => Types'
    BY Zenon, LoginTyping, WrongTyping
  <2>3. LoginInit => Types
    BY Zenon, LoginInitially DEF LoginInv
  <2> QED
    BY <2>1, <2>2, <2>3, PTL DEF LoginSpec
<1> QED
  BY Zenon, <1>1, <1>2
=============================================================================
