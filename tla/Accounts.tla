------------------------------- MODULE Accounts -------------------------------
(* User accounts: registration, login with the upgrade of old password hashes,
   and what users do to their own account with an access token.

   A request is one transaction, or two for a login that upgrades a hash.  It
   reads the account's row without a lock, other requests run, and it writes
   the columns it changed.  An account is its id, which is never used again.
   A password is never changed; each account has its own, known by the id. *)
EXTENDS Naturals, FiniteSets

CONSTANTS
    Mailbox,        \* what the spellings of an address have in common
    AccountId,      \* bound: ids the table can hand out, 1 ..
    AccountCall,    \* requests that can be in progress together
    Anyone,         \* no account
    MaxRequests     \* bound: requests made

ASSUME AccountsAssumption ==
    /\ AccountId \subseteq Nat /\ Anyone \notin AccountId /\ IsFiniteSet(AccountId)
    /\ MaxRequests \in Nat

VARIABLES
    users,      \* the rows of users, by id
    last_user,  \* the last id taken
    request,    \* requests in progress
    token,      \* accounts an access token has been issued for
    requested   \* requests made
account_vars == <<users, last_user, request, token, requested>>

\* An address as it is written, and as it is stored and looked up.
Spelling == [box : Mailbox, letters : {"lower", "mixed"}]
normalize_email(s) == [s EXCEPT !.letters = "lower"]

NoRequest == [at |-> "idle", id |-> Anyone, email |-> Anyone, seen |-> Anyone]

\* The oldest account may have a hash from before bcrypt.
AccountsInit ==
    /\ \E s \in Spelling :
          users = [u \in {1} |-> [email |-> normalize_email(s), hash |-> "sha256",
                                  is_active |-> TRUE]]
    /\ last_user = 1 /\ token = {} /\ requested = 0
    /\ request = [c \in AccountCall |-> NoRequest]

get_by_email(s) == {u \in DOMAIN users : users[u].email = normalize_email(s)}

\* The unique constraint of users.email would let u have that address.
Unique(u, email) == \A v \in DOMAIN users \ {u} : users[v].email # email

\* get_current_active_user: the account of a token, if it may act.
MayAct(u) == u \in token /\ u \in DOMAIN users /\ users[u].is_active

\* Everything but bcrypt is replaced.
needs_rehash(hash) == hash # "bcrypt"
-----------------------------------------------------------------------------
Begin(c, r) ==
    /\ request[c].at = "idle" /\ requested < MaxRequests
    /\ request' = [request EXCEPT ![c] = r]
    /\ requested' = requested + 1

Finish(c) == request' = [request EXCEPT ![c] = NoRequest]

\* create up to its insertion: nobody has the address.
CheckAddress(c, s) ==
    /\ get_by_email(s) = {}
    /\ Begin(c, [at |-> "register", id |-> Anyone, email |-> normalize_email(s), seen |-> Anyone])
    /\ UNCHANGED <<users, last_user, token>>

\* The insertion takes an id, and fails if the address has been taken.
InsertUser(c) ==
    LET u == last_user + 1
    IN  /\ request[c].at = "register" /\ u \in AccountId
        /\ last_user' = u
        /\ users' = IF Unique(u, request[c].email)
                    THEN [v \in DOMAIN users \union {u} |->
                            IF v = u THEN [email |-> request[c].email, hash |-> "bcrypt",
                                           is_active |-> TRUE]
                            ELSE users[v]]
                    ELSE users
        /\ Finish(c)
        /\ UNCHANGED <<token, requested>>

\* authenticate: the account of the address, if the password is right.
Authenticate(c, s) ==
    \E u \in get_by_email(s) :
        /\ Begin(c, [at |-> IF needs_rehash(users[u].hash) THEN "rehash" ELSE "login",
                     id |-> u, email |-> Anyone, seen |-> users[u]])
        /\ UNCHANGED <<users, last_user, token>>

\* authenticate replaces an old hash, commits, and reads the row again.
Rehash(c) ==
    LET u == request[c].id
    IN  /\ request[c].at = "rehash" /\ u \in DOMAIN users
        /\ users' = [users EXCEPT ![u].hash = "bcrypt"]
        /\ request' = [request EXCEPT ![c].at = "login", ![c].seen = users'[u]]
        /\ UNCHANGED <<last_user, token, requested>>

\* login: a token for an account that was active when it was read.
IssueToken(c) ==
    /\ request[c].at = "login" /\ request[c].seen.is_active
    /\ token' = token \union {request[c].id}
    /\ Finish(c)
    /\ UNCHANGED <<users, last_user, requested>>
-----------------------------------------------------------------------------
\* The address update stores.  Variant: as it was written.
AsWritten(s) == s
UpdatedEmail(s) == normalize_email(s)

\* update, deactivate and delete read the account's row.
BeginOwn(c, u, at, s) ==
    /\ MayAct(u)
    /\ Begin(c, [at |-> at, id |-> u, seen |-> users[u],
                 email |-> IF at = "update" THEN UpdatedEmail(s) ELSE users[u].email])
    /\ UNCHANGED <<users, last_user, token>>

\* What update writes: the address if it differs from the one read.  Variant:
\* every column, as it was read.
WholeRow(c) == [request[c].seen EXCEPT !.email = request[c].email]
ChangedColumns(c) ==
    IF request[c].email = request[c].seen.email THEN users[request[c].id]
    ELSE [users[request[c].id] EXCEPT !.email = request[c].email]

UpdateUser(c) ==
    LET u == request[c].id
    IN  /\ request[c].at = "update" /\ u \in DOMAIN users
        /\ Unique(u, ChangedColumns(c).email)
        /\ users' = [users EXCEPT ![u] = ChangedColumns(c)]
        /\ Finish(c)
        /\ UNCHANGED <<last_user, token, requested>>

DeactivateAccount(c) ==
    LET u == request[c].id
    IN  /\ request[c].at = "deactivate" /\ u \in DOMAIN users
        /\ users' = [users EXCEPT ![u].is_active = FALSE]
        /\ Finish(c)
        /\ UNCHANGED <<last_user, token, requested>>

DeleteAccount(c) ==
    /\ request[c].at = "delete"
    /\ users' = [v \in DOMAIN users \ {request[c].id} |-> users[v]]
    /\ Finish(c)
    /\ UNCHANGED <<last_user, token, requested>>

\* A refusal, a failed constraint, a row that is gone, a lost connection.
AbortRequest(c) ==
    /\ request[c].at # "idle"
    /\ Finish(c)
    /\ UNCHANGED <<users, last_user, token, requested>>

\* An access token expires.
ExpireToken(u) ==
    /\ token' = token \ {u}
    /\ UNCHANGED <<users, last_user, request, requested>>

AccountsNext ==
    \/ \E u \in token : ExpireToken(u)
    \/ \E c \in AccountCall :
          \/ InsertUser(c) \/ Rehash(c) \/ IssueToken(c) \/ UpdateUser(c)
          \/ DeactivateAccount(c) \/ DeleteAccount(c) \/ AbortRequest(c)
          \/ \E s \in Spelling : CheckAddress(c, s) \/ Authenticate(c, s)
          \/ \E u \in token, s \in Spelling : BeginOwn(c, u, "update", s)
          \/ \E u \in token, at \in {"deactivate", "delete"} : BeginOwn(c, u, at, Anyone)

AccountsSpec == AccountsInit /\ [][AccountsNext]_account_vars
-----------------------------------------------------------------------------
\* An address leads to its account, however it is written: whatever requests
\* register and move to it at the same time, an account is the only one of
\* its mailbox, and login finds it under every spelling.
AddressFindsAccount ==
    \A u \in DOMAIN users, s \in Spelling :
        s.box = users[u].email.box => get_by_email(s) = {u}

\* A deactivated account stays so: no login or update that had read it as
\* active brings it back.
DeactivationHolds ==
    [][\A u \in DOMAIN users \intersect DOMAIN users' :
          ~users[u].is_active => ~users'[u].is_active]_account_vars
=============================================================================
