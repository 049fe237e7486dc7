---------------------------- MODULE LoginThrottle ----------------------------
(* The login throttle of one account: failed logins are counted in a row that
   all API processes share, and the count locks the account for a while.

   A login is one transaction from its check on: its time is that of the
   check, the credentials are evaluated next, and the failure is counted last,
   while other logins do the same.  A process that dies between evaluating
   and counting is left out: it loses that one failure. *)
EXTENDS Integers, FiniteSets

CONSTANTS
    Login,         \* requests that can be in progress together
    max_failures,  \* login_throttle_max_failures
    window,        \* login_throttle_window_seconds
    lockout,       \* login_throttle_lockout_seconds
    NoRow,
    MaxLoginAge,   \* bound: how long a login takes
    MaxLoginTime   \* bound: the clock

ThrottleRow ==
    [failure_count : Nat, window_started_at : Nat, locked_until : Nat, updated_at : Nat]

ASSUME LoginAssumption ==
    /\ NoRow \notin ThrottleRow
    /\ IsFiniteSet(Login) /\ max_failures \in Nat \ {0} /\ window \in Nat \ {0}
    /\ lockout \in Nat \ {0} /\ MaxLoginAge \in Nat /\ MaxLoginTime \in Nat

VARIABLES
    throttle,     \* the account's row of login_throttles
    login,        \* logins in progress
    login_clock,
    wrong         \* wrong credentials evaluated since the last success: when
                  \* their login began, and a number (history)
login_vars == <<throttle, login, login_clock, wrong>>

LoginTime == 0 .. MaxLoginTime
NoLogin == [at |-> "idle", now |-> 0]

LoginInit ==
    /\ throttle = NoRow /\ login_clock = 0 /\ wrong = {}
    /\ login = [l \in Login |-> NoLogin]

\* The row refuses a login of that time.  0 stands for no lock.
Locked(now) == throttle # NoRow /\ throttle.locked_until > now

EndLogin(l) == login' = [login EXCEPT ![l] = NoLogin]

\* check_login_allowed, read without a lock.
check_login_allowed(l) ==
    /\ login[l].at = "idle" /\ ~Locked(login_clock)
    /\ login' = [login EXCEPT ![l] = [at |-> "allowed", now |-> login_clock]]
    /\ UNCHANGED <<throttle, login_clock, wrong>>

WrongAt(t) == {w \in wrong : w.began = t}

\* The credentials are wrong.
EvaluateWrong(l) ==
    /\ login[l].at = "allowed"
    /\ login' = [login EXCEPT ![l].at = "wrong"]
    /\ wrong' = wrong \cup {[began |-> login[l].now,
                             number |-> Cardinality(WrongAt(login[l].now)) + 1]}
    /\ UNCHANGED <<throttle, login_clock>>

\* The row after one more failure, in the window it has or in a fresh one.
OneMore(row, now, fresh) ==
    LET count == IF fresh THEN 1 ELSE row.failure_count + 1
    IN  [failure_count |-> count,
         window_started_at |-> IF fresh THEN now ELSE row.window_started_at,
         locked_until |-> CASE count >= max_failures -> now + lockout
                            [] count < max_failures /\ fresh -> 0
                            [] OTHER -> row.locked_until,
         updated_at |-> now]

\* The row after a failure of a login that began at now.  Variant: a row that
\* holds a lock, not only an expired one, starts a fresh window.
CountedAnew(row, now) ==
    OneMore(row, now, row.window_started_at + window <= now \/ row.locked_until # 0)
Counted(row, now) ==
    LET expired_lock == row.locked_until # 0 /\ row.locked_until <= now
    IN  OneMore(row, now, row.window_started_at + window <= now \/ expired_lock)

EmptyRow(now) ==
    [failure_count |-> 0, window_started_at |-> now, locked_until |-> 0, updated_at |-> now]

\* record_login_failure inserts the row when there is none; nobody else sees
\* it before the failure is counted.
RecordFirstFailure(l) ==
    /\ login[l].at = "wrong" /\ throttle = NoRow
    /\ throttle' = Counted(EmptyRow(login[l].now), login[l].now)
    /\ EndLogin(l)
    /\ UNCHANGED <<login_clock, wrong>>

\* It finds a row and goes on to lock it.
FindRow(l) ==
    /\ login[l].at = "wrong" /\ throttle # NoRow
    /\ login' = [login EXCEPT ![l].at = "found"]
    /\ UNCHANGED <<throttle, login_clock, wrong>>

\* The failure is counted in the row as it is once the lock is granted; if
\* it is gone by then, the failure is not counted.
RecordFailure(l) ==
    /\ login[l].at = "found"
    /\ throttle' = IF throttle = NoRow THEN NoRow ELSE Counted(throttle, login[l].now)
    /\ EndLogin(l)
    /\ UNCHANGED <<login_clock, wrong>>

\* record_login_success.
RecordSuccess(l) ==
    /\ login[l].at = "allowed"
    /\ throttle' = NoRow /\ wrong' = {}
    /\ EndLogin(l)
    /\ UNCHANGED login_clock

\* The right password of a deactivated account counts as neither.
RefuseInactive(l) ==
    /\ login[l].at = "allowed"
    /\ EndLogin(l)
    /\ UNCHANGED <<throttle, login_clock, wrong>>

\* _purge_stale_login_throttles.
PurgeThrottle ==
    /\ throttle # NoRow /\ throttle.updated_at + window <= login_clock
    /\ throttle.locked_until <= login_clock
    /\ throttle' = NoRow
    /\ UNCHANGED <<login, login_clock, wrong>>

LoginTick ==
    /\ login_clock < MaxLoginTime
    /\ \A l \in Login : login[l].at # "idle" => login_clock < login[l].now + MaxLoginAge
    /\ login_clock' = login_clock + 1
    /\ UNCHANGED <<throttle, login, wrong>>

LoginNext ==
    \/ PurgeThrottle \/ LoginTick
    \/ \E l \in Login :
          \/ check_login_allowed(l) \/ EvaluateWrong(l) \/ RecordFirstFailure(l)
          \/ FindRow(l) \/ RecordFailure(l) \/ RecordSuccess(l) \/ RefuseInactive(l)

LoginSpec == LoginInit /\ [][LoginNext]_login_vars
-----------------------------------------------------------------------------
\* The shorter of the window and the lockout, less the time two logins take.
Span == (IF window < lockout THEN window ELSE lockout) - 2 * MaxLoginAge

WrongSince(t) == {w \in wrong : t <= w.began /\ w.began < t + Span}

\* The budget holds across processes: however logins overlap, and whatever
\* the purge deletes meanwhile, in no span of time are more wrong credentials
\* evaluated than two windows allow, each with the logins that had passed
\* their check before its lock was there.
BudgetKept ==
    \A t \in LoginTime :
        Cardinality(WrongSince(t)) <= 2 * (max_failures + Cardinality(Login))
=============================================================================
