------------------------------ MODULE RateLimiter ------------------------------
(* The fixed-window limiter of one API process: a bounded table of windows,
   one for each client and path (POST to the login and the registration).
   _check runs without an await, so requests are one step each. *)
EXTENDS Integers, FiniteSets

CONSTANTS
    Client,         \* keys, a client and a path
    requests,       \* rate_limit_requests
    rate_window,    \* rate_limit_window_seconds
    rate_entries,   \* rate_limit_max_entries
    MaxRateTime,    \* bound: the clock
    MaxAdmitted     \* bound: requests that are admitted

ASSUME RateAssumption ==
    /\ IsFiniteSet(Client) /\ requests \in Nat \ {0} /\ rate_window \in Nat \ {0}
    /\ rate_entries \in Nat \ {0} /\ MaxRateTime \in Nat
    /\ MaxAdmitted \in Nat

VARIABLES
    hits,        \* _hits: the keys that have a window, each with start and count
    rate_clock,
    admitted,    \* requests admitted: their key, time and number (history)
    displaced    \* keys whose window was dropped before it ended (history)
rate_vars == <<hits, rate_clock, admitted, displaced>>

RateTime == 0 .. MaxRateTime

RateInit ==
    /\ hits = [k \in {} |-> [start |-> 0, count |-> 0]] /\ rate_clock = 0 /\ displaced = {}
    /\ admitted = {}

Over(k) == rate_clock - hits[k].start >= rate_window

\* The tables _make_room may leave for a new key: as it is when the key is in
\* it or there is room; else without the windows that are over, and, if that
\* is not enough, without one of the oldest.
Oldest(keys) == {j \in keys : \A i \in keys : hits[j].start <= hits[i].start}
make_room(k) ==
    LET live == {j \in DOMAIN hits : ~Over(j)}
    IN  IF k \in DOMAIN hits \/ Cardinality(DOMAIN hits) < rate_entries THEN {DOMAIN hits}
        ELSE IF Cardinality(live) < rate_entries THEN {live}
        ELSE {live \ {j} : j \in Oldest(live)}

AdmittedOf(k) == {a \in admitted : a.key = k}

Admit(k) ==
    /\ Cardinality(admitted) < MaxAdmitted
    /\ admitted' = admitted \cup {[key |-> k, at |-> rate_clock,
                                   number |-> Cardinality(AdmittedOf(k)) + 1]}

\* _check: the key has no window, or one that is over, and gets a new one.
StartWindow(k) ==
    /\ k \in DOMAIN hits => Over(k)
    /\ \E keep \in make_room(k) :
          /\ hits' = [j \in keep \cup {k} |->
                        IF j = k THEN [start |-> rate_clock, count |-> 1] ELSE hits[j]]
          /\ displaced' = displaced \cup {j \in DOMAIN hits \ keep : ~Over(j)}
    /\ Admit(k)
    /\ UNCHANGED rate_clock

\* _check: the key's window admits one more; a full one refuses the request
\* and changes nothing.  Variant: full at one more.
FullAfterOneMore(k) == hits[k].count > requests
Full(k) == hits[k].count >= requests
CountHit(k) ==
    /\ k \in DOMAIN hits /\ ~Over(k) /\ ~Full(k)
    /\ hits' = [hits EXCEPT ![k].count = @ + 1]
    /\ Admit(k)
    /\ UNCHANGED <<rate_clock, displaced>>

RateTick ==
    /\ rate_clock < MaxRateTime
    /\ rate_clock' = rate_clock + 1
    /\ UNCHANGED <<hits, admitted, displaced>>

RateNext == RateTick \/ \E k \in Client : StartWindow(k) \/ CountHit(k)

RateSpec == RateInit /\ [][RateNext]_rate_vars
-----------------------------------------------------------------------------
\* Requests of a key admitted in the span as long as a window that begins at t.
AdmittedFrom(k, t) == {a \in AdmittedOf(k) : t <= a.at /\ a.at < t + rate_window}

\* However requests fall around the boundary of two windows, a key whose
\* window was never dropped has no more than two windows' requests admitted
\* in any span as long as a window.
RateKept ==
    \A k \in Client \ displaced, t \in RateTime :
        Cardinality(AdmittedFrom(k, t)) <= 2 * requests
=============================================================================
