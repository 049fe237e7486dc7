------------------------------- MODULE ApiKeys -------------------------------
(* The API keys of one project: creation, rotation with an overlap, revocation,
   and which keys authenticate.

   A call is one transaction: its time is that of its first statement, it locks
   the row of the key it changes, and other calls run before it commits.  A
   row's place in keys is its id. *)
EXTENDS Integers, Sequences

CONSTANTS
    KeyCall,      \* requests that can be in progress together
    NONE,
    Ttl,          \* the lifetimes keys are created with
    DefaultTtl,   \* api_key_default_ttl_days
    Overlap,      \* the overlaps that rotations ask for
    MaxKeys,      \* bound: keys of the project
    MaxKeyTime    \* bound: the clock

ASSUME ApiKeysAssumption ==
    /\ Ttl \subseteq Nat \ {0} /\ DefaultTtl \in Nat \ {0} /\ Overlap \subseteq Nat \ {0}
    /\ MaxKeys \in Nat /\ MaxKeyTime \in Nat /\ NONE \notin Nat

VARIABLES
    keys,         \* api_keys
    key_project,  \* the project and its organization are active
    key_call,     \* calls in progress
    key_clock
key_vars == <<keys, key_project, key_call, key_clock>>

\* A connection that serves no call.
NoKeyCall == [at |-> "idle", op |-> NONE, key |-> NONE, arg |-> NONE, now |-> NONE]

KeyInit ==
    /\ keys = <<>> /\ key_project = TRUE /\ key_clock = 0
    /\ key_call = [c \in KeyCall |-> NoKeyCall]

\* A key that is inactive or has an end of life that has come is of no use.
Alive(k, now) ==
    keys[k].is_active /\ keys[k].revoked_at = NONE /\ now < keys[k].expires_at

\* get_api_key_project: the requests that are let in.
Accepts(k, now) == k \in DOMAIN keys /\ Alive(k, now) /\ key_project

Successors(k) == {s \in DOMAIN keys : keys[s].rotated_from = k}
-----------------------------------------------------------------------------
EndKeyCall(c) == key_call' = [key_call EXCEPT ![c] = NoKeyCall]

\* An authorized call begins: create, rotate and revoke.
BeginKeyCall(c, op, key, arg) ==
    /\ key_call[c].at = "idle"
    /\ key \in (IF op = "create" THEN {NONE} ELSE DOMAIN keys)
    /\ arg \in CASE op = "create" -> Ttl [] op = "rotate" -> Overlap [] OTHER -> {NONE}
    /\ key_call' = [key_call EXCEPT ![c] =
          [at |-> "begun", op |-> op, key |-> key, arg |-> arg, now |-> key_clock]]
    /\ UNCHANGED <<keys, key_project, key_clock>>

\* create_api_key: the first key of a family.
create_api_key(c) ==
    /\ key_call[c].at = "begun" /\ key_call[c].op = "create" /\ Len(keys) < MaxKeys
    /\ keys' = Append(keys,
          [family |-> Len(keys) + 1, rotated_from |-> NONE, is_active |-> TRUE,
           created_at |-> key_call[c].now, revoked_at |-> NONE,
           expires_at |-> key_call[c].now + key_call[c].arg])
    /\ EndKeyCall(c)
    /\ UNCHANGED <<key_project, key_clock>>

\* The key's row is free for call c.
KeyFree(c) ==
    \A d \in KeyCall \ {c} : ~(key_call[d].at = "locked" /\ key_call[d].key = key_call[c].key)

\* The checks of rotate_api_key, made under the lock.  Variant: a key that has
\* a replacement already, and is still alive for the overlap, gets another.
CanRotateAgain(c) == Alive(key_call[c].key, key_call[c].now)
CanRotate(c) ==
    Successors(key_call[c].key) = {} /\ Alive(key_call[c].key, key_call[c].now)

\* rotate_api_key and revoke_api_key lock the row.
LockKey(c) ==
    /\ key_call[c].at = "begun" /\ key_call[c].op # "create"
    /\ KeyFree(c)
    /\ key_call[c].op = "rotate" => CanRotate(c)
    /\ key_call' = [key_call EXCEPT ![c].at = "locked"]
    /\ UNCHANGED <<keys, key_project, key_clock>>

\* The end of life of a rotated key.  Variant: an overlap that always counts
\* in full also extends a key that was about to expire.
FullOverlap(expires_at, now, overlap) == now + overlap
ShortenedExpiry(expires_at, now, overlap) ==
    IF expires_at > now + overlap THEN now + overlap ELSE expires_at

\* rotate_api_key inserts the replacement and commits.
RotateKey(c) ==
    LET k == key_call[c].key
        now == key_call[c].now
    IN  /\ key_call[c].at = "locked" /\ key_call[c].op = "rotate" /\ Len(keys) < MaxKeys
        /\ keys' = Append(
              [keys EXCEPT ![k].expires_at = ShortenedExpiry(@, now, key_call[c].arg)],
              [family |-> keys[k].family, rotated_from |-> k, is_active |-> TRUE,
               created_at |-> now, revoked_at |-> NONE, expires_at |-> now + DefaultTtl])
        /\ EndKeyCall(c)
        /\ UNCHANGED <<key_project, key_clock>>

\* revoke_api_key writes and commits.
RevokeKey(c) ==
    LET k == key_call[c].key
    IN  /\ key_call[c].at = "locked" /\ key_call[c].op = "revoke"
        /\ keys' = [keys EXCEPT ![k].is_active = FALSE,
                                ![k].revoked_at = IF @ = NONE THEN key_call[c].now ELSE @]
        /\ EndKeyCall(c)
        /\ UNCHANGED <<key_project, key_clock>>

\* A refused call or a lost connection.
AbortKeyCall(c) ==
    /\ key_call[c].at # "idle"
    /\ EndKeyCall(c)
    /\ UNCHANGED <<keys, key_project, key_clock>>

\* deactivate_project, or the deletion of the organization is requested.
StopProject ==
    /\ key_project /\ key_project' = FALSE
    /\ UNCHANGED <<keys, key_call, key_clock>>

KeyTick ==
    /\ key_clock < MaxKeyTime /\ key_clock' = key_clock + 1
    /\ UNCHANGED <<keys, key_project, key_call>>

KeyNext ==
    \/ KeyTick \/ StopProject
    \/ \E c \in KeyCall :
          \/ create_api_key(c) \/ LockKey(c) \/ RotateKey(c) \/ RevokeKey(c)
          \/ AbortKeyCall(c)
          \/ \E op \in {"create", "rotate", "revoke"}, key \in DOMAIN keys \union {NONE},
                arg \in Ttl \union Overlap \union {NONE} : BeginKeyCall(c, op, key, arg)

KeySpec == KeyInit /\ [][KeyNext]_key_vars
-----------------------------------------------------------------------------
\* A family is a chain, however rotations of the same key overlap: a key is
\* replaced at most once, and a replacement belongs to its family.
FamilyIsChain ==
    \A k \in DOMAIN keys :
        /\ \A s, t \in Successors(k) : s = t
        /\ \A s \in Successors(k) : keys[s].family = keys[k].family

\* Rotation only takes life away: no call moves the end of a key's life
\* later, and a key that was accepted after its replacement was made is gone
\* once the overlap is over.
RotationOnlyShortens ==
    [][\A k \in DOMAIN keys :
          /\ keys'[k].expires_at <= keys[k].expires_at
          /\ \A s \in Successors(k)' : \E o \in Overlap :
                keys'[k].expires_at <= keys'[s].created_at + o]_key_vars

\* Revocation is final: a revoked key never authenticates and is never
\* rotated, and a second revocation does not rewrite when it happened.
RevocationIsFinal ==
    [][\A k \in DOMAIN keys : keys[k].revoked_at # NONE =>
          /\ keys'[k].revoked_at = keys[k].revoked_at
          /\ ~Accepts(k, key_clock)'
          /\ Successors(k)' = Successors(k)]_key_vars
=============================================================================
