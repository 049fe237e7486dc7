---------------------------- MODULE TokenBucket ----------------------------
(***************************************************************************)
(* The token arithmetic shared by admission and by the claim scheduler:    *)
(* consume_tokens of app/admission.py.  Token balances are integers and    *)
(* one unit of time is one second, so the floating-point rounding of the   *)
(* code is left out; everything else (the clamp of a negative elapsed      *)
(* time, the capacity, the retry hint) is kept.                            *)
(***************************************************************************)
EXTENDS Integers

CONSTANT NoRetry    \* retry_after = None

ASSUME NoRetryAssumption == NoRetry \notin Int

Smaller(x, y) == IF x <= y THEN x ELSE y
Larger(x, y) == IF x >= y THEN x ELSE y

\* math.ceil(x / y) for a positive y.
CeilDiv(x, y) == (x + y - 1) \div y

\* What is in the bucket at time now.
Available(b, rate, capacity, now) ==
    Smaller(capacity, b.tokens + Larger(0, now - b.refilled_at) * rate)

\* A charge that leaves refilled_at where it was.
consume_tokens_frozen(b, rate, capacity, cost, now, retry_cap) ==
    LET available == Available(b, rate, capacity, now)
    IN  [tokens |-> IF available >= cost THEN available - cost ELSE available,
         refilled_at |-> b.refilled_at,
         retry_after |-> IF available >= cost THEN NoRetry ELSE 1]

\* The balance after a charge of cost at time now, and the hint given to a
\* caller who cannot be served.
consume_tokens(b, rate, capacity, cost, now, retry_cap) ==
    LET available == Available(b, rate, capacity, now)
    IN  IF available >= cost
        THEN [tokens |-> available - cost, refilled_at |-> now,
              retry_after |-> NoRetry]
        ELSE [tokens |-> available, refilled_at |-> now,
              retry_after |-> Smaller(retry_cap,
                                Larger(1, CeilDiv(cost - available, rate)))]

Balance(c) == [tokens |-> c.tokens, refilled_at |-> c.refilled_at]
=============================================================================
