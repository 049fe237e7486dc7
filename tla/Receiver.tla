------------------------------- MODULE Receiver -------------------------------
(* Signed deliveries of one endpoint and the receiver that verifies them with
   the SDK and accepts each event once.

   The endpoint's scheme may change; a delivery is signed under the scheme it
   was accepted with, whenever it is sent.  Requests can be slow or lost, and
   so can answers: the worker then tries again while the first request may
   still arrive.  The receiver may crash before it commits.  An HMAC is the
   pair of its key and what is signed.  Versions of the secret are the subject
   of module Endpoints. *)
EXTENDS Integers, FiniteSets

CONSTANTS
    SignedEvent,    \* events sent to the endpoint
    tolerance,      \* tolerance_seconds
    MaxSends,       \* bound: requests of an event, numbered over its deliveries
    MaxWireTime,    \* bound: the clock
    MaxSwitches     \* bound: changes of the scheme

ASSUME ReceiverAssumption ==
    /\ tolerance \in Nat /\ MaxSends \in Nat /\ MaxWireTime \in Nat /\ MaxSwitches \in Nat

VARIABLES
    scheme,      \* the endpoint's signature_scheme, and how often it changed
    offered,     \* a secret in the standard form was returned to the owner
    secret,      \* the serialization of the secret the receiver holds
    sent,        \* the latest delivery of each event, at the worker
    wire,        \* requests on their way
    inbox,       \* event ids the receiver has reserved
    effects,     \* how often it carried out an event (history)
    refused,     \* requests it refused for their signature (history)
    wire_clock
receiver_vars == <<scheme, offered, secret, sent, wire, inbox, effects, refused, wire_clock>>

Scheme == {"legacy", "standard"}
Unsent == [status |-> "none", scheme |-> "legacy", attempts |-> 0]

\* create_endpoint returned the secret in the serialization of the scheme.
ReceiverInit ==
    /\ \E s \in Scheme : scheme = [is |-> s, changes |-> 0] /\ secret = s
    /\ offered = FALSE /\ wire = {} /\ inbox = {} /\ refused = {} /\ wire_clock = 0
    /\ sent = [e \in SignedEvent |-> Unsent]
    /\ effects = [e \in SignedEvent |-> 0]
-----------------------------------------------------------------------------
(* The platform *)

\* update_endpoint: a change to the standard scheme returns the secret again,
\* in the standard form.
SwitchScheme ==
    /\ scheme.changes < MaxSwitches
    /\ scheme' = [is |-> CHOOSE s \in Scheme : s # scheme.is, changes |-> scheme.changes + 1]
    /\ offered' = (offered \/ scheme.is = "legacy")
    /\ UNCHANGED <<secret, sent, wire, inbox, effects, refused, wire_clock>>

\* The event is accepted; its delivery keeps the scheme of that time.
AcceptSigned(e) ==
    /\ sent[e].status = "none"
    /\ sent' = [sent EXCEPT ![e] = [status |-> "due", scheme |-> scheme.is, attempts |-> 0]]
    /\ UNCHANGED <<scheme, offered, secret, wire, inbox, effects, refused, wire_clock>>

\* A delivery is replayed: a new one, with the scheme of the old.
ReplaySigned(e) ==
    /\ sent[e].status \in {"succeeded", "dead"}
    /\ sent' = [sent EXCEPT ![e].status = "due"]
    /\ UNCHANGED <<scheme, offered, secret, wire, inbox, effects, refused, wire_clock>>

\* The key of a secret: the legacy scheme takes the string itself, the
\* standard scheme the digest both strings encode.
StringKey(serialization) == <<"string", serialization>>
DigestKey == <<"digest">>

sign_payload(e, t) ==
    [token |-> "t=,v1=", key |-> StringKey("legacy"), signed |-> <<t, e>>]
sign_payload_standard(e, t) ==
    [token |-> "v1,", key |-> DigestKey, signed |-> <<e, t, e>>]

\* _perform_attempt signs now and sends; id, timestamp and body follow from e.
SendSigned(e) ==
    /\ sent[e].status = "due" /\ sent[e].attempts < MaxSends
    /\ sent' = [sent EXCEPT ![e].status = "sending", ![e].attempts = @ + 1]
    /\ wire' = wire \cup {[event |-> e, attempt |-> sent[e].attempts + 1,
                           timestamp |-> wire_clock,
                           signature |-> IF sent[e].scheme = "standard"
                                         THEN sign_payload_standard(e, wire_clock)
                                         ELSE sign_payload(e, wire_clock)]}
    /\ UNCHANGED <<scheme, offered, secret, inbox, effects, refused, wire_clock>>

\* No answer in time: the attempt failed and can be repeated.
AttemptTimesOut(e) ==
    /\ sent[e].status = "sending"
    /\ sent' = [sent EXCEPT ![e].status = "due"]
    /\ UNCHANGED <<scheme, offered, secret, wire, inbox, effects, refused, wire_clock>>
-----------------------------------------------------------------------------
(* The receiver *)

\* The receiver is given the secret the owner was shown last.
InstallSecret ==
    /\ offered /\ secret = "legacy"
    /\ secret' = "standard"
    /\ UNCHANGED <<scheme, offered, sent, wire, inbox, effects, refused, wire_clock>>

Recent(m) == wire_clock - m.timestamp <= tolerance

verify_signature(m) ==
    m.signature.key = StringKey(secret) /\ m.signature.signed = <<m.timestamp, m.event>>

\* The key bytes of the receiver's secret, whichever form it has.  Variant:
\* only the standard alphabet is decoded.
secret_key_bytes_strict(serialization) ==
    IF serialization = "standard" THEN DigestKey ELSE <<"none">>
secret_key_bytes(serialization) ==
    IF serialization \in Scheme THEN DigestKey ELSE <<"none">>

verify_signature_standard(m) ==
    /\ m.signature.key = secret_key_bytes(secret)
    /\ m.signature.signed = <<m.event, m.timestamp, m.event>>

\* The scheme is recognized by the form of the header's tokens.
Verifies(m) ==
    IF m.signature.token = "t=,v1=" THEN verify_signature(m) ELSE verify_signature_standard(m)
verify_request(m) == Recent(m) /\ Verifies(m)

\* verify_and_claim: whether the request is good, what it reserves, and
\* whether the event is carried out, all in one transaction.  Variants: the
\* reservation is not looked at; the id is reserved before it is verified.
ClaimUnread(m) ==
    [good |-> verify_request(m), do |-> verify_request(m),
     reserve |-> IF verify_request(m) THEN {m.event} ELSE {}]
ClaimThenVerify(m) ==
    [good |-> verify_request(m) \/ m.event \in inbox,
     do |-> verify_request(m) /\ m.event \notin inbox, reserve |-> {m.event}]
verify_and_claim(m) ==
    [good |-> verify_request(m), do |-> verify_request(m) /\ m.event \notin inbox,
     reserve |-> IF verify_request(m) THEN {m.event} ELSE {}]

\* What the worker makes of the answer to the attempt it waits for: 2xx, also
\* for a duplicate, is success; 400 is final.  The answer may be lost.
Answered(m, good) ==
    LET e == m.event
        heard == IF sent[e].status = "sending" /\ sent[e].attempts = m.attempt
                 THEN [sent EXCEPT ![e].status = IF good THEN "succeeded" ELSE "dead"]
                 ELSE sent
    IN  sent' \in {heard, sent}

\* A request arrives and is handled.
ReceiveSigned(m) ==
    /\ LET result == verify_and_claim(m)
       IN  /\ inbox' = inbox \cup result.reserve
           /\ effects' = [effects EXCEPT ![m.event] = @ + IF result.do THEN 1 ELSE 0]
           /\ Answered(m, result.good)
    /\ refused' = IF Recent(m) /\ ~Verifies(m)
                  THEN refused \cup {[held |-> secret, token |-> m.signature.token]}
                  ELSE refused
    /\ wire' = wire \ {m}
    /\ UNCHANGED <<scheme, offered, secret, wire_clock>>

\* A request is lost, or the receiver crashes before it commits.
LoseSigned(m) ==
    /\ wire' = wire \ {m}
    /\ UNCHANGED <<scheme, offered, secret, sent, inbox, effects, refused, wire_clock>>

WireTick ==
    /\ wire_clock < MaxWireTime
    /\ wire_clock' = wire_clock + 1
    /\ UNCHANGED <<scheme, offered, secret, sent, wire, inbox, effects, refused>>

ReceiverNext ==
    \/ SwitchScheme \/ InstallSecret \/ WireTick
    \/ \E e \in SignedEvent :
          AcceptSigned(e) \/ ReplaySigned(e) \/ SendSigned(e) \/ AttemptTimesOut(e)
    \/ \E m \in wire : ReceiveSigned(m) \/ LoseSigned(m)

ReceiverSpec == ReceiverInit /\ [][ReceiverNext]_receiver_vars
-----------------------------------------------------------------------------
\* The receiver carries out an event at most once, although attempts overlap
\* and repeat, answers are lost, and a delivery is replayed after success.
CarriedOutOnce == \A e \in SignedEvent : effects[e] <= 1

\* A delivery the worker takes for succeeded was carried out: a request that
\* came too late or was not verified does not turn the next into a duplicate.
SuccessMeansCarriedOut ==
    \A e \in SignedEvent : sent[e].status = "succeeded" => effects[e] >= 1

\* A receiver that still holds the legacy form of the secret verifies every
\* recent request of either scheme, however often the scheme was changed; one
\* that holds the standard form verifies those of the standard scheme.
SchemesVerify ==
    \A r \in refused : r.held = "standard" /\ r.token = "t=,v1="
=============================================================================
