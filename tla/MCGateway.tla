------------------------------ MODULE MCGateway ------------------------------
(***************************************************************************)
(* Instances of Gateway for TLC.  The schema offers telegram and sms as     *)
(* primary channels and sms as a fallback (app/schemas/message.py).         *)
(***************************************************************************)
EXTENDS GatewayInvariants, TLC

CONSTANTS telegram, sms

MCSessions == Requests \cup Loops

\* No request brings an idempotency key.
Keyless == [c \in Creators |-> None]

\* Every request brings a key of its own.
OwnKey ==
    CHOOSE f \in [Creators -> Keys] : \A c, d \in Creators : f[c] = f[d] => c = d

\* Every request brings the same key.
SameKey == [c \in Creators |-> CHOOSE k \in Keys : TRUE]

WithFallback == [primary |-> telegram, fallback |-> sms]
WithoutFallback == [primary |-> telegram, fallback |-> None]
SmsOnly == [primary |-> sms, fallback |-> sms]

BothPolicies == {WithFallback, WithoutFallback}
FallbackPolicy == {WithFallback}
NoFallbackPolicy == {WithoutFallback}
AllPolicies == {WithFallback, WithoutFallback, SmsOnly}

\* Messages are interchangeable, and so are submissions with the same key.
Interchangeable == Permutations(Messages) \cup Permutations(Creators)
==============================================================================
