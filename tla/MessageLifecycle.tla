-------------------------- MODULE MessageLifecycle --------------------------
(***************************************************************************)
(* What the gateway promises of a message: the states a client can observe *)
(* and the moves between them.  A commit moves one message, or several     *)
(* when it ends a pass of the scheduler.                                    *)
(***************************************************************************)
EXTENDS Naturals

CONSTANTS Messages, MaxRetries

VARIABLES
    state,    \* state[m]: what GET /messages/{id} shows of m
    retries   \* retries[m]: failed fallback attempts of m

States ==
    {"ABSENT", "PENDING", "SENT_TO_CHANNEL", "ACKNOWLEDGED",
     "ESCALATION_PENDING", "ESCALATION_DEFERRED", "FALLBACK_DELIVERED",
     "FAILED", "DEAD_LETTER"}

Init ==
    /\ state = [m \in Messages |-> "ABSENT"]
    /\ retries = [m \in Messages |-> 0]

\* Moves that leave the number of failed attempts alone
Moves ==
    {<<"ABSENT", "PENDING">>,
     <<"PENDING", "SENT_TO_CHANNEL">>,
     <<"PENDING", "ESCALATION_PENDING">>,
     <<"PENDING", "FAILED">>,
     <<"SENT_TO_CHANNEL", "ACKNOWLEDGED">>,
     <<"SENT_TO_CHANNEL", "ESCALATION_PENDING">>,
     <<"ESCALATION_PENDING", "FALLBACK_DELIVERED">>,
     <<"ESCALATION_PENDING", "DEAD_LETTER">>,
     <<"ESCALATION_DEFERRED", "ESCALATION_PENDING">>}

\* A failed fallback attempt is retried until MaxRetries attempts have failed.
FallbackFails(m) ==
    /\ state[m] = "ESCALATION_PENDING"
    /\ retries'[m] = retries[m] + 1
    /\ state'[m] = IF retries'[m] < MaxRetries
                   THEN "ESCALATION_DEFERRED" ELSE "DEAD_LETTER"

Step(m) ==
    \/ state'[m] = state[m] /\ retries'[m] = retries[m]
    \/ <<state[m], state'[m]>> \in Moves /\ retries'[m] = retries[m]
    \/ FallbackFails(m)

Next ==
    /\ state' \in [Messages -> States]
    /\ retries' \in [Messages -> 0 .. MaxRetries]
    /\ \A m \in Messages : Step(m)

Spec == Init /\ [][Next]_<<state, retries>>
=============================================================================
