---------------------------- MODULE MessageState ----------------------------
(***************************************************************************)
(* The states of a message and the transitions its state machine accepts   *)
(* (app/domain/message_state.py).  Pure: no variables, no constants.       *)
(***************************************************************************)

MessageStates ==
    {"PENDING", "QUEUED", "SENDING", "SENT_TO_CHANNEL", "ACKNOWLEDGED",
     "ESCALATION_PENDING", "FALLBACK_SENDING", "FALLBACK_DELIVERED",
     "FAILED", "DEAD_LETTER", "ESCALATION_DEFERRED"}

\* _VALID_TRANSITIONS, as the set of pairs <<current, next>> it allows.
ValidTransitions ==
         {"PENDING"}             \X {"QUEUED", "FAILED"}
    \cup {"QUEUED"}              \X {"SENDING", "FAILED"}
    \cup {"SENDING"}             \X {"SENT_TO_CHANNEL", "FAILED"}
    \cup {"SENT_TO_CHANNEL"}     \X {"ACKNOWLEDGED", "ESCALATION_PENDING",
                                     "FAILED"}
    \cup {"ESCALATION_PENDING"}  \X {"FALLBACK_SENDING",
                                     "ESCALATION_DEFERRED", "FAILED"}
    \cup {"FALLBACK_SENDING"}    \X {"FALLBACK_DELIVERED", "DEAD_LETTER",
                                     "ESCALATION_DEFERRED", "FAILED"}
    \cup {"ESCALATION_DEFERRED"} \X {"ESCALATION_PENDING", "FAILED",
                                     "DEAD_LETTER"}

\* Mutant: a fallback attempt that fails for good is refused its transition.
CanTransitionNoDeadLetter(current, next) ==
    <<current, next>> \in ValidTransitions \ {<<"FALLBACK_SENDING", "DEAD_LETTER">>}

\* transition_state raises exactly when this is false.
CanTransition(current, next) == <<current, next>> \in ValidTransitions

\* The states a handler only passes through between two updates of the same
\* transaction: QUEUED and SENDING on the way to the primary channel,
\* FALLBACK_SENDING on the way to a fallback channel.
Transient == {"QUEUED", "SENDING", "FALLBACK_SENDING"}
=============================================================================
