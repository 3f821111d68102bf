-------------------------- MODULE GatewayProperties --------------------------
(***************************************************************************)
(* What is expected of the gateway.                                         *)
(***************************************************************************)
EXTENDS Gateway

Committed(m) == row[m].current_state

-----------------------------------------------------------------------------
(* Safety, whatever the requests, their interleaving and the failures       *)

\* No observer ever finds a message in a state a handler only passes through:
\* QUEUED, SENDING and FALLBACK_SENDING are written but never committed, so no
\* crash, error or early return of a handler strands a message in one of them
\* (no loop of the scheduler would pick it up).
DurableResting == \A m \in Messages : Committed(m) \notin Transient

\* The events a record owes to its state and to its acknowledgement
StateEvents ==
    {<<"SENT_TO_CHANNEL", "send_success">>, <<"ACKNOWLEDGED", "ack_received">>,
     <<"ESCALATION_PENDING", "escalation_triggered">>,
     <<"ESCALATION_DEFERRED", "escalation_deferred">>,
     <<"FALLBACK_DELIVERED", "fallback_success">>,
     <<"FAILED", "send_failed">>, <<"DEAD_LETTER", "dead_letter">>}

Owed(record) ==
    {f \in EventTypes : \/ <<record.current_state, f>> \in StateEvents
                        \/ record.acknowledged_at # None /\ f = "ack_received"}

\* The audit trail explains every row: the event that goes with a committed
\* state, and with a committed acknowledgement, is committed too, however many
\* sessions have written over one another's versions of the row.
AuditTrail == \A m \in Messages : Owed(row[m]) \subseteq events[m]

\* A message said to be sent, or delivered by its fallback, has been accepted
\* by the channel of that leg, also when what says so is a stale record.
NoPhantomDelivery ==
    \A m \in Messages :
        /\ Committed(m) = "SENT_TO_CHANNEL" => <<m, "primary">> \in accepted
        /\ Committed(m) = "FALLBACK_DELIVERED" => <<m, "fallback">> \in accepted

\* A fallback channel is tried only for a message whose escalation has been
\* committed: no attempt rests on an escalation that is rolled back.
FallbackAfterEscalation ==
    \A m \in Messages :
        attempts[m]["fallback"] > 0 => "escalation_triggered" \in events[m]

\* How early a message can be given up, also when handlers write over one
\* another's counts.  FAILED: only without a fallback, or when the registry lacks
\* the primary channel (whose fallback the code does not try).  Dead, with a
\* fallback in the registry: after max_retries calls of a fallback channel at
\* least, the first included (the policy's own text promises one more), or after
\* an attempt at this very message on a channel that the registry lacks.
NotGivenUpEarly ==
    \A m \in Messages :
        /\ Committed(m) = "FAILED" =>
              policy[m].fallback = None \/ policy[m].primary \notin Registered
        /\ Committed(m) = "DEAD_LETTER" /\ policy[m].fallback \in Registered =>
              \/ attempts[m]["fallback"] >= FALLBACK_RETRY_POLICY.max_retries
              \/ attempts[m]["unavailable"] > 0

\* A row is locked only by a session that is at work: no lock outlives its
\* request or its pass, also when an error ends it, and a version in a passing
\* state is always one that the session holding the lock is about to replace.
LocksHeldByWork ==
    \A m \in Messages : lock[m] # None =>
        LET s == lock[m]
        IN  /\ ses[s].pc \notin {"idle", "insert", "done"}
            /\ dirty[m].current_state \in Transient =>
                  ses[s].msg = m /\ ses[s].pc # "next"

\* PostgreSQL never has to end a request to resolve a deadlock: only a loop,
\* which locks one row after the other within a pass, can be on a waiting cycle.
RequestsNeverDeadlock == \A s \in Requests : ~Deadlocked(s)

\* Requests that race with the same idempotency key, all of them past the
\* lookup that found nothing, leave one message.
OneMessagePerKey ==
    \A m, n \in Stored : key[m] = key[n] /\ key[m] # None => m = n

-----------------------------------------------------------------------------
(* Safety of the scheduler left alone                                       *)

\* No acknowledgement, no request of an administrator, and no submission that
\* repeats the key of another one
SchedulerAlone ==
    /\ Ackers = {} /\ Escalators = {} /\ Retriers = {}
    /\ \A c, d \in Creators : KeyOf[c] = KeyOf[d] => c = d \/ KeyOf[c] = None

\* The calls of the fallback channel that record r stands for
Tries(r) ==
    r.retry_count + (IF r.current_state = "FALLBACK_DELIVERED" THEN 1 ELSE 0)

\* No call of a fallback channel is forgotten: a row nobody is changing accounts
\* for every call that has been made for the message, so that the policy judges
\* by the real number; only a call whose transaction a failure has rolled back
\* goes uncounted, one for each failure.
FallbackCallsCounted ==
    \A m \in Messages : lock[m] = None =>
        attempts[m]["fallback"] <= Tries(row[m]) + failures

\* The gateway implements the lifecycle of a message.
Lifecycle == INSTANCE MessageLifecycle WITH
    MaxRetries <- FALLBACK_RETRY_POLICY.max_retries,
    state      <- [m \in Messages |-> row[m].current_state],
    retries    <- [m \in Messages |-> row[m].retry_count]

ImplementsLifecycle == Lifecycle!Spec

-----------------------------------------------------------------------------
(* Liveness                                                                 *)

InEscalation(m) == Committed(m) \in {"ESCALATION_PENDING", "ESCALATION_DEFERRED"}

-----------------------------------------------------------------------------
(* What the repository says of the program, and the program does not do     *)

\* "For each message that has exceeded its deadline without acknowledgement,
\* trigger escalation or mark as dead-letter" (check_deadlines).
OverdueIsResolved == \A m \in Messages : m \in Overdue ~> m \notin Overdue

\* "Polling for messages stuck in intermediate states" (scheduler.py): a
\* message that is stored is eventually processed.
PendingIsPolled ==
    \A m \in Messages : Committed(m) = "PENDING" ~> Committed(m) # "PENDING"

\* "Late acknowledgements are still valid fact records" (message_state.py): an
\* acknowledgement that has been committed is not forgotten.
AcknowledgementsAreKept ==
    [][\A m \in Messages :
          row[m].acknowledged_at # None => row'[m].acknowledged_at # None]_vars

\* "Idempotent message submission using a unique request key" (README.md): one
\* key, one send.
SentOncePerKey ==
    \A m \in Stored : key[m] # None => attempts[m]["primary"] <= 1
=============================================================================
