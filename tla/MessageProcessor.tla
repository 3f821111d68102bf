-------------------------- MODULE MessageProcessor --------------------------
(***************************************************************************)
(* The handlers of app/workers/processor.py, run by database sessions.     *)
(*                                                                         *)
(* Every change a handler makes goes the same way: it reads a record,      *)
(* applies a transition to it in memory, and calls repository.update,      *)
(* which SELECTs the row again and flushes an UPDATE.  Between these awaits *)
(* other sessions run, so they are three steps: a read, Refetch, Flush.    *)
(* Once the row is locked by Flush nobody else can change it, and the rest *)
(* of the handler up to its end is one step (SendPrimary, SendFallback).   *)
(***************************************************************************)
EXTENDS MessageStore, RetryPolicy

CONSTANTS
    Channels,    \* names of channels
    Registered   \* the channels in the ChannelRegistry

VARIABLES
    ses,         \* ses[s]: where session s is, and its local variables
    attempts,    \* attempts[m][leg]: calls of channel.send for m; for the leg
                 \* "unavailable", 1 once a fallback channel was tried that
                 \* the registry does not have, which makes no call
    accepted     \* the <<m, leg>> for which a channel reported success

processorVars == <<ses, attempts, accepted>>

Legs == {"primary", "fallback", "unavailable"}

Ops == {"process_new_message", "attempt_delivery", "attempt_fallback",
        "escalate_message", "acknowledge_message"}

Points == {"idle", "insert", "read", "refetch", "flush", "send", "next", "done"}

\* pc     next step of the session         op    handler it is in
\* msg    message the handler works on     rec   the handler's MessageRecord
\* loaded row update() has loaded          batch records listed and not yet
\*                                               handled (Blank: none)
Session ==
    [pc : Points, op : Ops \cup {None}, msg : Messages \cup {None},
     rec : Row, loaded : Row, batch : [Messages -> Row]]

NoBatch == [m \in Messages |-> Blank]

Fresh(pc) ==
    [pc |-> pc, op |-> None, msg |-> None, rec |-> Blank, loaded |-> Blank,
     batch |-> NoBatch]

ProcessorTypeOK ==
    /\ ses \in [Sessions -> Session]
    /\ attempts \in [Messages -> [Legs -> Nat]]
    /\ accepted \in SUBSET (Messages \X Legs)

ProcessorInit ==
    /\ ses = [s \in Sessions |-> Fresh("idle")]
    /\ attempts = [m \in Messages |-> [l \in Legs |-> 0]]
    /\ accepted = {}

-----------------------------------------------------------------------------
At(s, pc, op) == ses[s].pc = pc /\ ses[s].op = op

\* Session s goes to pc, in handler op for message m with record rec, leaving
\* the records of batch to be handled.
Go(s, pc, op, m, rec, batch) ==
    ses' = [ses EXCEPT ![s] = [pc |-> pc, op |-> op, msg |-> m, rec |-> rec,
                               loaded |-> Blank, batch |-> batch]]

\* Enter handler op for message m at its read of the row.
Begin(s, op, m) == Go(s, "read", op, m, Blank, ses[s].batch)

\* Apply update() to the record of m: its SELECT comes first.
Update(s, op, m, record) ==
    Go(s, "refetch", op, m, record, [ses[s].batch EXCEPT ![m] = Blank])

\* The handler returns to its caller, done with m.
Return(s, m) ==
    Go(s, "next", None, None, Blank, [ses[s].batch EXCEPT ![m] = Blank])

\* apply_transition(record, next), then repository.update if it is accepted;
\* the handler returns if it is not.
Transition(s, op, m, record, next) ==
    IF CanTransition(record.current_state, next)
    THEN Update(s, op, m, [record EXCEPT !.current_state = next])
    ELSE Return(s, m)

\* _escalate_message, on a record its caller has read: to the fallback channel
\* if the policy has one, to dead-letter otherwise.
Escalate(s, m, record) ==
    Transition(s, "escalate_message", m, record,
               IF policy[m].fallback # None THEN "ESCALATION_PENDING"
                                            ELSE "DEAD_LETTER")

\* process_new_message.  process_message goes on to attempt_delivery when the
\* message could not be queued.
ProcessNewMessage(s) ==
    LET m == ses[s].msg
        record == View(s, m)
    IN  /\ At(s, "read", "process_new_message")
        /\ IF CanTransition(record.current_state, "QUEUED")
           THEN Transition(s, "process_new_message", m, record, "QUEUED")
           ELSE Begin(s, "attempt_delivery", m)
        /\ UNCHANGED <<storeVars, attempts, accepted>>

\* attempt_delivery, up to its first update
AttemptDelivery(s) ==
    /\ At(s, "read", "attempt_delivery")
    /\ Transition(s, "attempt_delivery", ses[s].msg, View(s, ses[s].msg),
                  "SENDING")
    /\ UNCHANGED <<storeVars, attempts, accepted>>

\* attempt_fallback, up to its first update
AttemptFallback(s) ==
    LET record == View(s, ses[s].msg)
    IN  /\ At(s, "read", "attempt_fallback")
        /\ IF record.current_state = "ESCALATION_PENDING"
           THEN Transition(s, "attempt_fallback", ses[s].msg, record,
                           "FALLBACK_SENDING")
           ELSE Return(s, ses[s].msg)
        /\ UNCHANGED <<storeVars, attempts, accepted>>

\* acknowledge_message, up to its update: a message in SENT_TO_CHANNEL becomes
\* ACKNOWLEDGED; in any other state only the timestamp is set.
AcknowledgeMessage(s) ==
    LET m == ses[s].msg
        record == [View(s, m) EXCEPT !.acknowledged_at = s]
    IN  /\ At(s, "read", "acknowledge_message")
        /\ IF record.current_state = "SENT_TO_CHANNEL"
           THEN Transition(s, "acknowledge_message", m, record, "ACKNOWLEDGED")
           ELSE Update(s, "acknowledge_message", m, record)
        /\ UNCHANGED <<storeVars, attempts, accepted>>

-----------------------------------------------------------------------------
\* The SELECT of repository.update.
Refetch(s) ==
    /\ ses[s].pc = "refetch"
    /\ ses' = [ses EXCEPT ![s].pc = "flush", ![s].loaded = View(s, ses[s].msg)]
    /\ UNCHANGED <<storeVars, attempts, accepted>>

\* Mutant: an event type that no reader of the trail knows.
FactOfHandler(op, record) == op

\* The event a handler records after its first update.
FactOf(op, record) ==
    CASE op = "process_new_message" -> "queued"
      [] op = "attempt_delivery"    -> "sending"
      [] op = "attempt_fallback"    -> "fallback_attempt"
      [] op = "acknowledge_message" -> "ack_received"
      [] OTHER -> IF record.current_state = "DEAD_LETTER"
                  THEN "dead_letter" ELSE "escalation_triggered"

\* The UPDATE of repository.update and the event that follows it; then on to
\* attempt_delivery (process_message), to the channel, or back to the caller.
Flush(s) ==
    LET m == ses[s].msg
        op == ses[s].op
    IN  /\ ses[s].pc = "flush"
        /\ WriteRow(s, m, Written(ses[s].rec, ses[s].loaded, View(s, m)),
                    {FactOf(op, ses[s].rec)})
        /\ CASE op = "process_new_message" -> Begin(s, "attempt_delivery", m)
             [] op \in {"attempt_delivery", "attempt_fallback"} ->
                    Go(s, "send", op, m, ses[s].rec, ses[s].batch)
             [] OTHER -> Return(s, m)
        /\ UNCHANGED <<attempts, accepted>>

-----------------------------------------------------------------------------
\* What a handler has made of its message after the send: its record and the
\* events it has recorded.  Then(o, next, fact) is apply_transition, update and
\* record; nothing is saved or recorded when the transition is refused.
Outcome(record, facts) == [rec |-> record, facts |-> facts]

Then(o, next, fact) ==
    IF CanTransition(o.rec.current_state, next)
    THEN Outcome([o.rec EXCEPT !.current_state = next], o.facts \cup {fact})
    ELSE o

\* Mutant: a failed send is left in SENT_TO_CHANNEL.
PrimaryOutcomeNotEscalated(record, hasFallback, success) ==
    Then(Outcome(record, {"send_attempt"}), "SENT_TO_CHANNEL",
         IF success THEN "send_success" ELSE "send_failed")

\* Mutant: a failed send is escalated without an escalation event.
PrimaryOutcomeSilent(record, hasFallback, success) ==
    LET sent == Then(Outcome(record, {"send_attempt"}), "SENT_TO_CHANNEL",
                     IF success THEN "send_success" ELSE "send_failed")
    IN  IF success \/ ~hasFallback THEN sent
        ELSE Then(sent, "ESCALATION_PENDING", "send_failed")

\* attempt_delivery, given the channel's result
PrimaryOutcome(record, hasFallback, success) ==
    LET sent == Outcome(record, {"send_attempt"})
    IN  CASE success -> Then(sent, "SENT_TO_CHANNEL", "send_success")
          [] ~success /\ hasFallback ->
                Then(Then(sent, "SENT_TO_CHANNEL", "send_failed"),
                     "ESCALATION_PENDING", "escalation_triggered")
          [] OTHER -> Then(sent, "FAILED", "send_failed")

\* Mutant: a failed fallback is not counted.
FallbackOutcomeUncounted(record, success) ==
    IF success
    THEN Then(Outcome(record, {}), "FALLBACK_DELIVERED", "fallback_success")
    ELSE Then(Outcome([record EXCEPT !.next_retry_at = record.retry_count], {}),
              "ESCALATION_DEFERRED", "escalation_deferred")

\* attempt_fallback, given the channel's result
FallbackOutcome(record, success) ==
    LET tries == record.retry_count + 1
        facts == {"fallback_attempt"}
        failed == [record EXCEPT !.retry_count = tries]
        deferred == [failed EXCEPT !.next_retry_at = tries]
    IN  CASE success -> Then(Outcome(record, facts),
                             "FALLBACK_DELIVERED", "fallback_success")
          [] ~success /\ ShouldRetry(FALLBACK_RETRY_POLICY, tries) ->
                Then(Outcome(deferred, facts),
                     "ESCALATION_DEFERRED", "escalation_deferred")
          [] OTHER -> Then(Outcome(failed, facts), "DEAD_LETTER", "dead_letter")

\* Mutant: the outcome is saved, its events are not recorded.
SaveUnrecorded(s, o) ==
    /\ WriteRow(s, ses[s].msg, o.rec, {})
    /\ Return(s, ses[s].msg)

\* Save the outcome, the row being locked by s: the update loads the session's
\* own version, so the UPDATE leaves the row equal to the record.
Save(s, o) ==
    LET m == ses[s].msg
    IN  /\ WriteRow(s, m, IF o.rec.current_state = ses[s].rec.current_state
                          THEN dirty[m] ELSE o.rec,
                    o.facts)
        /\ Return(s, m)

CallChannel(m, leg, success) ==
    /\ attempts' = [attempts EXCEPT ![m][leg] = @ + 1]
    /\ accepted' = IF success THEN accepted \cup {<<m, leg>>} ELSE accepted

\* attempt_delivery, from the lookup of the channel to its end
SendPrimary(s) ==
    LET m == ses[s].msg
        rec == ses[s].rec
    IN  /\ At(s, "send", "attempt_delivery")
        /\ \/ /\ policy[m].primary \notin Registered
              /\ Save(s, Then(Outcome(rec, {}), "FAILED", "send_failed"))
              /\ UNCHANGED <<attempts, accepted>>
           \/ /\ policy[m].primary \in Registered
              /\ \E success \in BOOLEAN :
                    /\ CallChannel(m, "primary", success)
                    /\ Save(s, PrimaryOutcome(rec, policy[m].fallback # None, success))

\* attempt_fallback, from the lookup of the channel to its end
SendFallback(s, channel) ==
    LET m == ses[s].msg
        rec == ses[s].rec
    IN  /\ At(s, "send", "attempt_fallback")
        /\ \/ /\ channel \notin Registered
              /\ Save(s, Then(Outcome(rec, {}), "DEAD_LETTER", "dead_letter"))
              /\ attempts' = [attempts EXCEPT ![m]["unavailable"] = 1]
              /\ UNCHANGED accepted
           \/ /\ channel \in Registered
              /\ \E success \in BOOLEAN :
                    /\ CallChannel(m, "fallback", success)
                    /\ Save(s, FallbackOutcome(rec, success))
=============================================================================
