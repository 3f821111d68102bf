-------------------------- MODULE GatewayInvariants --------------------------
(***************************************************************************)
(* The inductive invariants behind the theorems of GatewayProofs,            *)
(* DeliveryProofs, AuditProofs and SchedulerAloneProofs.                     *)
(***************************************************************************)
EXTENDS GatewayProperties

Handling == {"read", "refetch", "flush", "send"}

\* A session inside a handler has a message and a handler.
HandlersHaveMessage ==
    \A s \in Sessions : ses[s].pc \in Handling =>
        ses[s].msg \in Messages /\ ses[s].op \in Ops

TypeInv == TypeOK /\ HandlersHaveMessage

-----------------------------------------------------------------------------
Settled(record) == record.current_state \notin Transient

\* The state in which the handlers that call a channel save their first update
Aim(op) ==
    CASE op = "process_new_message" -> "QUEUED"
      [] op = "attempt_delivery"    -> "SENDING"
      [] op = "attempt_fallback"    -> "FALLBACK_SENDING"

Aiming == {"process_new_message", "attempt_delivery", "attempt_fallback"}

RowsSettled == \A m \in Messages : Settled(row[m])

BatchesSettled ==
    \A s \in Sessions : \A m \in Messages : Settled(ses[s].batch[m])

\* The record about to be saved is settled or in the state its handler aims at.
RecordsAim ==
    \A s \in Sessions : ses[s].pc \in {"refetch", "flush"} =>
        IF ses[s].op \in Aiming THEN ses[s].rec.current_state = Aim(ses[s].op)
                                ELSE Settled(ses[s].rec)

\* update() has loaded a settled row, or the QUEUED version of its own session.
LoadedSettled ==
    \A s \in Sessions : ses[s].pc = "flush" =>
        \/ Settled(ses[s].loaded)
        \/ /\ ses[s].op = "attempt_delivery"
           /\ ses[s].loaded.current_state = "QUEUED"

\* A session at its send holds the lock of its message, in the state it saved.
SendersHold ==
    \A s \in Sessions : ses[s].pc = "send" =>
        /\ ses[s].op \in {"attempt_delivery", "attempt_fallback"}
        /\ ses[s].rec.current_state = Aim(ses[s].op)
        /\ lock[ses[s].msg] = s
        /\ dirty[ses[s].msg].current_state = Aim(ses[s].op)

\* Who is not at work holds no lock.
RestingHoldNothing ==
    \A s \in Sessions : ses[s].pc \in {"idle", "insert", "done"} =>
        \A m \in Messages : lock[m] # s

\* An unsettled version is its session's current message, on the way from
\* QUEUED to SENDING or at the send.
UnsettledInHand ==
    \A s \in Sessions : \A m \in Messages :
        lock[m] = s /\ ~Settled(dirty[m]) =>
            /\ ses[s].msg = m
            /\ \/ ses[s].pc = "send"
               \/ /\ ses[s].pc \in {"read", "refetch", "flush"}
                  /\ ses[s].op = "attempt_delivery"
                  /\ dirty[m].current_state = "QUEUED"

DurableInv ==
    /\ RowsSettled
    /\ BatchesSettled
    /\ RecordsAim
    /\ LoadedSettled
    /\ SendersHold
    /\ RestingHoldNothing
    /\ UnsettledInHand

-----------------------------------------------------------------------------
\* A request holds the lock of the row it works on and of no other, and none
\* before it works.
RequestsHoldOneRow ==
    \A s \in Requests : \A m \in Messages :
        lock[m] = s => \/ ses[s].pc = "next"
                       \/ ses[s].pc \in Handling /\ ses[s].msg = m

-----------------------------------------------------------------------------
Saving == {"refetch", "flush", "send"}

\* Whatever a session works on, or has listed, is stored; what it is going to
\* save is a row.
WorksOnStored(s) ==
    /\ ses[s].pc \in Handling => ses[s].msg \in Stored
    /\ ses[s].pc \in Saving => ses[s].rec.current_state # "ABSENT"
    /\ \A m \in Messages : ses[s].batch[m] # Blank => m \in Stored

\* Only stored rows are locked, and none is deleted.
LockedStored ==
    \A m \in Messages : lock[m] # None =>
        m \in Stored /\ dirty[m].current_state # "ABSENT"

KeyInv == OneMessagePerKey /\ LockedStored /\ \A s \in Sessions : WorksOnStored(s)

-----------------------------------------------------------------------------
(* Calls of the primary channel.  The code has no retry of it: only a submission *)
(* calls it, although README.md:210 promises three retries.                      *)

\* The submissions that lead to message m
Submissions(m) ==
    IF key[m] = None THEN 1 ELSE Cardinality({c \in Creators : KeyOf[c] = key[m]})

SendsWithinSubmissions ==
    \A m \in Stored : attempts[m]["primary"] <= Submissions(m)

\* The handlers of process_message, which leads to the primary channel
Delivering == {"process_new_message", "attempt_delivery"}

Handles(s, m) == ses[s].pc \in Handling /\ ses[s].msg = m

\* Submissions, and nobody else, deliver: the message that has their key.
SubmissionsDeliver ==
    \A s \in Sessions : ses[s].pc \in Handling =>
        IF s \in Creators THEN ses[s].op \in Delivering /\ key[ses[s].msg] = KeyOf[s]
                          ELSE ses[s].op \notin Delivering

Served(c) == ses[c].pc \in {"next", "done"}

\* The submissions that may have called the primary channel for m
Callers(m) == {c \in Creators : KeyOf[c] = key[m] /\ Served(c)}

\* A message without a key is delivered by the one request that has created it.
DeliveredOnce(m) ==
    /\ attempts[m]["primary"] <= 1
    /\ \A c \in Creators : Handles(c, m) =>
          /\ attempts[m]["primary"] = 0
          /\ \A d \in Creators : Handles(d, m) => c = d

SendInv ==
    /\ SubmissionsDeliver
    /\ \A m \in Messages \ Stored : attempts[m]["primary"] = 0
    /\ \A m \in Stored :
          IF key[m] = None THEN DeliveredOnce(m)
                           ELSE attempts[m]["primary"] <= Cardinality(Callers(m))

-----------------------------------------------------------------------------
\* What record r of message m says of the channels, they have said.
Confirmed(m, r, answers) ==
    /\ r.current_state = "SENT_TO_CHANNEL" => <<m, "primary">> \in answers
    /\ r.current_state = "FALLBACK_DELIVERED" => <<m, "fallback">> \in answers

\* Record r is explained by the channels, by what is committed, and by facts.
Explained(m, r, facts) ==
    Owed(r) \subseteq events[m] \cup facts /\ Confirmed(m, r, accepted)

\* What session s has recorded for m and not committed
Own(s, m) == IF lock[m] = s THEN pending[m] ELSE {}

RowsExplained == \A m \in Messages : Explained(m, row[m], {})

VersionsExplained ==
    \A m \in Messages : lock[m] # None => Explained(m, dirty[m], pending[m])

\* A record in hand is explained once the event of the handler is recorded.
RecordExplained(s) ==
    LET m == ses[s].msg
    IN  /\ ses[s].pc \in {"refetch", "flush"} =>
              Explained(m, ses[s].rec, Own(s, m) \cup {FactOf(ses[s].op, ses[s].rec)})
        /\ ses[s].pc = "send" => Explained(m, ses[s].rec, Own(s, m))

BatchExplained(s) == \A m \in Messages : Explained(m, ses[s].batch[m], {})

\* A pass handles a message once, so it has not updated what it has still to
\* handle, and reads what is committed of it.
HandledOnce(s) ==
    /\ \A m \in Messages : lock[m] = s => ses[s].batch[m] = Blank
    /\ ses[s].pc \in Saving => ses[s].batch[ses[s].msg] = Blank
    /\ ses[s].pc = "read" /\ ses[s].op = "attempt_fallback" => lock[ses[s].msg] # s

\* The escalation that an attempt at a fallback rests on is committed.
RestsOnEscalation(s) ==
    ses[s].pc \in Saving /\ ses[s].op = "attempt_fallback" =>
        "escalation_triggered" \in events[ses[s].msg]

SessionExplained(s) ==
    RecordExplained(s) /\ BatchExplained(s) /\ HandledOnce(s) /\ RestsOnEscalation(s)

ExplainedInv ==
    /\ RowsExplained
    /\ VersionsExplained
    /\ \A s \in Sessions : SessionExplained(s)
    /\ FallbackAfterEscalation

-----------------------------------------------------------------------------
\* Record r of m is not FAILED while it has a fallback to try, and counts no
\* call of the fallback channel that has not been made.
Counted(m, r) ==
    /\ r.current_state = "FAILED" =>
          policy[m].fallback = None \/ policy[m].primary \notin Registered
    /\ r.retry_count <= attempts[m]["fallback"]

\* Nor is it dead while the fallback has calls left, unless an attempt at it has
\* found no channel.
Spent(m, r) ==
    r.current_state = "DEAD_LETTER" /\ policy[m].fallback \in Registered =>
        \/ attempts[m]["fallback"] >= FALLBACK_RETRY_POLICY.max_retries
        \/ attempts[m]["unavailable"] > 0

Rightly(m, r) == Counted(m, r) /\ Spent(m, r)

RowsRight == \A m \in Messages : Rightly(m, row[m])

VersionsRight == \A m \in Messages : lock[m] # None => Rightly(m, dirty[m])

SessionRight(s) ==
    /\ ses[s].pc \in Saving => Rightly(ses[s].msg, ses[s].rec)
    /\ \A m \in Messages : Rightly(m, ses[s].batch[m])

RightInv == RowsRight /\ VersionsRight /\ \A s \in Sessions : SessionRight(s)

-----------------------------------------------------------------------------
(* The scheduler left alone                                                 *)

\* Session s has listed m, is in a handler of it, or has updated it.
InHand(s, m) ==
    \/ ses[s].batch[m] # Blank
    \/ ses[s].pc \in Handling /\ ses[s].msg = m
    \/ lock[m] = s

\* The committed state of a message says whose it is.
Responsible(s, state) ==
    \/ state = "PENDING" /\ s \in Creators
    \/ state = "SENT_TO_CHANNEL" /\ s = DeadlineLoop
    \/ state = "ESCALATION_PENDING" /\ s = FallbackLoop
    \/ state = "ESCALATION_DEFERRED" /\ s = RetryLoop

Responsibilities ==
    \A s \in Sessions, m \in Messages :
        InHand(s, m) => Responsible(s, row[m].current_state)

Undivided ==
    \A s, t \in Sessions, m \in Messages : InHand(s, m) /\ InHand(t, m) => s = t

\* Whoever brought the key of a message is past the lookup of the key.
KeysUsed ==
    \A m \in Stored : key[m] # None =>
        \E c \in Creators : KeyOf[c] = key[m] /\ ses[c].pc \notin {"idle", "insert"}

\* What a record of m in a state may say of its retries and its policy
Regular(m, r) ==
    /\ r.retry_count <= FALLBACK_RETRY_POLICY.max_retries
    /\ r.current_state # "DEAD_LETTER" =>
          ShouldRetry(FALLBACK_RETRY_POLICY, r.retry_count)
    /\ r.current_state = "ESCALATION_DEFERRED" => r.next_retry_at = r.retry_count
    /\ r.current_state \in {"ESCALATION_PENDING", "ESCALATION_DEFERRED"} =>
          policy[m].fallback # None
    /\ r.current_state = "ABSENT" => r.retry_count = 0

\* Version v may be committed over r.
Succeeds(v, r) ==
    \/ /\ <<r.current_state, v.current_state>> \in Lifecycle!Moves
       /\ v.retry_count = r.retry_count
    \/ /\ r.current_state = "ESCALATION_PENDING"
       /\ v.retry_count = r.retry_count + 1
       /\ v.current_state = IF ShouldRetry(FALLBACK_RETRY_POLICY, v.retry_count)
                            THEN "ESCALATION_DEFERRED" ELSE "DEAD_LETTER"

RowsRegular == \A m \in Messages : Regular(m, row[m])

\* The states a handler starts from and the one its first update aims at
Origin(op) ==
    CASE op \in {"process_new_message", "attempt_delivery"} -> {"PENDING"}
      [] op = "attempt_fallback" -> {"ESCALATION_PENDING"}
      [] op = "escalate_message" -> {"SENT_TO_CHANNEL", "ESCALATION_DEFERRED"}
      [] OTHER -> {}

Target(op) == IF op = "escalate_message" THEN "ESCALATION_PENDING" ELSE Aim(op)

\* The committed row of m, in another state
Moved(m, state) == [row[m] EXCEPT !.current_state = state]

\* Nothing a handler has read is stale: its record is the committed row but for
\* the state.
HandlerCurrent(s) ==
    LET m == ses[s].msg
        op == ses[s].op
    IN  ses[s].pc \in Handling =>
            /\ row[m].current_state \in Origin(op)
            /\ lock[m] = s <=> op = "attempt_delivery" \/ ses[s].pc = "send"
            /\ op = "attempt_delivery" /\ ses[s].pc # "send" =>
                  dirty[m] = Moved(m, "QUEUED")
            /\ op = "escalate_message" =>
                  ses[s].pc \in {"refetch", "flush"} /\ policy[m].fallback # None
            /\ ses[s].pc \in Saving =>
                  ses[s].rec = Moved(m, Target(op)) /\ ses[s].batch[m] = Blank
            /\ ses[s].pc = "flush" => ses[s].loaded = View(s, m)
            /\ ses[s].pc = "send" => dirty[m] = ses[s].rec

BatchCurrent(s) ==
    \A m \in Messages : ses[s].batch[m] # Blank =>
        ses[s].batch[m] = row[m] /\ lock[m] # s

\* An uncommitted version is a regular successor of the row, or the row on the
\* way to one.
VersionsSucceed ==
    \A m \in Messages : lock[m] # None =>
        IF Settled(dirty[m]) THEN Regular(m, dirty[m]) /\ Succeeds(dirty[m], row[m])
                             ELSE dirty[m].retry_count = row[m].retry_count

\* Only calls that a failure has rolled back are not counted.
CallsCounted ==
    \A m \in Messages :
        attempts[m]["fallback"] <=
            Tries(IF lock[m] = None THEN row[m] ELSE dirty[m]) + failures

LoneInv ==
    /\ Responsibilities
    /\ Undivided
    /\ KeysUsed
    /\ RowsRegular
    /\ \A s \in Sessions : HandlerCurrent(s) /\ BatchCurrent(s)
    /\ VersionsSucceed
    /\ CallsCounted

=============================================================================
