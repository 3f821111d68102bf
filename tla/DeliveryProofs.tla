---------------------------- MODULE DeliveryProofs ----------------------------
(***************************************************************************)
(* One message for a key, and all its calls but no more: the unique index  *)
(* speaks of stored rows only, so the proof follows what every session      *)
(* works on, and shows that it is stored and stays so.  On it rest the      *)
(* bound on the calls of the primary channel, because whoever delivers a    *)
(* message has submitted its key, and that a message is given up only when  *)
(* nothing is left to try.                                                   *)
(***************************************************************************)
EXTENDS GatewayProofs, FiniteSetTheorems

\* One row per key survives every step that neither stores a row nor changes a key.
LEMMA SameKeys ==
    ASSUME OneMessagePerKey, Stored' \subseteq Stored, key' = key
    PROVE  OneMessagePerKey'
BY DEF OneMessagePerKey

LEMMA SameStored ==
    ASSUME row' = row
    PROVE  Stored' = Stored
BY DEF Stored

LEMMA BlankAbsent == Blank.current_state = "ABSENT"
BY DEF Blank

\* A step of one session, after which it works on stored rows
LEMMA GoWorks ==
    ASSUME TypeInv, KeyInv, Stored \subseteq Stored',
           NEW s \in Sessions, NEW pc, NEW op, NEW m, NEW rec, NEW batch,
           Go(s, pc, op, m, rec, batch),
           pc \in Handling => m \in Stored',
           pc \in Saving => rec.current_state # "ABSENT",
           \A n \in Messages : batch[n] # Blank => n \in Stored'
    PROVE  \A t \in Sessions : WorksOnStored(t)'
<1> SUFFICES ASSUME NEW t \in Sessions PROVE WorksOnStored(t)'
  OBVIOUS
<1>1. CASE t = s
  <2>1. /\ ses'[s].pc = pc /\ ses'[s].msg = m
        /\ ses'[s].rec = rec /\ ses'[s].batch = batch
    BY DEF Go, TypeInv, TypeOK, ProcessorTypeOK
  <2>2. /\ ses'[s].pc \in Handling => ses'[s].msg \in Stored'
        /\ ses'[s].pc \in Saving => ses'[s].rec.current_state # "ABSENT"
        /\ \A n \in Messages : ses'[s].batch[n] # Blank => n \in Stored'
    BY <2>1
  <2> QED BY <1>1, <2>2 DEF WorksOnStored, Handling, Saving, Blank
<1>2. CASE t # s
  <2>1. ses'[t] = ses[t]
    BY <1>2, GoEffect
  <2> QED BY <2>1 DEF KeyInv, WorksOnStored
<1> QED BY <1>1, <1>2

LEMMA GoKey ==
    ASSUME TypeInv, KeyInv, UNCHANGED storeVars,
           NEW s \in Sessions, NEW pc, NEW op, NEW m, NEW rec, NEW batch,
           Go(s, pc, op, m, rec, batch),
           pc \in Handling => m \in Stored,
           pc \in Saving => rec.current_state # "ABSENT",
           \A n \in Messages : batch[n] # Blank => n \in Stored
    PROVE  KeyInv'
<1>1. row' = row /\ key' = key /\ lock' = lock /\ dirty' = dirty
  BY DEF storeVars
<1>2. Stored' = Stored
  BY <1>1, SameStored
<1>3. OneMessagePerKey' /\ LockedStored'
  BY <1>1, <1>2, SameKeys DEF KeyInv, LockedStored
<1>4. \A t \in Sessions : WorksOnStored(t)'
  BY <1>2, GoWorks
<1> QED BY <1>3, <1>4 DEF KeyInv

LEMMA BatchStored ==
    ASSUME TypeInv, KeyInv, NEW s \in Sessions, NEW m
    PROVE  /\ \A n \in Messages : ses[s].batch[n] # Blank => n \in Stored
           /\ \A n \in Messages :
                 [ses[s].batch EXCEPT ![m] = Blank][n] # Blank => n \in Stored
BY BatchType DEF KeyInv, WorksOnStored

LEMMA BeginKey ==
    ASSUME TypeInv, KeyInv, UNCHANGED storeVars, NEW s \in Sessions,
           NEW op, NEW m \in Stored, Begin(s, op, m)
    PROVE  KeyInv'
BY BatchStored, GoKey DEF Begin, Saving

LEMMA ReturnKey ==
    ASSUME TypeInv, KeyInv, UNCHANGED storeVars, NEW s \in Sessions,
           NEW m, Return(s, m)
    PROVE  KeyInv'
<1> DEFINE batch == [ses[s].batch EXCEPT ![m] = Blank]
<1>1. Go(s, "next", None, None, Blank, batch)
  BY DEF Return
<1>2. \A n \in Messages : batch[n] # Blank => n \in Stored
  BY BatchStored
<1>3. "next" \notin Handling /\ "next" \notin Saving
  BY DEF Handling, Saving
<1> HIDE DEF batch
<1> QED BY <1>1, <1>2, <1>3, GoKey

LEMMA UpdateKey ==
    ASSUME TypeInv, KeyInv, UNCHANGED storeVars, NEW s \in Sessions, NEW op,
           NEW m \in Stored, NEW record, record.current_state # "ABSENT",
           Update(s, op, m, record)
    PROVE  KeyInv'
<1> DEFINE batch == [ses[s].batch EXCEPT ![m] = Blank]
<1>1. Go(s, "refetch", op, m, record, batch)
  BY DEF Update
<1>2. \A n \in Messages : batch[n] # Blank => n \in Stored
  BY BatchStored
<1> HIDE DEF batch
<1> QED BY <1>1, <1>2, GoKey

LEMMA TransitionKey ==
    ASSUME TypeInv, KeyInv, UNCHANGED storeVars, NEW s \in Sessions, NEW op,
           NEW m \in Stored, NEW record \in Row, NEW next, next # "ABSENT",
           Transition(s, op, m, record, next)
    PROVE  KeyInv'
<1>1. [record EXCEPT !.current_state = next].current_state # "ABSENT"
  BY DEF Row
<1>2. CASE Update(s, op, m, [record EXCEPT !.current_state = next])
  BY <1>1, <1>2, UpdateKey
<1>3. CASE Return(s, m)
  BY <1>3, ReturnKey
<1> QED BY <1>2, <1>3 DEF Transition

LEMMA EscalateKey ==
    ASSUME TypeInv, KeyInv, UNCHANGED storeVars, NEW s \in Sessions,
           NEW m \in Stored, NEW record \in Row, Escalate(s, m, record)
    PROVE  KeyInv'
BY TransitionKey DEF Escalate

LEMMA GotoKey ==
    ASSUME TypeInv, KeyInv, UNCHANGED storeVars, NEW s \in Sessions,
           NEW pc \in {"idle", "insert", "done"}, Goto(s, pc)
    PROVE  KeyInv'
<1>1. Go(s, pc, None, None, Blank, NoBatch)
  BY DEF Goto, Go, Fresh
<1>2. \A n \in Messages : NoBatch[n] = Blank
  BY DEF NoBatch
<1> QED BY <1>1, <1>2, GoKey DEF Handling, Saving

\* What a session sees of a stored message is a row.
LEMMA ViewPresent ==
    ASSUME TypeInv, KeyInv, NEW s \in Sessions, NEW m \in Stored
    PROVE  View(s, m).current_state # "ABSENT"
<1>1. m \in Messages
  BY DEF Stored
<1>2. lock[m] = s => lock[m] # None
  BY NoneAssumption
<1> QED BY <1>1, <1>2 DEF View, KeyInv, LockedStored, Stored

-----------------------------------------------------------------------------
\* The actions, one lemma for each kind

LEMMA ReadKey ==
    ASSUME TypeInv, KeyInv, NEW s \in Sessions,
           \/ ProcessNewMessage(s) \/ AttemptDelivery(s)
           \/ AttemptFallback(s) \/ AcknowledgeMessage(s)
    PROVE  KeyInv'
<1> DEFINE m == ses[s].msg
<1>1. m \in Messages /\ View(s, m) \in Row /\ m \in Stored
  BY ViewType DEF ProcessNewMessage, AttemptDelivery, AttemptFallback,
                  AcknowledgeMessage, At, TypeInv, HandlersHaveMessage, Handling,
                  KeyInv, WorksOnStored
<1>2. UNCHANGED storeVars
  BY DEF ProcessNewMessage, AttemptDelivery, AttemptFallback, AcknowledgeMessage
<1>3. CASE ProcessNewMessage(s)
  <2>1. CASE Transition(s, "process_new_message", m, View(s, m), "QUEUED")
    BY <1>1, <1>2, <2>1, TransitionKey
  <2>2. CASE Begin(s, "attempt_delivery", m)
    BY <1>1, <1>2, <2>2, BeginKey
  <2> QED BY <1>3, <2>1, <2>2 DEF ProcessNewMessage
<1>4. CASE AttemptDelivery(s)
  <2>1. Transition(s, "attempt_delivery", m, View(s, m), "SENDING")
    BY <1>4 DEF AttemptDelivery
  <2> QED BY <1>1, <1>2, <2>1, TransitionKey
<1>5. CASE AttemptFallback(s)
  <2>1. CASE Transition(s, "attempt_fallback", m, View(s, m), "FALLBACK_SENDING")
    BY <1>1, <1>2, <2>1, TransitionKey
  <2>2. CASE Return(s, m)
    BY <1>2, <2>2, ReturnKey
  <2> QED BY <1>5, <2>1, <2>2 DEF AttemptFallback
<1>6. CASE AcknowledgeMessage(s)
  <2> DEFINE record == [View(s, m) EXCEPT !.acknowledged_at = s]
  <2>1. record \in Row /\ record.current_state # "ABSENT"
    BY <1>1, ViewPresent DEF Row
  <2>2. CASE Transition(s, "acknowledge_message", m, record, "ACKNOWLEDGED")
    BY <1>1, <1>2, <2>1, <2>2, TransitionKey
  <2>3. CASE Update(s, "acknowledge_message", m, record)
    <3> HIDE DEF record
    <3> QED BY <1>1, <1>2, <2>1, <2>3, UpdateKey
  <2> QED BY <1>6, <2>2, <2>3 DEF AcknowledgeMessage
<1> QED BY <1>3, <1>4, <1>5, <1>6

LEMMA RefetchKey ==
    ASSUME TypeInv, KeyInv, NEW s \in Sessions, Refetch(s)
    PROVE  KeyInv'
<1>1. /\ ses'[s].pc = "flush" /\ ses'[s].msg = ses[s].msg
      /\ ses'[s].rec = ses[s].rec /\ ses'[s].batch = ses[s].batch
      /\ \A t \in Sessions \ {s} : ses'[t] = ses[t]
  BY DEF Refetch, TypeInv, TypeOK, ProcessorTypeOK, Session
<1>2. row' = row /\ key' = key /\ lock' = lock /\ dirty' = dirty
  BY DEF Refetch, storeVars
<1>3. Stored' = Stored
  BY <1>2, SameStored
<1>4. OneMessagePerKey' /\ LockedStored'
  BY <1>2, <1>3, SameKeys DEF KeyInv, LockedStored
<1>5. ses[s].pc = "refetch"
  BY DEF Refetch
<1>6. ASSUME NEW t \in Sessions
      PROVE  WorksOnStored(t)'
  <2>1. WorksOnStored(t)
    BY DEF KeyInv
  <2>2. CASE t = s
    BY <1>1, <1>3, <1>5, <2>1, <2>2 DEF WorksOnStored, Handling, Saving, Blank
  <2>3. CASE t # s
    BY <1>1, <1>3, <2>1, <2>3 DEF WorksOnStored, Handling, Saving, Blank
  <2> QED BY <2>2, <2>3
<1> QED BY <1>4, <1>6 DEF KeyInv

\* A step that writes a version of its message and goes on
LEMMA WriteKey ==
    ASSUME TypeInv, KeyInv, NEW s \in Sessions, NEW m \in Stored,
           NEW version, version.current_state # "ABSENT", NEW facts,
           WriteRow(s, m, version, facts),
           NEW pc, NEW op, NEW msg, NEW rec, NEW batch,
           Go(s, pc, op, msg, rec, batch),
           pc \in Handling => msg \in Stored,
           pc \in Saving => rec.current_state # "ABSENT",
           \A n \in Messages : batch[n] # Blank => n \in Stored
    PROVE  KeyInv'
<1>1. row' = row /\ key' = key
  BY DEF WriteRow
<1>2. Stored' = Stored
  BY <1>1, SameStored
<1>3. OneMessagePerKey'
  BY <1>1, <1>2, SameKeys DEF KeyInv
<1>4. LockedStored'
  <2> SUFFICES ASSUME NEW n \in Messages, lock'[n] # None
               PROVE  n \in Stored' /\ dirty'[n].current_state # "ABSENT"
    BY DEF LockedStored
  <2>1. CASE n = m
    BY <1>2, <2>1 DEF WriteRow, TypeInv, TypeOK, StoreTypeOK
  <2>2. CASE n # m
    <3>1. lock'[n] = lock[n] /\ dirty'[n] = dirty[n]
      BY <2>2 DEF WriteRow, TypeInv, TypeOK, StoreTypeOK
    <3> QED BY <1>2, <3>1 DEF KeyInv, LockedStored
  <2> QED BY <2>1, <2>2
<1>5. \A t \in Sessions : WorksOnStored(t)'
  BY <1>2, GoWorks
<1> QED BY <1>3, <1>4, <1>5 DEF KeyInv

LEMMA FlushKey ==
    ASSUME TypeInv, KeyInv, NEW s \in Sessions, Flush(s)
    PROVE  KeyInv'
<1> DEFINE m == ses[s].msg
           op == ses[s].op
           rec == ses[s].rec
           version == Written(rec, ses[s].loaded, View(s, m))
           batch == [ses[s].batch EXCEPT ![m] = Blank]
<1>1. ses[s].pc = "flush" /\ ses[s].pc \in Handling /\ ses[s].pc \in Saving
  BY DEF Flush, Handling, Saving
<1>2. m \in Stored /\ rec.current_state # "ABSENT"
  BY <1>1 DEF KeyInv, WorksOnStored
<1>3. version.current_state # "ABSENT"
  BY <1>2, ViewPresent DEF Written, Changed
<1>4. WriteRow(s, m, version, {FactOf(op, rec)})
  BY DEF Flush
<1>5. \A n \in Messages : ses[s].batch[n] # Blank => n \in Stored
  BY BatchStored
<1>6. \A n \in Messages : batch[n] # Blank => n \in Stored
  BY BatchStored
<1>7. "next" \notin Handling /\ "next" \notin Saving /\ "read" \notin Saving
  BY DEF Handling, Saving
<1> HIDE DEF batch, version
<1>8. CASE Go(s, "read", "attempt_delivery", m, Blank, ses[s].batch)
  BY <1>2, <1>3, <1>4, <1>5, <1>7, <1>8, WriteKey
<1>9. CASE Go(s, "send", op, m, rec, ses[s].batch)
  BY <1>2, <1>3, <1>4, <1>5, <1>9, WriteKey
<1>10. CASE Go(s, "next", None, None, Blank, batch)
  BY <1>2, <1>3, <1>4, <1>6, <1>7, <1>10, WriteKey
<1>11. \/ Begin(s, "attempt_delivery", m)
       \/ Go(s, "send", op, m, rec, ses[s].batch)
       \/ Return(s, m)
  BY DEF Flush
<1> QED BY <1>8, <1>9, <1>10, <1>11 DEF Begin, Return, batch

\* No outcome of a send deletes a row.
LEMMA OutcomePresent ==
    ASSUME NEW record \in Row, record.current_state # "ABSENT",
           NEW hasFallback \in BOOLEAN, NEW success \in BOOLEAN
    PROVE  /\ PrimaryOutcome(record, hasFallback, success).rec.current_state # "ABSENT"
           /\ FallbackOutcome(record, success).rec.current_state # "ABSENT"
           /\ Then(Outcome(record, {}), "FAILED", "send_failed").rec.current_state # "ABSENT"
           /\ Then(Outcome(record, {}), "DEAD_LETTER", "dead_letter").rec.current_state
                 # "ABSENT"
<1>1. ASSUME NEW o, o.rec \in Row, o.rec.current_state # "ABSENT",
             NEW next \in MessageStates, NEW fact
      PROVE  /\ Then(o, next, fact).rec \in Row
             /\ Then(o, next, fact).rec.current_state # "ABSENT"
  BY <1>1 DEF Then, Outcome, Row, MessageStates
<1>2. /\ "FAILED" \in MessageStates /\ "DEAD_LETTER" \in MessageStates
      /\ "SENT_TO_CHANNEL" \in MessageStates /\ "ESCALATION_PENDING" \in MessageStates
      /\ "FALLBACK_DELIVERED" \in MessageStates
      /\ "ESCALATION_DEFERRED" \in MessageStates
  BY DEF MessageStates
<1>3. \A facts : Outcome(record, facts).rec = record
  BY DEF Outcome
<1>4. PrimaryOutcome(record, hasFallback, success).rec.current_state # "ABSENT"
  BY <1>1, <1>2, <1>3 DEF PrimaryOutcome
<1> DEFINE failed == [record EXCEPT !.retry_count = record.retry_count + 1]
           deferred == [failed EXCEPT !.next_retry_at = record.retry_count + 1]
<1>5. /\ record.retry_count + 1 \in Nat
      /\ failed \in Row /\ failed.current_state = record.current_state
      /\ deferred \in Row /\ deferred.current_state = record.current_state
  <2>1. record.retry_count + 1 \in Nat
    BY DEF Row
  <2>2. failed \in Row /\ failed.current_state = record.current_state
    BY <2>1 DEF Row
  <2>3. deferred \in Row /\ deferred.current_state = failed.current_state
    BY <2>1, <2>2 DEF Row
  <2> QED BY <2>1, <2>2, <2>3
<1>6. \A facts : /\ Outcome(failed, facts).rec = failed
                 /\ Outcome(deferred, facts).rec = deferred
  BY DEF Outcome
<1>7. FallbackOutcome(record, success) \in
        {Then(Outcome(record, {"fallback_attempt"}), "FALLBACK_DELIVERED", "fallback_success"),
         Then(Outcome(deferred, {"fallback_attempt"}), "ESCALATION_DEFERRED",
              "escalation_deferred"),
         Then(Outcome(failed, {"fallback_attempt"}), "DEAD_LETTER", "dead_letter")}
  BY DEF FallbackOutcome
<1> HIDE DEF failed, deferred
<1>8. FallbackOutcome(record, success).rec.current_state # "ABSENT"
  BY <1>1, <1>2, <1>3, <1>5, <1>6, <1>7
<1> QED BY <1>1, <1>2, <1>3, <1>4, <1>8

LEMMA SaveKey ==
    ASSUME TypeInv, DurableInv, KeyInv, NEW s \in Sessions, ses[s].pc = "send",
           NEW o, o.rec.current_state # "ABSENT", Save(s, o)
    PROVE  KeyInv'
<1> DEFINE m == ses[s].msg
           version == IF o.rec.current_state = ses[s].rec.current_state
                      THEN dirty[m] ELSE o.rec
           batch == [ses[s].batch EXCEPT ![m] = Blank]
<1>1. m \in Stored
  BY DEF KeyInv, WorksOnStored, Handling
<1>2. dirty[m].current_state # "ABSENT"
  BY <1>1, NoneAssumption
     DEF DurableInv, SendersHold, KeyInv, LockedStored, Stored
<1>3. version.current_state # "ABSENT"
  BY <1>2
<1>4. WriteRow(s, m, version, o.facts)
  BY DEF Save
<1>5. Go(s, "next", None, None, Blank, batch)
  BY DEF Save, Return
<1>6. \A n \in Messages : batch[n] # Blank => n \in Stored
  BY BatchStored
<1>7. "next" \notin Handling /\ "next" \notin Saving
  BY DEF Handling, Saving
<1> HIDE DEF batch, version, m
<1> QED BY <1>1, <1>3, <1>4, <1>5, <1>6, <1>7, WriteKey

LEMMA SendKey ==
    ASSUME TypeInv, DurableInv, KeyInv, NEW s \in Sessions, NEW channel,
           SendPrimary(s) \/ SendFallback(s, channel)
    PROVE  KeyInv'
<1> DEFINE m == ses[s].msg
           rec == ses[s].rec
<1>1. ses[s].pc = "send" /\ rec \in Row
  BY DEF SendPrimary, SendFallback, At, TypeInv, TypeOK, ProcessorTypeOK, Session
<1>2. rec.current_state # "ABSENT"
  BY <1>1 DEF KeyInv, WorksOnStored, Saving
<1>3. PICK o : Save(s, o) /\ o.rec.current_state # "ABSENT"
  <2>1. CASE SendPrimary(s)
    BY <1>1, <1>2, <2>1, OutcomePresent DEF SendPrimary
  <2>2. CASE SendFallback(s, channel)
    BY <1>1, <1>2, <2>2, OutcomePresent DEF SendFallback
  <2> QED BY <2>1, <2>2
<1> QED BY <1>1, <1>3, SaveKey

LEMMA InsertKey ==
    ASSUME TypeInv, KeyInv, NEW c \in Creators, Insert(c)
    PROVE  KeyInv'
<1>1. c \in Sessions
  BY SessionsAssumption DEF Requests
<1>2. CASE Goto(c, "done") /\ UNCHANGED storeVars
  BY <1>1, <1>2, GotoKey
<1>3. ASSUME NEW m \in Messages, NEW pol \in Policies, ~KeyTaken(KeyOf[c]),
             InsertRow(m, KeyOf[c], pol), Begin(c, "process_new_message", m)
      PROVE  KeyInv'
  <2>1. /\ m \notin Stored
        /\ key'[m] = KeyOf[c]
        /\ \A n \in Messages \ {m} : key'[n] = key[n] /\ row'[n] = row[n]
        /\ row'[m].current_state = "PENDING"
        /\ lock' = lock /\ dirty' = dirty
    BY <1>3 DEF InsertRow, TypeInv, TypeOK, StoreTypeOK, Blank
  <2>2. Stored' = Stored \cup {m}
    BY <1>3, <2>1 DEF Stored
  <2>3. OneMessagePerKey'
    BY <1>3, <2>1, <2>2 DEF KeyInv, OneMessagePerKey, KeyTaken, Stored
  <2>4. LockedStored'
    BY <2>1, <2>2 DEF KeyInv, LockedStored
  <2>5. Go(c, "read", "process_new_message", m, Blank, ses[c].batch)
    BY <1>3 DEF Begin
  <2>6. \A n \in Messages : ses[c].batch[n] # Blank => n \in Stored'
    BY <1>1, <2>2 DEF KeyInv, WorksOnStored
  <2>7. "read" \notin Saving /\ Stored \subseteq Stored' /\ m \in Stored'
    BY <2>2 DEF Saving
  <2>8. \A t \in Sessions : WorksOnStored(t)'
    BY <1>1, <2>5, <2>6, <2>7, GoWorks
  <2> QED BY <2>3, <2>4, <2>8 DEF KeyInv
<1> QED BY <1>2, <1>3 DEF Insert

LEMMA ArriveKey ==
    ASSUME TypeInv, KeyInv, Arrive
    PROVE  KeyInv'
<1>1. PICK s \in Sessions : \/ s \in Creators /\ Create(s)
                            \/ s \in Ackers /\ Acknowledge(s)
                            \/ s \in Escalators /\ ManualEscalate(s)
                            \/ s \in Retriers /\ RetryFallback(s)
  BY SessionsAssumption DEF Arrive, Requests
<1>2. UNCHANGED storeVars
  BY <1>1 DEF Create, Acknowledge, ManualEscalate, RetryFallback
<1>3. \A m \in Stored : row[m] \in Row
  BY DEF TypeInv, TypeOK, StoreTypeOK, Stored
<1>4. CASE Goto(s, "insert") \/ Goto(s, "done")
  BY <1>2, <1>4, GotoKey
<1>5. ASSUME NEW m \in Stored, NEW op, Begin(s, op, m)
      PROVE  KeyInv'
  BY <1>2, <1>5, BeginKey
<1>6. ASSUME NEW m \in Stored, Escalate(s, m, row[m])
      PROVE  KeyInv'
  BY <1>2, <1>3, <1>6, EscalateKey
<1>7. CASE Create(s)
  BY <1>4, <1>5, <1>7 DEF Create
<1>8. CASE Acknowledge(s)
  BY <1>5, <1>8 DEF Acknowledge
<1>9. CASE ManualEscalate(s)
  BY <1>4, <1>6, <1>9 DEF ManualEscalate
<1>10. CASE RetryFallback(s)
  BY <1>4, <1>5, <1>10 DEF RetryFallback
<1> QED BY <1>1, <1>7, <1>8, <1>9, <1>10

LEMMA PassKey ==
    ASSUME TypeInv, KeyInv, Pass
    PROVE  KeyInv'
<1>1. DeadlineLoop \in Sessions /\ FallbackLoop \in Sessions /\ RetryLoop \in Sessions
  BY SessionsAssumption DEF Loops
<1>2. ASSUME NEW s \in Sessions, NEW due \in SUBSET Stored, Scan(s, due)
      PROVE  KeyInv'
  <2> DEFINE batch == [m \in Messages |-> IF m \in due THEN row[m] ELSE Blank]
  <2>1. \A n \in Messages : batch[n] # Blank => n \in Stored
    OBVIOUS
  <2>2. Go(s, "next", None, None, Blank, batch) /\ UNCHANGED storeVars
    BY <1>2 DEF Scan
  <2>3. "next" \notin Handling /\ "next" \notin Saving
    BY DEF Handling, Saving
  <2> HIDE DEF batch
  <2> QED BY <2>1, <2>2, <2>3, GoKey
<1>3. CASE DeadlineScan
  BY <1>1, <1>2, <1>3 DEF DeadlineScan, Overdue, Stored
<1>4. CASE FallbackScan
  BY <1>1, <1>2, <1>4 DEF FallbackScan, Stored
<1>5. CASE RetryScan
  BY <1>1, <1>2, <1>5 DEF RetryScan, Stored
<1>6. \A s \in Sessions : \A m \in Listed(s) : m \in Stored /\ ses[s].batch[m] \in Row
  BY DEF Listed, KeyInv, WorksOnStored, TypeInv, TypeOK, ProcessorTypeOK, Session
<1>7. CASE DeadlineItem
  BY <1>1, <1>6, <1>7, EscalateKey DEF DeadlineItem
<1>8. CASE FallbackItem
  BY <1>1, <1>6, <1>8, BeginKey DEF FallbackItem
<1>9. CASE RetryItem
  BY <1>1, <1>6, <1>9, BeginKey, EscalateKey DEF RetryItem
<1> QED BY <1>3, <1>4, <1>5, <1>7, <1>8, <1>9 DEF Pass

\* The transactions of S end: no row is deleted, no key changes, and the
\* sessions of S come to rest.
LEMMA EndKey ==
    ASSUME TypeInv, KeyInv, NEW S \in SUBSET Sessions, EndTransactions(S),
           \A m \in Messages : \/ row'[m] = row[m]
                               \/ lock[m] # None /\ row'[m] = dirty[m],
           \A t \in Sessions \ S : ses'[t] = ses[t],
           \A t \in S : \/ ses'[t] = ses[t]
                        \/ /\ ses'[t].pc \in {"idle", "done"}
                           /\ ses'[t].batch = NoBatch
    PROVE  KeyInv'
<1>1. Stored' = Stored
  BY DEF Stored, KeyInv, LockedStored
<1>2. key' = key
  BY DEF EndTransactions
<1>3. OneMessagePerKey'
  BY <1>1, <1>2, SameKeys DEF KeyInv
<1>4. LockedStored'
  BY <1>1 DEF EndTransactions, KeyInv, LockedStored
<1>5. ASSUME NEW t \in Sessions
      PROVE  WorksOnStored(t)'
  <2>1. CASE ses'[t] = ses[t]
    BY <1>1, <2>1 DEF KeyInv, WorksOnStored, Handling, Saving, Blank
  <2>2. CASE ses'[t].pc \in {"idle", "done"} /\ ses'[t].batch = NoBatch
    BY <2>2 DEF WorksOnStored, Handling, Saving, Blank, NoBatch
  <2> QED BY <2>1, <2>2
<1> QED BY <1>3, <1>4, <1>5 DEF KeyInv

LEMMA CommitKey ==
    ASSUME TypeInv, KeyInv, NEW s \in Sessions, Commit(s)
    PROVE  KeyInv'
<1>1. EndTransactions({s}) /\ {s} \in SUBSET Sessions
  BY DEF Commit, CommitTransaction
<1>2. \A m \in Messages : \/ row'[m] = row[m]
                          \/ lock[m] # None /\ row'[m] = dirty[m]
  <2>1. s # None
    BY NoneAssumption
  <2>2. row' = [m \in Messages |-> IF lock[m] = s THEN dirty[m] ELSE row[m]]
    BY DEF Commit, CommitTransaction
  <2> QED BY <2>1, <2>2
<1>3. /\ ses'[s].pc \in {"idle", "done"} /\ ses'[s].batch = NoBatch
      /\ \A t \in Sessions \ {s} : ses'[t] = ses[t]
  BY DEF Commit, Goto, Fresh, TypeInv, TypeOK, ProcessorTypeOK
<1> QED BY <1>1, <1>2, <1>3, EndKey

LEMMA AbortKey ==
    ASSUME TypeInv, KeyInv, NEW S \in SUBSET Sessions, Abort(S)
    PROVE  KeyInv'
<1>1. EndTransactions(S) /\ row' = row
  BY DEF Abort, RollbackTransactions
<1>2. \A t \in Sessions \ S : ses'[t] = ses[t]
  BY DEF Abort
<1>3. ASSUME NEW t \in S
      PROVE  \/ ses'[t] = ses[t]
             \/ ses'[t].pc \in {"idle", "done"} /\ ses'[t].batch = NoBatch
  <2>1. \/ ses'[t] = ses[t]
        \/ ses'[t] = Fresh("idle") \/ ses'[t] = Fresh("done")
    BY DEF Abort
  <2> QED BY <2>1 DEF Fresh
<1> QED BY <1>1, <1>2, <1>3, EndKey

LEMMA KeyStep == TypeInv /\ DurableInv /\ KeyInv /\ [Next]_vars => KeyInv'
<1> SUFFICES ASSUME TypeInv, DurableInv, KeyInv, [Next]_vars
             PROVE  KeyInv'
  OBVIOUS
<1>1. CASE Arrive
  BY <1>1, ArriveKey
<1>2. ASSUME NEW c \in Creators, Insert(c)
      PROVE  KeyInv'
  BY <1>2, InsertKey
<1>3. CASE Pass
  BY <1>3, PassKey
<1>4. ASSUME NEW s \in Sessions, Handle(s)
      PROVE  KeyInv'
  BY <1>4, ReadKey, RefetchKey, FlushKey, SendKey DEF Handle
<1>5. ASSUME NEW s \in Sessions, Commit(s)
      PROVE  KeyInv'
  BY <1>5, CommitKey
<1>6. CASE (\E m \in Messages : Elapse(m)) \/ UNCHANGED vars
  <2>1. row' = row /\ key' = key /\ lock' = lock /\ dirty' = dirty /\ ses' = ses
    BY <1>6 DEF Elapse, vars, processorVars, storeVars
  <2>2. Stored' = Stored
    BY <2>1, SameStored
  <2> QED BY <2>1, <2>2 DEF KeyInv, OneMessagePerKey, LockedStored, WorksOnStored,
                            Handling, Saving, Blank
<1>7. CASE \/ \E s \in Sessions : SessionError(s) \/ DeadlockVictim(s)
           \/ Crash
  <2>1. ASSUME NEW s \in Sessions, Abort({s})
        PROVE  KeyInv'
    BY <2>1, AbortKey
  <2>2. CASE Crash
    BY <2>2, AbortKey DEF Crash
  <2> QED BY <1>7, <2>1, <2>2 DEF SessionError, DeadlockVictim
<1> QED BY <1>1, <1>2, <1>3, <1>4, <1>5, <1>6, <1>7 DEF Next, IdlePass

LEMMA KeyInit == Init => KeyInv
<1> SUFFICES ASSUME Init PROVE KeyInv
  OBVIOUS
<1>1. /\ row = [m \in Messages |-> Blank] /\ lock = [m \in Messages |-> None]
      /\ ses = [s \in Sessions |-> Fresh("idle")]
  BY DEF Init, StoreInit, ProcessorInit
<1>2. Stored = {}
  BY <1>1, BlankAbsent DEF Stored
<1>3. \A s \in Sessions : ses[s].pc = "idle" /\ ses[s].batch = NoBatch
  BY <1>1 DEF Fresh
<1>4. \A s \in Sessions : WorksOnStored(s)
  BY <1>3 DEF WorksOnStored, Handling, Saving, NoBatch
<1> QED BY <1>1, <1>2, <1>4 DEF KeyInv, OneMessagePerKey, LockedStored

\* The unique index and what it rests on, in every reachable state
LEMMA KeyCorrect == Spec => []KeyInv
BY TypeCorrect, DurableCorrect, KeyInit, KeyStep, PTL DEF Spec

\* However many submissions with one idempotency key race past the lookup that
\* finds nothing, and whatever fails, the unique index leaves one message.
THEOREM KeysAreUnique == Spec => []OneMessagePerKey
<1>1. KeyInv => OneMessagePerKey
  BY DEF KeyInv
<1> QED BY <1>1, KeyCorrect, PTL

-----------------------------------------------------------------------------
(* The primary channel is called once for a submission                      *)

\* A step of any number of sessions.  Who starts to deliver a message that it was
\* not delivering has its key, and who calls the channel is served.
LEMMA StepSends ==
    ASSUME TypeInv, KeyInv, SendInv, key' = key, Stored' = Stored,
           \A s \in Sessions : ses'[s].pc \in Handling =>
               IF s \in Creators
               THEN /\ ses'[s].op \in Delivering /\ key[ses'[s].msg] = KeyOf[s]
                    /\ Handles(s, ses'[s].msg) \/ KeyOf[s] # None
               ELSE ses'[s].op \notin Delivering,
           \A c \in Creators : Served(c) => Served(c)',
           \A m \in Messages :
               \/ attempts'[m]["primary"] = attempts[m]["primary"]
               \/ /\ attempts'[m]["primary"] = attempts[m]["primary"] + 1
                  /\ \E c \in Creators : Handles(c, m) /\ Served(c)'
    PROVE  SendInv'
<1>1. Creators \subseteq Sessions
  BY SessionsAssumption DEF Requests
<1>2. SubmissionsDeliver'
  BY DEF SubmissionsDeliver, Handling, Delivering
<1>3. \A c \in Creators, m \in Messages : Handles(c, m) => m \in Stored /\ key[m] = KeyOf[c]
  BY <1>1 DEF Handles, KeyInv, WorksOnStored, SendInv, SubmissionsDeliver
<1>4. ASSUME NEW m \in Messages \ Stored'
      PROVE  attempts'[m]["primary"] = 0
  BY <1>3 DEF SendInv
<1>5. ASSUME NEW m \in Stored', key'[m] = None
      PROVE  DeliveredOnce(m)'
  <2>1. m \in Messages /\ DeliveredOnce(m)
    BY <1>5 DEF Stored, SendInv
  <2>2. \A c \in Creators : Handles(c, m)' => Handles(c, m)
    BY <1>1, <1>5 DEF Handles, Handling
  <2>3. CASE attempts'[m]["primary"] = attempts[m]["primary"]
    BY <2>1, <2>2, <2>3 DEF DeliveredOnce
  <2>4. CASE /\ attempts'[m]["primary"] = attempts[m]["primary"] + 1
             /\ \E c \in Creators : Handles(c, m) /\ Served(c)'
    <3>1. PICK c \in Creators : Handles(c, m) /\ Served(c)'
      BY <2>4
    <3>2. /\ attempts'[m]["primary"] = 1
          /\ \A d \in Creators : Handles(d, m) => c = d
      BY <2>1, <2>4, <3>1 DEF DeliveredOnce
    <3>3. \A d \in Creators : ~Handles(d, m)'
      BY <2>2, <3>1, <3>2 DEF Handles, Handling, Served
    <3> QED BY <3>2, <3>3 DEF DeliveredOnce
  <2> QED BY <2>1, <2>3, <2>4
<1>6. ASSUME NEW m \in Stored', key'[m] # None
      PROVE  attempts'[m]["primary"] <= Cardinality(Callers(m)')
  <2>1. m \in Messages /\ attempts[m]["primary"] <= Cardinality(Callers(m))
    BY <1>6 DEF Stored, SendInv
  <2>2. /\ IsFiniteSet(Callers(m)) /\ IsFiniteSet(Callers(m)')
        /\ Callers(m) \subseteq Callers(m)'
    <3>1. Callers(m) \subseteq Creators /\ Callers(m)' \subseteq Creators
      BY DEF Callers
    <3>2. Callers(m) \subseteq Callers(m)'
      BY DEF Callers
    <3> QED BY <3>1, <3>2, FS_Subset, SubmissionsAssumption
  <2>3. /\ Cardinality(Callers(m)) \in Nat /\ Cardinality(Callers(m)') \in Nat
        /\ Cardinality(Callers(m)) <= Cardinality(Callers(m)')
    BY <2>2, FS_Subset, FS_CardinalityType
  <2>4. attempts[m]["primary"] \in Nat
    BY <2>1 DEF TypeInv, TypeOK, ProcessorTypeOK, Legs
  <2>5. CASE attempts'[m]["primary"] = attempts[m]["primary"]
    BY <2>1, <2>3, <2>4, <2>5
  <2>6. CASE /\ attempts'[m]["primary"] = attempts[m]["primary"] + 1
             /\ \E c \in Creators : Handles(c, m) /\ Served(c)'
    <3>1. PICK c \in Creators : Handles(c, m) /\ Served(c)'
      BY <2>6
    <3>2. c \notin Callers(m) /\ c \in Callers(m)'
      <4>1. key[m] = KeyOf[c]
        BY <1>3, <2>1, <3>1
      <4> QED BY <3>1, <4>1 DEF Callers, Handles, Handling, Served
    <3>3. Cardinality(Callers(m) \cup {c}) = Cardinality(Callers(m)) + 1
      BY <2>2, <3>2, FS_AddElement
    <3>4. Cardinality(Callers(m) \cup {c}) <= Cardinality(Callers(m)')
      <4>1. Callers(m) \cup {c} \subseteq Callers(m)'
        BY <2>2, <3>2
      <4> QED BY <2>2, <4>1, FS_Subset
    <3> QED BY <2>1, <2>3, <2>4, <2>6, <3>3, <3>4
  <2> QED BY <2>1, <2>5, <2>6
<1> QED BY <1>2, <1>4, <1>5, <1>6 DEF SendInv

\* A step of session s
LEMMA GoSends ==
    ASSUME TypeInv, KeyInv, SendInv, key' = key, Stored' = Stored,
           NEW s \in Sessions, NEW pc, NEW op, NEW m, NEW rec, NEW batch,
           Go(s, pc, op, m, rec, batch),
           pc \in Handling =>
               IF s \in Creators
               THEN /\ op \in Delivering /\ key[m] = KeyOf[s]
                    /\ Handles(s, m) \/ KeyOf[s] # None
               ELSE op \notin Delivering,
           s \in Creators /\ Served(s) => pc \in {"next", "done"},
           \A n \in Messages :
               \/ attempts'[n]["primary"] = attempts[n]["primary"]
               \/ /\ attempts'[n]["primary"] = attempts[n]["primary"] + 1
                  /\ s \in Creators /\ Handles(s, n) /\ pc = "next"
    PROVE  SendInv'
<1>1. /\ ses'[s].pc = pc /\ ses'[s].op = op /\ ses'[s].msg = m
      /\ \A t \in Sessions \ {s} : ses'[t] = ses[t]
  BY DEF Go, TypeInv, TypeOK, ProcessorTypeOK
<1>2. Creators \subseteq Sessions
  BY SessionsAssumption DEF Requests
<1>3. ASSUME NEW t \in Sessions, ses'[t].pc \in Handling
      PROVE  IF t \in Creators
             THEN /\ ses'[t].op \in Delivering /\ key[ses'[t].msg] = KeyOf[t]
                  /\ Handles(t, ses'[t].msg) \/ KeyOf[t] # None
             ELSE ses'[t].op \notin Delivering
  <2>1. CASE t = s
    BY <1>1, <1>3, <2>1
  <2>2. CASE t # s
    BY <1>1, <1>3, <2>2 DEF SendInv, SubmissionsDeliver, Handles
  <2> QED BY <2>1, <2>2
<1>4. \A c \in Creators : Served(c) => Served(c)'
  BY <1>1, <1>2 DEF Served
<1>5. \A n \in Messages :
          \/ attempts'[n]["primary"] = attempts[n]["primary"]
          \/ /\ attempts'[n]["primary"] = attempts[n]["primary"] + 1
             /\ \E c \in Creators : Handles(c, n) /\ Served(c)'
  BY <1>1 DEF Served
<1> QED BY <1>3, <1>4, <1>5, StepSends

\* A handler goes on with its message, or returns.
LEMMA OnwardSends ==
    ASSUME TypeInv, KeyInv, SendInv, key' = key, Stored' = Stored,
           NEW s \in Sessions, ses[s].pc \in Handling,
           NEW pc, NEW op, NEW m, NEW rec, NEW batch,
           Go(s, pc, op, m, rec, batch), attempts' = attempts,
           \/ pc = "next"
           \/ m = ses[s].msg /\ (op \in Delivering <=> ses[s].op \in Delivering)
    PROVE  SendInv'
<1>1. ~Served(s) /\ "next" \notin Handling
  BY DEF Served, Handling
<1>2. IF s \in Creators
      THEN ses[s].op \in Delivering /\ key[ses[s].msg] = KeyOf[s]
      ELSE ses[s].op \notin Delivering
  BY DEF SendInv, SubmissionsDeliver
<1>3. pc \in Handling =>
          IF s \in Creators
          THEN /\ op \in Delivering /\ key[m] = KeyOf[s]
               /\ Handles(s, m) \/ KeyOf[s] # None
          ELSE op \notin Delivering
  BY <1>1, <1>2 DEF Handles
<1> QED BY <1>1, <1>3, GoSends

LEMMA TransitionSends ==
    ASSUME TypeInv, KeyInv, SendInv, key' = key, Stored' = Stored,
           NEW s \in Sessions, ses[s].pc \in Handling,
           NEW op, op \in Delivering <=> ses[s].op \in Delivering,
           NEW record, NEW next,
           \/ Transition(s, op, ses[s].msg, record, next)
           \/ Update(s, op, ses[s].msg, record)
           \/ Begin(s, op, ses[s].msg)
           \/ Return(s, ses[s].msg),
           attempts' = attempts
    PROVE  SendInv'
<1> DEFINE m == ses[s].msg
           batch == [ses[s].batch EXCEPT ![m] = Blank]
           moved == [record EXCEPT !.current_state = next]
<1>1. \/ Go(s, "refetch", op, m, moved, batch)
      \/ Go(s, "refetch", op, m, record, batch)
      \/ Go(s, "read", op, m, Blank, ses[s].batch)
      \/ Go(s, "next", None, None, Blank, batch)
  BY DEF Transition, Update, Begin, Return
<1> HIDE DEF batch, moved
<1> QED BY <1>1, OnwardSends

\* A session that is not a submission calls no primary channel.
LEMMA OthersSend ==
    ASSUME TypeInv, KeyInv, SendInv, key' = key, Stored' = Stored,
           NEW s \in Sessions, s \notin Creators,
           NEW pc, NEW op, NEW m, NEW rec, NEW batch,
           Go(s, pc, op, m, rec, batch), attempts' = attempts,
           pc \in Handling => op \notin Delivering
    PROVE  SendInv'
BY GoSends

LEMMA EscalateSends ==
    ASSUME TypeInv, KeyInv, SendInv, UNCHANGED storeVars,
           NEW s \in Sessions, s \notin Creators, NEW m, NEW record,
           Escalate(s, m, record), attempts' = attempts
    PROVE  SendInv'
<1> DEFINE batch == [ses[s].batch EXCEPT ![m] = Blank]
<1>1. /\ key' = key /\ Stored' = Stored
      /\ "escalate_message" \notin Delivering /\ "next" \notin Handling
  BY SameStored DEF storeVars, Delivering, Handling
<1>2. \/ \E rec : Go(s, "refetch", "escalate_message", m, rec, batch)
      \/ Go(s, "next", None, None, Blank, batch)
  BY DEF Escalate, Transition, Update, Return
<1> HIDE DEF batch
<1> QED BY <1>1, <1>2, OthersSend

LEMMA ReadSends ==
    ASSUME TypeInv, KeyInv, SendInv, NEW s \in Sessions,
           \/ ProcessNewMessage(s) \/ AttemptDelivery(s)
           \/ AttemptFallback(s) \/ AcknowledgeMessage(s)
    PROVE  SendInv'
<1>1. UNCHANGED storeVars /\ attempts' = attempts /\ ses[s].pc \in Handling
  BY DEF ProcessNewMessage, AttemptDelivery, AttemptFallback, AcknowledgeMessage,
         At, Handling
<1>2. key' = key /\ Stored' = Stored
  BY <1>1, SameStored DEF storeVars
<1>3. PICK op, record, next :
          /\ op \in Delivering <=> ses[s].op \in Delivering
          /\ \/ Transition(s, op, ses[s].msg, record, next)
             \/ Update(s, op, ses[s].msg, record)
             \/ Begin(s, op, ses[s].msg)
             \/ Return(s, ses[s].msg)
  <2>1. CASE ProcessNewMessage(s)
    BY <2>1 DEF ProcessNewMessage, At, Delivering
  <2>2. CASE AttemptDelivery(s)
    BY <2>2 DEF AttemptDelivery, At
  <2>3. CASE AttemptFallback(s)
    BY <2>3 DEF AttemptFallback, At
  <2>4. CASE AcknowledgeMessage(s)
    BY <2>4 DEF AcknowledgeMessage, At
  <2> QED BY <2>1, <2>2, <2>3, <2>4
<1> QED BY <1>1, <1>2, <1>3, TransitionSends

LEMMA RefetchSends ==
    ASSUME TypeInv, KeyInv, SendInv, NEW s \in Sessions, Refetch(s)
    PROVE  SendInv'
<1>1. /\ ses[s].pc = "refetch" /\ ses'[s].pc = "flush"
      /\ ses'[s].msg = ses[s].msg /\ ses'[s].op = ses[s].op
      /\ \A t \in Sessions \ {s} : ses'[t] = ses[t]
  BY DEF Refetch, TypeInv, TypeOK, ProcessorTypeOK, Session
<1>2. row' = row /\ key' = key /\ attempts' = attempts
  BY DEF Refetch, storeVars
<1>3. Stored' = Stored
  BY <1>2, SameStored
<1>4. ASSUME NEW t \in Sessions, ses'[t].pc \in Handling
      PROVE  IF t \in Creators
             THEN /\ ses'[t].op \in Delivering /\ key[ses'[t].msg] = KeyOf[t]
                  /\ Handles(t, ses'[t].msg) \/ KeyOf[t] # None
             ELSE ses'[t].op \notin Delivering
  <2>1. ses[t].pc \in Handling /\ ses'[t].op = ses[t].op /\ ses'[t].msg = ses[t].msg
    BY <1>1, <1>4 DEF Handling
  <2> QED BY <2>1 DEF SendInv, SubmissionsDeliver, Handles
<1>5. \A c \in Creators : Served(c) => Served(c)'
  BY <1>1, SessionsAssumption DEF Served, Requests
<1> QED BY <1>2, <1>3, <1>4, <1>5, StepSends

LEMMA FlushSends ==
    ASSUME TypeInv, KeyInv, SendInv, NEW s \in Sessions, Flush(s)
    PROVE  SendInv'
<1> DEFINE m == ses[s].msg
           op == ses[s].op
           batch == [ses[s].batch EXCEPT ![m] = Blank]
<1>1. row' = row /\ key' = key /\ attempts' = attempts /\ ses[s].pc \in Handling
  BY DEF Flush, WriteRow, Handling
<1>2. Stored' = Stored
  BY <1>1, SameStored
<1>3. \/ /\ op = "process_new_message"
         /\ Go(s, "read", "attempt_delivery", m, Blank, ses[s].batch)
      \/ Go(s, "send", op, m, ses[s].rec, ses[s].batch)
      \/ Go(s, "next", None, None, Blank, batch)
  BY DEF Flush, Begin, Return
<1>4. {"process_new_message", "attempt_delivery"} \subseteq Delivering
  BY DEF Delivering
<1> HIDE DEF batch
<1> QED BY <1>1, <1>2, <1>3, <1>4, OnwardSends

LEMMA SendSends ==
    ASSUME TypeInv, KeyInv, SendInv, NEW s \in Sessions, NEW channel,
           SendPrimary(s) \/ SendFallback(s, channel)
    PROVE  SendInv'
<1> DEFINE m == ses[s].msg
           batch == [ses[s].batch EXCEPT ![m] = Blank]
<1>1. ses[s].pc \in Handling /\ ses[s].pc = "send" /\ m \in Messages
  BY DEF SendPrimary, SendFallback, At, Handling, TypeInv, HandlersHaveMessage
<1>2. /\ row' = row /\ key' = key
      /\ Go(s, "next", None, None, Blank, batch)
  BY DEF SendPrimary, SendFallback, Save, WriteRow, Return
<1>3. Stored' = Stored
  BY <1>2, SameStored
<1>4. "next" \notin Handling /\ ~Served(s)
  BY <1>1 DEF Handling, Served
<1>5. ASSUME NEW n \in Messages
      PROVE  \/ attempts'[n]["primary"] = attempts[n]["primary"]
             \/ /\ attempts'[n]["primary"] = attempts[n]["primary"] + 1
                /\ s \in Creators /\ Handles(s, n)
  <2>1. CASE SendPrimary(s)
    <3>1. s \in Creators
      BY <1>1, <2>1 DEF SendPrimary, At, SendInv, SubmissionsDeliver, Delivering
    <3>2. attempts' = attempts \/ \E success : CallChannel(m, "primary", success)
      BY <2>1 DEF SendPrimary
    <3>3. CASE CallChannel(m, "primary", TRUE) \/ CallChannel(m, "primary", FALSE)
      <4>1. attempts' = [attempts EXCEPT ![m]["primary"] = @ + 1]
        BY <3>3 DEF CallChannel
      <4> QED BY <1>1, <3>1, <4>1
              DEF Handles, TypeInv, TypeOK, ProcessorTypeOK, Legs
    <3> QED BY <2>1, <3>3 DEF SendPrimary
  <2>2. CASE SendFallback(s, channel)
    <3>1. CASE \/ attempts' = [attempts EXCEPT ![m]["fallback"] = @ + 1]
               \/ attempts' = [attempts EXCEPT ![m]["unavailable"] = 1]
      BY <1>1, <3>1 DEF TypeInv, TypeOK, ProcessorTypeOK, Legs
    <3> QED BY <2>2, <3>1 DEF SendFallback, CallChannel
  <2> QED BY <2>1, <2>2
<1> HIDE DEF batch
<1> QED BY <1>2, <1>3, <1>4, <1>5, GoSends

LEMMA GotoSends ==
    ASSUME TypeInv, KeyInv, SendInv, UNCHANGED storeVars, attempts' = attempts,
           NEW s \in Sessions, ~Served(s), NEW pc \in {"insert", "done"}, Goto(s, pc)
    PROVE  SendInv'
<1>1. Go(s, pc, None, None, Blank, NoBatch)
  BY DEF Goto, Go, Fresh
<1>2. key' = key /\ Stored' = Stored /\ pc \notin Handling
  BY SameStored DEF storeVars, Handling
<1> QED BY <1>1, <1>2, GoSends

\* A submission handles what is stored and has its key.
LEMMA HandledStored ==
    ASSUME KeyInv, SendInv, NEW c \in Creators, NEW m, Handles(c, m)
    PROVE  m \in Stored /\ key[m] = KeyOf[c]
BY SessionsAssumption
   DEF Requests, Handles, KeyInv, WorksOnStored, SendInv, SubmissionsDeliver

\* A new message is handled by the submission that has created it, alone.
LEMMA InsertSends ==
    ASSUME TypeInv, KeyInv, SendInv, NEW c \in Creators, Insert(c)
    PROVE  SendInv'
<1>1. /\ Creators \subseteq Sessions /\ c \in Sessions
      /\ ses[c].pc = "insert" /\ attempts' = attempts
      /\ ~Served(c)
  BY SessionsAssumption DEF Requests, Insert, Served
<1>2. CASE Goto(c, "done") /\ UNCHANGED storeVars
  BY <1>1, <1>2, GotoSends
<1>3. ASSUME NEW m \in Messages, NEW pol \in Policies,
             InsertRow(m, KeyOf[c], pol), Begin(c, "process_new_message", m)
      PROVE  SendInv'
  <2>1. /\ m \notin Stored
        /\ key'[m] = KeyOf[c]
        /\ \A n \in Messages \ {m} : key'[n] = key[n] /\ row'[n] = row[n]
        /\ row'[m].current_state = "PENDING"
    BY <1>3 DEF InsertRow, TypeInv, TypeOK, StoreTypeOK, Blank
  <2>2. Stored' = Stored \cup {m}
    BY <1>3, <2>1 DEF Stored
  <2>3. /\ ses'[c].pc = "read" /\ ses'[c].op = "process_new_message"
        /\ ses'[c].msg = m
        /\ \A t \in Sessions \ {c} : ses'[t] = ses[t]
    BY <1>1, <1>3 DEF Begin, Go, TypeInv, TypeOK, ProcessorTypeOK
  <2>4. \A t \in Sessions \ {c} : ses[t].pc \in Handling => ses[t].msg \in Stored
    BY DEF KeyInv, WorksOnStored
  <2>5. \A t \in Sessions \ {c} :
            ses[t].pc \in Handling => key'[ses[t].msg] = key[ses[t].msg]
    BY <2>1, <2>4 DEF Stored
  <2>6. SubmissionsDeliver'
    <3> SUFFICES ASSUME NEW t \in Sessions, ses'[t].pc \in Handling
                 PROVE  IF t \in Creators
                        THEN /\ ses'[t].op \in Delivering
                             /\ key'[ses'[t].msg] = KeyOf[t]
                        ELSE ses'[t].op \notin Delivering
      BY DEF SubmissionsDeliver, Handling, Delivering
    <3>1. CASE t = c
      BY <2>1, <2>3, <3>1 DEF Delivering
    <3>2. CASE t # c
      BY <2>3, <2>5, <3>2 DEF SendInv, SubmissionsDeliver
    <3> QED BY <3>1, <3>2
  <2>7. ASSUME NEW n \in Messages \ Stored'
        PROVE  attempts'[n]["primary"] = 0
    BY <1>1, <2>2 DEF SendInv
  <2>8. /\ attempts'[m]["primary"] = 0
        /\ \A d \in Creators : Handles(d, m)' => d = c
        /\ IsFiniteSet(Callers(m)')
    <3>1. \A d \in Creators \ {c} : ~Handles(d, m)
      BY <2>1, HandledStored
    <3>2. \A d \in Creators : Handles(d, m)' => d = c
      BY <1>1, <2>3, <3>1 DEF Handles, Handling
    <3>3. Callers(m)' \subseteq Creators
      BY DEF Callers
    <3> QED BY <1>1, <2>1, <3>2, <3>3, FS_Subset, SubmissionsAssumption DEF SendInv
  <2>9. DeliveredOnce(m)' /\ attempts'[m]["primary"] <= Cardinality(Callers(m)')
    BY <2>8, FS_CardinalityType DEF DeliveredOnce
  <2>10. ASSUME NEW n \in Stored
         PROVE  IF key'[n] = None
                THEN DeliveredOnce(n)'
                ELSE attempts'[n]["primary"] <= Cardinality(Callers(n)')
    <3>1. n # m /\ key'[n] = key[n]
      BY <2>1 DEF Stored
    <3>2. \A d \in Creators : Handles(d, n)' => Handles(d, n)
      BY <1>1, <2>3, <3>1 DEF Handles, Handling
    <3>3. \A d \in Creators : Served(d)' <=> Served(d)
      BY <1>1, <2>3 DEF Served
    <3>4. Callers(n)' = Callers(n)
      BY <3>1, <3>3 DEF Callers
    <3>5. CASE key[n] = None
      BY <1>1, <3>1, <3>2, <3>5 DEF SendInv, DeliveredOnce
    <3>6. CASE key[n] # None
      BY <1>1, <3>1, <3>4, <3>6 DEF SendInv
    <3> QED BY <3>1, <3>5, <3>6
  <2> QED BY <2>2, <2>6, <2>7, <2>9, <2>10 DEF SendInv
<1> QED BY <1>1, <1>2, <1>3 DEF Insert

LEMMA ArriveSends ==
    ASSUME TypeInv, KeyInv, SendInv, Arrive
    PROVE  SendInv'
<1>1. PICK s \in Sessions : \/ s \in Creators /\ Create(s)
                            \/ s \in Ackers /\ Acknowledge(s)
                            \/ s \in Escalators /\ ManualEscalate(s)
                            \/ s \in Retriers /\ RetryFallback(s)
  BY SessionsAssumption DEF Arrive, Requests
<1>2. UNCHANGED storeVars /\ attempts' = attempts /\ ses[s].pc = "idle"
  BY <1>1 DEF Create, Acknowledge, ManualEscalate, RetryFallback
<1>3. key' = key /\ Stored' = Stored /\ ~Served(s)
  BY <1>2, SameStored DEF storeVars, Served
<1>4. Creators \cap (Ackers \cup Escalators \cup Retriers) = {}
  BY SessionsAssumption
<1>5. CASE Goto(s, "insert") \/ Goto(s, "done")
  BY <1>2, <1>3, <1>5, GotoSends
<1>6. CASE s \in Creators /\ Create(s)
  <2>1. ASSUME NEW m \in Stored, KeyOf[s] # None, key[m] = KeyOf[s],
               Begin(s, "process_new_message", m)
        PROVE  SendInv'
    <3>1. Go(s, "read", "process_new_message", m, Blank, ses[s].batch)
      BY <2>1 DEF Begin
    <3>2. "process_new_message" \in Delivering
      BY DEF Delivering
    <3> QED BY <1>2, <1>3, <1>6, <2>1, <3>1, <3>2, GoSends
  <2> QED BY <1>5, <1>6, <2>1 DEF Create
<1>7. ASSUME s \notin Creators, NEW m, NEW op, op \notin Delivering, Begin(s, op, m)
      PROVE  SendInv'
  BY <1>2, <1>3, <1>7, OthersSend DEF Begin
<1>8. CASE s \in Ackers /\ Acknowledge(s)
  BY <1>4, <1>7, <1>8 DEF Acknowledge, Delivering
<1>9. CASE s \in Escalators /\ ManualEscalate(s)
  BY <1>2, <1>4, <1>5, <1>9, EscalateSends DEF ManualEscalate
<1>10. CASE s \in Retriers /\ RetryFallback(s)
  BY <1>4, <1>5, <1>7, <1>10 DEF RetryFallback, Delivering
<1> QED BY <1>1, <1>6, <1>8, <1>9, <1>10

\* No pass lists a message that is QUEUED, so none leads to attempt_delivery.
LEMMA PassSends ==
    ASSUME TypeInv, DurableInv, KeyInv, SendInv, Pass
    PROVE  SendInv'
<1>1. /\ {DeadlineLoop, FallbackLoop, RetryLoop} \subseteq Sessions
      /\ {DeadlineLoop, FallbackLoop, RetryLoop} \cap Creators = {}
  BY SessionsAssumption DEF Loops, Requests
<1>2. UNCHANGED storeVars /\ attempts' = attempts
  BY DEF Pass, DeadlineScan, FallbackScan, RetryScan, Scan, DeadlineItem,
         FallbackItem, RetryItem
<1>3. key' = key /\ Stored' = Stored
  BY <1>2, SameStored DEF storeVars
<1>4. ASSUME NEW s \in Sessions \ Creators, NEW due, Scan(s, due)
      PROVE  SendInv'
  BY <1>2, <1>3, <1>4, OthersSend DEF Scan, Handling
<1>5. CASE DeadlineScan \/ FallbackScan \/ RetryScan
  BY <1>1, <1>4, <1>5 DEF DeadlineScan, FallbackScan, RetryScan
<1>6. CASE DeadlineItem
  BY <1>1, <1>2, <1>6, EscalateSends DEF DeadlineItem
<1>7. CASE FallbackItem
  BY <1>1, <1>2, <1>3, <1>7, OthersSend DEF FallbackItem, Begin, Delivering
<1>8. CASE RetryItem
  <2>1. \A m \in Messages : ses[RetryLoop].batch[m].current_state # "QUEUED"
    BY <1>1 DEF DurableInv, BatchesSettled, Settled, Transient
  <2> QED BY <1>1, <1>2, <1>8, <2>1, EscalateSends DEF RetryItem, Listed
<1> QED BY <1>5, <1>6, <1>7, <1>8 DEF Pass

\* Sessions come to rest: those of S, and no submission to be served again.
LEMMA RestSends ==
    ASSUME TypeInv, KeyInv, SendInv, key' = key, Stored' = Stored,
           attempts' = attempts,
           \A t \in Sessions :
               \/ ses'[t] = ses[t]
               \/ ses'[t].pc \in {"idle", "done"} /\ (t \in Creators => ses'[t].pc = "done")
    PROVE  SendInv'
<1>1. Creators \subseteq Sessions
  BY SessionsAssumption DEF Requests
<1>2. ASSUME NEW t \in Sessions, ses'[t].pc \in Handling
      PROVE  IF t \in Creators
             THEN /\ ses'[t].op \in Delivering /\ key[ses'[t].msg] = KeyOf[t]
                  /\ Handles(t, ses'[t].msg) \/ KeyOf[t] # None
             ELSE ses'[t].op \notin Delivering
  <2>1. ses'[t] = ses[t]
    BY <1>2 DEF Handling
  <2> QED BY <1>2, <2>1 DEF SendInv, SubmissionsDeliver, Handles
<1>3. \A c \in Creators : Served(c) => Served(c)'
  BY <1>1 DEF Served
<1> QED BY <1>2, <1>3, StepSends

LEMMA SendStep == TypeInv /\ DurableInv /\ KeyInv /\ SendInv /\ [Next]_vars => SendInv'
<1> SUFFICES ASSUME TypeInv, DurableInv, KeyInv, SendInv, [Next]_vars
             PROVE  SendInv'
  OBVIOUS
<1>1. CASE Arrive
  BY <1>1, ArriveSends
<1>2. ASSUME NEW c \in Creators, Insert(c)
      PROVE  SendInv'
  BY <1>2, InsertSends
<1>3. CASE Pass
  BY <1>3, PassSends
<1>4. ASSUME NEW s \in Sessions, Handle(s)
      PROVE  SendInv'
  BY <1>4, ReadSends, RefetchSends, FlushSends, SendSends DEF Handle
<1>5. Creators \cap Loops = {}
  BY SessionsAssumption DEF Loops, Requests
<1>6. ASSUME NEW s \in Sessions, Commit(s)
      PROVE  SendInv'
  <2>1. key' = key /\ attempts' = attempts
    BY <1>6 DEF Commit, CommitTransaction, EndTransactions
  <2>2. Stored' = Stored
    <3>1. row' = [m \in Messages |-> IF lock[m] = s THEN dirty[m] ELSE row[m]]
      BY <1>6 DEF Commit, CommitTransaction
    <3>2. s # None
      BY NoneAssumption
    <3> QED BY <3>1, <3>2 DEF Stored, KeyInv, LockedStored
  <2>3. /\ ses'[s].pc = IF s \in Loops THEN "idle" ELSE "done"
        /\ \A t \in Sessions \ {s} : ses'[t] = ses[t]
    BY <1>6 DEF Commit, Goto, Fresh, TypeInv, TypeOK, ProcessorTypeOK
  <2> QED BY <1>5, <2>1, <2>2, <2>3, RestSends
<1>7. CASE (\E m \in Messages : Elapse(m)) \/ UNCHANGED vars
  <2>1. row' = row /\ key' = key /\ attempts' = attempts /\ ses' = ses
    BY <1>7 DEF Elapse, vars, processorVars, storeVars
  <2> QED BY <2>1, SameStored, RestSends
<1>8. ASSUME NEW S \in SUBSET Sessions, Abort(S)
      PROVE  SendInv'
  <2>1. row' = row /\ key' = key /\ attempts' = attempts
    BY <1>8 DEF Abort, RollbackTransactions, EndTransactions
  <2>2. ASSUME NEW t \in Sessions
        PROVE  \/ ses'[t] = ses[t]
               \/ /\ ses'[t].pc \in {"idle", "done"}
                  /\ t \in Creators => ses'[t].pc = "done"
    BY <1>5, <1>8 DEF Abort, Fresh
  <2> QED BY <2>1, <2>2, SameStored, RestSends
<1>9. CASE \/ \E s \in Sessions : SessionError(s) \/ DeadlockVictim(s)
           \/ Crash
  BY <1>8, <1>9 DEF SessionError, DeadlockVictim, Crash
<1> QED BY <1>1, <1>2, <1>3, <1>4, <1>6, <1>7, <1>9 DEF Next, IdlePass

LEMMA SendInit == Init => SendInv
<1> SUFFICES ASSUME Init PROVE SendInv
  OBVIOUS
<1>1. /\ row = [m \in Messages |-> Blank]
      /\ attempts = [m \in Messages |-> [l \in Legs |-> 0]]
      /\ ses = [s \in Sessions |-> Fresh("idle")]
  BY DEF Init, StoreInit, ProcessorInit
<1>2. Stored = {}
  BY <1>1, BlankAbsent DEF Stored
<1>3. \A s \in Sessions : ses[s].pc \notin Handling
  BY <1>1 DEF Fresh, Handling
<1> QED BY <1>1, <1>2, <1>3 DEF SendInv, SubmissionsDeliver, Legs

LEMMA SendCorrect == Spec => []SendInv
BY TypeCorrect, DurableCorrect, KeyCorrect, SendInit, SendStep, PTL DEF Spec

\* Whatever fails, and however many submissions repeat a key, the primary channel
\* is called no more often for a message than it has been submitted: no loop, no
\* administrator and no restart goes back to it.
THEOREM SendsBounded == Spec => []SendsWithinSubmissions
<1>1. TypeInv /\ SendInv => SendsWithinSubmissions
  <2> SUFFICES ASSUME TypeInv, SendInv, NEW m \in Stored
               PROVE  attempts[m]["primary"] <= Submissions(m)
    BY DEF SendsWithinSubmissions
  <2>1. CASE key[m] = None
    BY <2>1 DEF SendInv, DeliveredOnce, Submissions
  <2>2. CASE key[m] # None
    <3> DEFINE submitted == {c \in Creators : KeyOf[c] = key[m]}
    <3>1. Callers(m) \subseteq submitted /\ submitted \subseteq Creators
      BY DEF Callers
    <3>2. /\ IsFiniteSet(Callers(m)) /\ IsFiniteSet(submitted)
          /\ Cardinality(Callers(m)) <= Cardinality(submitted)
      BY <3>1, FS_Subset, SubmissionsAssumption
    <3>3. /\ Cardinality(Callers(m)) \in Nat /\ Cardinality(submitted) \in Nat
          /\ attempts[m]["primary"] \in Nat
      BY <3>2, FS_CardinalityType
         DEF Stored, TypeInv, TypeOK, ProcessorTypeOK, Legs
    <3>4. attempts[m]["primary"] <= Cardinality(Callers(m))
      BY <2>2 DEF SendInv
    <3> QED BY <2>2, <3>2, <3>3, <3>4 DEF Submissions
  <2> QED BY <2>1, <2>2
<1> QED BY <1>1, TypeCorrect, SendCorrect, PTL

-----------------------------------------------------------------------------
(* No message is given up before its calls have been made.  The retries are    *)
(* counted in a column that sessions write over, so the proof compares what    *)
(* every record counts with the calls that have been made.                    *)

Calls(m) == attempts[m]["fallback"]

\* An attempt at the fallback of m has found no channel.
NoChannel(m) == attempts[m]["unavailable"] > 0

LEMMA CallsType == TypeInv => \A m \in Messages : Calls(m) \in Nat
BY DEF TypeInv, TypeOK, ProcessorTypeOK, Calls, Legs

\* What a step leaves alone, or only lets grow
Onward ==
    /\ \A m \in Stored : policy'[m] = policy[m]
    /\ \A m \in Messages : Calls(m)' \in Nat /\ Calls(m) <= Calls(m)'
    /\ \A m \in Messages : NoChannel(m) => NoChannel(m)'

\* A record that is right stays so.
LEMMA StaysRight ==
    ASSUME TypeInv, Onward, NEW m \in Stored, NEW r \in Row
    PROVE  /\ Counted(m, r) => Counted(m, r)'
           /\ Spent(m, r) => Spent(m, r)'
<1>1. /\ policy'[m] = policy[m] /\ m \in Messages
      /\ Calls(m) \in Nat /\ Calls(m)' \in Nat /\ Calls(m) <= Calls(m)'
  BY CallsType DEF Onward, Stored
<1>2. r.retry_count \in Nat
  BY DEF Row
<1>3. Counted(m, r) => Counted(m, r)'
  BY <1>1, <1>2 DEF Counted, Calls
<1>4. Spent(m, r) => Spent(m, r)'
  BY <1>1 DEF Onward, Spent, Calls, NoChannel, FALLBACK_RETRY_POLICY
<1> QED BY <1>3, <1>4

LEMMA BlankRight ==
    /\ TypeInv => \A m \in Messages : Rightly(m, Blank)
    /\ Onward => \A m \in Messages : Rightly(m, Blank)'
<1>1. ASSUME NEW n \in Nat
      PROVE  0 <= n
  OBVIOUS
<1>2. /\ Blank.current_state = "ABSENT" /\ Blank.retry_count = 0
  BY DEF Blank
<1> QED BY <1>1, <1>2, CallsType DEF Onward, Rightly, Counted, Spent, Calls

LEMMA SameOnward ==
    ASSUME TypeInv, policy' = policy, attempts' = attempts
    PROVE  Onward
BY CallsType DEF Onward, Calls, NoChannel

-----------------------------------------------------------------------------
(* Sessions                                                                 *)

LEMMA GoRight ==
    ASSUME TypeInv, KeyInv, RightInv, Onward, NEW s \in Sessions,
           NEW pc, NEW op, NEW m, NEW rec, NEW batch, Go(s, pc, op, m, rec, batch),
           pc \in Saving => Rightly(m, rec)',
           \A n \in Messages : Rightly(n, batch[n])'
    PROVE  \A t \in Sessions : SessionRight(t)'
<1>1. /\ ses'[s].pc = pc /\ ses'[s].msg = m
      /\ ses'[s].rec = rec /\ ses'[s].batch = batch
  BY DEF Go, TypeInv, TypeOK, ProcessorTypeOK
<1>2. SessionRight(s)'
  BY <1>1 DEF SessionRight, Saving
<1>3. ASSUME NEW t \in Sessions \ {s}
      PROVE  SessionRight(t)'
  <2>1. ses'[t] = ses[t] /\ SessionRight(t) /\ WorksOnStored(t)
    BY GoEffect DEF RightInv, KeyInv
  <2>2. ses[t].rec \in Row /\ \A n \in Messages : ses[t].batch[n] \in Row
    BY DEF TypeInv, TypeOK, ProcessorTypeOK, Session
  <2>3. ASSUME ses[t].pc \in Saving
        PROVE  Rightly(ses[t].msg, ses[t].rec)'
    <3>1. ses[t].msg \in Stored
      BY <2>1, <2>3 DEF WorksOnStored, Saving, Handling
    <3> QED BY <2>1, <2>2, <2>3, <3>1, StaysRight DEF SessionRight, Rightly
  <2>4. ASSUME NEW n \in Messages
        PROVE  Rightly(n, ses[t].batch[n])'
    <3>1. CASE ses[t].batch[n] = Blank
      BY <2>1, <3>1, BlankRight DEF Blank
    <3>2. CASE ses[t].batch[n] # Blank
      <4>1. n \in Stored
        BY <2>1, <3>2 DEF WorksOnStored
      <4> QED BY <2>1, <2>2, <4>1, StaysRight DEF SessionRight, Rightly
    <3> QED BY <3>1, <3>2
  <2> QED BY <2>1, <2>3, <2>4 DEF SessionRight, Saving
<1> QED BY <1>2, <1>3

\* The versions that others hold are left alone.
LEMMA VersionRight ==
    ASSUME TypeInv, KeyInv, RightInv, Onward, NEW m \in Messages, lock[m] # None,
           dirty'[m] = dirty[m]
    PROVE  Rightly(m, dirty[m])'
<1>1. m \in Stored /\ dirty[m] \in Row
  BY DEF KeyInv, LockedStored, TypeInv, TypeOK, StoreTypeOK
<1>2. Rightly(m, dirty[m])
  BY DEF RightInv, VersionsRight
<1>3. PICK version \in Row : version = dirty[m]
  BY <1>1
<1>4. Rightly(m, version)'
  BY <1>1, <1>2, <1>3, StaysRight DEF Rightly
<1> QED BY <1>3, <1>4 DEF Rightly, Counted, Spent

\* A step of one session that changes nothing else
LEMMA StepRight ==
    ASSUME TypeInv, KeyInv, RightInv, UNCHANGED <<storeVars, attempts>>,
           NEW s \in Sessions, NEW pc, NEW op, NEW m, NEW rec, NEW batch, Go(s, pc, op, m, rec, batch),
           pc \in Saving => Rightly(m, rec),
           \A n \in Messages : Rightly(n, batch[n])
    PROVE  RightInv'
<1>1. /\ row' = row /\ policy' = policy /\ lock' = lock /\ dirty' = dirty
      /\ attempts' = attempts
  BY DEF storeVars
<1>2. Onward
  BY <1>1, SameOnward
<1>3. \A n, r : Rightly(n, r) => Rightly(n, r)'
  BY <1>1 DEF Rightly, Counted, Spent
<1>4. RowsRight' /\ VersionsRight'
  BY <1>1, <1>3 DEF RightInv, RowsRight, VersionsRight, Rightly, Counted, Spent
<1>5. \A t \in Sessions : SessionRight(t)'
  BY <1>2, <1>3, GoRight
<1> QED BY <1>4, <1>5 DEF RightInv

LEMMA BatchesRight ==
    ASSUME TypeInv, RightInv, NEW s \in Sessions, NEW m
    PROVE  /\ \A n \in Messages : Rightly(n, ses[s].batch[n])
           /\ \A n \in Messages : Rightly(n, [ses[s].batch EXCEPT ![m] = Blank][n])
BY BatchType, BlankRight DEF RightInv, SessionRight

LEMMA BeginRight ==
    ASSUME TypeInv, KeyInv, RightInv, UNCHANGED <<storeVars, attempts>>,
           NEW s \in Sessions, NEW op, NEW m, Begin(s, op, m)
    PROVE  RightInv'
<1> DEFINE batch == ses[s].batch
<1>1. Go(s, "read", op, m, Blank, batch)
  BY DEF Begin
<1>2. \A n \in Messages : Rightly(n, batch[n])
  BY BatchesRight
<1> HIDE DEF batch
<1> QED BY <1>1, <1>2, StepRight DEF Saving

LEMMA ReturnRight ==
    ASSUME TypeInv, KeyInv, RightInv, UNCHANGED <<storeVars, attempts>>,
           NEW s \in Sessions, NEW m, Return(s, m)
    PROVE  RightInv'
<1> DEFINE batch == [ses[s].batch EXCEPT ![m] = Blank]
<1>1. Go(s, "next", None, None, Blank, batch)
  BY DEF Return
<1>2. \A n \in Messages : Rightly(n, batch[n])
  BY BatchesRight
<1> HIDE DEF batch
<1> QED BY <1>1, <1>2, StepRight DEF Saving

LEMMA UpdateRight ==
    ASSUME TypeInv, KeyInv, RightInv, UNCHANGED <<storeVars, attempts>>,
           NEW s \in Sessions, NEW op, NEW m, NEW record,
           Update(s, op, m, record), Rightly(m, record)
    PROVE  RightInv'
<1> DEFINE batch == [ses[s].batch EXCEPT ![m] = Blank]
<1>1. Go(s, "refetch", op, m, record, batch)
  BY DEF Update
<1>2. \A n \in Messages : Rightly(n, batch[n])
  BY BatchesRight
<1> HIDE DEF batch
<1> QED BY <1>1, <1>2, StepRight

\* Before its send no handler fails a message, and one is dead-lettered only if
\* its policy has no fallback.
LEMMA TransitionRight ==
    ASSUME TypeInv, KeyInv, RightInv, UNCHANGED <<storeVars, attempts>>,
           NEW s \in Sessions, NEW op, NEW m, NEW record \in Row, NEW next,
           Transition(s, op, m, record, next), Rightly(m, record),
           next # "FAILED", next = "DEAD_LETTER" => policy[m].fallback = None
    PROVE  RightInv'
<1> DEFINE moved == [record EXCEPT !.current_state = next]
<1>1. moved.current_state = next /\ moved.retry_count = record.retry_count
  BY DEF Row
<1>2. None \notin Registered
  BY NoneAssumption, DataAssumption
<1>3. CASE Update(s, op, m, moved)
  <2> HIDE DEF moved
  <2>1. Rightly(m, moved)
    BY <1>1, <1>2 DEF Rightly, Counted, Spent
  <2> QED BY <1>3, <2>1, UpdateRight
<1>4. CASE Return(s, m)
  BY <1>4, ReturnRight
<1> QED BY <1>3, <1>4 DEF Transition

LEMMA EscalateRight ==
    ASSUME TypeInv, KeyInv, RightInv, UNCHANGED <<storeVars, attempts>>,
           NEW s \in Sessions, NEW m, NEW record \in Row,
           Escalate(s, m, record), Rightly(m, record)
    PROVE  RightInv'
BY TransitionRight DEF Escalate

LEMMA GotoRight ==
    ASSUME TypeInv, KeyInv, RightInv, UNCHANGED <<storeVars, attempts>>,
           NEW s \in Sessions,
           NEW pc \in {"idle", "insert", "done"}, Goto(s, pc)
    PROVE  RightInv'
<1>1. Go(s, pc, None, None, Blank, NoBatch)
  BY DEF Goto, Go, Fresh
<1>2. \A n \in Messages : Rightly(n, NoBatch[n])
  BY BlankRight DEF NoBatch
<1> QED BY <1>1, <1>2, StepRight DEF Saving

\* What a session that is in a handler sees is right.
LEMMA ViewRight ==
    ASSUME RightInv, NEW s \in Sessions, NEW m \in Messages
    PROVE  Rightly(m, View(s, m))
<1>1. s # None
  BY NoneAssumption
<1> QED BY <1>1 DEF RightInv, RowsRight, VersionsRight, View, Rightly

-----------------------------------------------------------------------------
(* The actions, one lemma for each kind                                     *)

LEMMA ReadRight ==
    ASSUME TypeInv, KeyInv, RightInv, NEW s \in Sessions,
           \/ ProcessNewMessage(s) \/ AttemptDelivery(s)
           \/ AttemptFallback(s) \/ AcknowledgeMessage(s)
    PROVE  RightInv'
<1> DEFINE m == ses[s].msg
<1>1. m \in Messages /\ View(s, m) \in Row /\ ses[s].pc = "read"
  BY ViewType DEF ProcessNewMessage, AttemptDelivery, AttemptFallback,
                  AcknowledgeMessage, At, TypeInv, HandlersHaveMessage, Handling
<1>2. UNCHANGED <<storeVars, attempts>>
  BY DEF ProcessNewMessage, AttemptDelivery, AttemptFallback, AcknowledgeMessage
<1>3. Rightly(m, View(s, m))
  BY <1>1, ViewRight
<1>4. ASSUME NEW op, NEW next \in {"QUEUED", "SENDING", "FALLBACK_SENDING"},
             Transition(s, op, m, View(s, m), next)
      PROVE  RightInv'
  <2> HIDE DEF m
  <2> QED BY <1>1, <1>2, <1>3, <1>4, TransitionRight
<1>5. CASE ProcessNewMessage(s)
  BY <1>1, <1>2, <1>4, <1>5, BeginRight DEF ProcessNewMessage
<1>6. CASE AttemptDelivery(s)
  BY <1>4, <1>6 DEF AttemptDelivery
<1>7. CASE AttemptFallback(s)
  BY <1>2, <1>4, <1>7, ReturnRight DEF AttemptFallback
<1>8. CASE AcknowledgeMessage(s)
  <2> DEFINE record == [View(s, m) EXCEPT !.acknowledged_at = s]
  <2>1. /\ record \in Row /\ record.current_state = View(s, m).current_state
        /\ record.retry_count = View(s, m).retry_count
    BY <1>1 DEF Row
  <2>2. \/ Transition(s, "acknowledge_message", m, record, "ACKNOWLEDGED")
        \/ Update(s, "acknowledge_message", m, record)
    BY <1>8 DEF AcknowledgeMessage
  <2> HIDE DEF record, m
  <2>3. Rightly(m, record)
    BY <1>3, <2>1 DEF Rightly, Counted, Spent
  <2> QED BY <1>2, <2>1, <2>2, <2>3, TransitionRight, UpdateRight
<1> QED BY <1>5, <1>6, <1>7, <1>8

LEMMA RefetchRight ==
    ASSUME TypeInv, RightInv, NEW s \in Sessions, Refetch(s)
    PROVE  RightInv'
<1>1. /\ row' = row /\ policy' = policy /\ lock' = lock /\ dirty' = dirty
      /\ attempts' = attempts
  BY DEF Refetch, storeVars
<1>2. /\ ses[s].pc = "refetch" /\ ses'[s].pc = "flush"
      /\ ses'[s].msg = ses[s].msg /\ ses'[s].rec = ses[s].rec
      /\ ses'[s].batch = ses[s].batch
      /\ \A t \in Sessions \ {s} : ses'[t] = ses[t]
  BY DEF Refetch, TypeInv, TypeOK, ProcessorTypeOK, Session
<1>3. \A n, r : Rightly(n, r) => Rightly(n, r)'
  BY <1>1 DEF Rightly, Counted, Spent
<1>4. RowsRight' /\ VersionsRight'
  BY <1>1, <1>3 DEF RightInv, RowsRight, VersionsRight, Rightly, Counted, Spent
<1>5. ASSUME NEW t \in Sessions
      PROVE  SessionRight(t)'
  <2>1. /\ ses'[t].msg = ses[t].msg /\ ses'[t].rec = ses[t].rec
        /\ ses'[t].batch = ses[t].batch
        /\ ses'[t].pc \in Saving => ses[t].pc \in Saving
    BY <1>2 DEF Saving
  <2> QED BY <1>3, <2>1 DEF RightInv, SessionRight, Saving
<1> QED BY <1>4, <1>5 DEF RightInv

LEMMA RowStaysRight ==
    ASSUME TypeInv, RightInv, Onward, NEW m \in Messages, row'[m] = row[m]
    PROVE  Rightly(m, row[m])'
<1>1. PICK r \in Row : r = row[m]
  BY DEF TypeInv, TypeOK, StoreTypeOK
<1>2. Rightly(m, r)
  BY <1>1 DEF RightInv, RowsRight
<1>3. Rightly(m, r)'
  <2>1. CASE m \in Stored
    BY <1>2, <2>1, StaysRight DEF Rightly
  <2>2. CASE m \notin Stored
    <3>1. r.current_state = "ABSENT" /\ r.retry_count \in Nat
      BY <1>1, <2>2 DEF Stored, Row
    <3>2. Calls(m) \in Nat /\ Calls(m)' \in Nat /\ Calls(m) <= Calls(m)'
      BY CallsType DEF Onward
    <3> QED BY <1>2, <3>1, <3>2 DEF Rightly, Counted, Spent, Calls
  <2> QED BY <2>1, <2>2
<1> QED BY <1>1, <1>3 DEF Rightly, Counted, Spent

\* A session writes a version of its message and goes on.
LEMMA WriteRight ==
    ASSUME TypeInv, KeyInv, RightInv, Onward, NEW s \in Sessions,
           ses[s].pc \in {"flush", "send"}, NEW m \in Messages,
           NEW version, NEW facts, WriteRow(s, m, version, facts),
           Rightly(m, version)',
           NEW pc, NEW op, NEW msg, NEW rec, NEW batch,
           Go(s, pc, op, msg, rec, batch),
           pc \in Saving => Rightly(msg, rec)',
           \A n \in Messages : Rightly(n, batch[n])'
    PROVE  RightInv'
<1>1. /\ row' = row /\ lock'[m] = s /\ dirty'[m] = version
      /\ \A n \in Messages \ {m} : lock'[n] = lock[n] /\ dirty'[n] = dirty[n]
  BY DEF WriteRow, TypeInv, TypeOK, StoreTypeOK
<1>2. RowsRight'
  BY <1>1, RowStaysRight DEF RowsRight
<1>3. VersionsRight'
  <2> SUFFICES ASSUME NEW n \in Messages, lock'[n] # None
               PROVE  Rightly(n, dirty[n])'
    BY DEF VersionsRight
  <2>1. CASE n = m
    BY <1>1, <2>1 DEF Rightly, Counted, Spent
  <2>2. CASE n # m
    BY <1>1, <2>2, VersionRight
  <2> QED BY <2>1, <2>2
<1>4. \A t \in Sessions : SessionRight(t)'
  BY GoRight
<1> QED BY <1>2, <1>3, <1>4 DEF RightInv

LEMMA WrittenRight ==
    ASSUME NEW m, NEW record, NEW loaded, NEW current,
           Rightly(m, record), Rightly(m, current)
    PROVE  Rightly(m, Written(record, loaded, current))
<1> DEFINE version == Written(record, loaded, current)
<1>1. /\ version.current_state \in {record.current_state, current.current_state}
      /\ version.retry_count \in {record.retry_count, current.retry_count}
  BY DEF Written, Changed
<1> HIDE DEF version
<1>2. Rightly(m, version)
  BY <1>1 DEF Rightly, Counted, Spent
<1> QED BY <1>2 DEF version

LEMMA FlushRight ==
    ASSUME TypeInv, KeyInv, RightInv, NEW s \in Sessions, Flush(s)
    PROVE  RightInv'
<1>1. PICK m, op, rec, fact, version, batch :
          /\ m = ses[s].msg /\ op = ses[s].op /\ rec = ses[s].rec
          /\ fact = FactOf(op, rec) /\ batch = ses[s].batch
          /\ version = Written(rec, ses[s].loaded, View(s, m))
  OBVIOUS
<1>2. ses[s].pc = "flush" /\ m \in Messages
  BY <1>1 DEF Flush, TypeInv, HandlersHaveMessage, Handling
<1>3. WriteRow(s, m, version, {fact}) /\ attempts' = attempts /\ policy' = policy
  BY <1>1 DEF Flush, WriteRow
<1>4. Rightly(m, rec)
  BY <1>1, <1>2 DEF RightInv, SessionRight, Saving
<1>5. Rightly(m, version)
  BY <1>1, <1>2, <1>4, ViewRight, WrittenRight
<1> DEFINE left == [batch EXCEPT ![m] = Blank]
<1>6. \A n \in Messages : Rightly(n, batch[n]) /\ Rightly(n, left[n])
  BY <1>1, BatchesRight
<1>7. \/ Go(s, "read", "attempt_delivery", m, Blank, batch)
      \/ Go(s, "send", op, m, rec, batch)
      \/ Go(s, "next", None, None, Blank, left)
  BY <1>1 DEF Flush, Begin, Return
<1> HIDE DEF left
<1>8. Onward
  BY <1>3, SameOnward
<1>9. \A n, r : Rightly(n, r) => Rightly(n, r)'
  BY <1>3 DEF Rightly, Counted, Spent
<1>10. Rightly(m, version)' /\ Rightly(m, rec)'
  BY <1>4, <1>5, <1>9
<1>11. \A n \in Messages : Rightly(n, batch[n])' /\ Rightly(n, left[n])'
  BY <1>6, <1>9
<1>12. "read" \notin Saving /\ "next" \notin Saving
  BY DEF Saving
<1>13. CASE Go(s, "read", "attempt_delivery", m, Blank, batch)
  BY <1>2, <1>3, <1>8, <1>10, <1>11, <1>12, <1>13, WriteRight
<1>14. CASE Go(s, "send", op, m, rec, batch)
  BY <1>2, <1>3, <1>8, <1>10, <1>11, <1>14, WriteRight
<1>15. CASE Go(s, "next", None, None, Blank, left)
  BY <1>2, <1>3, <1>8, <1>10, <1>11, <1>12, <1>15, WriteRight
<1> QED BY <1>7, <1>13, <1>14, <1>15

\* The outcome of a send, given what every record of m may say after it
LEMMA ThenRight ==
    ASSUME NEW m, NEW o, o.rec \in Row, NEW next, NEW fact, Rightly(m, o.rec)',
           next = "FAILED" =>
               (policy[m].fallback = None \/ policy[m].primary \notin Registered)',
           next = "DEAD_LETTER" =>
               \/ (policy[m].fallback \notin Registered)'
               \/ (Calls(m) >= FALLBACK_RETRY_POLICY.max_retries)'
               \/ NoChannel(m)'
    PROVE  Rightly(m, Then(o, next, fact).rec)'
<1> DEFINE moved == [o.rec EXCEPT !.current_state = next]
<1>1. moved.current_state = next /\ moved.retry_count = o.rec.retry_count
  BY DEF Row
<1>2. Then(o, next, fact) = o \/ Then(o, next, fact).rec = moved
  BY DEF Then, Outcome
<1> HIDE DEF moved
<1>3. Rightly(m, moved)'
  BY <1>1 DEF Rightly, Counted, Spent, Calls, NoChannel, FALLBACK_RETRY_POLICY
<1> QED BY <1>2, <1>3

LEMMA PrimaryRight ==
    ASSUME NEW m, NEW record \in Row, Rightly(m, record)',
           NEW hasFallback \in BOOLEAN, NEW success \in BOOLEAN,
           ~hasFallback => policy'[m].fallback = None
    PROVE  Rightly(m, PrimaryOutcome(record, hasFallback, success).rec)'
<1> DEFINE sent == Outcome(record, {"send_attempt"})
           late == Then(sent, "SENT_TO_CHANNEL", "send_failed")
<1>1. sent.rec = record
  BY DEF Outcome
<1>2. late.rec \in Row
  BY ThenType DEF MessageStates, EventTypes
<1>3. /\ Rightly(m, late.rec)'
      /\ Rightly(m, Then(sent, "SENT_TO_CHANNEL", "send_success").rec)'
  BY <1>1, ThenRight
<1>4. ~hasFallback => Rightly(m, Then(sent, "FAILED", "send_failed").rec)'
  BY <1>1, ThenRight
<1> HIDE DEF sent, late
<1>5. Rightly(m, Then(late, "ESCALATION_PENDING", "escalation_triggered").rec)'
  BY <1>2, <1>3, ThenRight
<1> QED BY <1>3, <1>4, <1>5 DEF PrimaryOutcome, sent, late

\* A failed call is counted once it has been made, and the message is dead when
\* as many as the policy allows have been counted.
LEMMA FallbackRight ==
    ASSUME NEW m, NEW record \in Row, Rightly(m, record)',
           Calls(m)' \in Nat, record.retry_count + 1 <= Calls(m)',
           NEW success \in BOOLEAN
    PROVE  Rightly(m, FallbackOutcome(record, success).rec)'
<1> DEFINE tries == record.retry_count + 1
           facts == {"fallback_attempt"}
           failed == [record EXCEPT !.retry_count = tries]
           deferred == [failed EXCEPT !.next_retry_at = tries]
<1>1. tries \in Nat
  BY DEF Row
<1>2. /\ failed \in Row /\ failed.current_state = record.current_state
      /\ failed.retry_count = tries
  BY <1>1 DEF Row
<1>3. /\ deferred \in Row /\ deferred.current_state = failed.current_state
      /\ deferred.retry_count = tries
  BY <1>1, <1>2 DEF Row
<1>4. \A r, fs : Outcome(r, fs).rec = r
  BY DEF Outcome
<1>5. FallbackOutcome(record, success) =
        IF success
        THEN Then(Outcome(record, facts), "FALLBACK_DELIVERED", "fallback_success")
        ELSE IF ShouldRetry(FALLBACK_RETRY_POLICY, tries)
             THEN Then(Outcome(deferred, facts), "ESCALATION_DEFERRED",
                       "escalation_deferred")
             ELSE Then(Outcome(failed, facts), "DEAD_LETTER", "dead_letter")
  BY DEF FallbackOutcome
<1>6. tries <= Calls(m)'
  OBVIOUS
<1> HIDE DEF tries, failed, deferred, facts
<1>7. Rightly(m, failed)' /\ Rightly(m, deferred)'
  BY <1>2, <1>3, <1>6 DEF Rightly, Counted, Spent, Calls
<1>8. ~ShouldRetry(FALLBACK_RETRY_POLICY, tries)
        => (Calls(m) >= FALLBACK_RETRY_POLICY.max_retries)'
  BY <1>1, <1>6 DEF ShouldRetry, FALLBACK_RETRY_POLICY
<1>9. Rightly(m, Then(Outcome(record, facts), "FALLBACK_DELIVERED",
                      "fallback_success").rec)'
  BY <1>4, ThenRight
<1>10. Rightly(m, Then(Outcome(deferred, facts), "ESCALATION_DEFERRED",
                       "escalation_deferred").rec)'
  BY <1>3, <1>4, <1>7, ThenRight
<1>11. ~ShouldRetry(FALLBACK_RETRY_POLICY, tries)
         => Rightly(m, Then(Outcome(failed, facts), "DEAD_LETTER", "dead_letter").rec)'
  BY <1>2, <1>4, <1>7, <1>8, ThenRight
<1> QED BY <1>5, <1>9, <1>10, <1>11

LEMMA SaveRight ==
    ASSUME TypeInv, DurableInv, KeyInv, RightInv, Onward, NEW s \in Sessions,
           ses[s].pc = "send", NEW m, m = ses[s].msg, NEW o, Save(s, o),
           Rightly(m, o.rec)',
           \A n \in Messages, r \in Row : Rightly(n, r) => Rightly(n, r)'
    PROVE  RightInv'
<1>1. PICK version, batch :
          /\ version = IF o.rec.current_state = ses[s].rec.current_state
                       THEN dirty[m] ELSE o.rec
          /\ batch = [ses[s].batch EXCEPT ![m] = Blank]
  OBVIOUS
<1>2. m \in Messages /\ lock[m] # None
  BY NoneAssumption DEF TypeInv, HandlersHaveMessage, Handling, DurableInv, SendersHold
<1>3. dirty[m] \in Row /\ Rightly(m, dirty[m])
  BY <1>2 DEF RightInv, VersionsRight, TypeInv, TypeOK, StoreTypeOK
<1>4. PICK held \in Row : held = dirty[m]
  BY <1>3
<1>5. Rightly(m, version)'
  BY <1>1, <1>2, <1>3, <1>4
<1>6. WriteRow(s, m, version, o.facts)
  BY <1>1 DEF Save
<1>7. Go(s, "next", None, None, Blank, batch)
  BY <1>1 DEF Save, Return
<1>8. \A n \in Messages : Rightly(n, batch[n])'
  <2>1. batch \in [Messages -> Row] /\ \A n \in Messages : Rightly(n, batch[n])
    BY <1>1, BatchesRight, BatchType
  <2> QED BY <2>1
<1>9. "next" \notin Saving
  BY DEF Saving
<1> QED BY <1>2, <1>5, <1>6, <1>7, <1>8, <1>9, WriteRight

LEMMA SendRight ==
    ASSUME TypeInv, DurableInv, KeyInv, RightInv, NEW s \in Sessions, NEW channel,
           SendPrimary(s) \/ SendFallback(s, channel)
    PROVE  RightInv'
<1>1. PICK m, rec : m = ses[s].msg /\ rec = ses[s].rec
  OBVIOUS
<1>2. /\ ses[s].pc = "send" /\ m \in Messages /\ rec \in Row
      /\ rec.current_state \in Transient /\ rec.retry_count \in Nat
  BY <1>1 DEF SendPrimary, SendFallback, At, TypeInv, TypeOK, ProcessorTypeOK,
              Session, HandlersHaveMessage, Handling, DurableInv, SendersHold,
              Aim, Transient, Row
<1>3. Rightly(m, rec)
  BY <1>1, <1>2 DEF RightInv, SessionRight, Saving
<1>4. policy' = policy /\ Return(s, m)
  BY <1>1 DEF SendPrimary, SendFallback, Save, WriteRow
<1>5. ASSUME \A n \in Messages : /\ Calls(n)' \in Nat /\ Calls(n) <= Calls(n)'
                                 /\ NoChannel(n) => NoChannel(n)'
      PROVE  /\ Onward
             /\ \A n \in Messages, r \in Row : Rightly(n, r) => Rightly(n, r)'
  <2>1. Onward
    BY <1>4, <1>5 DEF Onward
  <2>2. ASSUME NEW n \in Messages, NEW r \in Row, Rightly(n, r)
        PROVE  Rightly(n, r)'
    <3>1. r.retry_count \in Nat
      BY DEF Row
    <3>2. Calls(n) \in Nat
      BY CallsType
    <3> QED BY <1>4, <1>5, <2>2, <3>1, <3>2
            DEF Rightly, Counted, Spent, Calls, NoChannel, FALLBACK_RETRY_POLICY
  <2> QED BY <2>1, <2>2
<1>6. ASSUME attempts' = attempts, policy[m].primary \notin Registered,
             Save(s, Then(Outcome(rec, {}), "FAILED", "send_failed"))
      PROVE  RightInv'
  <2>1. Onward /\ \A n \in Messages, r \in Row : Rightly(n, r) => Rightly(n, r)'
    BY <1>5, <1>6, CallsType DEF Calls, NoChannel
  <2>2. Rightly(m, Then(Outcome(rec, {}), "FAILED", "send_failed").rec)'
    BY <1>2, <1>3, <1>4, <1>6, <2>1, ThenRight DEF Outcome
  <2> QED BY <1>1, <1>2, <1>6, <2>1, <2>2, SaveRight
<1>7. ASSUME NEW leg \in Legs, attempts' = [attempts EXCEPT ![m][leg] = @ + 1]
      PROVE  /\ Onward
             /\ \A n \in Messages, r \in Row : Rightly(n, r) => Rightly(n, r)'
             /\ leg = "fallback" => Calls(m)' = Calls(m) + 1
  <2>1. \A n \in Messages, l \in Legs :
           /\ attempts[n][l] \in Nat
           /\ attempts'[n][l] = IF n = m /\ l = leg THEN attempts[n][l] + 1
                                                    ELSE attempts[n][l]
    BY <1>2, <1>7 DEF TypeInv, TypeOK, ProcessorTypeOK
  <2>2. \A n \in Messages : /\ Calls(n)' \in Nat /\ Calls(n) <= Calls(n)'
                            /\ NoChannel(n) => NoChannel(n)'
    BY <2>1 DEF Calls, NoChannel, Legs
  <2>3. leg = "fallback" => Calls(m)' = Calls(m) + 1
    BY <1>2, <2>1 DEF Calls, NoChannel
  <2> QED BY <1>5, <2>2, <2>3
<1>8. ASSUME attempts' = [attempts EXCEPT ![m]["unavailable"] = 1],
             Save(s, Then(Outcome(rec, {}), "DEAD_LETTER", "dead_letter"))
      PROVE  RightInv'
  <2>3. \A n \in Messages, l \in Legs :
           /\ attempts[n][l] \in Nat
           /\ attempts'[n][l] = IF n = m /\ l = "unavailable" THEN 1 ELSE attempts[n][l]
    BY <1>2, <1>8 DEF TypeInv, TypeOK, ProcessorTypeOK
  <2>4. \A n \in Messages : /\ Calls(n)' \in Nat /\ Calls(n) <= Calls(n)'
                            /\ NoChannel(n) => NoChannel(n)'
    BY <2>3 DEF Calls, NoChannel, Legs
  <2>5. NoChannel(m)'
    BY <1>2, <2>3 DEF NoChannel, Legs
  <2>1. /\ Onward /\ NoChannel(m)'
        /\ \A n \in Messages, r \in Row : Rightly(n, r) => Rightly(n, r)'
    BY <1>5, <2>4, <2>5
  <2>2. Rightly(m, Then(Outcome(rec, {}), "DEAD_LETTER", "dead_letter").rec)'
    BY <1>2, <1>3, <2>1, ThenRight DEF Outcome
  <2> QED BY <1>1, <1>2, <1>8, <2>1, <2>2, SaveRight
<1>9. ASSUME NEW success \in BOOLEAN, CallChannel(m, "primary", success),
             Save(s, PrimaryOutcome(rec, policy[m].fallback # None, success))
      PROVE  RightInv'
  <2>1. Onward /\ \A n \in Messages, r \in Row : Rightly(n, r) => Rightly(n, r)'
    BY <1>7, <1>9 DEF CallChannel, Legs
  <2>2. PICK o : o = PrimaryOutcome(rec, policy[m].fallback # None, success)
    OBVIOUS
  <2>3. Rightly(m, o.rec)'
    BY <1>2, <1>3, <1>4, <2>1, <2>2, PrimaryRight
  <2>4. Save(s, o)
    BY <1>9, <2>2
  <2> QED BY <1>1, <1>2, <2>1, <2>3, <2>4, SaveRight
<1>10. ASSUME NEW success \in BOOLEAN, CallChannel(m, "fallback", success),
              Save(s, FallbackOutcome(rec, success))
       PROVE  RightInv'
  <2>1. /\ Onward /\ Calls(m)' = Calls(m) + 1
        /\ \A n \in Messages, r \in Row : Rightly(n, r) => Rightly(n, r)'
    BY <1>7, <1>10 DEF CallChannel, Legs
  <2>2. rec.retry_count <= Calls(m) /\ Calls(m) \in Nat
    BY <1>2, <1>3, CallsType DEF Rightly, Counted, Calls
  <2>3. Calls(m)' \in Nat /\ rec.retry_count + 1 <= Calls(m)'
    BY <1>2, <2>1, <2>2
  <2>4. Rightly(m, FallbackOutcome(rec, success).rec)'
    BY <1>2, <1>3, <2>1, <2>3, FallbackRight
  <2> QED BY <1>1, <1>2, <1>10, <2>1, <2>4, SaveRight
<1> QED BY <1>1, <1>6, <1>8, <1>9, <1>10 DEF SendPrimary, SendFallback

LEMMA InsertRight ==
    ASSUME TypeInv, KeyInv, RightInv, NEW c \in Creators, Insert(c)
    PROVE  RightInv'
<1>1. c \in Sessions /\ attempts' = attempts
  BY SessionsAssumption DEF Requests, Insert
<1>2. CASE Goto(c, "done") /\ UNCHANGED storeVars
  BY <1>1, <1>2, GotoRight
<1>3. ASSUME NEW m \in Messages, NEW pol \in Policies,
             InsertRow(m, KeyOf[c], pol), Begin(c, "process_new_message", m)
      PROVE  RightInv'
  <2>1. /\ m \notin Stored /\ lock' = lock /\ dirty' = dirty
        /\ row'[m].current_state = "PENDING" /\ row'[m].retry_count = 0
        /\ \A n \in Messages \ {m} : policy'[n] = policy[n] /\ row'[n] = row[n]
    BY <1>3 DEF InsertRow, Blank, TypeInv, TypeOK, StoreTypeOK
  <2>2. PICK batch : batch = ses[c].batch
    OBVIOUS
  <2>3. Go(c, "read", "process_new_message", m, Blank, batch)
    BY <1>3, <2>2 DEF Begin
  <2>4. Onward
    BY <1>1, <2>1, CallsType DEF Onward, Calls, NoChannel, Stored
  <2>5. RowsRight'
    <3>1. Rightly(m, row[m])'
      <4>1. 0 <= Calls(m)'
        BY <1>1, CallsType DEF Calls
      <4> QED BY <2>1, <4>1 DEF Rightly, Counted, Spent, Calls
    <3>2. \A n \in Messages \ {m} : Rightly(n, row[n])'
      BY <2>1, <2>4, RowStaysRight
    <3> QED BY <3>1, <3>2 DEF RowsRight
  <2>6. VersionsRight'
    BY <2>1, <2>4, VersionRight DEF VersionsRight
  <2>7. \A n \in Messages : Rightly(n, batch[n])'
    <3> SUFFICES ASSUME NEW n \in Messages PROVE Rightly(n, batch[n])'
      OBVIOUS
    <3>1. batch[n] \in Row /\ Rightly(n, batch[n])
      BY <1>1, <2>2, BatchesRight, BatchType
    <3>2. CASE batch[n] = Blank
      BY <2>4, <3>2, BlankRight
    <3>3. CASE batch[n] # Blank
      <4>1. n \in Stored
        BY <1>1, <2>2, <3>3 DEF KeyInv, WorksOnStored
      <4> QED BY <2>4, <3>1, <4>1, StaysRight DEF Rightly
    <3> QED BY <3>2, <3>3
  <2>8. "read" \notin Saving
    BY DEF Saving
  <2>9. \A t \in Sessions : SessionRight(t)'
    BY <1>1, <2>3, <2>4, <2>7, <2>8, GoRight
  <2> QED BY <2>5, <2>6, <2>9 DEF RightInv
<1> QED BY <1>2, <1>3 DEF Insert

LEMMA ArriveRight ==
    ASSUME TypeInv, KeyInv, RightInv, Arrive
    PROVE  RightInv'
<1>1. PICK s \in Sessions : \/ s \in Creators /\ Create(s)
                            \/ s \in Ackers /\ Acknowledge(s)
                            \/ s \in Escalators /\ ManualEscalate(s)
                            \/ s \in Retriers /\ RetryFallback(s)
  BY SessionsAssumption DEF Arrive, Requests
<1>2. UNCHANGED <<storeVars, attempts>>
  BY <1>1 DEF Create, Acknowledge, ManualEscalate, RetryFallback
<1>3. \A m \in Messages : row[m] \in Row /\ Rightly(m, row[m])
  BY DEF TypeInv, TypeOK, StoreTypeOK, RightInv, RowsRight
<1>4. Stored \subseteq Messages
  BY DEF Stored
<1>5. CASE Goto(s, "insert") \/ Goto(s, "done")
  BY <1>2, <1>5, GotoRight
<1>6. ASSUME NEW m, NEW op, Begin(s, op, m)
      PROVE  RightInv'
  BY <1>2, <1>6, BeginRight
<1>7. ASSUME NEW m \in Messages, Escalate(s, m, row[m])
      PROVE  RightInv'
  BY <1>2, <1>3, <1>7, EscalateRight
<1>8. CASE Create(s)
  BY <1>5, <1>6, <1>8 DEF Create
<1>9. CASE Acknowledge(s)
  BY <1>6, <1>9 DEF Acknowledge
<1>10. CASE ManualEscalate(s)
  BY <1>4, <1>5, <1>7, <1>10 DEF ManualEscalate
<1>11. CASE RetryFallback(s)
  BY <1>5, <1>6, <1>11 DEF RetryFallback
<1> QED BY <1>1, <1>8, <1>9, <1>10, <1>11

LEMMA PassRight ==
    ASSUME TypeInv, KeyInv, RightInv, Pass
    PROVE  RightInv'
<1>1. Loops \subseteq Sessions
  BY SessionsAssumption
<1>2. DeadlineLoop \in Loops /\ FallbackLoop \in Loops /\ RetryLoop \in Loops
  BY DEF Loops
<1>3. UNCHANGED <<storeVars, attempts>>
  BY DEF Pass, Scan, DeadlineScan, DeadlineItem, FallbackScan, FallbackItem,
         RetryScan, RetryItem
<1>4. ASSUME NEW s \in Loops, NEW due, Scan(s, due)
      PROVE  RightInv'
  <2> DEFINE batch == [m \in Messages |-> IF m \in due THEN row[m] ELSE Blank]
  <2>1. \A n \in Messages : Rightly(n, batch[n])
    BY BlankRight DEF RightInv, RowsRight
  <2>2. Go(s, "next", None, None, Blank, batch)
    BY <1>4 DEF Scan
  <2> HIDE DEF batch
  <2> QED BY <1>1, <1>3, <2>1, <2>2, StepRight DEF Saving
<1>5. CASE DeadlineScan \/ FallbackScan \/ RetryScan
  BY <1>2, <1>4, <1>5 DEF DeadlineScan, FallbackScan, RetryScan
<1>6. ASSUME NEW s \in Loops, NEW m \in Listed(s)
      PROVE  ses[s].batch[m] \in Row /\ Rightly(m, ses[s].batch[m])
  <2>1. s \in Sessions /\ m \in Messages
    BY <1>1 DEF Listed
  <2>2. \A n \in Messages : Rightly(n, ses[s].batch[n])
    BY <2>1, BatchesRight
  <2> QED BY <2>1, <2>2 DEF TypeInv, TypeOK, ProcessorTypeOK, Session
<1>7. CASE DeadlineItem
  BY <1>1, <1>2, <1>3, <1>6, <1>7, EscalateRight DEF DeadlineItem
<1>8. CASE FallbackItem
  BY <1>1, <1>2, <1>3, <1>8, BeginRight DEF FallbackItem
<1>9. CASE RetryItem
  BY <1>1, <1>2, <1>3, <1>6, <1>9, BeginRight, EscalateRight DEF RetryItem
<1> QED BY <1>5, <1>7, <1>8, <1>9 DEF Pass

\* The transactions of S end, and the sessions of S come to rest.
LEMMA EndRight ==
    ASSUME TypeInv, KeyInv, RightInv, Onward, RowsRight', NEW S \in SUBSET Sessions,
           EndTransactions(S),
           \A t \in Sessions \ S : ses'[t] = ses[t],
           \A t \in S : /\ ses'[t].pc \notin Saving
                        /\ ses'[t].batch \in {ses[t].batch, NoBatch}
    PROVE  RightInv'
<1>1. VersionsRight'
  BY VersionRight DEF VersionsRight, EndTransactions
<1>2. ASSUME NEW t \in Sessions
      PROVE  SessionRight(t)'
  <2>1. /\ WorksOnStored(t) /\ SessionRight(t)
        /\ ses[t].rec \in Row /\ \A n \in Messages : ses[t].batch[n] \in Row
    BY DEF KeyInv, RightInv, TypeInv, TypeOK, ProcessorTypeOK, Session
  <2>2. ASSUME NEW n \in Messages
        PROVE  Rightly(n, ses[t].batch[n])'
    <3>1. PICK left \in Row : left = ses[t].batch[n]
      BY <2>1
    <3>2. Rightly(n, left)'
      <4>1. CASE left = Blank
        BY <4>1, BlankRight
      <4>2. CASE left # Blank
        <5>1. n \in Stored
          BY <2>1, <3>1, <4>2 DEF WorksOnStored
        <5> QED BY <2>1, <3>1, <5>1, StaysRight DEF SessionRight, Rightly
      <4> QED BY <4>1, <4>2
    <3>3. ses'[t].batch[n] \in {left, Blank}
      BY <3>1 DEF NoBatch
    <3> QED BY <3>2, <3>3, BlankRight
  <2>3. ASSUME ses'[t].pc \in Saving
        PROVE  Rightly(ses[t].msg, ses[t].rec)'
    <3>1. ses'[t] = ses[t]
      BY <2>3
    <3>2. ses[t].msg \in Stored
      BY <2>1, <2>3, <3>1 DEF WorksOnStored, Saving, Handling
    <3> QED BY <2>1, <2>3, <3>1, <3>2, StaysRight DEF SessionRight, Rightly, Saving
  <2> QED BY <2>2, <2>3 DEF SessionRight, Saving
<1> QED BY <1>1, <1>2 DEF RightInv

LEMMA CommitRight ==
    ASSUME TypeInv, KeyInv, RightInv, NEW s \in Sessions, Commit(s)
    PROVE  RightInv'
<1>1. /\ EndTransactions({s}) /\ policy' = policy /\ attempts' = attempts
      /\ row' = [m \in Messages |-> IF lock[m] = s THEN dirty[m] ELSE row[m]]
  BY DEF Commit, CommitTransaction, EndTransactions
<1>2. /\ ses[s].pc = "next"
      /\ ses'[s].pc = IF s \in Loops THEN "idle" ELSE "done"
      /\ ses'[s].batch = NoBatch
      /\ \A t \in Sessions \ {s} : ses'[t] = ses[t]
  BY DEF Commit, Goto, Fresh, TypeInv, TypeOK, ProcessorTypeOK
<1>3. Onward
  BY <1>1, SameOnward
<1>4. ASSUME NEW m \in Messages
      PROVE  Rightly(m, row[m])'
  <2>1. CASE lock[m] = s
    <3>1. PICK version \in Row : version = dirty[m]
      BY DEF TypeInv, TypeOK, StoreTypeOK
    <3>2. m \in Stored /\ lock[m] # None
      BY <2>1, NoneAssumption DEF KeyInv, LockedStored
    <3>3. Rightly(m, version)
      BY <2>1, <3>1, <3>2 DEF RightInv, VersionsRight
    <3>4. Rightly(m, version)'
      BY <1>3, <3>2, <3>3, StaysRight DEF Rightly
    <3>5. row'[m] = version
      BY <1>1, <2>1, <3>1
    <3> QED BY <3>4, <3>5 DEF Rightly, Counted, Spent
  <2>2. CASE lock[m] # s
    BY <1>1, <1>3, <2>2, RowStaysRight
  <2> QED BY <2>1, <2>2
<1>5. RowsRight'
  BY <1>4 DEF RowsRight
<1> QED BY <1>1, <1>2, <1>3, <1>5, EndRight DEF Saving

LEMMA AbortRight ==
    ASSUME TypeInv, KeyInv, RightInv, NEW S \in SUBSET Sessions, Abort(S)
    PROVE  RightInv'
<1>1. /\ EndTransactions(S) /\ policy' = policy /\ attempts' = attempts
      /\ row' = row
  BY DEF Abort, RollbackTransactions, EndTransactions
<1>2. \A t \in Sessions \ S : ses'[t] = ses[t]
  BY DEF Abort
<1>3. \A t \in S : ~Running(t) => ses'[t] = ses[t]
  BY DEF Abort
<1>4. Onward
  BY <1>1, SameOnward
<1>5. RowsRight'
  BY <1>1, <1>4, RowStaysRight DEF RowsRight
<1>6. \A t \in S : Running(t) => ses'[t].pc \in {"idle", "done"} /\ ses'[t].batch = NoBatch
  <2>1. ASSUME NEW t \in S, Running(t)
        PROVE  ses'[t] = Fresh("idle") \/ ses'[t] = Fresh("done")
    BY <2>1 DEF Abort
  <2> QED BY <2>1 DEF Fresh
<1>7. \A t \in S : /\ ses'[t].pc \notin Saving
                   /\ ses'[t].batch \in {ses[t].batch, NoBatch}
  BY <1>3, <1>6 DEF Running, Saving
<1> QED BY <1>1, <1>2, <1>4, <1>5, <1>7, EndRight

LEMMA RightStep == TypeInv /\ DurableInv /\ KeyInv /\ RightInv /\ [Next]_vars => RightInv'
<1> SUFFICES ASSUME TypeInv, DurableInv, KeyInv, RightInv, [Next]_vars
             PROVE  RightInv'
  OBVIOUS
<1>1. CASE Arrive
  BY <1>1, ArriveRight
<1>2. ASSUME NEW c \in Creators, Insert(c)
      PROVE  RightInv'
  BY <1>2, InsertRight
<1>3. CASE Pass
  BY <1>3, PassRight
<1>4. ASSUME NEW s \in Sessions, Handle(s)
      PROVE  RightInv'
  <2>1. CASE \/ ProcessNewMessage(s) \/ AttemptDelivery(s)
             \/ AttemptFallback(s) \/ AcknowledgeMessage(s)
    BY <2>1, ReadRight
  <2>2. CASE Refetch(s)
    BY <2>2, RefetchRight
  <2>3. CASE Flush(s)
    BY <2>3, FlushRight
  <2>4. CASE SendPrimary(s) \/ \E channel \in Channels : SendFallback(s, channel)
    BY <2>4, SendRight
  <2> QED BY <1>4, <2>1, <2>2, <2>3, <2>4 DEF Handle
<1>5. ASSUME NEW s \in Sessions, Commit(s)
      PROVE  RightInv'
  BY <1>5, CommitRight
<1>6. CASE (\E m \in Messages : Elapse(m)) \/ UNCHANGED vars
  <2>1. /\ row' = row /\ policy' = policy /\ lock' = lock /\ dirty' = dirty
        /\ ses' = ses /\ attempts' = attempts
    BY <1>6 DEF Elapse, vars, processorVars, storeVars
  <2>2. \A m, r : /\ Counted(m, r) => Counted(m, r)'
                  /\ Spent(m, r) => Spent(m, r)'
    BY <2>1 DEF Counted, Spent
  <2>3. RowsRight'
    BY <2>1, <2>2 DEF RightInv, RowsRight, Rightly
  <2>4. VersionsRight'
    BY <2>1 DEF RightInv, VersionsRight, Rightly, Counted, Spent
  <2>5. \A s \in Sessions : SessionRight(s)'
    BY <2>1, <2>2 DEF RightInv, SessionRight, Saving, Rightly
  <2> QED BY <2>3, <2>4, <2>5 DEF RightInv
<1>7. CASE \/ \E s \in Sessions : SessionError(s) \/ DeadlockVictim(s)
           \/ Crash
  <2>1. ASSUME NEW s \in Sessions, Abort({s})
        PROVE  RightInv'
    BY <2>1, AbortRight
  <2>2. CASE Crash
    BY <2>2, AbortRight DEF Crash
  <2> QED BY <1>7, <2>1, <2>2 DEF SessionError, DeadlockVictim
<1> QED BY <1>1, <1>2, <1>3, <1>4, <1>5, <1>6, <1>7 DEF Next, IdlePass

LEMMA RightInit == Init => RightInv
<1> SUFFICES ASSUME Init PROVE RightInv
  OBVIOUS
<1>1. TypeInv
  BY TypeInit
<1>2. /\ row = [m \in Messages |-> Blank] /\ lock = [m \in Messages |-> None]
      /\ \A s \in Sessions : ses[s].pc = "idle" /\ ses[s].batch = NoBatch
  BY DEF Init, StoreInit, ProcessorInit, Fresh
<1>3. \A m \in Messages : Rightly(m, row[m]) /\ Rightly(m, NoBatch[m])
  BY <1>1, <1>2, BlankRight DEF NoBatch
<1> QED BY <1>2, <1>3 DEF RightInv, RowsRight, VersionsRight, SessionRight, Saving

\* What is counted has been tried, in every reachable state.
LEMMA RightCorrect == Spec => []RightInv
BY TypeCorrect, DurableCorrect, KeyCorrect, RightInit, RightStep, PTL DEF Spec

\* _handle_fallback_send_failure and _handle_send_failure never close a message
\* before its calls have been made, whatever handlers write over one another's
\* retry_count: a dead one with a usable fallback has had max_retries of them (the
\* first included), or an attempt that found no channel; a FAILED one has no
\* fallback or no usable primary.
THEOREM GivenUpOnlyAfterCalls == Spec => []NotGivenUpEarly
<1>1. RightInv => NotGivenUpEarly
  BY DEF RightInv, RowsRight, Rightly, Counted, Spent, NotGivenUpEarly, Committed
<1> QED BY <1>1, RightCorrect, PTL
=============================================================================
