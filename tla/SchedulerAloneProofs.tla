------------------------- MODULE SchedulerAloneProofs -------------------------
(***************************************************************************)
(* Theorems about the scheduler left alone: no record a session works with  *)
(* is stale, because the committed state of a message says which session     *)
(* may have it in hand.  The reports on it rest on the same.                 *)
(***************************************************************************)
EXTENDS GatewayProofs, Metrics, Sums, SequenceTheorems

Sound(s) == HandlerCurrent(s) /\ BatchCurrent(s)

\* The version of m that a session holds may be committed, now or later.
VersionSound(m) ==
    IF Settled(dirty[m]) THEN Regular(m, dirty[m]) /\ Succeeds(dirty[m], row[m])
                         ELSE dirty[m].retry_count = row[m].retry_count

\* A step of session s that writes at most versions of what it has in hand, and
\* takes in hand at most what nobody has
LEMMA AdvanceAlone ==
    ASSUME TypeInv, LoneInv, NEW s \in Sessions,
           row' = row, key' = key, policy' = policy, failures' = failures,
           \A t \in Sessions \ {s} : ses'[t] = ses[t],
           \A n \in Messages :
               \/ /\ lock'[n] = lock[n] /\ dirty'[n] = dirty[n]
                  /\ attempts'[n] = attempts[n]
               \/ /\ InHand(s, n) /\ lock[n] \in {None, s} /\ lock'[n] = s
                  /\ VersionSound(n)'
                  /\ attempts'[n]["fallback"] <= Tries(dirty'[n]) + failures,
           \A n \in Messages : InHand(s, n)' =>
               \/ InHand(s, n)
               \/ /\ Responsible(s, row[n].current_state)
                  /\ \A t \in Sessions : ~InHand(t, n),
           s \in Creators /\ ses[s].pc \notin {"idle", "insert"} =>
               ses'[s].pc \notin {"idle", "insert"},
           Sound(s)'
    PROVE  LoneInv'
<1>1. ASSUME NEW t \in Sessions \ {s}, NEW n \in Messages, InHand(t, n)'
      PROVE  InHand(t, n)
  BY <1>1 DEF InHand
<1>2. ASSUME NEW t \in Sessions \ {s}, NEW n \in Messages, InHand(t, n)
      PROVE  /\ ~InHand(s, n)
             /\ lock'[n] = lock[n] /\ dirty'[n] = dirty[n]
  BY <1>2 DEF LoneInv, Undivided
<1>3. Responsibilities'
  BY <1>1 DEF LoneInv, Responsibilities
<1>4. Undivided'
  BY <1>1 DEF LoneInv, Undivided
<1>5. KeysUsed'
  <2>1. Stored' = Stored
    BY DEF Stored
  <2>2. \A c \in Creators : ses[c].pc \notin {"idle", "insert"} =>
                            ses'[c].pc \notin {"idle", "insert"}
    BY SessionsAssumption DEF Requests
  <2> QED BY <2>1, <2>2 DEF LoneInv, KeysUsed
<1>6. RowsRegular'
  BY DEF LoneInv, RowsRegular, Regular
<1>7. ASSUME NEW t \in Sessions
      PROVE  Sound(t)'
  <2>1. CASE t = s
    BY <2>1
  <2>2. CASE t # s
    <3>1. ses'[t] = ses[t] /\ Sound(t)
      BY <2>2 DEF LoneInv, Sound
    <3>2. HandlerCurrent(t)'
      <4>1. CASE ses[t].pc \notin Handling
        BY <3>1, <4>1 DEF HandlerCurrent, Handling
      <4>2. CASE ses[t].pc \in Handling
        <5>1. PICK n \in Messages : n = ses[t].msg
          BY <4>2 DEF TypeInv, HandlersHaveMessage
        <5>2. InHand(t, n)
          BY <4>2, <5>1 DEF InHand
        <5>3. lock'[n] = lock[n] /\ dirty'[n] = dirty[n]
          BY <1>2, <2>2, <5>2
        <5>4. /\ row'[n] = row[n] /\ policy'[n] = policy[n]
              /\ View(t, n)' = View(t, n)
              /\ \A st : Moved(n, st)' = Moved(n, st)
          BY <3>1, <5>3 DEF View, Moved
        <5> QED BY <3>1, <4>2, <5>1, <5>3, <5>4 DEF Sound, HandlerCurrent
      <4> QED BY <4>1, <4>2
    <3>3. BatchCurrent(t)'
      <4> SUFFICES ASSUME NEW n \in Messages, ses[t].batch[n] # Blank
                   PROVE  ses[t].batch[n] = row[n] /\ lock'[n] # t
        BY <3>1 DEF BatchCurrent, Blank
      <4>1. InHand(t, n)
        BY DEF InHand
      <4> QED BY <1>2, <2>2, <3>1, <4>1 DEF Sound, BatchCurrent
    <3> QED BY <3>2, <3>3 DEF Sound
  <2> QED BY <2>1, <2>2
<1>8. VersionsSucceed'
  <2> SUFFICES ASSUME NEW n \in Messages, lock'[n] # None
               PROVE  VersionSound(n)'
    BY DEF VersionsSucceed, VersionSound
  <2>1. CASE lock'[n] = lock[n] /\ dirty'[n] = dirty[n]
    BY <2>1 DEF LoneInv, VersionsSucceed, VersionSound, Settled, Regular, Succeeds
  <2> QED BY <2>1
<1>9. CallsCounted'
  <2> SUFFICES ASSUME NEW n \in Messages
               PROVE  (attempts[n]["fallback"] <=
                          Tries(IF lock[n] = None THEN row[n] ELSE dirty[n]) + failures)'
    BY DEF CallsCounted
  <2>1. s # None
    BY NoneAssumption
  <2>2. CASE /\ lock'[n] = lock[n] /\ dirty'[n] = dirty[n]
             /\ attempts'[n] = attempts[n]
    BY <2>2 DEF LoneInv, CallsCounted
  <2> QED BY <2>1, <2>2
<1> QED BY <1>3, <1>4, <1>5, <1>6, <1>7, <1>8, <1>9 DEF LoneInv, Sound

-----------------------------------------------------------------------------
(* Steps that write nothing                                                 *)

Unwritten == UNCHANGED <<storeVars, attempts, failures>>

LEMMA GoAlone ==
    ASSUME TypeInv, LoneInv, Unwritten, NEW s \in Sessions,
           NEW pc, NEW op, NEW m, NEW rec, NEW batch, Go(s, pc, op, m, rec, batch),
           \A n \in Messages : batch[n] \in {Blank, ses[s].batch[n]},
           pc \in Handling => m \in Messages /\ InHand(s, m),
           pc \in {"idle", "insert"} => s \notin Creators \/ ses[s].pc = "idle",
           HandlerCurrent(s)'
    PROVE  LoneInv'
<1>1. /\ row' = row /\ key' = key /\ policy' = policy /\ failures' = failures
      /\ lock' = lock /\ dirty' = dirty /\ attempts' = attempts
  BY DEF Unwritten, storeVars
<1>2. /\ ses'[s].pc = pc /\ ses'[s].msg = m /\ ses'[s].batch = batch
      /\ \A t \in Sessions \ {s} : ses'[t] = ses[t]
  BY DEF Go, TypeInv, TypeOK, ProcessorTypeOK
<1>3. BatchCurrent(s)'
  <2>1. BatchCurrent(s)
    BY DEF LoneInv
  <2> QED BY <1>1, <1>2, <2>1 DEF BatchCurrent, Blank
<1>4. ASSUME NEW n \in Messages, InHand(s, n)'
      PROVE  InHand(s, n)
  <2>1. CASE batch[n] # Blank
    BY <2>1 DEF InHand
  <2>2. CASE pc \in Handling /\ m = n
    BY <2>2
  <2>3. CASE lock[n] = s
    BY <2>3 DEF InHand
  <2> QED BY <1>1, <1>2, <1>4, <2>1, <2>2, <2>3 DEF InHand, Handling, Blank
<1>5. Sound(s)'
  BY <1>3 DEF Sound
<1>6. s \in Creators /\ ses[s].pc \notin {"idle", "insert"} => ses'[s].pc \notin {"idle", "insert"}
  BY <1>2
<1> QED BY <1>1, <1>2, <1>4, <1>5, <1>6, AdvanceAlone

\* A session leaves its handler, or has none.
LEMMA LeaveAlone ==
    ASSUME TypeInv, LoneInv, Unwritten, NEW s \in Sessions,
           NEW pc, NEW op, NEW m, NEW rec, NEW batch, Go(s, pc, op, m, rec, batch),
           \A n \in Messages : batch[n] \in {Blank, ses[s].batch[n]},
           pc \notin Handling,
           pc \in {"idle", "insert"} => s \notin Creators \/ ses[s].pc = "idle"
    PROVE  LoneInv'
<1>1. ses'[s].pc = pc
  BY DEF Go, TypeInv, TypeOK, ProcessorTypeOK
<1>2. HandlerCurrent(s)'
  BY <1>1 DEF HandlerCurrent, Handling
<1> QED BY <1>2, GoAlone

LEMMA ReturnAlone ==
    ASSUME TypeInv, LoneInv, Unwritten, NEW s \in Sessions, NEW m, Return(s, m)
    PROVE  LoneInv'
<1> DEFINE batch == [ses[s].batch EXCEPT ![m] = Blank]
<1>1. Go(s, "next", None, None, Blank, batch)
  BY DEF Return
<1>2. \A n \in Messages : batch[n] \in {Blank, ses[s].batch[n]}
  BY BatchType
<1>3. "next" \notin Handling
  BY DEF Handling
<1> HIDE DEF batch
<1> QED BY <1>1, <1>2, <1>3, LeaveAlone

LEMMA BeginAlone ==
    ASSUME TypeInv, LoneInv, Unwritten, NEW s \in Sessions, NEW m \in Messages,
           InHand(s, m), NEW op, Begin(s, op, m),
           row[m].current_state \in Origin(op), op # "escalate_message",
           lock[m] = s <=> op = "attempt_delivery",
           op = "attempt_delivery" => dirty[m] = Moved(m, "QUEUED")
    PROVE  LoneInv'
<1>1. PICK batch : batch = ses[s].batch
  OBVIOUS
<1>2. Go(s, "read", op, m, Blank, batch)
  BY <1>1 DEF Begin
<1>3. ses'[s].pc = "read" /\ ses'[s].op = op /\ ses'[s].msg = m
  BY <1>2 DEF Go, TypeInv, TypeOK, ProcessorTypeOK
<1>4. row' = row /\ lock' = lock /\ dirty' = dirty
  BY DEF Unwritten, storeVars
<1>5. HandlerCurrent(s)'
  BY <1>3, <1>4 DEF HandlerCurrent, Saving, Moved
<1>6. \A n \in Messages : batch[n] \in {Blank, ses[s].batch[n]}
  BY <1>1
<1> QED BY <1>2, <1>5, <1>6, GoAlone

\* update() of the committed row, moved to the state its handler aims at
LEMMA UpdateAlone ==
    ASSUME TypeInv, LoneInv, Unwritten, NEW s \in Sessions, NEW m \in Messages,
           InHand(s, m), NEW op, Update(s, op, m, Moved(m, Target(op))),
           row[m].current_state \in Origin(op),
           op = "escalate_message" => policy[m].fallback # None,
           lock[m] = s <=> op = "attempt_delivery",
           op = "attempt_delivery" => dirty[m] = Moved(m, "QUEUED")
    PROVE  LoneInv'
<1> DEFINE batch == [ses[s].batch EXCEPT ![m] = Blank]
<1>1. PICK rec : rec = Moved(m, Target(op))
  OBVIOUS
<1>2. Go(s, "refetch", op, m, rec, batch)
  BY <1>1 DEF Update
<1>3. \A n \in Messages : batch[n] \in {Blank, ses[s].batch[n]}
  BY BatchType
<1>9. batch[m] = Blank
  BY DEF TypeInv, TypeOK, ProcessorTypeOK, Session
<1> HIDE DEF batch
<1>4. /\ ses'[s].pc = "refetch" /\ ses'[s].op = op /\ ses'[s].msg = m
      /\ ses'[s].rec = rec /\ ses'[s].batch = batch
  BY <1>2 DEF Go, TypeInv, TypeOK, ProcessorTypeOK
<1>5. row' = row /\ lock' = lock /\ dirty' = dirty /\ policy' = policy
  BY DEF Unwritten, storeVars
<1>6. HandlerCurrent(s)'
  BY <1>1, <1>4, <1>5, <1>9 DEF HandlerCurrent, Moved
<1> QED BY <1>2, <1>3, <1>6, GoAlone

\* A loop escalates a message it has listed.
LEMMA EscalateAlone ==
    ASSUME TypeInv, LoneInv, Unwritten, NEW s \in Sessions, NEW m \in Messages,
           ses[s].batch[m] # Blank,
           row[m].current_state \in {"SENT_TO_CHANNEL", "ESCALATION_DEFERRED"},
           Escalate(s, m, ses[s].batch[m])
    PROVE  LoneInv'
<1>1. InHand(s, m) /\ ses[s].batch[m] = row[m] /\ lock[m] # s
  BY DEF InHand, LoneInv, BatchCurrent
<1>2. CASE policy[m].fallback # None
  <2>1. CanTransition(row[m].current_state, "ESCALATION_PENDING")
    BY DEF CanTransition, ValidTransitions
  <2>2. Update(s, "escalate_message", m, Moved(m, Target("escalate_message")))
    BY <1>1, <1>2, <2>1 DEF Escalate, Transition, Moved, Target
  <2> QED BY <1>1, <1>2, <2>2, UpdateAlone DEF Origin
<1>3. CASE policy[m].fallback = None
  <2>1. row[m].current_state = "SENT_TO_CHANNEL"
    BY <1>3 DEF LoneInv, RowsRegular, Regular
  <2>2. ~CanTransition("SENT_TO_CHANNEL", "DEAD_LETTER")
    BY DEF CanTransition, ValidTransitions
  <2> QED BY <1>1, <1>3, <2>1, <2>2, ReturnAlone DEF Escalate, Transition
<1> QED BY <1>2, <1>3

\* A handler reads what is committed, or its own QUEUED version of it.
LEMMA ReadAlone ==
    ASSUME TypeInv, LoneInv, NEW s \in Sessions,
           ProcessNewMessage(s) \/ AttemptDelivery(s) \/ AttemptFallback(s),
           failures' = failures
    PROVE  LoneInv'
<1> DEFINE m == ses[s].msg
<1>1. ses[s].pc = "read" /\ m \in Messages /\ InHand(s, m) /\ Unwritten
  BY DEF ProcessNewMessage, AttemptDelivery, AttemptFallback, At, TypeInv,
         HandlersHaveMessage, Handling, InHand, Unwritten
<1>2. HandlerCurrent(s) /\ ses[s].pc \in Handling
  BY <1>1 DEF LoneInv, Handling
<1>3. row[m] \in Row
  BY <1>1 DEF TypeInv, TypeOK, StoreTypeOK
<1>4. CASE ProcessNewMessage(s)
  <2>1. /\ View(s, m) = row[m] /\ lock[m] # s
        /\ row[m].current_state = "PENDING"
    BY <1>1, <1>2, <1>4 DEF ProcessNewMessage, At, HandlerCurrent, View, Origin
  <2>2. CanTransition("PENDING", "QUEUED")
    BY DEF CanTransition, ValidTransitions
  <2>3. Update(s, "process_new_message", m, Moved(m, Target("process_new_message")))
    BY <1>4, <2>1, <2>2 DEF ProcessNewMessage, Transition, Moved, Target, Aim
  <2> HIDE DEF m
  <2> QED BY <1>1, <2>1, <2>3, UpdateAlone DEF Origin
<1>5. CASE AttemptDelivery(s)
  <2>1. /\ lock[m] = s /\ dirty[m] = Moved(m, "QUEUED")
        /\ row[m].current_state = "PENDING"
    BY <1>1, <1>2, <1>5 DEF AttemptDelivery, At, HandlerCurrent, Origin
  <2>2. /\ View(s, m).current_state = "QUEUED"
        /\ [View(s, m) EXCEPT !.current_state = "SENDING"] = Moved(m, "SENDING")
    BY <1>3, <2>1 DEF View, Moved, Row
  <2>3. Update(s, "attempt_delivery", m, Moved(m, Target("attempt_delivery")))
    BY <1>5, <2>2, Transitions DEF AttemptDelivery, Transition, Target, Aim
  <2> HIDE DEF m
  <2> QED BY <1>1, <2>1, <2>3, UpdateAlone DEF Origin
<1>6. CASE AttemptFallback(s)
  <2>1. /\ View(s, m) = row[m] /\ lock[m] # s
        /\ row[m].current_state = "ESCALATION_PENDING"
    BY <1>1, <1>2, <1>6 DEF AttemptFallback, At, HandlerCurrent, View, Origin
  <2>2. Update(s, "attempt_fallback", m, Moved(m, Target("attempt_fallback")))
    BY <1>6, <2>1, Transitions DEF AttemptFallback, Transition, Moved, Target, Aim
  <2> HIDE DEF m
  <2> QED BY <1>1, <2>1, <2>2, UpdateAlone DEF Origin
<1> QED BY <1>4, <1>5, <1>6

LEMMA RefetchAlone ==
    ASSUME TypeInv, LoneInv, NEW s \in Sessions, Refetch(s), failures' = failures
    PROVE  LoneInv'
<1> DEFINE m == ses[s].msg
<1>1. ses[s].pc = "refetch" /\ m \in Messages
  BY DEF Refetch, TypeInv, HandlersHaveMessage, Handling
<1>2. /\ ses'[s].pc = "flush" /\ ses'[s].op = ses[s].op /\ ses'[s].msg = m
      /\ ses'[s].rec = ses[s].rec /\ ses'[s].batch = ses[s].batch
      /\ ses'[s].loaded = View(s, m)
      /\ \A t \in Sessions \ {s} : ses'[t] = ses[t]
  BY DEF Refetch, TypeInv, TypeOK, ProcessorTypeOK, Session
<1>3. /\ row' = row /\ key' = key /\ policy' = policy /\ lock' = lock
      /\ dirty' = dirty /\ attempts' = attempts
  BY DEF Refetch, storeVars
<1>4. HandlerCurrent(s) /\ BatchCurrent(s)
  BY DEF LoneInv
<1>5. HandlerCurrent(s)'
  BY <1>1, <1>2, <1>3, <1>4 DEF HandlerCurrent, Handling, Saving, Moved, View
<1>6. BatchCurrent(s)'
  BY <1>2, <1>3, <1>4 DEF BatchCurrent, Blank
<1>7. \A n \in Messages : InHand(s, n)' => InHand(s, n)
  BY <1>1, <1>2, <1>3 DEF InHand, Handling, Blank
<1>8. Sound(s)'
  BY <1>5, <1>6 DEF Sound
<1> QED BY <1>2, <1>3, <1>7, <1>8, AdvanceAlone

-----------------------------------------------------------------------------
(* Steps that write a row                                                   *)

\* An UPDATE with nothing lost in between writes the handler's record.
LEMMA WrittenCurrent ==
    ASSUME NEW record \in Row, NEW current \in Row
    PROVE  Written(record, current, current) = record
BY DEF Written, Changed, Row

LEMMA WriteAlone ==
    ASSUME TypeInv, LoneInv, failures' = failures,
           NEW s \in Sessions, NEW m \in Messages, InHand(s, m),
           NEW version \in Row, NEW facts, WriteRow(s, m, version, facts),
           NEW pc \in {"read", "send", "next"}, NEW op, NEW msg, NEW rec, NEW batch,
           Go(s, pc, op, msg, rec, batch),
           \A n \in Messages : batch[n] \in {Blank, ses[s].batch[n]},
           batch[m] = Blank,
           pc \in Handling => msg = m,
           \A n \in Messages \ {m} : attempts'[n] = attempts[n],
           attempts'[m]["fallback"] <= Tries(version) + failures,
           IF Settled(version) THEN Regular(m, version) /\ Succeeds(version, row[m])
                               ELSE version.retry_count = row[m].retry_count,
           HandlerCurrent(s)'
    PROVE  LoneInv'
<1>1. /\ ses'[s].pc = pc /\ ses'[s].msg = msg /\ ses'[s].batch = batch
      /\ \A t \in Sessions \ {s} : ses'[t] = ses[t]
  BY DEF Go, TypeInv, TypeOK, ProcessorTypeOK
<1>2. /\ row' = row /\ key' = key /\ policy' = policy
      /\ lock[m] \in {None, s} /\ lock'[m] = s /\ dirty'[m] = version
      /\ \A n \in Messages \ {m} : lock'[n] = lock[n] /\ dirty'[n] = dirty[n]
  BY DEF WriteRow, TypeInv, TypeOK, StoreTypeOK
<1>3. VersionSound(m)'
  BY <1>2 DEF VersionSound, Settled, Regular, Succeeds
<1>4. attempts'[m]["fallback"] <= Tries(dirty'[m]) + failures
  BY <1>2
<1>5. \A n \in Messages :
         \/ /\ lock'[n] = lock[n] /\ dirty'[n] = dirty[n]
            /\ attempts'[n] = attempts[n]
         \/ /\ InHand(s, n) /\ lock[n] \in {None, s} /\ lock'[n] = s
            /\ VersionSound(n)'
            /\ attempts'[n]["fallback"] <= Tries(dirty'[n]) + failures
  BY <1>2, <1>3, <1>4
<1>6. ASSUME NEW n \in Messages, InHand(s, n)'
      PROVE  InHand(s, n)
  <2>1. CASE n = m
    BY <2>1
  <2>2. CASE n # m
    BY <1>1, <1>2, <1>6, <2>2 DEF InHand, Handling, Blank
  <2> QED BY <2>1, <2>2
<1>7. BatchCurrent(s)'
  BY <1>1, <1>2 DEF LoneInv, BatchCurrent, Blank
<1>8. Sound(s)'
  BY <1>7 DEF Sound
<1>9. pc \notin {"idle", "insert"}
  OBVIOUS
<1> QED BY <1>1, <1>2, <1>5, <1>6, <1>8, <1>9, AdvanceAlone

\* The row counts every call of the fallback channel, but for failures, until
\* the message is delivered by it.
LEMMA CallsOfRow ==
    ASSUME TypeInv, LoneInv, NEW s \in Sessions, NEW m \in Messages, InHand(s, m),
           NEW version \in Row, version.retry_count >= row[m].retry_count,
           lock[m] = s => dirty[m].retry_count = row[m].retry_count,
           lock[m] = s => dirty[m].current_state # "FALLBACK_DELIVERED",
           row[m].current_state # "FALLBACK_DELIVERED"
    PROVE  attempts[m]["fallback"] <= version.retry_count + failures
<1>1. lock[m] \in {None, s}
  BY DEF InHand, LoneInv, Undivided, TypeInv, TypeOK, StoreTypeOK
<1>2. /\ row[m].retry_count \in Nat /\ version.retry_count \in Nat /\ failures \in Nat
      /\ attempts[m]["fallback"] \in Nat /\ dirty[m].retry_count \in Nat
  BY DEF TypeInv, TypeOK, StoreTypeOK, ProcessorTypeOK, Row, Legs
<1>3. attempts[m]["fallback"] <= row[m].retry_count + failures
  <2>1. CASE lock[m] = None
    BY <2>1, <1>2 DEF LoneInv, CallsCounted, Tries
  <2>2. CASE lock[m] = s
    <3>1. s # None
      BY NoneAssumption
    <3> QED BY <2>2, <3>1, <1>2 DEF LoneInv, CallsCounted, Tries
  <2> QED BY <1>1, <2>1, <2>2
<1> QED BY <1>2, <1>3

\* The first update of a handler: nothing has been written in between.
LEMMA FlushAlone ==
    ASSUME TypeInv, LoneInv, NEW s \in Sessions, Flush(s), failures' = failures
    PROVE  LoneInv'
<1> DEFINE m == ses[s].msg
           op == ses[s].op
           rec == ses[s].rec
<1>1. ses[s].pc = "flush" /\ m \in Messages /\ op \in Ops /\ InHand(s, m)
  BY DEF Flush, TypeInv, HandlersHaveMessage, Handling, InHand
<1>2. /\ row[m] \in Row /\ rec \in Row /\ View(s, m) \in Row
      /\ row[m].retry_count \in Nat /\ rec.retry_count \in Nat
  BY <1>1, ViewType DEF TypeInv, TypeOK, StoreTypeOK, ProcessorTypeOK, Session, Row
<1>3. /\ row[m].current_state \in Origin(op)
      /\ lock[m] = s <=> op = "attempt_delivery"
      /\ op = "attempt_delivery" => dirty[m] = Moved(m, "QUEUED")
      /\ op = "escalate_message" => policy[m].fallback # None
      /\ rec = Moved(m, Target(op)) /\ ses[s].batch[m] = Blank
      /\ ses[s].loaded = View(s, m)
  BY <1>1 DEF LoneInv, HandlerCurrent, Handling, Saving
<1>4. /\ op \in {"process_new_message", "attempt_delivery", "attempt_fallback",
                 "escalate_message"}
      /\ row[m].current_state \in {"PENDING", "SENT_TO_CHANNEL", "ESCALATION_PENDING",
                                   "ESCALATION_DEFERRED"}
      /\ Target(op) # "FALLBACK_DELIVERED"
  BY <1>1, <1>3 DEF Ops, Origin, Target, Aim
<1>5. /\ rec.current_state = Target(op) /\ rec.retry_count = row[m].retry_count
      /\ rec.next_retry_at = row[m].next_retry_at
  BY <1>2, <1>3 DEF Moved, Row
<1>6. WriteRow(s, m, rec, {FactOf(op, rec)})
  BY <1>2, <1>3, WrittenCurrent DEF Flush
<1>7. attempts[m]["fallback"] <= Tries(rec) + failures
  <2>1. lock[m] = s => /\ dirty[m].retry_count = row[m].retry_count
                       /\ dirty[m].current_state # "FALLBACK_DELIVERED"
    BY <1>2, <1>3 DEF Moved, Row
  <2>2. attempts[m]["fallback"] <= rec.retry_count + failures
    <3>1. rec.retry_count >= row[m].retry_count
      BY <1>2, <1>5
    <3>2. row[m].current_state # "FALLBACK_DELIVERED"
      BY <1>4
    <3> HIDE DEF rec, m
    <3> QED BY <1>1, <1>2, <2>1, <3>1, <3>2, CallsOfRow
  <2>3. Tries(rec) = rec.retry_count
    BY <1>2, <1>4, <1>5 DEF Tries
  <2> QED BY <2>2, <2>3
<1>8. /\ row' = row /\ policy' = policy /\ lock'[m] = s /\ dirty'[m] = rec
      /\ attempts' = attempts
  BY <1>1, <1>6 DEF Flush, WriteRow, TypeInv, TypeOK, StoreTypeOK
<1>9. /\ \A n \in Messages : ses[s].batch[n] \in {Blank, ses[s].batch[n]}
      /\ \A n \in Messages : [ses[s].batch EXCEPT ![m] = Blank][n] \in {Blank, ses[s].batch[n]}
      /\ [ses[s].batch EXCEPT ![m] = Blank][m] = Blank
  BY <1>1, BatchType
<1>10. CASE op = "process_new_message"
  <2> DEFINE batch == ses[s].batch
  <2>1. Go(s, "read", "attempt_delivery", m, Blank, batch)
    BY <1>10 DEF Flush, Begin
  <2>2. ~Settled(rec)
    BY <1>5, <1>10 DEF Settled, Target, Aim, Transient
  <2>3. ses'[s].pc = "read" /\ ses'[s].op = "attempt_delivery" /\ ses'[s].msg = m
    BY <2>1 DEF Go, TypeInv, TypeOK, ProcessorTypeOK
  <2>4. HandlerCurrent(s)'
    BY <1>3, <1>8, <1>10, <2>3 DEF HandlerCurrent, Moved, Origin, Saving, Target, Aim
  <2>5. batch[m] = Blank /\ \A n \in Messages : batch[n] \in {Blank, ses[s].batch[n]}
    BY <1>3, <1>9
  <2>6. "read" \in {"read", "send", "next"} /\ rec.retry_count = row[m].retry_count
    BY <1>5
  <2>7. /\ \A n \in Messages \ {m} : attempts'[n] = attempts[n]
        /\ attempts'[m]["fallback"] <= Tries(rec) + failures
    BY <1>7, <1>8
  <2> HIDE DEF batch, m, rec, op
  <2> QED BY <1>1, <1>2, <1>6, <2>1, <2>2, <2>4, <2>5, <2>6, <2>7, WriteAlone
<1>11. CASE op \in {"attempt_delivery", "attempt_fallback"}
  <2> DEFINE batch == ses[s].batch
  <2>1. Go(s, "send", op, m, rec, batch)
    BY <1>11 DEF Flush
  <2>2. ~Settled(rec)
    BY <1>5, <1>11 DEF Settled, Target, Aim, Transient
  <2>3. /\ ses'[s].pc = "send" /\ ses'[s].op = op /\ ses'[s].msg = m
        /\ ses'[s].rec = rec /\ ses'[s].batch = batch
    BY <2>1 DEF Go, TypeInv, TypeOK, ProcessorTypeOK
  <2>4. HandlerCurrent(s)'
    BY <1>3, <1>8, <1>11, <2>3 DEF HandlerCurrent, Moved
  <2>5. batch[m] = Blank /\ \A n \in Messages : batch[n] \in {Blank, ses[s].batch[n]}
    BY <1>3, <1>9
  <2>6. "send" \in {"read", "send", "next"} /\ rec.retry_count = row[m].retry_count
    BY <1>5
  <2>7. /\ \A n \in Messages \ {m} : attempts'[n] = attempts[n]
        /\ attempts'[m]["fallback"] <= Tries(rec) + failures
    BY <1>7, <1>8
  <2> HIDE DEF batch, m, rec, op
  <2> QED BY <1>1, <1>2, <1>6, <2>1, <2>2, <2>4, <2>5, <2>6, <2>7, WriteAlone
<1>12. CASE op = "escalate_message"
  <2> DEFINE batch == [ses[s].batch EXCEPT ![m] = Blank]
  <2>1. Go(s, "next", None, None, Blank, batch)
    BY <1>12 DEF Flush, Return
  <2>2. rec.current_state = "ESCALATION_PENDING"
    BY <1>5, <1>12 DEF Target
  <2>3. row[m].current_state \in {"SENT_TO_CHANNEL", "ESCALATION_DEFERRED"}
    BY <1>3, <1>12 DEF Origin
  <2>4. Regular(m, rec)
    BY <1>1, <1>3, <1>5, <1>12, <2>2, <2>3 DEF LoneInv, RowsRegular, Regular
  <2>5. Succeeds(rec, row[m])
    BY <1>5, <2>2, <2>3 DEF Succeeds, Lifecycle!Moves
  <2>6. HandlerCurrent(s)'
    <3>1. ses'[s].pc = "next"
      BY <2>1 DEF Go, TypeInv, TypeOK, ProcessorTypeOK
    <3> QED BY <3>1 DEF HandlerCurrent, Handling
  <2>7. batch[m] = Blank /\ \A n \in Messages : batch[n] \in {Blank, ses[s].batch[n]}
    BY <1>9
  <2>8. "next" \in {"read", "send", "next"} /\ "next" \notin Handling /\ Settled(rec)
    BY <2>2 DEF Handling, Settled, Transient
  <2>9. /\ \A n \in Messages \ {m} : attempts'[n] = attempts[n]
        /\ attempts'[m]["fallback"] <= Tries(rec) + failures
    BY <1>7, <1>8
  <2> HIDE DEF batch, m, rec, op
  <2> QED BY <1>1, <1>2, <1>6, <2>1, <2>4, <2>5, <2>6, <2>7, <2>8, <2>9, WriteAlone
<1> QED BY <1>4, <1>10, <1>11, <1>12

-----------------------------------------------------------------------------
(* The send of a handler and its second update                              *)

\* The columns of a record that the outcome of a send may change
IsRecord(r, state, retries, retry) ==
    /\ r \in Row
    /\ r.current_state = state
    /\ r.retry_count = retries
    /\ r.next_retry_at = retry

LEMMA ThenRecord ==
    ASSUME NEW r \in Row, NEW facts, NEW next \in MessageStates, NEW fact,
           CanTransition(r.current_state, next)
    PROVE  /\ Then(Outcome(r, facts), next, fact)
                = Outcome([r EXCEPT !.current_state = next], facts \cup {fact})
           /\ IsRecord(Then(Outcome(r, facts), next, fact).rec,
                       next, r.retry_count, r.next_retry_at)
BY DEF Then, Outcome, IsRecord, Row

LEMMA PrimaryOutcomeRecord ==
    ASSUME NEW r \in Row, r.current_state = "SENDING",
           NEW hasFallback \in BOOLEAN, NEW success \in BOOLEAN
    PROVE  IsRecord(PrimaryOutcome(r, hasFallback, success).rec,
                    IF success THEN "SENT_TO_CHANNEL"
                    ELSE IF hasFallback THEN "ESCALATION_PENDING" ELSE "FAILED",
                    r.retry_count, r.next_retry_at)
<1> DEFINE sent == Outcome(r, {"send_attempt"})
           late == [r EXCEPT !.current_state = "SENT_TO_CHANNEL"]
           facts == {"send_attempt"} \cup {"send_failed"}
<1>1. {"SENT_TO_CHANNEL", "ESCALATION_PENDING", "FAILED"} \subseteq MessageStates
  BY DEF MessageStates
<1>2. /\ IsRecord(Then(sent, "SENT_TO_CHANNEL", "send_success").rec,
                  "SENT_TO_CHANNEL", r.retry_count, r.next_retry_at)
      /\ IsRecord(Then(sent, "FAILED", "send_failed").rec,
                  "FAILED", r.retry_count, r.next_retry_at)
      /\ Then(sent, "SENT_TO_CHANNEL", "send_failed") = Outcome(late, facts)
  <2>1. /\ CanTransition(r.current_state, "SENT_TO_CHANNEL")
        /\ CanTransition(r.current_state, "FAILED")
    BY Transitions
  <2>2. IsRecord(Then(sent, "SENT_TO_CHANNEL", "send_success").rec,
                 "SENT_TO_CHANNEL", r.retry_count, r.next_retry_at)
    BY <1>1, <2>1, ThenRecord
  <2>3. IsRecord(Then(sent, "FAILED", "send_failed").rec,
                 "FAILED", r.retry_count, r.next_retry_at)
    BY <1>1, <2>1, ThenRecord
  <2>4. Then(sent, "SENT_TO_CHANNEL", "send_failed") = Outcome(late, facts)
    BY <2>1 DEF Then, Outcome
  <2> QED BY <2>2, <2>3, <2>4
<1>3. /\ late \in Row /\ late.current_state = "SENT_TO_CHANNEL"
      /\ late.retry_count = r.retry_count /\ late.next_retry_at = r.next_retry_at
  BY <1>1 DEF Row
<1>4. IsRecord(Then(Outcome(late, facts), "ESCALATION_PENDING", "escalation_triggered").rec,
               "ESCALATION_PENDING", r.retry_count, r.next_retry_at)
  <2> HIDE DEF late, facts
  <2>1. CanTransition(late.current_state, "ESCALATION_PENDING")
    BY <1>3, Transitions
  <2> QED BY <1>1, <1>3, <2>1, ThenRecord
<1> HIDE DEF late, facts
<1> QED BY <1>2, <1>4 DEF PrimaryOutcome

LEMMA FallbackOutcomeRecord ==
    ASSUME NEW r \in Row, r.current_state = "FALLBACK_SENDING", NEW success \in BOOLEAN
    PROVE  LET tries == r.retry_count + 1
               rec == FallbackOutcome(r, success).rec
           IN  CASE success -> IsRecord(rec, "FALLBACK_DELIVERED",
                                        r.retry_count, r.next_retry_at)
                 [] ~success /\ ShouldRetry(FALLBACK_RETRY_POLICY, tries) ->
                        IsRecord(rec, "ESCALATION_DEFERRED", tries, tries)
                 [] OTHER -> IsRecord(rec, "DEAD_LETTER", tries, r.next_retry_at)
<1> DEFINE tries == r.retry_count + 1
           failed == [r EXCEPT !.retry_count = tries]
           deferred == [failed EXCEPT !.next_retry_at = tries]
           facts == {"fallback_attempt"}
<1>1. {"FALLBACK_DELIVERED", "ESCALATION_DEFERRED", "DEAD_LETTER"} \subseteq MessageStates
  BY DEF MessageStates
<1>2. /\ failed \in Row /\ failed.current_state = "FALLBACK_SENDING"
      /\ failed.retry_count = tries /\ failed.next_retry_at = r.next_retry_at
      /\ deferred \in Row /\ deferred.current_state = "FALLBACK_SENDING"
      /\ deferred.retry_count = tries /\ deferred.next_retry_at = tries
  <2>1. PICK n \in Nat : n = tries
    BY DEF Row
  <2>2. /\ [r EXCEPT !.retry_count = n] \in Row
        /\ [[r EXCEPT !.retry_count = n] EXCEPT !.next_retry_at = n] \in Row
    BY DEF Row
  <2> QED BY <2>1, <2>2 DEF Row
<1>3. FallbackOutcome(r, success) =
        CASE success -> Then(Outcome(r, facts), "FALLBACK_DELIVERED", "fallback_success")
          [] ~success /\ ShouldRetry(FALLBACK_RETRY_POLICY, tries) ->
                Then(Outcome(deferred, facts), "ESCALATION_DEFERRED", "escalation_deferred")
          [] OTHER -> Then(Outcome(failed, facts), "DEAD_LETTER", "dead_letter")
  BY DEF FallbackOutcome
<1> HIDE DEF tries, failed, deferred, facts
<1>4. /\ CanTransition(failed.current_state, "DEAD_LETTER")
      /\ CanTransition(deferred.current_state, "ESCALATION_DEFERRED")
      /\ CanTransition(r.current_state, "FALLBACK_DELIVERED")
  BY <1>2, Transitions
<1>5. /\ IsRecord(Then(Outcome(r, facts), "FALLBACK_DELIVERED", "fallback_success").rec,
                  "FALLBACK_DELIVERED", r.retry_count, r.next_retry_at)
      /\ IsRecord(Then(Outcome(deferred, facts), "ESCALATION_DEFERRED",
                       "escalation_deferred").rec, "ESCALATION_DEFERRED", tries, tries)
      /\ IsRecord(Then(Outcome(failed, facts), "DEAD_LETTER", "dead_letter").rec,
                  "DEAD_LETTER", tries, r.next_retry_at)
  BY <1>1, <1>2, <1>4, ThenRecord
<1> USE DEF tries
<1> QED BY <1>3, <1>5

LEMMA SaveAlone ==
    ASSUME TypeInv, LoneInv, failures' = failures,
           NEW s \in Sessions, NEW m \in Messages, ses[s].pc = "send", ses[s].msg = m,
           NEW o, o.rec \in Row, Settled(o.rec), Save(s, o),
           Regular(m, o.rec), Succeeds(o.rec, row[m]),
           \A n \in Messages \ {m} : attempts'[n] = attempts[n],
           attempts'[m]["fallback"] <= Tries(o.rec) + failures
    PROVE  LoneInv'
<1> DEFINE batch == [ses[s].batch EXCEPT ![m] = Blank]
<1>1. ses[s].op \in Ops /\ InHand(s, m)
  BY DEF TypeInv, HandlersHaveMessage, Handling, InHand
<1>2. ~Settled(ses[s].rec)
  <2>1. /\ ses[s].rec = Moved(m, Target(ses[s].op)) /\ ses[s].op # "escalate_message"
        /\ row[m].current_state \in Origin(ses[s].op)
    BY DEF LoneInv, HandlerCurrent, Handling, Saving
  <2>2. Target(ses[s].op) \in Transient
    BY <1>1, <2>1 DEF Ops, Origin, Target, Aim, Transient
  <2>3. row[m] \in Row
    BY DEF TypeInv, TypeOK, StoreTypeOK
  <2> QED BY <2>1, <2>2, <2>3 DEF Settled, Moved, Row
<1>3. WriteRow(s, m, o.rec, o.facts) /\ Go(s, "next", None, None, Blank, batch)
  BY <1>2 DEF Save, Return, Settled
<1>4. batch[m] = Blank /\ \A n \in Messages : batch[n] \in {Blank, ses[s].batch[n]}
  BY BatchType
<1> HIDE DEF batch
<1>5. HandlerCurrent(s)'
  <2>1. ses'[s].pc = "next"
    BY <1>3 DEF Go, TypeInv, TypeOK, ProcessorTypeOK
  <2> QED BY <2>1 DEF HandlerCurrent, Handling
<1>6. "next" \in {"read", "send", "next"} /\ "next" \notin Handling
  BY DEF Handling
<1> QED BY <1>1, <1>3, <1>4, <1>5, <1>6, WriteAlone

LEMMA SendAlone ==
    ASSUME TypeInv, LoneInv, failures' = failures, NEW s \in Sessions, NEW channel,
           SendPrimary(s) \/ SendFallback(s, channel)
    PROVE  LoneInv'
<1> DEFINE m == ses[s].msg
           rec == ses[s].rec
           aim == IF ses[s].op = "attempt_delivery" THEN "SENDING" ELSE "FALLBACK_SENDING"
<1>1. /\ ses[s].pc = "send" /\ m \in Messages /\ rec \in Row /\ InHand(s, m)
      /\ ses[s].op \in {"attempt_delivery", "attempt_fallback"}
  BY DEF SendPrimary, SendFallback, At, TypeInv, TypeOK, HandlersHaveMessage,
         Handling, ProcessorTypeOK, Session, InHand
<1>2. /\ rec = Moved(m, aim) /\ dirty[m] = rec
      /\ row[m].current_state = IF ses[s].op = "attempt_delivery"
                                THEN "PENDING" ELSE "ESCALATION_PENDING"
  BY <1>1 DEF LoneInv, HandlerCurrent, Handling, Saving, Target, Aim, Origin
<1>3. /\ row[m] \in Row /\ row[m].retry_count \in Nat /\ failures \in Nat
      /\ attempts[m]["fallback"] \in Nat
  BY <1>1 DEF TypeInv, TypeOK, StoreTypeOK, ProcessorTypeOK, Row, Legs
<1>4. IsRecord(rec, aim, row[m].retry_count, row[m].next_retry_at)
  BY <1>1, <1>2, <1>3 DEF Moved, Row, IsRecord
<1>5. /\ row[m].retry_count <= FALLBACK_RETRY_POLICY.max_retries
      /\ ShouldRetry(FALLBACK_RETRY_POLICY, row[m].retry_count)
      /\ row[m].current_state = "ESCALATION_PENDING" => policy[m].fallback # None
  BY <1>1, <1>2 DEF LoneInv, RowsRegular, Regular
<1>6. attempts[m]["fallback"] <= row[m].retry_count + failures
  <2>1. /\ dirty[m].retry_count = row[m].retry_count
        /\ dirty[m].current_state # "FALLBACK_DELIVERED"
        /\ row[m].current_state # "FALLBACK_DELIVERED"
        /\ rec.retry_count >= row[m].retry_count
    BY <1>2, <1>3, <1>4 DEF IsRecord
  <2>2. attempts[m]["fallback"] <= rec.retry_count + failures
    <3> HIDE DEF m, rec, aim
    <3> QED BY <1>1, <2>1, CallsOfRow
  <2> QED BY <1>4, <2>2 DEF IsRecord
\* The version saved is a regular successor of the row.
<1>7. ASSUME NEW o, NEW state \in MessageStates, NEW retries, NEW retry,
             IsRecord(o.rec, state, retries, retry), Save(s, o),
             state \notin Transient,
             \/ /\ <<row[m].current_state, state>> \in Lifecycle!Moves
                /\ retries = row[m].retry_count
                /\ state \notin {"ESCALATION_DEFERRED"}
             \/ /\ row[m].current_state = "ESCALATION_PENDING"
                /\ retries = row[m].retry_count + 1 /\ retry \in {retries, row[m].next_retry_at}
                /\ IF ShouldRetry(FALLBACK_RETRY_POLICY, retries)
                   THEN state = "ESCALATION_DEFERRED" /\ retry = retries
                   ELSE state = "DEAD_LETTER",
             state = "ESCALATION_PENDING" => policy[m].fallback # None,
             \A n \in Messages \ {m} : attempts'[n] = attempts[n],
             attempts'[m]["fallback"] <= Tries(o.rec) + failures
      PROVE  LoneInv'
  <2>1. Settled(o.rec) /\ o.rec \in Row
    BY <1>7 DEF Settled, IsRecord
  <2>2. Regular(m, o.rec)
    <3>1. state # "ABSENT"
      BY <1>7 DEF MessageStates
    <3> QED BY <1>3, <1>5, <1>7, <3>1
            DEF Regular, IsRecord, ShouldRetry, FALLBACK_RETRY_POLICY
  <2>3. Succeeds(o.rec, row[m])
    BY <1>7 DEF Succeeds, IsRecord
  <2> HIDE DEF m, rec, aim
  <2> QED BY <1>1, <1>7, <2>1, <2>2, <2>3, SaveAlone DEF m
<1>8. /\ {"SENT_TO_CHANNEL", "ESCALATION_PENDING", "FAILED", "FALLBACK_DELIVERED",
          "ESCALATION_DEFERRED", "DEAD_LETTER"} \subseteq MessageStates \ Transient
      /\ \A state \in {"SENT_TO_CHANNEL", "ESCALATION_PENDING", "FAILED"} :
            <<"PENDING", state>> \in Lifecycle!Moves
      /\ \A state \in {"FALLBACK_DELIVERED", "DEAD_LETTER"} :
            <<"ESCALATION_PENDING", state>> \in Lifecycle!Moves
  BY DEF MessageStates, Transient, Lifecycle!Moves
<1>9. CASE SendPrimary(s)
  <2>1. ses[s].op = "attempt_delivery" /\ rec.current_state = "SENDING"
    BY <1>4, <1>9 DEF SendPrimary, At, IsRecord
  <2>2. row[m].current_state = "PENDING"
    BY <1>2, <2>1
  <2>3. CASE /\ Save(s, Then(Outcome(rec, {}), "FAILED", "send_failed"))
             /\ UNCHANGED <<attempts, accepted>>
    <3> DEFINE o == Then(Outcome(rec, {}), "FAILED", "send_failed")
    <3>1. IsRecord(o.rec, "FAILED", row[m].retry_count, row[m].next_retry_at)
      <4>1. CanTransition(rec.current_state, "FAILED")
        BY <2>1, Transitions
      <4>2. rec.retry_count = row[m].retry_count /\ rec.next_retry_at = row[m].next_retry_at
        BY <1>4 DEF IsRecord
      <4> QED BY <1>1, <1>8, <4>1, <4>2, ThenRecord
    <3> HIDE DEF o
    <3>2. attempts'[m]["fallback"] <= Tries(o.rec) + failures
      BY <1>3, <1>6, <2>3, <3>1 DEF Tries, IsRecord
    <3>3. Save(s, o) /\ \A n \in Messages \ {m} : attempts'[n] = attempts[n]
      BY <2>3 DEF o
    <3> QED BY <1>7, <1>8, <2>2, <3>1, <3>2, <3>3
  <2>4. ASSUME NEW success \in BOOLEAN, CallChannel(m, "primary", success),
               Save(s, PrimaryOutcome(rec, policy[m].fallback # None, success))
        PROVE  LoneInv'
    <3> DEFINE o == PrimaryOutcome(rec, policy[m].fallback # None, success)
               state == IF success THEN "SENT_TO_CHANNEL"
                        ELSE IF policy[m].fallback # None
                             THEN "ESCALATION_PENDING" ELSE "FAILED"
    <3>1. IsRecord(o.rec, state, row[m].retry_count, row[m].next_retry_at)
      BY <1>1, <1>4, <2>1, PrimaryOutcomeRecord DEF IsRecord
    <3>2. /\ state \in {"SENT_TO_CHANNEL", "ESCALATION_PENDING", "FAILED"}
          /\ state = "ESCALATION_PENDING" => policy[m].fallback # None
      OBVIOUS
    <3>3. Save(s, o)
      BY <2>4
    <3> HIDE DEF o, state
    <3>4. /\ attempts'[m]["fallback"] = attempts[m]["fallback"]
          /\ \A n \in Messages \ {m} : attempts'[n] = attempts[n]
      BY <1>1, <2>4 DEF CallChannel, TypeInv, TypeOK, ProcessorTypeOK, Legs
    <3>5. attempts'[m]["fallback"] <= Tries(o.rec) + failures
      BY <1>3, <1>6, <3>1, <3>2, <3>4 DEF Tries, IsRecord
    <3> QED BY <1>7, <1>8, <2>2, <3>1, <3>2, <3>3, <3>4, <3>5
  <2> QED BY <1>9, <2>3, <2>4 DEF SendPrimary
<1>10. CASE SendFallback(s, channel)
  <2>1. ses[s].op = "attempt_fallback" /\ rec.current_state = "FALLBACK_SENDING"
    BY <1>4, <1>10 DEF SendFallback, At, IsRecord
  <2>2. row[m].current_state = "ESCALATION_PENDING"
    BY <1>2, <2>1
  <2>3. CASE /\ Save(s, Then(Outcome(rec, {}), "DEAD_LETTER", "dead_letter"))
             /\ attempts' = [attempts EXCEPT ![m]["unavailable"] = 1]
             /\ UNCHANGED accepted
    <3> DEFINE o == Then(Outcome(rec, {}), "DEAD_LETTER", "dead_letter")
    <3>1. IsRecord(o.rec, "DEAD_LETTER", row[m].retry_count, row[m].next_retry_at)
      <4>1. CanTransition(rec.current_state, "DEAD_LETTER")
        BY <2>1, Transitions
      <4>2. rec.retry_count = row[m].retry_count /\ rec.next_retry_at = row[m].next_retry_at
        BY <1>4 DEF IsRecord
      <4> QED BY <1>1, <1>8, <4>1, <4>2, ThenRecord
    <3>2. Save(s, o)
      BY <2>3
    <3> HIDE DEF o
    <3>3. /\ attempts'[m]["fallback"] = attempts[m]["fallback"]
          /\ \A n \in Messages \ {m} : attempts'[n] = attempts[n]
      BY <1>1, <2>3 DEF TypeInv, TypeOK, ProcessorTypeOK, Legs
    <3>4. attempts'[m]["fallback"] <= Tries(o.rec) + failures
      BY <1>3, <1>6, <3>1, <3>3 DEF Tries, IsRecord
    <3> QED BY <1>7, <1>8, <2>2, <3>1, <3>2, <3>3, <3>4
  <2>4. ASSUME NEW success \in BOOLEAN, CallChannel(m, "fallback", success),
               Save(s, FallbackOutcome(rec, success))
        PROVE  LoneInv'
    <3> DEFINE o == FallbackOutcome(rec, success)
               tries == row[m].retry_count + 1
               again == ShouldRetry(FALLBACK_RETRY_POLICY, tries)
    <3>1. /\ success => IsRecord(o.rec, "FALLBACK_DELIVERED",
                                 row[m].retry_count, row[m].next_retry_at)
          /\ ~success /\ again => IsRecord(o.rec, "ESCALATION_DEFERRED", tries, tries)
          /\ ~success /\ ~again => IsRecord(o.rec, "DEAD_LETTER",
                                            tries, row[m].next_retry_at)
      <4>1. rec.retry_count = row[m].retry_count /\ rec.next_retry_at = row[m].next_retry_at
        BY <1>4 DEF IsRecord
      <4> QED BY <1>1, <2>1, <4>1, FallbackOutcomeRecord
    <3>2. Save(s, o)
      BY <2>4
    <3> HIDE DEF o
    <3>3. /\ attempts'[m]["fallback"] = attempts[m]["fallback"] + 1
          /\ \A n \in Messages \ {m} : attempts'[n] = attempts[n]
      BY <1>1, <2>4 DEF CallChannel, TypeInv, TypeOK, ProcessorTypeOK, Legs
    <3>4. attempts'[m]["fallback"] <= Tries(o.rec) + failures
      <4>1. Tries(o.rec) = row[m].retry_count + 1
        BY <1>3, <3>1 DEF Tries, IsRecord
      <4> QED BY <1>3, <1>6, <3>3, <4>1
    <3>5. CASE success
      BY <1>7, <1>8, <2>2, <3>1, <3>2, <3>3, <3>4, <3>5
    <3>6. CASE ~success /\ again
      BY <1>7, <1>8, <2>2, <3>1, <3>2, <3>3, <3>4, <3>6
    <3>7. CASE ~success /\ ~again
      BY <1>7, <1>8, <2>2, <3>1, <3>2, <3>3, <3>4, <3>7
    <3> QED BY <3>5, <3>6, <3>7
  <2>5. \/ <2>3!1
        \/ \E success \in BOOLEAN : /\ CallChannel(m, "fallback", success)
                                   /\ Save(s, FallbackOutcome(rec, success))
    BY <1>10 DEF SendFallback, CallChannel
  <2> QED BY <2>3, <2>4, <2>5
<1> QED BY <1>9, <1>10

-----------------------------------------------------------------------------
(* Requests and loops                                                       *)

LEMMA GotoAlone ==
    ASSUME TypeInv, LoneInv, Unwritten, NEW s \in Sessions,
           NEW pc \in {"idle", "insert", "done"}, Goto(s, pc),
           pc \in {"idle", "insert"} => s \notin Creators \/ ses[s].pc = "idle"
    PROVE  LoneInv'
<1>1. Go(s, pc, None, None, Blank, NoBatch)
  BY DEF Goto, Go, Fresh
<1>2. pc \notin Handling /\ \A n \in Messages : NoBatch[n] \in {Blank, ses[s].batch[n]}
  BY DEF Handling, NoBatch
<1> QED BY <1>1, <1>2, LeaveAlone

\* No submission finds a message: its key is its own.
LEMMA ArriveAlone ==
    ASSUME SchedulerAlone, TypeInv, LoneInv, Arrive
    PROVE  LoneInv'
<1>1. PICK c \in Creators : Create(c)
  BY DEF Arrive, SchedulerAlone
<1>2. c \in Sessions /\ ses[c].pc = "idle" /\ Unwritten
  BY <1>1, SessionsAssumption DEF Requests, Create, Unwritten
<1>3. {m \in Stored : KeyOf[c] # None /\ key[m] = KeyOf[c]} = {}
  <2> SUFFICES ASSUME NEW m \in Stored, KeyOf[c] # None, key[m] = KeyOf[c]
               PROVE  FALSE
    OBVIOUS
  <2>1. PICK d \in Creators : KeyOf[d] = key[m] /\ ses[d].pc \notin {"idle", "insert"}
    BY DEF LoneInv, KeysUsed
  <2>2. c = d
    BY <2>1 DEF SchedulerAlone
  <2> QED BY <1>2, <2>1, <2>2
<1>4. Goto(c, "insert")
  BY <1>1, <1>3 DEF Create
<1> QED BY <1>2, <1>4, GotoAlone

LEMMA InsertAlone ==
    ASSUME TypeInv, LoneInv, NEW c \in Creators, Insert(c)
    PROVE  LoneInv'
<1>1. /\ c \in Sessions /\ c # None /\ ses[c].pc = "insert"
      /\ attempts' = attempts /\ failures' = failures
  BY SessionsAssumption, NoneAssumption DEF Requests, Insert
<1>2. CASE Goto(c, "done") /\ UNCHANGED storeVars
  BY <1>1, <1>2, GotoAlone DEF Unwritten
<1>3. ASSUME NEW m \in Messages, NEW pol \in Policies, InsertRow(m, KeyOf[c], pol),
             Begin(c, "process_new_message", m)
      PROVE  LoneInv'
  <2>1. /\ row[m].current_state = "ABSENT" /\ row'[m].current_state = "PENDING"
        /\ row'[m].retry_count = 0 /\ key'[m] = KeyOf[c]
        /\ lock' = lock /\ dirty' = dirty
        /\ \A n \in Messages \ {m} : /\ row'[n] = row[n] /\ key'[n] = key[n]
                                     /\ policy'[n] = policy[n]
    BY <1>3 DEF InsertRow, Stored, Blank, TypeInv, TypeOK, StoreTypeOK
  <2>2. \A t \in Sessions : ~InHand(t, m)
    BY <2>1 DEF LoneInv, Responsibilities, Responsible
  <2>3. /\ ses'[c].pc = "read" /\ ses'[c].op = "process_new_message"
        /\ ses'[c].msg = m /\ ses'[c].batch = ses[c].batch
        /\ \A t \in Sessions \ {c} : ses'[t] = ses[t]
    BY <1>1, <1>3 DEF Begin, Go, TypeInv, TypeOK, ProcessorTypeOK
  <2>4. lock[m] = None
    BY <2>2 DEF InHand, TypeInv, TypeOK, StoreTypeOK
  <2>5. \A t \in Sessions, n \in Messages :
           InHand(t, n)' => (InHand(t, n) /\ n # m) \/ (t = c /\ n = m)
    BY <2>1, <2>2, <2>3 DEF InHand, Handling, Blank
  <2>6. Responsibilities' /\ Undivided'
    <3>1. Responsibilities'
      BY <2>1, <2>5 DEF LoneInv, Responsibilities, Responsible
    <3>2. Undivided'
      BY <2>5 DEF LoneInv, Undivided
    <3> QED BY <3>1, <3>2
  <2>7. KeysUsed'
    <3>1. \A d \in Creators : ses[d].pc \notin {"idle", "insert"} =>
                              ses'[d].pc \notin {"idle", "insert"}
      BY <2>3, SessionsAssumption DEF Requests
    <3>2. \A n \in Stored' : n = m \/ (n \in Stored /\ key'[n] = key[n])
      BY <2>1 DEF Stored
    <3>3. ses'[c].pc \notin {"idle", "insert"} /\ key'[m] = KeyOf[c]
      BY <2>1, <2>3
    <3> QED BY <3>1, <3>2, <3>3 DEF LoneInv, KeysUsed
  <2>8. RowsRegular'
    <3>1. Regular(m, row[m])'
      BY <2>1 DEF Regular, ShouldRetry, FALLBACK_RETRY_POLICY
    <3>2. \A n \in Messages \ {m} : Regular(n, row[n])'
      BY <2>1 DEF LoneInv, RowsRegular, Regular
    <3> QED BY <3>1, <3>2 DEF RowsRegular
  <2>9. ASSUME NEW t \in Sessions
        PROVE  Sound(t)'
    <3>1. BatchCurrent(t)'
      <4> SUFFICES ASSUME NEW n \in Messages, ses[t].batch[n] # Blank
                   PROVE  ses[t].batch[n] = row'[n] /\ lock[n] # t
        BY <2>1, <2>3 DEF BatchCurrent, Blank
      <4>1. n # m
        BY <2>2 DEF InHand
      <4> QED BY <2>1, <4>1 DEF LoneInv, BatchCurrent
    <3>2. CASE t = c
      <4>1. HandlerCurrent(t)'
        BY <1>1, <2>1, <2>3, <2>4, <3>2 DEF HandlerCurrent, Origin, Saving
      <4> QED BY <3>1, <4>1 DEF Sound
    <3>3. CASE t # c
      <4>1. ses'[t] = ses[t]
        BY <2>3, <3>3
      <4>2. CASE ses[t].pc \notin Handling
        BY <3>1, <4>1, <4>2 DEF Sound, HandlerCurrent, Handling
      <4>3. CASE ses[t].pc \in Handling
        <5>1. PICK n \in Messages : n = ses[t].msg
          BY <4>3 DEF TypeInv, HandlersHaveMessage
        <5>2. n # m
          BY <2>2, <4>3, <5>1 DEF InHand
        <5>3. /\ row'[n] = row[n] /\ policy'[n] = policy[n]
              /\ View(t, n)' = View(t, n) /\ \A st : Moved(n, st)' = Moved(n, st)
          BY <2>1, <5>2 DEF View, Moved
        <5>4. HandlerCurrent(t)'
          BY <2>1, <4>1, <4>3, <5>1, <5>3 DEF LoneInv, HandlerCurrent
        <5> QED BY <3>1, <5>4 DEF Sound
      <4> QED BY <4>2, <4>3
    <3> QED BY <3>2, <3>3
  <2>10. VersionsSucceed'
    <3> SUFFICES ASSUME NEW n \in Messages, lock[n] # None
                 PROVE  VersionSound(n)'
      BY <2>1 DEF VersionsSucceed, VersionSound
    <3>1. n # m
      BY <2>4
    <3> QED BY <2>1, <3>1 DEF LoneInv, VersionsSucceed, VersionSound, Settled,
                              Regular, Succeeds
  <2>11. CallsCounted'
    <3> SUFFICES ASSUME NEW n \in Messages
                 PROVE  (attempts[n]["fallback"] <=
                            Tries(IF lock[n] = None THEN row[n] ELSE dirty[n]) + failures)'
      BY DEF CallsCounted
    <3>1. CASE n = m
      <4>1. Tries(row[m]) = 0 /\ Tries(row'[m]) = 0
        BY <2>1 DEF LoneInv, RowsRegular, Regular, Tries
      <4>2. attempts[m]["fallback"] <= Tries(row[m]) + failures
        BY <2>4 DEF LoneInv, CallsCounted
      <4> QED BY <1>1, <2>1, <2>4, <3>1, <4>1, <4>2
    <3>2. CASE n # m
      BY <1>1, <2>1, <3>2 DEF LoneInv, CallsCounted
    <3> QED BY <3>1, <3>2
  <2> QED BY <2>6, <2>7, <2>8, <2>9, <2>10, <2>11 DEF LoneInv, Sound
<1> QED BY <1>2, <1>3 DEF Insert

\* A loop lists messages that are its own, and so nobody else's.
LEMMA ScanAlone ==
    ASSUME TypeInv, DurableInv, LoneInv, NEW s \in Loops, NEW due, Scan(s, due),
           \A n \in Messages : n \in due => /\ Responsible(s, row[n].current_state)
                                            /\ row[n].current_state # "PENDING"
    PROVE  LoneInv'
<1> DEFINE batch == [n \in Messages |-> IF n \in due THEN row[n] ELSE Blank]
<1>1. /\ s \in Sessions /\ s \notin Creators /\ ses[s].pc = "idle"
      /\ row' = row /\ key' = key /\ policy' = policy /\ failures' = failures
      /\ lock' = lock /\ dirty' = dirty /\ attempts' = attempts
  BY SessionsAssumption DEF Loops, Requests, Scan, storeVars
<1>2. Go(s, "next", None, None, Blank, batch)
  BY DEF Scan
<1>3. \A n \in Messages : batch[n] = IF n \in due THEN row[n] ELSE Blank
  OBVIOUS
<1> HIDE DEF batch
<1>4. /\ ses'[s].pc = "next" /\ ses'[s].batch = batch
      /\ \A t \in Sessions \ {s} : ses'[t] = ses[t]
  BY <1>1, <1>2 DEF Go, TypeInv, TypeOK, ProcessorTypeOK
<1>5. \A n \in Messages : lock[n] # s
  BY <1>1 DEF DurableInv, RestingHoldNothing
<1>6. ASSUME NEW n \in Messages, InHand(s, n)'
      PROVE  \/ InHand(s, n)
             \/ /\ Responsible(s, row[n].current_state)
                /\ \A t \in Sessions : ~InHand(t, n)
  <2>1. n \in due
    BY <1>1, <1>3, <1>4, <1>5, <1>6 DEF InHand, Handling, Blank
  <2>2. ASSUME NEW t \in Sessions, InHand(t, n)
        PROVE  t = s
    <3>1. Responsible(t, row[n].current_state) /\ Responsible(s, row[n].current_state)
          /\ row[n].current_state # "PENDING"
      BY <2>1, <2>2 DEF LoneInv, Responsibilities
    <3> QED BY <3>1 DEF Responsible
  <2> QED BY <2>1, <2>2
<1>7. Sound(s)'
  <2>1. HandlerCurrent(s)'
    BY <1>4 DEF HandlerCurrent, Handling
  <2>2. BatchCurrent(s)'
    BY <1>1, <1>3, <1>4, <1>5 DEF BatchCurrent, Blank
  <2> QED BY <2>1, <2>2 DEF Sound
<1> QED BY <1>1, <1>4, <1>6, <1>7, AdvanceAlone

LEMMA PassAlone ==
    ASSUME TypeInv, DurableInv, LoneInv, Pass
    PROVE  LoneInv'
<1>1. /\ Loops \subseteq Sessions
      /\ DeadlineLoop \in Loops /\ FallbackLoop \in Loops /\ RetryLoop \in Loops
      /\ DeadlineLoop # FallbackLoop /\ DeadlineLoop # RetryLoop
      /\ FallbackLoop # RetryLoop
      /\ \A s \in Loops : s \notin Creators
  BY SessionsAssumption DEF Loops, Requests
\* What a loop has listed is still its own, as it was.
<1>2. ASSUME NEW s \in Loops, NEW m \in Listed(s)
      PROVE  /\ m \in Messages /\ ses[s].batch[m] # Blank /\ InHand(s, m)
             /\ ses[s].batch[m] = row[m] /\ lock[m] # s
             /\ Responsible(s, row[m].current_state)
  BY <1>1 DEF Listed, InHand, LoneInv, BatchCurrent, Responsibilities
<1>3. CASE DeadlineScan
  <2>1. \A n \in Messages : n \in Overdue => row[n].current_state = "SENT_TO_CHANNEL"
    BY DEF Overdue
  <2> QED BY <1>1, <1>3, <2>1, ScanAlone DEF DeadlineScan, Responsible
<1>4. CASE FallbackScan
  <2>1. PICK due : /\ Scan(FallbackLoop, due)
                   /\ \A n \in Messages :
                         n \in due => row[n].current_state = "ESCALATION_PENDING"
    BY <1>4 DEF FallbackScan
  <2> QED BY <1>1, <2>1, ScanAlone DEF Responsible
<1>5. CASE RetryScan
  <2>1. PICK due : /\ Scan(RetryLoop, due)
                   /\ \A n \in Messages :
                         n \in due => row[n].current_state \in {"QUEUED", "ESCALATION_DEFERRED"}
    BY <1>5 DEF RetryScan
  <2>2. \A n \in Messages : row[n].current_state # "QUEUED"
    BY DEF DurableInv, RowsSettled, Settled, Transient
  <2> QED BY <1>1, <2>1, <2>2, ScanAlone DEF Responsible
<1>6. CASE DeadlineItem
  <2>1. PICK m \in Listed(DeadlineLoop) :
            Escalate(DeadlineLoop, m, ses[DeadlineLoop].batch[m])
    BY <1>6 DEF DeadlineItem
  <2>2. row[m].current_state = "SENT_TO_CHANNEL" /\ Unwritten
    BY <1>1, <1>2, <1>6 DEF Responsible, DeadlineItem, Unwritten
  <2> QED BY <1>1, <1>2, <2>1, <2>2, EscalateAlone
<1>7. CASE FallbackItem
  <2>1. PICK m \in Listed(FallbackLoop) : Begin(FallbackLoop, "attempt_fallback", m)
    BY <1>7 DEF FallbackItem
  <2>2. row[m].current_state = "ESCALATION_PENDING" /\ Unwritten
    BY <1>1, <1>2, <1>7 DEF Responsible, FallbackItem, Unwritten
  <2>3. row[m].current_state \in Origin("attempt_fallback")
    BY <2>2 DEF Origin
  <2> QED BY <1>1, <1>2, <2>1, <2>2, <2>3, BeginAlone
<1>8. CASE RetryItem
  <2>1. PICK m \in Listed(RetryLoop) :
            IF ses[RetryLoop].batch[m].current_state = "QUEUED"
            THEN Begin(RetryLoop, "attempt_delivery", m)
            ELSE Escalate(RetryLoop, m, ses[RetryLoop].batch[m])
    BY <1>8 DEF RetryItem
  <2>2. row[m].current_state = "ESCALATION_DEFERRED" /\ Unwritten
    BY <1>1, <1>2, <1>8 DEF Responsible, RetryItem, Unwritten
  <2>3. Escalate(RetryLoop, m, ses[RetryLoop].batch[m])
    BY <1>1, <1>2, <2>1, <2>2
  <2> QED BY <1>1, <1>2, <2>2, <2>3, EscalateAlone
<1> QED BY <1>3, <1>4, <1>5, <1>6, <1>7, <1>8 DEF Pass

-----------------------------------------------------------------------------
(* Transactions end                                                         *)

\* An uncommitted version stands for at most one call more than its row.
LEMMA OneCallMore ==
    ASSUME TypeInv, LoneInv, NEW m \in Messages, lock[m] # None
    PROVE  Tries(dirty[m]) <= Tries(row[m]) + 1
<1>1. row[m].retry_count \in Nat /\ dirty[m].retry_count \in Nat
  BY DEF TypeInv, TypeOK, StoreTypeOK, Row
<1>2. CASE Settled(dirty[m])
  <2>1. \/ dirty[m].retry_count = row[m].retry_count
        \/ /\ dirty[m].retry_count = row[m].retry_count + 1
           /\ dirty[m].current_state # "FALLBACK_DELIVERED"
    BY <1>2 DEF LoneInv, VersionsSucceed, Succeeds
  <2> QED BY <1>1, <2>1 DEF Tries
<1>3. CASE ~Settled(dirty[m])
  <2>1. /\ dirty[m].retry_count = row[m].retry_count
        /\ dirty[m].current_state # "FALLBACK_DELIVERED"
    BY <1>3 DEF LoneInv, VersionsSucceed, Settled, Transient
  <2> QED BY <1>1, <2>1 DEF Tries
<1> QED BY <1>2, <1>3

\* What a session commits succeeds the rows it commits it over.
LEMMA CommitsSucceed ==
    ASSUME DurableInv, LoneInv, NEW s \in Sessions, ses[s].pc = "next",
           NEW m \in Messages, lock[m] = s
    PROVE  /\ Regular(m, dirty[m]) /\ Succeeds(dirty[m], row[m])
           /\ row[m].current_state # "ABSENT"
<1>1. Settled(dirty[m]) /\ s # None
  BY NoneAssumption DEF DurableInv, UnsettledInHand
<1>2. row[m].current_state # "ABSENT"
  BY DEF LoneInv, Responsibilities, InHand, Responsible
<1> QED BY <1>1, <1>2 DEF LoneInv, VersionsSucceed

\* The sessions of S let go of what they have in hand.  Nobody else's work is
\* touched, because nobody else works on the same messages.
LEMMA EndAlone ==
    ASSUME TypeInv, LoneInv, NEW S \in SUBSET Sessions, EndTransactions(S),
           attempts' = attempts,
           \A t \in Sessions \ S : ses'[t] = ses[t],
           \A t \in S : \/ /\ ses'[t].pc \notin Handling /\ ses'[t].batch = NoBatch
                        \/ ses'[t] = ses[t] /\ ses[t].pc \notin Handling,
           \A c \in Creators : ses[c].pc \notin {"idle", "insert"} =>
                               ses'[c].pc \notin {"idle", "insert"},
           \A n \in Messages : IF lock[n] \in S
                               THEN /\ row'[n] \in {row[n], dirty[n]}
                                    /\ Regular(n, row'[n])
                                    /\ row[n].current_state # "ABSENT"
                                    /\ attempts[n]["fallback"] <= Tries(row'[n]) + failures'
                               ELSE row'[n] = row[n],
           failures' \in Nat, failures' >= failures
    PROVE  LoneInv'
<1>1. /\ key' = key /\ policy' = policy
      /\ \A n \in Messages :
            IF lock[n] \in S THEN lock'[n] = None
                             ELSE lock'[n] = lock[n] /\ dirty'[n] = dirty[n]
  BY DEF EndTransactions
<1>2. None \notin Sessions
  BY NoneAssumption
<1>3. ASSUME NEW t \in Sessions, NEW n \in Messages, InHand(t, n)'
      PROVE  InHand(t, n) /\ lock[n] \notin S
  <2>1. CASE lock'[n] = t
    <3>1. lock[n] \notin S /\ lock[n] = t
      BY <1>1, <1>2, <2>1
    <3> QED BY <3>1 DEF InHand
  <2>2. CASE lock'[n] # t
    <3>1. ses'[t] = ses[t] /\ InHand(t, n)
      BY <1>3, <2>2 DEF InHand, NoBatch
    <3>2. ASSUME lock[n] \in S
          PROVE  FALSE
      <4>1. InHand(lock[n], n) /\ lock[n] \in Sessions
        BY <3>2 DEF InHand
      <4>2. lock[n] = t
        BY <3>1, <4>1 DEF LoneInv, Undivided
      <4>3. t \in S /\ ses[t].pc \notin Handling /\ ses[t].batch[n] # Blank
        BY <1>3, <2>2, <3>1, <3>2, <4>2 DEF InHand, NoBatch, Blank
      <4> QED BY <4>2, <4>3 DEF LoneInv, BatchCurrent
    <3> QED BY <3>1, <3>2
  <2> QED BY <2>1, <2>2
<1>4. Responsibilities'
  BY <1>3 DEF LoneInv, Responsibilities
<1>5. Undivided'
  BY <1>3 DEF LoneInv, Undivided
<1>6. KeysUsed'
  <2>1. Stored' \subseteq Stored
    BY DEF Stored
  <2> QED BY <1>1, <2>1 DEF LoneInv, KeysUsed
<1>7. RowsRegular'
  <2> SUFFICES ASSUME NEW n \in Messages
               PROVE  Regular(n, row[n])'
    BY DEF RowsRegular
  <2>1. Regular(n, row'[n])
    BY DEF LoneInv, RowsRegular
  <2> QED BY <1>1, <2>1 DEF Regular
<1>8. ASSUME NEW t \in Sessions
      PROVE  Sound(t)'
  <2>1. CASE ses'[t].pc \notin Handling /\ ses'[t].batch = NoBatch
    BY <2>1 DEF Sound, HandlerCurrent, BatchCurrent, NoBatch, Handling, Blank
  <2>2. CASE ses'[t] = ses[t]
    <3>1. BatchCurrent(t)'
      <4> SUFFICES ASSUME NEW n \in Messages, ses[t].batch[n] # Blank
                   PROVE  ses[t].batch[n] = row'[n] /\ lock'[n] # t
        BY <2>2 DEF BatchCurrent, Blank
      <4>1. lock[n] \notin S
        BY <1>3, <2>2 DEF InHand, Blank
      <4> QED BY <1>1, <4>1 DEF LoneInv, BatchCurrent
    <3>2. CASE ses[t].pc \notin Handling
      BY <2>2, <3>1, <3>2 DEF Sound, HandlerCurrent, Handling
    <3>3. CASE ses[t].pc \in Handling
      <4>1. PICK n \in Messages : n = ses[t].msg
        BY <3>3 DEF TypeInv, HandlersHaveMessage
      <4>2. lock[n] \notin S
        BY <1>3, <2>2, <3>3, <4>1 DEF InHand, Handling
      <4>3. /\ row'[n] = row[n] /\ policy'[n] = policy[n]
            /\ lock'[n] = lock[n] /\ dirty'[n] = dirty[n]
        BY <1>1, <4>2
      <4>4. View(t, n)' = View(t, n) /\ \A st : Moved(n, st)' = Moved(n, st)
        BY <4>3 DEF View, Moved
      <4>5. HandlerCurrent(t)'
        BY <2>2, <3>3, <4>1, <4>3, <4>4 DEF LoneInv, HandlerCurrent
      <4> QED BY <3>1, <4>5 DEF Sound
    <3> QED BY <3>2, <3>3
  <2> QED BY <2>1, <2>2
<1>9. VersionsSucceed'
  <2> SUFFICES ASSUME NEW n \in Messages, lock'[n] # None
               PROVE  VersionSound(n)'
    BY DEF VersionsSucceed, VersionSound
  <2>1. /\ lock[n] # None /\ dirty'[n] = dirty[n] /\ row'[n] = row[n]
        /\ policy' = policy
    BY <1>1
  <2> QED BY <2>1 DEF LoneInv, VersionsSucceed, VersionSound, Settled, Regular, Succeeds
<1>10. CallsCounted'
  <2> SUFFICES ASSUME NEW n \in Messages
               PROVE  (attempts[n]["fallback"] <=
                          Tries(IF lock[n] = None THEN row[n] ELSE dirty[n]) + failures)'
    BY DEF CallsCounted
  <2>1. CASE lock[n] \in S
    BY <1>1, <2>1
  <2>2. CASE lock[n] \notin S
    <3>1. PICK r \in Row : r = IF lock[n] = None THEN row[n] ELSE dirty[n]
      BY DEF TypeInv, TypeOK, StoreTypeOK
    <3>2. (IF lock[n] = None THEN row[n] ELSE dirty[n])' = r
      BY <1>1, <2>2, <3>1
    <3>3. attempts[n]["fallback"] <= Tries(r) + failures
      BY <3>1 DEF LoneInv, CallsCounted
    <3>4. Tries(r) \in Nat /\ attempts[n]["fallback"] \in Nat /\ failures \in Nat
      BY DEF Tries, Row, TypeInv, TypeOK, ProcessorTypeOK, Legs
    <3>5. attempts'[n]["fallback"] <= Tries(r) + failures'
      BY <3>3, <3>4
    <3> QED BY <3>2, <3>5
  <2> QED BY <2>1, <2>2
<1> QED BY <1>4, <1>5, <1>6, <1>7, <1>8, <1>9, <1>10 DEF LoneInv, Sound

LEMMA CommitAlone ==
    ASSUME TypeInv, DurableInv, LoneInv, NEW s \in Sessions, Commit(s)
    PROVE  LoneInv'
<1>1. /\ ses[s].pc = "next" /\ EndTransactions({s}) /\ {s} \in SUBSET Sessions
      /\ attempts' = attempts /\ failures' = failures /\ failures \in Nat
  BY DEF Commit, CommitTransaction, TypeInv, TypeOK
<1>2. PICK pc \in {"idle", "done"} : Goto(s, pc) /\ (s \in Loops \/ pc = "done")
  BY DEF Commit
<1>3. /\ ses'[s].pc = pc /\ ses'[s].batch = NoBatch
      /\ \A t \in Sessions \ {s} : ses'[t] = ses[t]
  BY <1>2 DEF Goto, Fresh, TypeInv, TypeOK, ProcessorTypeOK
<1>4. \A c \in Creators : ses[c].pc \notin {"idle", "insert"} =>
                          ses'[c].pc \notin {"idle", "insert"}
  BY <1>2, <1>3, SessionsAssumption DEF Loops, Requests
<1>5. ASSUME NEW n \in Messages
      PROVE  IF lock[n] \in {s}
             THEN /\ row'[n] \in {row[n], dirty[n]}
                  /\ Regular(n, row'[n])
                  /\ row[n].current_state # "ABSENT"
                  /\ attempts[n]["fallback"] <= Tries(row'[n]) + failures'
             ELSE row'[n] = row[n]
  <2>1. row'[n] = IF lock[n] = s THEN dirty[n] ELSE row[n]
    BY DEF Commit, CommitTransaction
  <2>2. CASE lock[n] = s
    <3>1. attempts[n]["fallback"] <= Tries(dirty[n]) + failures
      BY <2>2, NoneAssumption DEF LoneInv, CallsCounted
    <3> QED BY <1>1, <2>1, <2>2, <3>1, CommitsSucceed
  <2> QED BY <2>1, <2>2
<1>6. pc \notin Handling
  BY DEF Handling
<1> QED BY <1>1, <1>3, <1>4, <1>5, <1>6, EndAlone

LEMMA AbortAlone ==
    ASSUME TypeInv, LoneInv, NEW S \in SUBSET Sessions, Abort(S),
           failures' = failures + 1
    PROVE  LoneInv'
<1>1. /\ EndTransactions(S) /\ row' = row /\ attempts' = attempts
      /\ failures \in Nat /\ failures' \in Nat /\ failures' >= failures
  BY DEF Abort, RollbackTransactions, TypeInv, TypeOK
<1>2. \A t \in Sessions : ses'[t] = IF t \in S /\ Running(t)
                                    THEN Fresh(IF t \in Loops THEN "idle" ELSE "done")
                                    ELSE ses[t]
  BY DEF Abort
<1>3. \A pc : Fresh(pc).pc = pc /\ Fresh(pc).batch = NoBatch
  BY DEF Fresh
<1>4. ASSUME NEW t \in Sessions
      PROVE  \/ t \in S /\ ses'[t].pc \in {"idle", "done"} /\ ses'[t].batch = NoBatch
             \/ ses'[t] = ses[t] /\ (t \in S => ses[t].pc \in {"idle", "done"})
  BY <1>2, <1>3 DEF Running
<1>5. /\ \A t \in Sessions \ S : ses'[t] = ses[t]
      /\ \A t \in S : \/ /\ ses'[t].pc \notin Handling /\ ses'[t].batch = NoBatch
                      \/ ses'[t] = ses[t] /\ ses[t].pc \notin Handling
  BY <1>2, <1>4 DEF Handling
<1>6. ASSUME NEW c \in Creators, ses[c].pc \notin {"idle", "insert"}
      PROVE  ses'[c].pc \notin {"idle", "insert"}
  <2>1. c \in Sessions /\ c \notin Loops
    BY SessionsAssumption DEF Loops, Requests
  <2>2. ses'[c] = IF c \in S /\ Running(c) THEN Fresh("done") ELSE ses[c]
    BY <1>2, <2>1
  <2> QED BY <1>6, <1>3, <2>2
<1>7. ASSUME NEW n \in Messages, lock[n] \in S
      PROVE  /\ Regular(n, row[n]) /\ row[n].current_state # "ABSENT"
             /\ attempts[n]["fallback"] <= Tries(row[n]) + failures'
  <2>1. lock[n] # None /\ lock[n] \in Sessions
    BY <1>7, NoneAssumption
  <2>2. row[n].current_state # "ABSENT"
    BY <2>1 DEF LoneInv, Responsibilities, InHand, Responsible
  <2>3. attempts[n]["fallback"] <= Tries(dirty[n]) + failures
    BY <2>1 DEF LoneInv, CallsCounted
  <2>4. Tries(dirty[n]) <= Tries(row[n]) + 1
    BY <2>1, OneCallMore
  <2>5. /\ Tries(dirty[n]) \in Nat /\ Tries(row[n]) \in Nat
        /\ attempts[n]["fallback"] \in Nat
    BY DEF Tries, Row, TypeInv, TypeOK, StoreTypeOK, ProcessorTypeOK, Legs
  <2>6. attempts[n]["fallback"] <= Tries(row[n]) + failures'
    BY <1>1, <2>3, <2>4, <2>5
  <2> QED BY <2>2, <2>6 DEF LoneInv, RowsRegular
<1>8. \A n \in Messages : IF lock[n] \in S
                          THEN /\ row'[n] \in {row[n], dirty[n]}
                               /\ Regular(n, row'[n])
                               /\ row[n].current_state # "ABSENT"
                               /\ attempts[n]["fallback"] <= Tries(row'[n]) + failures'
                          ELSE row'[n] = row[n]
  BY <1>1, <1>7
<1> QED BY <1>1, <1>5, <1>6, <1>8, EndAlone

\* Nobody waits for a row: who updates it has it in hand alone.
LEMMA NobodyWaits ==
    ASSUME TypeInv, LoneInv, NEW s \in Sessions, NEW t \in Sessions
    PROVE  ~WaitsFor(s, t)
<1> SUFFICES ASSUME WaitsFor(s, t) PROVE FALSE
  OBVIOUS
<1>1. PICK m \in Messages : m = ses[s].msg
  BY DEF WaitsFor, TypeInv, HandlersHaveMessage, Handling
<1>2. InHand(s, m) /\ InHand(t, m) /\ s # t
  BY <1>1 DEF WaitsFor, InHand, Handling
<1> QED BY <1>2 DEF LoneInv, Undivided

LEMMA StutterAlone ==
    ASSUME TypeInv, LoneInv, UNCHANGED <<storeVars, ses, attempts, failures>>
    PROVE  LoneInv'
<1>1. /\ row' = row /\ key' = key /\ policy' = policy /\ lock' = lock
      /\ dirty' = dirty /\ ses' = ses /\ attempts' = attempts /\ failures' = failures
  BY DEF storeVars
<1>2. PICK s \in Sessions : s = DeadlineLoop
  BY SessionsAssumption DEF Loops
<1>3. \A n \in Messages : InHand(s, n)' => InHand(s, n)
  BY <1>1 DEF InHand, Handling, Blank
<1>4. HandlerCurrent(s)' /\ BatchCurrent(s)'
  <2>1. BatchCurrent(s)'
    BY <1>1 DEF LoneInv, BatchCurrent, Blank
  <2>2. \A m \in Messages : \A st : Moved(m, st)' = Moved(m, st) /\ View(s, m)' = View(s, m)
    BY <1>1 DEF Moved, View
  <2>3. HandlerCurrent(s)'
    BY <1>1, <2>2 DEF LoneInv, HandlerCurrent, TypeInv, HandlersHaveMessage, Moved, View
  <2> QED BY <2>1, <2>3
<1>5. Sound(s)'
  BY <1>4 DEF Sound
<1> QED BY <1>1, <1>3, <1>5, AdvanceAlone

-----------------------------------------------------------------------------
(* The theorems                                                             *)

LEMMA LoneInit == Init => LoneInv
<1> SUFFICES ASSUME Init PROVE LoneInv
  OBVIOUS
<1>1. /\ \A m \in Messages : row[m] = Blank /\ lock[m] = None
      /\ \A m \in Messages : attempts[m]["fallback"] = 0
      /\ \A s \in Sessions : ses[s].pc = "idle" /\ ses[s].batch = NoBatch
      /\ failures = 0
  BY DEF Init, StoreInit, ProcessorInit, Fresh, Legs
<1>2. \A s \in Sessions, m \in Messages : ~InHand(s, m)
  BY <1>1, NoneAssumption DEF InHand, NoBatch, Handling
<1>3. Responsibilities /\ Undivided /\ VersionsSucceed
  BY <1>1, <1>2 DEF Responsibilities, Undivided, VersionsSucceed
<1>4. KeysUsed
  BY <1>1 DEF KeysUsed, Stored, Blank
<1>5. RowsRegular
  BY <1>1 DEF RowsRegular, Regular, Blank, ShouldRetry, FALLBACK_RETRY_POLICY
<1>6. \A s \in Sessions : HandlerCurrent(s) /\ BatchCurrent(s)
  BY <1>1 DEF HandlerCurrent, BatchCurrent, NoBatch, Handling
<1>7. CallsCounted
  BY <1>1 DEF CallsCounted, Tries, Blank
<1> QED BY <1>3, <1>4, <1>5, <1>6, <1>7 DEF LoneInv

LEMMA LoneStep ==
    ASSUME SchedulerAlone, TypeInv, DurableInv, LoneInv, [Next]_vars
    PROVE  LoneInv'
<1>1. CASE Arrive
  BY <1>1, ArriveAlone
<1>2. ASSUME NEW c \in Creators, Insert(c)
      PROVE  LoneInv'
  BY <1>2, InsertAlone
<1>3. CASE Pass
  BY <1>3, PassAlone
<1>4. ASSUME NEW s \in Sessions, Handle(s)
      PROVE  LoneInv'
  <2>1. failures' = failures
    BY <1>4 DEF Handle
  <2>2. CASE ProcessNewMessage(s) \/ AttemptDelivery(s) \/ AttemptFallback(s)
    BY <2>1, <2>2, ReadAlone
  <2>3. CASE AcknowledgeMessage(s)
    <3>1. /\ ses[s].pc \in Handling /\ ses[s].op = "acknowledge_message"
          /\ Origin("acknowledge_message") = {}
      BY <2>3 DEF AcknowledgeMessage, At, Handling, Origin
    <3> QED BY <3>1 DEF LoneInv, HandlerCurrent
  <2>4. CASE Refetch(s)
    BY <2>1, <2>4, RefetchAlone
  <2>5. CASE Flush(s)
    BY <2>1, <2>5, FlushAlone
  <2>6. CASE SendPrimary(s) \/ \E channel \in Channels : SendFallback(s, channel)
    BY <2>1, <2>6, SendAlone
  <2> QED BY <1>4, <2>2, <2>3, <2>4, <2>5, <2>6 DEF Handle
<1>5. ASSUME NEW s \in Sessions, Commit(s)
      PROVE  LoneInv'
  BY <1>5, CommitAlone
<1>6. ASSUME NEW s \in Sessions, SessionError(s)
      PROVE  LoneInv'
  <2>1. {s} \in SUBSET Sessions /\ Abort({s}) /\ failures' = failures + 1
    BY <1>6 DEF SessionError
  <2> QED BY <2>1, AbortAlone
<1>7. CASE Crash
  <2>1. Sessions \in SUBSET Sessions /\ Abort(Sessions) /\ failures' = failures + 1
    BY <1>7 DEF Crash
  <2> QED BY <2>1, AbortAlone
<1>8. ASSUME NEW s \in Sessions, DeadlockVictim(s)
      PROVE  LoneInv'
  BY <1>8, NobodyWaits DEF DeadlockVictim
<1>9. CASE \/ \E m \in Messages : Elapse(m)
           \/ IdlePass
           \/ UNCHANGED vars
  <2>1. UNCHANGED <<storeVars, ses, attempts, failures>>
    BY <1>9 DEF Elapse, IdlePass, vars, processorVars
  <2> QED BY <2>1, StutterAlone
<1> QED BY <1>1, <1>2, <1>3, <1>4, <1>5, <1>6, <1>7, <1>8, <1>9 DEF Next

\* Left alone, the scheduler never works with a stale record: whatever a handler
\* has read is still what is committed when it writes it (SchedulerAlone,
\* app/workers/processor.py).
THEOREM LoneCorrect == ASSUME SchedulerAlone PROVE Spec => []LoneInv
<1>1. Init => LoneInv
  BY LoneInit
<1>2. TypeInv /\ DurableInv /\ LoneInv /\ [Next]_vars => LoneInv'
  BY LoneStep
<1> QED BY <1>1, <1>2, TypeCorrect, DurableCorrect, PTL DEF Spec

\* A row that nobody is changing accounts for every call of the message's fallback
\* channel, except one for every failure that has rolled a call's outcome back
\* (attempt_fallback, _handle_fallback_send_failure).
THEOREM CallsAccountedFor ==
    ASSUME SchedulerAlone PROVE Spec => []FallbackCallsCounted
<1>1. LoneInv => FallbackCallsCounted
  BY DEF LoneInv, CallsCounted, FallbackCallsCounted
<1> QED BY <1>1, LoneCorrect, PTL

-----------------------------------------------------------------------------
(* The lifecycle promised to clients                                        *)

\* A row is inserted, or committed over the row it succeeds.
LEMMA RowsSucceed ==
    ASSUME TypeInv, DurableInv, LoneInv, [Next]_vars, NEW m \in Messages
    PROVE  row'[m] = row[m] \/ Succeeds(row'[m], row[m])
<1>1. ASSUME NEW c \in Creators, Insert(c)
      PROVE  row'[m] = row[m] \/ Succeeds(row'[m], row[m])
  <2>1. CASE UNCHANGED storeVars
    BY <2>1 DEF storeVars
  <2>2. ASSUME NEW n \in Messages, NEW pol, InsertRow(n, KeyOf[c], pol)
        PROVE  row'[m] = row[m] \/ Succeeds(row'[m], row[m])
    <3>1. CASE n # m
      BY <2>2, <3>1 DEF InsertRow, TypeInv, TypeOK, StoreTypeOK
    <3>2. CASE n = m
      <4>1. /\ row[m].current_state = "ABSENT" /\ row'[m].current_state = "PENDING"
            /\ row'[m].retry_count = 0
        BY <2>2, <3>2 DEF InsertRow, Stored, Blank, TypeInv, TypeOK, StoreTypeOK
      <4>2. row[m].retry_count = 0
        BY <4>1 DEF LoneInv, RowsRegular, Regular
      <4> QED BY <4>1, <4>2 DEF Succeeds, Lifecycle!Moves
    <3> QED BY <3>1, <3>2
  <2> QED BY <1>1, <2>1, <2>2 DEF Insert
<1>2. ASSUME NEW s \in Sessions, Commit(s)
      PROVE  row'[m] = row[m] \/ Succeeds(row'[m], row[m])
  BY <1>2, CommitsSucceed DEF Commit, CommitTransaction
<1>3. ASSUME NEW s \in Sessions, Handle(s)
      PROVE  row' = row
  BY <1>3 DEF Handle, ProcessNewMessage, AttemptDelivery, AttemptFallback,
              AcknowledgeMessage, Refetch, Flush, SendPrimary, SendFallback, Save,
              WriteRow, storeVars
<1>4. CASE Arrive \/ Pass
  BY <1>4, ArriveType, PassType DEF storeVars
<1>5. CASE \/ \E s \in Sessions : SessionError(s) \/ DeadlockVictim(s)
           \/ Crash
  BY <1>5 DEF SessionError, DeadlockVictim, Crash, Abort, RollbackTransactions
<1>6. CASE \/ \E n \in Messages : Elapse(n)
           \/ IdlePass
           \/ UNCHANGED vars
  BY <1>6 DEF Elapse, IdlePass, vars, storeVars
<1> QED BY <1>1, <1>2, <1>3, <1>4, <1>5, <1>6 DEF Next

LEMMA LifecycleInit == Init => Lifecycle!Init
BY DEF Init, StoreInit, Blank, Lifecycle!Init

\* Every step of the gateway is a step of the lifecycle, or leaves it alone.
LEMMA LifecycleStep ==
    ASSUME TypeInv, DurableInv, LoneInv, [Next]_vars,
           TypeInv', DurableInv', LoneInv'
    PROVE  Lifecycle!Next
<1>1. ASSUME NEW m \in Messages
      PROVE  /\ row'[m].current_state \in Lifecycle!States
             /\ row'[m].retry_count \in 0 .. FALLBACK_RETRY_POLICY.max_retries
  <2>1. row'[m] \in Row /\ row'[m].current_state \notin Transient
    BY DEF TypeInv, TypeOK, StoreTypeOK, DurableInv, RowsSettled, Settled
  <2>2. row'[m].current_state \in Lifecycle!States
    BY <2>1 DEF Row, MessageStates, Transient, Lifecycle!States
  <2>3. row'[m].retry_count <= FALLBACK_RETRY_POLICY.max_retries
    BY DEF LoneInv, RowsRegular, Regular
  <2> QED BY <2>1, <2>2, <2>3 DEF Row, FALLBACK_RETRY_POLICY
<1>2. ASSUME NEW m \in Messages
      PROVE  Lifecycle!Step(m)
  BY RowsSucceed DEF Lifecycle!Step, Lifecycle!FallbackFails, Succeeds, ShouldRetry
<1> QED BY <1>1, <1>2 DEF Lifecycle!Next

\* Left alone, the gateway implements the lifecycle of a message: it is moved only
\* as MessageLifecycle says, its retries are counted, and it is dead when they
\* have run out.
THEOREM LifecycleImplemented == ASSUME SchedulerAlone PROVE Spec => ImplementsLifecycle
<1>1. Init => Lifecycle!Init
  BY LifecycleInit
<1>2. TypeInv /\ DurableInv /\ LoneInv /\ [Next]_vars /\ TypeInv' /\ DurableInv' /\ LoneInv'
        => Lifecycle!Next
  BY LifecycleStep
<1> QED BY <1>1, <1>2, TypeCorrect, DurableCorrect, LoneCorrect, PTL
        DEF Spec, ImplementsLifecycle, Lifecycle!Spec

-----------------------------------------------------------------------------
(* The reports: their queries                                              *)

\* What the queries fill in
Fields ==
    MessageStates \cup
    {"total_messages", "messages_acknowledged", "messages_failed",
     "messages_dead_letter", "successful_deliveries_24h", "failed_deliveries_24h",
     "latencies"}

Query == [field : Fields, states : SUBSET MessageStates,
          acknowledged : BOOLEAN, recent : BOOLEAN]

LEMMA QueryType ==
    ASSUME NEW f \in Fields, NEW S \in SUBSET MessageStates
    PROVE  /\ InState(f, S) \in Query /\ Acknowledged(f) \in Query
           /\ Last24h(f, S) \in Query
BY DEF InState, Acknowledged, Last24h, Query

LEMMA CountsByStateType ==
    /\ CountsByState \in Seq(Query) /\ Len(CountsByState) = 11
    /\ \A i \in 1 .. 11 : CountsByState[i] = InState(StateOrder[i], {StateOrder[i]})
<1>1. Len(StateOrder) = 11 /\ \A i \in 1 .. 11 : StateOrder[i] \in MessageStates
  BY DEF StateOrder, MessageStates
<1>2. \A i \in 1 .. 11 : InState(StateOrder[i], {StateOrder[i]}) \in Query
  BY <1>1, QueryType DEF Fields
<1> QED BY <1>1, <1>2 DEF CountsByState

\* u is s followed by t.
Joins(u, s, t) ==
    /\ u \in Seq(Query)
    /\ Len(u) = Len(s) + Len(t)
    /\ \A i \in 1 .. Len(s) : u[i] = s[i]
    /\ \A i \in Len(s) + 1 .. Len(s) + Len(t) : u[i] = t[i - Len(s)]

LEMMA Joined ==
    ASSUME NEW s \in Seq(Query), NEW t \in Seq(Query), NEW u, u = s \o t
    PROVE  Joins(u, s, t)
<1>1. Len(s) \in Nat /\ Len(t) \in Nat
  BY LenProperties
<1>2. /\ u \in Seq(Query) /\ Len(u) = Len(s) + Len(t)
      /\ \A i \in 1 .. Len(s) + Len(t) :
            u[i] = IF i <= Len(s) THEN s[i] ELSE t[i - Len(s)]
  BY ConcatProperties
<1> QED BY <1>1, <1>2 DEF Joins

\* The queries of a collection, in their order
LEMMA Collected ==
    /\ CollectQueries \in Seq(Query) /\ Len(CollectQueries) = 18
    /\ \A i \in 2 .. 12 :
          CollectQueries[i] = InState(StateOrder[i - 1], {StateOrder[i - 1]})
    /\ CollectQueries[1] = InState("total_messages", MessageStates)
    /\ CollectQueries[13].field = "messages_acknowledged"
    /\ CollectQueries[14] = InState("messages_failed", {"FAILED"})
    /\ CollectQueries[15] = InState("messages_dead_letter", {"DEAD_LETTER"})
    /\ CollectQueries[16].field = "successful_deliveries_24h"
    /\ CollectQueries[17] = Last24h("failed_deliveries_24h", {"FAILED", "DEAD_LETTER"})
    /\ CollectQueries[18].field = "latencies"
<1> DEFINE total == <<InState("total_messages", MessageStates)>>
           latencies == <<Acknowledged("latencies")>>
           upToStates == total \o CountsByState
           upToTotals == upToStates \o Totals
           upToRates == upToTotals \o Deliveries24h
<1>1. /\ total \in Seq(Query) /\ Len(total) = 1
      /\ latencies \in Seq(Query) /\ Len(latencies) = 1
      /\ Totals \in Seq(Query) /\ Len(Totals) = 3
      /\ Deliveries24h \in Seq(Query) /\ Len(Deliveries24h) = 2
  <2>1. /\ InState("total_messages", MessageStates) \in Query
        /\ Acknowledged("latencies") \in Query
        /\ Acknowledged("messages_acknowledged") \in Query
    BY QueryType DEF Fields
  <2>2. /\ InState("messages_failed", {"FAILED"}) \in Query
        /\ InState("messages_dead_letter", {"DEAD_LETTER"}) \in Query
        /\ Last24h("successful_deliveries_24h",
                   {"SENT_TO_CHANNEL", "ACKNOWLEDGED", "FALLBACK_DELIVERED"}) \in Query
        /\ Last24h("failed_deliveries_24h", {"FAILED", "DEAD_LETTER"}) \in Query
    BY QueryType DEF MessageStates, Fields
  <2> QED BY <2>1, <2>2 DEF Totals, Deliveries24h
<1>2. /\ upToStates = total \o CountsByState
      /\ upToTotals = upToStates \o Totals
      /\ upToRates = upToTotals \o Deliveries24h
      /\ CollectQueries = upToRates \o latencies
  BY DEF CollectQueries
<1>3. /\ total[1] = InState("total_messages", MessageStates)
      /\ latencies[1].field = "latencies"
      /\ Totals[1].field = "messages_acknowledged"
      /\ Totals[2] = InState("messages_failed", {"FAILED"})
      /\ Totals[3] = InState("messages_dead_letter", {"DEAD_LETTER"})
      /\ Deliveries24h[1].field = "successful_deliveries_24h"
      /\ Deliveries24h[2]
           = Last24h("failed_deliveries_24h", {"FAILED", "DEAD_LETTER"})
  BY DEF Totals, Deliveries24h, InState, Acknowledged, Last24h
<1> HIDE DEF total, latencies, upToStates, upToTotals, upToRates
<1>4. /\ upToStates \in Seq(Query) /\ Len(upToStates) = 12
      /\ upToStates[1] = total[1]
      /\ \A i \in 2 .. 12 : upToStates[i] = CountsByState[i - 1]
  <2>1. Joins(upToStates, total, CountsByState)
    BY <1>1, <1>2, CountsByStateType, Joined
  <2> QED BY <1>1, CountsByStateType, <2>1 DEF Joins
<1>5. /\ upToTotals \in Seq(Query) /\ Len(upToTotals) = 15
      /\ \A i \in 1 .. 12 : upToTotals[i] = upToStates[i]
      /\ \A i \in 13 .. 15 : upToTotals[i] = Totals[i - 12]
  <2>1. Joins(upToTotals, upToStates, Totals)
    BY <1>1, <1>2, <1>4, Joined
  <2> QED BY <1>1, <1>4, <2>1 DEF Joins
<1>6. /\ upToRates \in Seq(Query) /\ Len(upToRates) = 17
      /\ \A i \in 1 .. 15 : upToRates[i] = upToTotals[i]
      /\ \A i \in 16 .. 17 : upToRates[i] = Deliveries24h[i - 15]
  <2>1. Joins(upToRates, upToTotals, Deliveries24h)
    BY <1>1, <1>2, <1>5, Joined
  <2> QED BY <1>1, <1>5, <2>1 DEF Joins
<1>7. /\ CollectQueries \in Seq(Query) /\ Len(CollectQueries) = 18
      /\ \A i \in 1 .. 17 : CollectQueries[i] = upToRates[i]
      /\ CollectQueries[18] = latencies[1]
  <2>1. Joins(CollectQueries, upToRates, latencies)
    BY <1>1, <1>2, <1>6, Joined
  <2> QED BY <1>1, <1>6, <2>1 DEF Joins
<1>8. /\ CollectQueries[1] = total[1]
      /\ \A i \in 2 .. 12 : CollectQueries[i] = CountsByState[i - 1]
  BY <1>4, <1>5, <1>6, <1>7
<1>9. /\ CollectQueries[13] = Totals[1] /\ CollectQueries[14] = Totals[2]
      /\ CollectQueries[15] = Totals[3]
      /\ CollectQueries[16] = Deliveries24h[1] /\ CollectQueries[17] = Deliveries24h[2]
  BY <1>5, <1>6, <1>7
<1>10. ASSUME NEW i \in 2 .. 12
       PROVE  CollectQueries[i] = InState(StateOrder[i - 1], {StateOrder[i - 1]})
  <2>1. i - 1 \in 1 .. 11
    OBVIOUS
  <2> QED BY <1>8, <2>1, CountsByStateType
<1> QED BY <1>3, <1>7, <1>8, <1>9, <1>10

\* The field that one query only asks for is the count of that query.
LEMMA FieldCounted ==
    ASSUME NEW f, NEW queries, queries = Queries(report.endpoint),
           NEW n \in DOMAIN queries,
           \A i \in DOMAIN queries : queries[i].field = f <=> i = n
    PROVE  Field(f) = report.counts[n]
<1>1. (CHOOSE i \in DOMAIN queries : queries[i].field = f) = n
  OBVIOUS
<1> QED BY <1>1 DEF Field

LEMMA CollectedFields ==
    ASSUME report.endpoint = "metrics"
    PROVE  /\ \A j \in 1 .. 11 : Field(StateOrder[j]) = report.counts[j + 1]
           /\ Field("total_messages") = report.counts[1]
           /\ Field("messages_failed") = report.counts[14]
           /\ Field("messages_dead_letter") = report.counts[15]
           /\ Field("failed_deliveries_24h") = report.counts[17]
<1>1. /\ Queries(report.endpoint) = CollectQueries
      /\ DOMAIN CollectQueries = 1 .. 18
  BY Collected, LenProperties DEF Queries
<1>2. \A i \in 2 .. 12 : CollectQueries[i].field = StateOrder[i - 1]
  BY Collected DEF InState
<1>3. /\ CollectQueries[1].field = "total_messages"
      /\ CollectQueries[13].field = "messages_acknowledged"
      /\ CollectQueries[14].field = "messages_failed"
      /\ CollectQueries[15].field = "messages_dead_letter"
      /\ CollectQueries[16].field = "successful_deliveries_24h"
      /\ CollectQueries[17].field = "failed_deliveries_24h"
      /\ CollectQueries[18].field = "latencies"
  BY Collected DEF InState, Last24h
<1>4. ASSUME NEW i \in 1 .. 18
      PROVE  /\ \A j \in 1 .. 11 : CollectQueries[i].field = StateOrder[j] <=> i = j + 1
             /\ CollectQueries[i].field = "total_messages" <=> i = 1
             /\ CollectQueries[i].field = "messages_failed" <=> i = 14
             /\ CollectQueries[i].field = "messages_dead_letter" <=> i = 15
             /\ CollectQueries[i].field = "failed_deliveries_24h" <=> i = 17
  <2>1. CASE i \in 2 .. 12
    <3>1. /\ CollectQueries[i].field = StateOrder[i - 1] /\ i - 1 \in 1 .. 11
      BY <1>2, <2>1
    <3>2. /\ \A j, k \in 1 .. 11 : StateOrder[j] = StateOrder[k] <=> j = k
          /\ \A j \in 1 .. 11 :
                StateOrder[j] \notin {"total_messages", "messages_failed",
                                      "messages_dead_letter", "failed_deliveries_24h"}
      BY DEF StateOrder
    <3>3. \A j \in 1 .. 11 : i - 1 = j <=> i = j + 1
      BY <2>1
    <3> HIDE DEF StateOrder
    <3> QED BY <2>1, <3>1, <3>2, <3>3
  <2>2. CASE i \in {1} \cup 13 .. 18
    <3>1. \A j \in 1 .. 11 :
             StateOrder[j] \notin {"total_messages", "messages_acknowledged",
                                  "messages_failed", "messages_dead_letter",
                                  "successful_deliveries_24h", "failed_deliveries_24h",
                                  "latencies"}
      BY DEF StateOrder
    <3>2. \A j \in 1 .. 11 : i # j + 1
      BY <2>2
    <3>3. i \in {1, 13, 14, 15, 16, 17, 18}
      BY <2>2
    <3> HIDE DEF StateOrder
    <3>4. \A j \in 1 .. 11 : CollectQueries[i].field # StateOrder[j]
      BY <1>3, <3>1, <3>3
    <3>5. /\ CollectQueries[i].field = "total_messages" <=> i = 1
          /\ CollectQueries[i].field = "messages_failed" <=> i = 14
          /\ CollectQueries[i].field = "messages_dead_letter" <=> i = 15
          /\ CollectQueries[i].field = "failed_deliveries_24h" <=> i = 17
      BY <1>3, <3>3
    <3> QED BY <3>2, <3>4, <3>5
  <2>3. i \in 2 .. 12 \/ i \in {1} \cup 13 .. 18
    OBVIOUS
  <2> QED BY <2>1, <2>2, <2>3
<1>5. ASSUME NEW f, NEW n \in 1 .. 18,
             \A i \in 1 .. 18 : CollectQueries[i].field = f <=> i = n
      PROVE  Field(f) = report.counts[n]
  BY <1>1, <1>5, FieldCounted
<1>6. ASSUME NEW j \in 1 .. 11 PROVE Field(StateOrder[j]) = report.counts[j + 1]
  <2>1. PICK n \in 1 .. 18 : n = j + 1
    OBVIOUS
  <2>2. PICK f : f = StateOrder[j]
    OBVIOUS
  <2>3. \A i \in 1 .. 18 : CollectQueries[i].field = f <=> i = n
    BY <1>4, <2>1, <2>2
  <2>4. Field(f) = report.counts[n]
    BY <1>5, <2>3
  <2> QED BY <2>1, <2>2, <2>4
<1>7. /\ Field("total_messages") = report.counts[1]
      /\ Field("messages_failed") = report.counts[14]
      /\ Field("messages_dead_letter") = report.counts[15]
      /\ Field("failed_deliveries_24h") = report.counts[17]
  <2>1. 1 \in 1 .. 18 /\ 14 \in 1 .. 18 /\ 15 \in 1 .. 18 /\ 17 \in 1 .. 18
    OBVIOUS
  <2>2. /\ \A i \in 1 .. 18 : CollectQueries[i].field = "total_messages" <=> i = 1
        /\ \A i \in 1 .. 18 : CollectQueries[i].field = "messages_failed" <=> i = 14
        /\ \A i \in 1 .. 18 : CollectQueries[i].field = "messages_dead_letter" <=> i = 15
        /\ \A i \in 1 .. 18 : CollectQueries[i].field = "failed_deliveries_24h" <=> i = 17
    BY <1>4
  <2> QED BY <1>5, <2>1, <2>2
<1> QED BY <1>6, <1>7

LEMMA HealthFields ==
    ASSUME report.endpoint = "health"
    PROVE  /\ HealthQueries[4] = InState("messages_dead_letter", {"DEAD_LETTER"})
           /\ Queries(report.endpoint) = HealthQueries /\ Len(HealthQueries) = 4
           /\ Field("messages_dead_letter") = report.counts[4]
<1>1. /\ Queries(report.endpoint) = HealthQueries
      /\ Len(HealthQueries) = 4 /\ DOMAIN HealthQueries = 1 .. 4
  BY DEF Queries, HealthQueries
<1>2. /\ HealthQueries[1].field = "reachable"
      /\ HealthQueries[2].field = "messages_pending"
      /\ HealthQueries[3].field = "messages_escalation_pending"
      /\ HealthQueries[4].field = "messages_dead_letter"
      /\ HealthQueries[4] = InState("messages_dead_letter", {"DEAD_LETTER"})
  BY DEF HealthQueries, InState
<1>3. \A i \in 1 .. 4 : HealthQueries[i].field = "messages_dead_letter" <=> i = 4
  BY <1>2
<1> QED BY <1>1, <1>2, <1>3, FieldCounted

-----------------------------------------------------------------------------
(* The reports: their counts                                               *)

\* What a query counts never leaves it: it asks for messages given up.
Grows(q) == q.states \subseteq {"FAILED", "DEAD_LETTER"} /\ ~q.acknowledged

\* Whatever q counts, p counts.
Within(q, p) ==
    /\ q.states \subseteq p.states
    /\ ~p.acknowledged
    /\ p.recent => q.recent \/ Recent = Messages

\* Counts of messages given up are outgrown by what is stored, and by what a
\* later query has counted of the same states.
ReportInv ==
    LET queries == Queries(report.endpoint)
        counts == report.counts
    IN  /\ report.endpoint = None => counts = <<>>
        /\ report.failed => report.endpoint # None /\ Len(counts) # Len(queries)
        /\ Len(counts) <= Len(queries)
        /\ \A i \in 1..Len(counts) : Grows(queries[i]) =>
              counts[i] <= Cardinality(Matches(queries[i]))
        /\ \A i, j \in 1..Len(counts) :
              i < j /\ Grows(queries[i]) /\ Within(queries[i], queries[j]) =>
                 counts[i] <= counts[j]
        /\ \A i, j, k \in 1..Len(counts) :
              /\ i < k /\ Grows(queries[i]) /\ Within(queries[i], queries[k])
              /\ j < k /\ Grows(queries[j]) /\ Within(queries[j], queries[k])
              /\ queries[i].states \cap queries[j].states = {}
              => counts[i] + counts[j] <= counts[k]

LEMMA MatchesFinite ==
    ASSUME NEW q
    PROVE  IsFiniteSet(Matches(q)) /\ Cardinality(Matches(q)) \in Nat
<1>1. Matches(q) \subseteq Messages
  BY DEF Matches, Stored
<1> QED BY <1>1, MetricsAssumption, FS_Subset, FS_CardinalityType

\* A message given up stays as it is.
LEMMA MatchesGrow ==
    ASSUME TypeInv, DurableInv, LoneInv, [Next]_vars, NEW q, Grows(q)
    PROVE  Matches(q) \subseteq Matches(q)'
<1> SUFFICES ASSUME NEW m \in Matches(q) PROVE m \in Matches(q)'
  OBVIOUS
<1>1. m \in Messages /\ row[m].current_state \in {"FAILED", "DEAD_LETTER"}
  BY DEF Matches, Stored, Grows
<1>2. row'[m] = row[m]
  BY <1>1, RowsSucceed DEF Succeeds, Lifecycle!Moves
<1> QED BY <1>1, <1>2 DEF Matches, Stored

LEMMA MatchesWithin ==
    ASSUME NEW q, NEW p, Grows(q), Within(q, p)
    PROVE  Matches(q) \subseteq Matches(p)
BY DEF Matches, Stored, Grows, Within

LEMMA CountsWithin ==
    ASSUME NEW q, NEW p, Grows(q), Within(q, p)
    PROVE  Cardinality(Matches(q)) <= Cardinality(Matches(p))
BY MatchesWithin, MatchesFinite, FS_Subset

LEMMA CountsAdd ==
    ASSUME NEW q, NEW r, NEW p, Grows(q), Grows(r), Within(q, p), Within(r, p),
           q.states \cap r.states = {}
    PROVE  Cardinality(Matches(q)) + Cardinality(Matches(r)) <= Cardinality(Matches(p))
<1>1. Matches(q) \cap Matches(r) = {}
  BY DEF Matches
<1>2. Matches(q) \cup Matches(r) \subseteq Matches(p)
  BY MatchesWithin
<1>3. Cardinality(Matches(q) \cup Matches(r))
        = Cardinality(Matches(q)) + Cardinality(Matches(r))
  <2>1. /\ IsFiniteSet(Matches(q)) /\ Cardinality(Matches(q)) \in Nat
        /\ IsFiniteSet(Matches(r)) /\ Cardinality(Matches(r)) \in Nat
    BY MatchesFinite
  <2>2. Cardinality(Matches(q) \cap Matches(r)) = 0
    BY <1>1, FS_EmptySet
  <2>3. Cardinality(Matches(q) \cup Matches(r))
          = Cardinality(Matches(q)) + Cardinality(Matches(r))
              - Cardinality(Matches(q) \cap Matches(r))
    BY <2>1, FS_Union
  <2> QED BY <2>1, <2>2, <2>3
<1>4. Cardinality(Matches(q) \cup Matches(r)) <= Cardinality(Matches(p))
  BY <1>2, MatchesFinite, FS_Subset
<1> QED BY <1>3, <1>4

LEMMA QueriesType ==
    ASSUME NEW endpoint
    PROVE  Len(Queries(endpoint)) \in Nat
<1>1. Len(CollectQueries) \in Nat /\ Len(CountsByState) \in Nat
  BY Collected, CountsByStateType
<1>2. Len(HealthQueries) \in Nat /\ Len(<<>>) \in Nat
  BY DEF HealthQueries
<1> QED BY <1>1, <1>2 DEF Queries

\* The gateway moves on between two queries.
LEMMA ReportWaits ==
    ASSUME TypeInv, DurableInv, LoneInv, [Next]_vars, MetricsTypeOK, ReportInv,
           report' = report
    PROVE  ReportInv'
<1> DEFINE queries == Queries(report.endpoint)
           counts == report.counts
<1>1. /\ Queries(report'.endpoint) = queries /\ report'.counts = counts
      /\ report'.failed = report.failed
  OBVIOUS
<1>2. ASSUME NEW i \in 1 .. Len(counts), Grows(queries[i])
      PROVE  counts[i] <= Cardinality(Matches(queries[i])')
  <2>1. counts[i] \in Nat /\ counts[i] <= Cardinality(Matches(queries[i]))
    BY <1>2 DEF MetricsTypeOK, ReportInv
  <2>2. PICK q : q = queries[i]
    OBVIOUS
  <2>3. Matches(q) \subseteq Matches(q)'
    BY <1>2, <2>2, MatchesGrow
  <2>4. Matches(q)' \subseteq Messages
    BY DEF Matches, Stored
  <2>5. /\ IsFiniteSet(Matches(q)') /\ Cardinality(Matches(q)') \in Nat
        /\ Cardinality(Matches(q)) \in Nat
    BY <2>4, MatchesFinite, MetricsAssumption, FS_Subset, FS_CardinalityType
  <2>6. Cardinality(Matches(q)) <= Cardinality(Matches(q)')
    BY <2>3, <2>5, FS_Subset
  <2> QED BY <2>1, <2>2, <2>5, <2>6
<1> QED BY <1>1, <1>2 DEF ReportInv, Grows, Within

\* A query adds the number of what it finds, which is at least what the queries
\* before it have found of the same.
LEMMA ReportCounts ==
    ASSUME MetricsTypeOK, ReportInv, Count
    PROVE  ReportInv'
<1> DEFINE queries == Queries(report.endpoint)
           counts == report.counts
           n == Len(counts)
           found == Cardinality(Matches(queries[n + 1]))
<1>1. row' = row
  BY DEF Count, vars, storeVars
<1>2. \A q : Matches(q)' = Matches(q)
  BY <1>1 DEF Matches, Stored
<1>3. counts \in Seq(Nat) /\ n \in Nat /\ \A i \in 1 .. n : counts[i] \in Nat
  BY LenProperties DEF MetricsTypeOK
<1>4. /\ report.endpoint # None /\ report'.endpoint = report.endpoint
      /\ report'.counts = Append(counts, found)
      /\ n # Len(queries)
      /\ ~report'.failed
  BY DEF Count, Complete, MetricsTypeOK
<1>5. Queries(report'.endpoint) = queries
  BY <1>4
<1>6. found \in Nat
  BY MatchesFinite
<1>7. /\ Len(report'.counts) = n + 1
      /\ \A i \in 1 .. n : report'.counts[i] = counts[i]
      /\ report'.counts[n + 1] = found
  BY <1>3, <1>4, <1>6, AppendProperties
<1>8. n <= Len(queries) /\ Len(queries) \in Nat
  BY QueriesType DEF ReportInv
<1>9. ASSUME NEW i \in 1 .. n, Grows(queries[i])
      PROVE  /\ counts[i] <= Cardinality(Matches(queries[i]))
             /\ Cardinality(Matches(queries[i])) \in Nat
  BY <1>9, MatchesFinite DEF ReportInv
<1>10. ASSUME NEW i \in 1 .. n + 1, Grows(queries[i])
       PROVE  report'.counts[i] <= Cardinality(Matches(queries[i]))
  <2>1. CASE i \in 1 .. n
    BY <1>7, <1>9, <1>10, <2>1
  <2>2. CASE i = n + 1
    BY <1>6, <1>7, <2>2
  <2> QED BY <1>3, <2>1, <2>2
<1>11. ASSUME NEW i \in 1 .. n + 1, NEW j \in 1 .. n + 1, i < j,
              Grows(queries[i]), Within(queries[i], queries[j])
       PROVE  report'.counts[i] <= report'.counts[j]
  <2>1. i \in 1 .. n
    BY <1>3, <1>11
  <2>2. CASE j \in 1 .. n
    BY <1>7, <1>11, <2>1, <2>2 DEF ReportInv
  <2>3. CASE j = n + 1
    <3>1. Cardinality(Matches(queries[i])) <= found
      BY <1>11, <2>3, CountsWithin
    <3>2. /\ counts[i] <= Cardinality(Matches(queries[i]))
          /\ Cardinality(Matches(queries[i])) \in Nat
      BY <1>9, <1>11, <2>1
    <3>3. /\ report'.counts[i] = counts[i] /\ counts[i] \in Nat
          /\ report'.counts[j] = found
      BY <1>3, <1>7, <2>1, <2>3
    <3> HIDE DEF counts, queries, n, found
    <3> QED BY <1>6, <3>1, <3>2, <3>3
  <2> QED BY <1>3, <2>2, <2>3
<1>12. ASSUME NEW i \in 1 .. n + 1, NEW j \in 1 .. n + 1, NEW k \in 1 .. n + 1,
              i < k, Grows(queries[i]), Within(queries[i], queries[k]),
              j < k, Grows(queries[j]), Within(queries[j], queries[k]),
              queries[i].states \cap queries[j].states = {}
       PROVE  report'.counts[i] + report'.counts[j] <= report'.counts[k]
  <2>1. i \in 1 .. n /\ j \in 1 .. n
    BY <1>3, <1>12
  <2>2. CASE k \in 1 .. n
    BY <1>7, <1>12, <2>1, <2>2 DEF ReportInv
  <2>3. CASE k = n + 1
    <3>1. Cardinality(Matches(queries[i])) + Cardinality(Matches(queries[j])) <= found
      BY <1>12, <2>3, CountsAdd
    <3>2. /\ counts[i] <= Cardinality(Matches(queries[i]))
          /\ counts[j] <= Cardinality(Matches(queries[j]))
          /\ Cardinality(Matches(queries[i])) \in Nat
          /\ Cardinality(Matches(queries[j])) \in Nat
      BY <1>9, <1>12, <2>1
    <3>3. /\ report'.counts[i] = counts[i] /\ counts[i] \in Nat
          /\ report'.counts[j] = counts[j] /\ counts[j] \in Nat
          /\ report'.counts[k] = found
      BY <1>3, <1>7, <2>1, <2>3
    <3> HIDE DEF counts, queries, n, found
    <3> QED BY <1>6, <3>1, <3>2, <3>3
  <2>4. k \in 1 .. n \/ k = n + 1
    BY <1>3
  <2> HIDE DEF counts, queries, n, found
  <2> QED BY <2>2, <2>3, <2>4
<1> HIDE DEF queries, counts, n, found
<1>13. Len(report'.counts) <= Len(queries)
  BY <1>3, <1>4, <1>7, <1>8
<1> QED BY <1>2, <1>4, <1>5, <1>7, <1>10, <1>11, <1>12, <1>13
        DEF ReportInv, Grows, Within

LEMMA ReportStep ==
    ASSUME TypeInv, DurableInv, LoneInv, MetricsTypeOK, ReportInv,
           [MetricsNext]_<<vars, report>>
    PROVE  MetricsTypeOK' /\ ReportInv'
<1>1. CASE [Next]_vars /\ report' = report
  BY <1>1, ReportWaits DEF MetricsTypeOK
<1>2. ASSUME NEW endpoint \in Endpoints, Ask(endpoint)
      PROVE  MetricsTypeOK' /\ ReportInv'
  <2>1. report'.counts = <<>> /\ ~report'.failed /\ MetricsTypeOK'
    BY <1>2 DEF Ask, MetricsTypeOK, ReportInv
  <2>2. Len(report'.counts) = 0
    BY <2>1
  <2>3. Len(Queries(report'.endpoint)) \in Nat
    BY QueriesType
  <2> QED BY <2>1, <2>2, <2>3 DEF ReportInv
<1>3. CASE Count
  <2>1. \A q : Cardinality(Matches(q)) \in Nat
    BY MatchesFinite
  <2> QED BY <1>3, <2>1, ReportCounts, AppendProperties DEF Count, MetricsTypeOK
<1>4. CASE CountFails
  <2>1. /\ report'.endpoint = report.endpoint /\ report'.counts = report.counts
        /\ report.endpoint # None /\ Len(report.counts) # Len(Queries(report.endpoint))
        /\ MetricsTypeOK'
    BY <1>4 DEF CountFails, Complete, MetricsTypeOK
  <2>2. row' = row
    BY <1>4 DEF CountFails, vars, storeVars
  <2>3. \A q : Matches(q)' = Matches(q)
    BY <2>2 DEF Matches, Stored
  <2> QED BY <2>1, <2>3 DEF ReportInv, Grows, Within
<1> QED BY <1>1, <1>2, <1>3, <1>4 DEF MetricsNext

\* A report leaves the gateway alone.
LEMMA ReportsOnly == MetricsSpec => Spec
<1>1. MetricsInit => Init
  BY DEF MetricsInit
<1>2. [MetricsNext]_<<vars, report>> => [Next]_vars
  BY DEF MetricsNext, Ask, Count, CountFails
<1> QED BY <1>1, <1>2, PTL DEF MetricsSpec, Spec

LEMMA ReportInit == MetricsInit => MetricsTypeOK /\ ReportInv
<1> SUFFICES ASSUME MetricsInit PROVE MetricsTypeOK /\ ReportInv
  OBVIOUS
<1>1. /\ report = [endpoint |-> None, counts |-> <<>>, failed |-> FALSE]
      /\ Len(report.counts) = 0
  BY DEF MetricsInit
<1>2. Len(Queries(report.endpoint)) \in Nat
  BY QueriesType
<1> QED BY <1>1, <1>2 DEF MetricsTypeOK, ReportInv

LEMMA ReportCorrect ==
    ASSUME SchedulerAlone PROVE MetricsSpec => [](MetricsTypeOK /\ ReportInv)
<1>1. MetricsInit => MetricsTypeOK /\ ReportInv
  BY ReportInit
<1>2. TypeInv /\ DurableInv /\ LoneInv /\ (MetricsTypeOK /\ ReportInv)
        /\ [MetricsNext]_<<vars, report>> => (MetricsTypeOK /\ ReportInv)'
  BY ReportStep
<1> QED BY <1>1, <1>2, ReportsOnly, TypeCorrect, DurableCorrect, LoneCorrect, PTL
        DEF MetricsSpec

\* However the messages move between the queries of a collection, the failed and
\* the dead that messages_by_state counts are in the totals counted after it, and
\* both together in the rate of the last 24 hours.
THEOREM FinalCountsOutgrown ==
    ASSUME SchedulerAlone PROVE MetricsSpec => []FinalCountsGrow
<1>1. MetricsTypeOK /\ ReportInv => FinalCountsGrow
  <2> SUFFICES ASSUME MetricsTypeOK, ReportInv, Answered("metrics")
               PROVE  /\ Field("FAILED") <= Field("messages_failed")
                      /\ Field("DEAD_LETTER") <= Field("messages_dead_letter")
                      /\ Recent = Messages =>
                            Field("messages_failed") + Field("messages_dead_letter")
                               <= Field("failed_deliveries_24h")
    BY DEF FinalCountsGrow
  <2>1. /\ report.endpoint = "metrics" /\ Queries(report.endpoint) = CollectQueries
        /\ Len(report.counts) = 18
    BY Collected DEF Answered, Complete, Queries
  <2>2. /\ CollectQueries[10] = InState("FAILED", {"FAILED"})
        /\ CollectQueries[11] = InState("DEAD_LETTER", {"DEAD_LETTER"})
    BY Collected DEF StateOrder
  <2>3. /\ \A i \in {10, 11, 14, 15} : Grows(CollectQueries[i])
        /\ Within(CollectQueries[10], CollectQueries[14])
        /\ Within(CollectQueries[11], CollectQueries[15])
        /\ CollectQueries[14].states \cap CollectQueries[15].states = {}
        /\ Recent = Messages =>
              /\ Within(CollectQueries[14], CollectQueries[17])
              /\ Within(CollectQueries[15], CollectQueries[17])
    BY <2>2, Collected DEF Grows, Within, InState, Last24h
  <2>4. /\ report.counts[10] <= report.counts[14]
        /\ report.counts[11] <= report.counts[15]
        /\ Recent = Messages =>
              report.counts[14] + report.counts[15] <= report.counts[17]
    <3>1. /\ 10 \in 1 .. 18 /\ 11 \in 1 .. 18 /\ 14 \in 1 .. 18 /\ 15 \in 1 .. 18
          /\ 17 \in 1 .. 18 /\ 10 < 14 /\ 11 < 15 /\ 14 < 17 /\ 15 < 17
      OBVIOUS
    <3>2. \A i, j \in 1 .. 18 :
             i < j /\ Grows(CollectQueries[i]) /\ Within(CollectQueries[i], CollectQueries[j])
             => report.counts[i] <= report.counts[j]
      BY <2>1 DEF ReportInv
    <3>3. \A i, j, k \in 1 .. 18 :
             /\ i < k /\ Grows(CollectQueries[i])
             /\ Within(CollectQueries[i], CollectQueries[k])
             /\ j < k /\ Grows(CollectQueries[j])
             /\ Within(CollectQueries[j], CollectQueries[k])
             /\ CollectQueries[i].states \cap CollectQueries[j].states = {}
             => report.counts[i] + report.counts[j] <= report.counts[k]
      BY <2>1 DEF ReportInv
    <3>4. report.counts[10] <= report.counts[14] /\ report.counts[11] <= report.counts[15]
      BY <2>3, <3>1, <3>2
    <3>5. ASSUME Recent = Messages
          PROVE  report.counts[14] + report.counts[15] <= report.counts[17]
      BY <2>3, <3>1, <3>3, <3>5
    <3> QED BY <3>4, <3>5
  <2>5. /\ Field("FAILED") = report.counts[10]
        /\ Field("DEAD_LETTER") = report.counts[11]
        /\ Field("messages_failed") = report.counts[14]
        /\ Field("messages_dead_letter") = report.counts[15]
        /\ Field("failed_deliveries_24h") = report.counts[17]
    <3>1. /\ StateOrder[9] = "FAILED" /\ StateOrder[10] = "DEAD_LETTER"
          /\ 9 \in 1 .. 11 /\ 10 \in 1 .. 11 /\ 9 + 1 = 10 /\ 10 + 1 = 11
      BY DEF StateOrder
    <3> HIDE DEF StateOrder
    <3> QED BY <2>1, <3>1, CollectedFields
  <2> QED BY ONLY <2>4, <2>5
<1> QED BY <1>1, ReportCorrect, PTL

\* A health check that finds too many dead letters is still right when its answer
\* is sent.
THEOREM UnhealthyStays ==
    ASSUME SchedulerAlone PROVE MetricsSpec => []UnhealthyIsStable
<1>1. MetricsTypeOK /\ ReportInv => UnhealthyIsStable
  <2> SUFFICES ASSUME MetricsTypeOK, ReportInv, Answered("health"), ~is_healthy
               PROVE  Cardinality({m \in Messages : row[m].current_state = "DEAD_LETTER"})
                         > DeadLetterLimit
    BY DEF UnhealthyIsStable
  <2> DEFINE dead == InState("messages_dead_letter", {"DEAD_LETTER"})
  <2>1. /\ Queries(report.endpoint)[4] = dead /\ Len(report.counts) = 4
        /\ Field("messages_dead_letter") = report.counts[4]
    BY HealthFields DEF Answered, Complete
  <2>2. Grows(dead)
    BY DEF Grows, InState
  <2>3. report.counts[4] <= Cardinality(Matches(dead)) /\ report.counts[4] \in Nat
    BY <2>1, <2>2 DEF ReportInv, MetricsTypeOK
  <2>4. Matches(dead) = {m \in Messages : row[m].current_state = "DEAD_LETTER"}
    BY DEF Matches, Stored, InState
  <2>5. ~(report.counts[4] <= DeadLetterLimit)
    <3>1. ~report.failed
      BY DEF ReportInv, Answered, Complete
    <3>2. ~(Field("messages_dead_letter") <= DeadLetterLimit)
      BY <3>1 DEF is_healthy
    <3> QED BY ONLY <2>1, <3>2
  <2>6. Cardinality(Matches(dead)) \in Nat /\ DeadLetterLimit \in Nat
    BY MatchesFinite, MetricsAssumption
  <2>7. Cardinality(Matches(dead)) > DeadLetterLimit
    BY ONLY <2>3, <2>5, <2>6
  <2> QED BY <2>4, <2>7
<1> QED BY <1>1, ReportCorrect, PTL

-----------------------------------------------------------------------------
(* The reports: their total                                                *)

\* Of n queries of a collection, those that have counted by state
ByState(n) == {i \in 2 .. 12 : i <= n}

\* The messages that the counts by state have yet to come to after n queries, and
\* those in retry
Ahead(n) ==
    {m \in Stored : \/ row[m].retry_count > 0
                    \/ \E i \in 1 .. 11 : i >= n /\ row[m].current_state = StateOrder[i]}

\* A message of the total is counted by state, or yet to be counted, or in retry.
TotalInv ==
    /\ \A m \in Messages :
          row[m].current_state = "ESCALATION_DEFERRED" => row[m].retry_count > 0
    /\ LET counts == report.counts
           n == Len(counts)
       IN  report.endpoint = "metrics" /\ n > 0 =>
              counts[1] <= Cardinality(Under(counts, ByState(n))) + Cardinality(Ahead(n))

LEMMA AheadFinite ==
    ASSUME NEW n
    PROVE  IsFiniteSet(Ahead(n)) /\ Cardinality(Ahead(n)) \in Nat
<1>1. Ahead(n) \subseteq Messages
  BY DEF Ahead, Stored
<1> QED BY <1>1, MetricsAssumption, FS_Subset, FS_CardinalityType

LEMMA ByStateFinite ==
    ASSUME NEW n, NEW counts \in Seq(Nat), n = Len(counts)
    PROVE  /\ IsFiniteSet(ByState(n)) /\ ByState(n) \subseteq 1 .. n
           /\ \A i \in ByState(n) : counts[i] \in Nat
           /\ IsFiniteSet(Under(counts, ByState(n)))
           /\ Cardinality(Under(counts, ByState(n))) \in Nat
<1>1. n \in Nat /\ \A i \in 1 .. n : counts[i] \in Nat
  BY LenProperties
<1>2. ByState(n) \subseteq 2 .. 12 /\ ByState(n) \subseteq 1 .. n
  BY <1>1 DEF ByState
<1>3. IsFiniteSet(ByState(n))
  <2>1. IsFiniteSet(2 .. 12)
    <3>1. 2 \in Int /\ 12 \in Int
      OBVIOUS
    <3> QED BY <3>1, FS_Interval
  <2> QED BY <1>2, <2>1, FS_Subset
<1>4. \A i \in ByState(n) : counts[i] \in Nat
  BY <1>1, <1>2
<1> QED BY <1>2, <1>3, <1>4, UnderFinite

\* A message can only move ahead, or is in retry.
LEMMA AheadGrows ==
    ASSUME TypeInv, DurableInv, LoneInv, [Next]_vars, TotalInv, NEW n \in Nat
    PROVE  Ahead(n) \subseteq Ahead(n)'
<1> SUFFICES ASSUME NEW m \in Ahead(n) PROVE m \in Ahead(n)'
  OBVIOUS
<1>1. m \in Messages /\ m \in Stored
  BY DEF Ahead, Stored
<1>2. row'[m] = row[m] \/ Succeeds(row'[m], row[m])
  BY <1>1, RowsSucceed
<1>3. row[m].retry_count \in Nat
  BY <1>1 DEF TypeInv, TypeOK, StoreTypeOK, Row
<1>4. CASE row'[m] = row[m]
  BY <1>1, <1>4 DEF Ahead, Stored
<1>5. CASE Succeeds(row'[m], row[m])
  <2>1. row'[m].current_state # "ABSENT"
    BY <1>1, <1>5 DEF Succeeds, Lifecycle!Moves, Stored
  <2>2. m \in Stored'
    BY <1>1, <2>1 DEF Stored
  <2>3. CASE row[m].retry_count > 0
    BY <1>3, <1>5, <2>2, <2>3 DEF Succeeds, Ahead
  <2>4. CASE ~(row[m].retry_count > 0)
    <3>1. PICK i \in 1 .. 11 : i >= n /\ row[m].current_state = StateOrder[i]
      BY <2>4 DEF Ahead
    <3>2. row[m].current_state # "ESCALATION_DEFERRED"
      BY <1>1, <2>4 DEF TotalInv
    <3>3. \/ row'[m].retry_count > 0
          \/ \E j \in 1 .. 11 : j >= i /\ row'[m].current_state = StateOrder[j]
      BY <1>3, <1>5, <3>1, <3>2 DEF Succeeds, Lifecycle!Moves, StateOrder
    <3> QED BY <2>2, <3>1, <3>3 DEF Ahead
  <2> QED BY <2>3, <2>4
<1> QED BY <1>2, <1>4, <1>5

LEMMA DeferredRetried ==
    ASSUME TypeInv, DurableInv, LoneInv, [Next]_vars, TotalInv, NEW m \in Messages,
           row'[m].current_state = "ESCALATION_DEFERRED"
    PROVE  row'[m].retry_count > 0
<1>1. row'[m] = row[m] \/ Succeeds(row'[m], row[m])
  BY RowsSucceed
<1>2. row[m].retry_count \in Nat
  BY DEF TypeInv, TypeOK, StoreTypeOK, Row
<1> QED BY <1>1, <1>2 DEF Succeeds, Lifecycle!Moves, TotalInv

LEMMA TotalWaits ==
    ASSUME TypeInv, DurableInv, LoneInv, [Next]_vars, MetricsTypeOK, TotalInv,
           report' = report
    PROVE  TotalInv'
<1> DEFINE counts == report.counts
           n == Len(counts)
<1>1. \A m \in Messages :
         row'[m].current_state = "ESCALATION_DEFERRED" => row'[m].retry_count > 0
  BY DeferredRetried
<1>2. ASSUME report.endpoint = "metrics", n > 0
      PROVE  counts[1] <= Cardinality(Under(counts, ByState(n))) + Cardinality(Ahead(n)')
  <2>1. counts \in Seq(Nat) /\ n \in Nat /\ counts[1] \in Nat
    BY <1>2, LenProperties DEF MetricsTypeOK
  <2>2. Ahead(n) \subseteq Ahead(n)'
    BY <2>1, AheadGrows
  <2>3. Ahead(n)' \subseteq Messages
    BY DEF Ahead, Stored
  <2>4. /\ Cardinality(Ahead(n)) \in Nat /\ Cardinality(Ahead(n)') \in Nat
        /\ Cardinality(Ahead(n)) <= Cardinality(Ahead(n)')
    BY <2>2, <2>3, AheadFinite, MetricsAssumption, FS_Subset, FS_CardinalityType
  <2>5. Cardinality(Under(counts, ByState(n))) \in Nat
    BY <2>1, ByStateFinite
  <2>6. counts[1] <= Cardinality(Under(counts, ByState(n))) + Cardinality(Ahead(n))
    BY <1>2 DEF TotalInv
  <2> HIDE DEF counts, n
  <2> QED BY <2>1, <2>4, <2>5, <2>6
<1>3. PICK k : k = n
  OBVIOUS
<1>4. Ahead(Len(report.counts))' = Ahead(k)' /\ Ahead(n)' = Ahead(k)'
  BY <1>3
<1> QED BY <1>1, <1>2, <1>4 DEF TotalInv

\* The query after the total counts everybody who is there, and a query by state
\* counts those who leave the messages ahead.
LEMMA TotalCounts ==
    ASSUME TypeInv, MetricsTypeOK, TotalInv, Count
    PROVE  TotalInv'
<1> SUFFICES ASSUME report.endpoint = "metrics"
             PROVE  LET counts == report'.counts
                        n == Len(counts)
                    IN  counts[1] <= Cardinality(Under(counts, ByState(n)))
                                       + Cardinality(Ahead(n))
  <2>1. row' = row /\ Stored' = Stored
    BY DEF Count, vars, storeVars, Stored
  <2>2. report'.endpoint = report.endpoint
    BY DEF Count, MetricsTypeOK
  <2>3. \A n : Ahead(n)' = Ahead(n)
    BY <2>1 DEF Ahead
  <2> QED BY <2>1, <2>2, <2>3 DEF TotalInv
<1>1. PICK counts \in Seq(Nat) : counts = report.counts
  BY DEF MetricsTypeOK
<1>2. PICK n \in Nat : n = Len(counts)
  BY <1>1, LenProperties
<1>3. PICK found \in Nat :
         found = Cardinality(Matches(CollectQueries[n + 1]))
  BY MatchesFinite
<1>4. PICK after \in Seq(Nat) : after = Append(counts, found)
  BY AppendProperties
<1>5. /\ n # 18 /\ report'.counts = after
  <2>1. Queries(report.endpoint) = CollectQueries /\ Len(CollectQueries) = 18
    BY Collected DEF Queries
  <2> QED BY <1>1, <1>2, <1>3, <1>4, <2>1 DEF Count, Complete, MetricsTypeOK
<1>6. /\ Len(after) = n + 1 /\ \A i \in 1 .. n : after[i] = counts[i]
      /\ after[n + 1] = found
  BY <1>1, <1>2, <1>4, AppendProperties
<1>7. CASE n = 0
  <2>1. after[1] = found /\ found = Cardinality(Matches(InState("total_messages", MessageStates)))
    BY <1>3, <1>6, <1>7, Collected
  <2>2. Matches(InState("total_messages", MessageStates)) \subseteq Ahead(1)
    <3>1. \A state \in MessageStates : \E i \in 1 .. 11 : i >= 1 /\ state = StateOrder[i]
      BY DEF MessageStates, StateOrder
    <3> QED BY <3>1 DEF Matches, InState, Ahead
  <2>3. found <= Cardinality(Ahead(1)) /\ Cardinality(Ahead(1)) \in Nat
    BY <2>1, <2>2, AheadFinite, FS_Subset
  <2>4. Cardinality(Under(after, ByState(1))) \in Nat
    <3>1. Len(after) = 1
      BY <1>6, <1>7
    <3> QED BY <3>1, ByStateFinite
  <2> QED BY <1>5, <1>6, <1>7, <2>1, <2>3, <2>4
<1>8. CASE n > 0
  <2>1. /\ counts[1] <= Cardinality(Under(counts, ByState(n))) + Cardinality(Ahead(n))
        /\ after[1] = counts[1] /\ after[1] \in Nat
    <3>1. 1 \in 1 .. n /\ 1 \in 1 .. n + 1
      BY <1>8
    <3> QED BY <1>1, <1>2, <1>6, <1>8, <3>1, LenProperties DEF TotalInv
  <2>2. /\ IsFiniteSet(ByState(n)) /\ ByState(n) \subseteq 1 .. n
        /\ Cardinality(Under(counts, ByState(n))) \in Nat
        /\ IsFiniteSet(Under(counts, ByState(n)))
    BY <1>1, <1>2, ByStateFinite
  <2>3. Under(after, ByState(n)) = Under(counts, ByState(n))
    BY <1>6, <2>2 DEF Under
  <2>4. /\ Cardinality(Ahead(n)) \in Nat /\ Cardinality(Ahead(n + 1)) \in Nat
        /\ IsFiniteSet(Ahead(n)) /\ IsFiniteSet(Ahead(n + 1))
    BY AheadFinite
  <2>5. CASE n + 1 \in 2 .. 12
    <3>1. PICK q : q = InState(StateOrder[n], {StateOrder[n]})
      OBVIOUS
    <3>2. CollectQueries[n + 1] = q
      <4>1. PICK k \in 2 .. 12 : k = n + 1
        BY <2>5
      <4>2. PICK i : i = k - 1
        OBVIOUS
      <4>3. CollectQueries[k] = InState(StateOrder[i], {StateOrder[i]})
        BY <4>2, Collected
      <4>4. i = n
        BY <4>1, <4>2
      <4> QED BY <3>1, <4>1, <4>3, <4>4
    <3>3. Ahead(n) \subseteq Ahead(n + 1) \cup Matches(q)
      <4>1. \A i \in 1 .. 11 : i >= n => i >= n + 1 \/ i = n
        OBVIOUS
      <4> QED BY <3>1, <4>1 DEF Ahead, Matches, InState
    <3>4. /\ IsFiniteSet(Matches(q)) /\ Cardinality(Matches(q)) = found
      BY <1>3, <3>2, MatchesFinite
    <3>5. Cardinality(Ahead(n)) <= Cardinality(Ahead(n + 1)) + found
      <4>1. /\ IsFiniteSet(Ahead(n + 1) \cup Matches(q))
            /\ Cardinality(Ahead(n + 1) \cup Matches(q))
                 = Cardinality(Ahead(n + 1)) + Cardinality(Matches(q))
                     - Cardinality(Ahead(n + 1) \cap Matches(q))
        BY <2>4, <3>4, FS_Union
      <4>2. Cardinality(Ahead(n + 1) \cap Matches(q)) \in Nat
        BY <2>4, FS_Intersection, FS_CardinalityType
      <4>3. Cardinality(Ahead(n)) <= Cardinality(Ahead(n + 1) \cup Matches(q))
        BY <3>3, <4>1, FS_Subset
      <4> QED BY <2>4, <3>4, <4>1, <4>2, <4>3
    <3>6. ByState(n + 1) \ {n + 1} = ByState(n) /\ n + 1 \in ByState(n + 1)
      BY <2>5 DEF ByState
    <3>7. Cardinality(Under(after, ByState(n + 1)))
            = found + Cardinality(Under(after, ByState(n)))
      <4>1. /\ IsFiniteSet(ByState(n + 1))
            /\ \A i \in ByState(n + 1) : after[i] \in Nat
        BY <1>6, ByStateFinite
      <4>2. IsFiniteSet(Under(after, ByState(n + 1) \ {n + 1}))
        BY <2>2, <2>3, <3>6
      <4>3. Cardinality(Under(after, ByState(n + 1)))
              = after[n + 1] + Cardinality(Under(after, ByState(n + 1) \ {n + 1}))
        BY <3>6, <4>1, <4>2, UnderAdds
      <4> QED BY <1>6, <3>6, <4>3
    <3>8. after[1] <= Cardinality(Under(after, ByState(n + 1))) + Cardinality(Ahead(n + 1))
      BY <2>1, <2>2, <2>3, <2>4, <3>5, <3>7
    <3> QED BY <1>5, <1>6, <3>8
  <2>6. CASE n + 1 \notin 2 .. 12
    <3>1. ByState(n + 1) = ByState(n)
      BY <1>8, <2>6 DEF ByState
    <3>2. Ahead(n) \subseteq Ahead(n + 1)
      <4>1. \A i \in 1 .. 11 : ~(i >= n)
        BY <1>8, <2>6
      <4> QED BY <4>1 DEF Ahead
    <3>3. Cardinality(Ahead(n)) <= Cardinality(Ahead(n + 1))
      BY <2>4, <3>2, FS_Subset
    <3>4. after[1] <= Cardinality(Under(after, ByState(n + 1))) + Cardinality(Ahead(n + 1))
      BY <2>1, <2>2, <2>3, <2>4, <3>1, <3>3
    <3> QED BY <1>5, <1>6, <3>4
  <2> QED BY <2>5, <2>6
<1> QED BY <1>7, <1>8

\* The sum over the states is that over their positions.
LEMMA MessagesByState ==
    ASSUME MetricsTypeOK, Answered("metrics")
    PROVE  messages_by_state = Cardinality(Under(report.counts, ByState(18)))
<1>1. /\ report.endpoint = "metrics" /\ Len(report.counts) = 18
      /\ report.counts \in Seq(Nat)
  BY Collected DEF Answered, Complete, Queries, MetricsTypeOK
<1> DEFINE field == [s \in MessageStates |-> Field(s)]
           counts == report.counts
           body(it, s) == IF s = {} THEN 0 ELSE Field(Pick(s)) + it[s \ {Pick(s)}]
           sum == CHOOSE it : it = [s \in SUBSET MessageStates |-> body(it, s)]
<1>2. /\ IsFiniteSet(ByState(18)) /\ ByState(18) = 2 .. 12
      /\ IsFiniteSet(Under(counts, ByState(18)))
      /\ \A i \in 2 .. 12 : counts[i] \in Nat
  <2>1. ByState(18) = 2 .. 12
    BY DEF ByState
  <2>2. PICK n : n = Len(counts)
    OBVIOUS
  <2>3. /\ IsFiniteSet(ByState(n)) /\ IsFiniteSet(Under(counts, ByState(n)))
        /\ \A i \in ByState(n) : counts[i] \in Nat
    BY ONLY <1>1, <2>2, ByStateFinite
  <2>4. n = 18
    BY <1>1, <2>2
  <2> HIDE DEF counts
  <2> QED BY <2>1, <2>3, <2>4
<1>3. /\ \A s \in MessageStates : \E j \in 1 .. 11 : s = StateOrder[j]
      /\ \A j, k \in 1 .. 11 : StateOrder[j] = StateOrder[k] => j = k
      /\ \A j \in 1 .. 11 : StateOrder[j] \in MessageStates
  BY DEF MessageStates, StateOrder
<1>4. \A j \in 1 .. 11 : field[StateOrder[j]] = counts[j + 1]
  BY <1>1, <1>3, CollectedFields
<1>5. \A s \in MessageStates : field[s] \in Nat
  <2>1. \A j \in 1 .. 11 : j + 1 \in 2 .. 12
    OBVIOUS
  <2> QED BY <1>2, <1>3, <1>4, <2>1
<1> DEFINE h == [p \in Under(counts, 2 .. 12) |-> <<StateOrder[p[1] - 1], p[2]>>]
<1>6. h \in Bijection(Under(counts, 2 .. 12), Under(field, MessageStates))
  <2>1. ASSUME NEW p \in Under(counts, 2 .. 12)
        PROVE  h[p] \in Under(field, MessageStates)
    <3>1. p \in (2 .. 12) \X Nat /\ p[2] < counts[p[1]]
      BY DEF Under
    <3>2. PICK j \in 1 .. 11 : p[1] = j + 1
      <4>1. p[1] - 1 \in 1 .. 11 /\ p[1] = p[1] - 1 + 1
        BY <3>1
      <4> QED BY <4>1
    <3>3. h[p] = <<StateOrder[j], p[2]>>
      <4>1. p[1] - 1 = j
        BY <3>2
      <4> QED BY <4>1
    <3> QED BY <1>3, <1>4, <3>1, <3>2, <3>3 DEF Under
  <2>2. ASSUME NEW p \in Under(counts, 2 .. 12), NEW q \in Under(counts, 2 .. 12),
               h[p] = h[q]
        PROVE  p = q
    <3>1. p \in (2 .. 12) \X Nat /\ q \in (2 .. 12) \X Nat
      BY DEF Under
    <3>2. p[1] - 1 \in 1 .. 11 /\ q[1] - 1 \in 1 .. 11
      BY <3>1
    <3>3. StateOrder[p[1] - 1] = StateOrder[q[1] - 1] /\ p[2] = q[2]
      BY <2>2
    <3>4. p[1] - 1 = q[1] - 1
      BY <1>3, <3>2, <3>3
    <3> QED BY <3>1, <3>3, <3>4
  <2>3. ASSUME NEW q \in Under(field, MessageStates)
        PROVE  \E p \in Under(counts, 2 .. 12) : h[p] = q
    <3>1. q \in MessageStates \X Nat /\ q[2] < field[q[1]]
      BY DEF Under
    <3>2. PICK j \in 1 .. 11 : q[1] = StateOrder[j]
      BY <1>3, <3>1
    <3>3. PICK k \in 2 .. 12 : k = j + 1 /\ k - 1 = j
      OBVIOUS
    <3>4. <<k, q[2]>> \in Under(counts, 2 .. 12)
      BY <1>4, <3>1, <3>2, <3>3 DEF Under
    <3>5. h[<<k, q[2]>>] = q
      BY <3>1, <3>2, <3>3, <3>4
    <3> QED BY <3>4, <3>5
  <2> HIDE DEF h
  <2>4. DOMAIN h = Under(counts, 2 .. 12) /\ h \in [Under(counts, 2 .. 12) -> Under(field, MessageStates)]
    BY <2>1 DEF h
  <2> QED BY <2>2, <2>3, <2>4 DEF Bijection, Injection, Surjection, IsInjective
<1>7. Cardinality(Under(field, MessageStates)) = Cardinality(Under(counts, ByState(18)))
  <2> HIDE DEF h, field, counts
  <2> QED BY <1>2, <1>6, FS_Bijection DEF ExistsBijection
<1>8. IsFiniteSet(MessageStates)
  <2> DEFINE order == [j \in 1 .. 11 |-> StateOrder[j]]
  <2>1. order \in Surjection(1 .. 11, MessageStates)
    BY <1>3 DEF Surjection
  <2>2. IsFiniteSet(1 .. 11)
    <3>1. 1 \in Int /\ 11 \in Int
      OBVIOUS
    <3> QED BY <3>1, FS_Interval
  <2> HIDE DEF order
  <2> QED BY <2>1, <2>2, FS_Surjection
<1>9. messages_by_state = sum[MessageStates]
  BY DEF messages_by_state, MapThenSumSet, MapThenFoldSet, Pick
<1>10. \A it : Summing(it, field, MessageStates)
                 <=> it = [s \in SUBSET MessageStates |-> body(it, s)]
  <2> SUFFICES ASSUME NEW it
               PROVE  [s \in SUBSET MessageStates |-> body(it, s)]
                        = [s \in SUBSET MessageStates |->
                             IF s = {} THEN 0 ELSE field[Pick(s)] + it[s \ {Pick(s)}]]
    BY DEF Summing
  <2>1. ASSUME NEW s \in SUBSET MessageStates, s # {} PROVE Field(Pick(s)) = field[Pick(s)]
    BY <2>1 DEF Pick
  <2> HIDE DEF field
  <2> QED BY <2>1
<1>11. Summing(sum, field, MessageStates)
  <2> HIDE DEF field
  <2>1. \E it : Summing(it, field, MessageStates)
    BY <1>5, <1>8, SummingExists
  <2> HIDE DEF body
  <2> QED BY <1>10, <2>1
<1>12. sum[MessageStates] = Cardinality(Under(field, MessageStates))
  <2> HIDE DEF sum, field
  <2> QED BY <1>5, <1>8, <1>11, SumsToSize
<1> HIDE DEF sum, field, counts
<1>13. Cardinality(Under(counts, ByState(18))) = Cardinality(Under(report.counts, ByState(18)))
  BY DEF counts
<1> QED BY <1>7, <1>9, <1>12, <1>13

LEMMA TotalInit == MetricsInit => TotalInv
<1> SUFFICES ASSUME MetricsInit PROVE TotalInv
  OBVIOUS
<1>1. \A m \in Messages : row[m].current_state = "ABSENT"
  BY DEF MetricsInit, Init, StoreInit, Blank
<1>2. Len(report.counts) = 0
  BY DEF MetricsInit
<1> QED BY <1>1, <1>2 DEF TotalInv

LEMMA TotalStep ==
    ASSUME TypeInv, DurableInv, LoneInv, MetricsTypeOK, ReportInv, TotalInv,
           [MetricsNext]_<<vars, report>>
    PROVE  TotalInv'
<1>1. CASE [Next]_vars /\ report' = report
  BY <1>1, TotalWaits
<1>2. ASSUME NEW endpoint \in Endpoints, Ask(endpoint) PROVE TotalInv'
  <2>1. report'.counts = <<>> /\ row' = row
    BY <1>2 DEF Ask, MetricsTypeOK, ReportInv, vars, storeVars
  <2>2. Len(report'.counts) = 0
    BY <2>1
  <2> QED BY <2>1, <2>2 DEF TotalInv
<1>3. CASE Count
  BY <1>3, TotalCounts
<1>4. CASE CountFails
  <2>1. /\ report'.endpoint = report.endpoint /\ report'.counts = report.counts
        /\ row' = row
    BY <1>4 DEF CountFails, MetricsTypeOK, vars, storeVars
  <2>2. \A n : Ahead(n)' = Ahead(n)
    BY <2>1 DEF Ahead, Stored
  <2> QED BY <2>1, <2>2 DEF TotalInv
<1> QED BY <1>1, <1>2, <1>3, <1>4 DEF MetricsNext

\* Whatever moves while a collection counts, the messages of the total that
\* messages_by_state has missed are in retry.
THEOREM MissedAreRetried ==
    ASSUME SchedulerAlone PROVE MetricsSpec => []MissedOnlyInRetry
<1>1. MetricsTypeOK /\ TotalInv => MissedOnlyInRetry
  <2> DEFINE retried == {m \in Messages : row[m].retry_count > 0}
  <2> SUFFICES ASSUME MetricsTypeOK, TotalInv, Answered("metrics")
               PROVE  Field("total_messages") <= messages_by_state + Cardinality(retried)
    BY DEF MissedOnlyInRetry
  <2>1. report.endpoint = "metrics" /\ Len(report.counts) = 18 /\ report.counts \in Seq(Nat)
    BY Collected DEF Answered, Complete, Queries, MetricsTypeOK
  <2>2. /\ report.counts[1] \in Nat
        /\ report.counts[1] <= Cardinality(Under(report.counts, ByState(18)))
                                 + Cardinality(Ahead(18))
    BY <2>1, LenProperties DEF TotalInv
  <2>3. /\ Field("total_messages") = report.counts[1]
        /\ messages_by_state = Cardinality(Under(report.counts, ByState(18)))
    BY <2>1, CollectedFields, MessagesByState
  <2>4. Cardinality(Under(report.counts, ByState(18))) \in Nat
    <3>1. PICK n : n = Len(report.counts)
      OBVIOUS
    <3>2. Cardinality(Under(report.counts, ByState(n))) \in Nat
      BY ONLY <2>1, <3>1, ByStateFinite
    <3> QED BY <2>1, <3>1, <3>2
  <2>5. Ahead(18) \subseteq retried
    <3>1. \A i \in 1 .. 11 : ~(i >= 18)
      OBVIOUS
    <3> QED BY <3>1 DEF Ahead, Stored
  <2>6. /\ Cardinality(Ahead(18)) \in Nat /\ Cardinality(retried) \in Nat
        /\ Cardinality(Ahead(18)) <= Cardinality(retried)
    <3>1. IsFiniteSet(retried)
      BY MetricsAssumption, FS_Subset
    <3> QED BY <2>5, <3>1, AheadFinite, FS_Subset, FS_CardinalityType
  <2> HIDE DEF retried
  <2> QED BY <2>2, <2>3, <2>4, <2>6
<1>2. TypeInv /\ DurableInv /\ LoneInv /\ MetricsTypeOK /\ ReportInv /\ TotalInv
        /\ [MetricsNext]_<<vars, report>> => TotalInv'
  BY TotalStep
<1> QED BY <1>1, <1>2, TotalInit, ReportCorrect, ReportsOnly, TypeCorrect, DurableCorrect,
           LoneCorrect, PTL
        DEF MetricsSpec

=============================================================================
