----------------------------- MODULE AuditProofs -----------------------------
(***************************************************************************)
(* The committed events and the channels' answers explain every committed   *)
(* row.  A record travels from a row, through a batch or a handler, into a   *)
(* version and back into the row, perhaps over the versions of others, so   *)
(* the proof shows that all of them are explained.                          *)
(***************************************************************************)
EXTENDS GatewayProofs

-----------------------------------------------------------------------------
(* Records                                                                  *)

\* An explanation holds for ever: events and acceptances only accumulate.
LEMMA StaysExplained ==
    ASSUME NEW m, NEW r, NEW facts, NEW more, Explained(m, r, facts),
           events[m] \subseteq events'[m], accepted \subseteq accepted',
           facts \subseteq more \cup events'[m]
    PROVE  Explained(m, r, more)'
BY DEF Explained, Confirmed

LEMMA MoreExplained ==
    ASSUME NEW m, NEW r, NEW facts, NEW more, Explained(m, r, facts),
           facts \subseteq more
    PROVE  Explained(m, r, more)
BY DEF Explained

LEMMA BlankExplained ==
    \A m, facts : Explained(m, Blank, facts)
BY DEF Explained, Confirmed, Owed, StateEvents, Blank

\* What a record owes comes from its state and from its acknowledgement.
LEMMA OwedOf ==
    ASSUME NEW r
    PROVE  /\ \A f \in EventTypes : <<r.current_state, f>> \in StateEvents => f \in Owed(r)
           /\ r.acknowledged_at # None => "ack_received" \in Owed(r)
           /\ \A f \in Owed(r) : \/ <<r.current_state, f>> \in StateEvents
                                 \/ r.acknowledged_at # None /\ f = "ack_received"
BY DEF Owed, EventTypes

LEMMA ViewExplained ==
    ASSUME ExplainedInv, NEW s \in Sessions, NEW m \in Messages
    PROVE  Explained(m, View(s, m), Own(s, m))
<1>1. s # None
  BY NoneAssumption
<1> QED BY <1>1 DEF ExplainedInv, RowsExplained, VersionsExplained, View, Own, Explained

\* An UPDATE mixes the columns of two records, each of which is explained.
LEMMA WrittenExplained ==
    ASSUME NEW m, NEW record, NEW loaded, NEW current, NEW facts,
           Explained(m, record, facts), Explained(m, current, facts)
    PROVE  Explained(m, Written(record, loaded, current), facts)
<1> DEFINE version == Written(record, loaded, current)
<1>1. /\ version.current_state \in {record.current_state, current.current_state}
      /\ version.acknowledged_at \in {record.acknowledged_at, current.acknowledged_at}
  BY DEF Written, Changed
<1> HIDE DEF version
<1>2. Owed(version) \subseteq Owed(record) \cup Owed(current)
  BY <1>1 DEF Owed
<1>3. Explained(m, version, facts)
  BY <1>1, <1>2 DEF Explained, Confirmed
<1> QED BY <1>3 DEF version

\* A transition owes the event of the new state, and what was owed before.
LEMMA MovedExplained ==
    ASSUME NEW m, NEW record \in Row, NEW next \in MessageStates, NEW facts,
           Explained(m, record, facts),
           \A f : <<next, f>> \in StateEvents => f \in facts,
           next = "SENT_TO_CHANNEL" => <<m, "primary">> \in accepted,
           next = "FALLBACK_DELIVERED" => <<m, "fallback">> \in accepted
    PROVE  Explained(m, [record EXCEPT !.current_state = next], facts)
<1> DEFINE moved == [record EXCEPT !.current_state = next]
<1>1. moved.current_state = next /\ moved.acknowledged_at = record.acknowledged_at
  BY DEF Row
<1> HIDE DEF moved
<1>2. Owed(moved) \subseteq events[m] \cup facts
  BY <1>1 DEF Explained, Owed
<1>3. Explained(m, moved, facts)
  BY <1>1, <1>2 DEF Explained, Confirmed
<1> QED BY <1>3 DEF moved

-----------------------------------------------------------------------------
(* Sessions                                                                 *)

\* A step of one session, the events and acceptances only growing and the
\* locks of others left alone
LEMMA GoExplained ==
    ASSUME TypeInv, ExplainedInv, NEW s \in Sessions,
           NEW pc, NEW op, NEW m, NEW rec, NEW batch, Go(s, pc, op, m, rec, batch),
           \A n \in Messages : events[n] \subseteq events'[n],
           accepted \subseteq accepted',
           \A t \in Sessions \ {s} : \A n \in Messages :
               /\ lock'[n] = t <=> lock[n] = t
               /\ lock[n] = t => pending'[n] = pending[n],
           pc \in {"refetch", "flush"} =>
               Explained(m, rec, Own(s, m) \cup {FactOf(op, rec)})',
           pc = "send" => Explained(m, rec, Own(s, m))',
           \A n \in Messages : Explained(n, batch[n], {})',
           \A n \in Messages : lock'[n] = s => batch[n] = Blank,
           pc \in Saving => batch[m] = Blank,
           pc = "read" /\ op = "attempt_fallback" => lock'[m] # s,
           pc \in Saving /\ op = "attempt_fallback" =>
               "escalation_triggered" \in events'[m]
    PROVE  \A t \in Sessions : SessionExplained(t)'
<1>1. /\ ses'[s].pc = pc /\ ses'[s].op = op /\ ses'[s].msg = m
      /\ ses'[s].rec = rec /\ ses'[s].batch = batch
  BY DEF Go, TypeInv, TypeOK, ProcessorTypeOK
<1>2. SessionExplained(s)'
  <2>1. RecordExplained(s)'
    BY <1>1 DEF RecordExplained
  <2>2. BatchExplained(s)'
    BY <1>1 DEF BatchExplained
  <2>3. HandledOnce(s)'
    BY <1>1 DEF HandledOnce, Saving, Blank
  <2>4. RestsOnEscalation(s)'
    BY <1>1 DEF RestsOnEscalation, Saving
  <2> QED BY <2>1, <2>2, <2>3, <2>4 DEF SessionExplained
<1>3. ASSUME NEW t \in Sessions \ {s}
      PROVE  SessionExplained(t)'
  <2>1. ses'[t] = ses[t] /\ SessionExplained(t)
    BY GoEffect DEF ExplainedInv
  <2>2. ASSUME ses[t].pc \in Handling
        PROVE  /\ ses[t].msg \in Messages
               /\ events[ses[t].msg] \subseteq events'[ses[t].msg]
               /\ Own(t, ses[t].msg)' = Own(t, ses[t].msg)
    <3>1. ses[t].msg \in Messages
      BY <2>2 DEF TypeInv, HandlersHaveMessage
    <3> QED BY <2>1, <3>1 DEF Own
  <2>3. RecordExplained(t)'
    <3>1. CASE ses[t].pc \in {"refetch", "flush"}
      BY <2>1, <2>2, <3>1, StaysExplained
         DEF SessionExplained, RecordExplained, Handling
    <3>2. CASE ses[t].pc = "send"
      BY <2>1, <2>2, <3>2, StaysExplained
         DEF SessionExplained, RecordExplained, Handling
    <3> QED BY <2>1, <3>1, <3>2 DEF RecordExplained
  <2>4. BatchExplained(t)'
    BY <2>1, StaysExplained DEF SessionExplained, BatchExplained
  <2>5. HandledOnce(t)'
    BY <2>1, <2>2 DEF SessionExplained, HandledOnce, Handling, Saving, Blank
  <2>6. RestsOnEscalation(t)'
    BY <2>1, <2>2 DEF SessionExplained, RestsOnEscalation, Handling, Saving
  <2> QED BY <2>3, <2>4, <2>5, <2>6 DEF SessionExplained
<1> QED BY <1>2, <1>3

\* The same when nothing but the session changes
LEMMA StepExplained ==
    ASSUME TypeInv, ExplainedInv, UNCHANGED <<storeVars, attempts, accepted>>,
           NEW s \in Sessions,
           NEW pc, NEW op, NEW m, NEW rec, NEW batch, Go(s, pc, op, m, rec, batch),
           pc # "send",
           pc \in {"refetch", "flush"} =>
               Explained(m, rec, Own(s, m) \cup {FactOf(op, rec)}),
           \A n \in Messages : Explained(n, batch[n], {}),
           \A n \in Messages : lock[n] = s => batch[n] = Blank,
           pc \in Saving => batch[m] = Blank,
           pc = "read" /\ op = "attempt_fallback" => lock[m] # s,
           pc \in Saving /\ op = "attempt_fallback" =>
               "escalation_triggered" \in events[m]
    PROVE  ExplainedInv'
<1>1. /\ row' = row /\ events' = events /\ lock' = lock /\ dirty' = dirty
      /\ pending' = pending /\ attempts' = attempts /\ accepted' = accepted
  BY DEF storeVars
<1>2. \A t \in Sessions : SessionExplained(t)'
  BY <1>1, GoExplained DEF Explained, Own
<1>3. RowsExplained' /\ VersionsExplained' /\ FallbackAfterEscalation'
  BY <1>1 DEF ExplainedInv, RowsExplained, VersionsExplained,
              FallbackAfterEscalation, Explained
<1> QED BY <1>2, <1>3 DEF ExplainedInv

LEMMA BatchesExplained ==
    ASSUME TypeInv, ExplainedInv, NEW s \in Sessions, NEW m
    PROVE  /\ \A n \in Messages : Explained(n, ses[s].batch[n], {})
           /\ \A n \in Messages : lock[n] = s => ses[s].batch[n] = Blank
           /\ \A n \in Messages :
                 /\ Explained(n, [ses[s].batch EXCEPT ![m] = Blank][n], {})
                 /\ lock[n] = s => [ses[s].batch EXCEPT ![m] = Blank][n] = Blank
           /\ m \in Messages => [ses[s].batch EXCEPT ![m] = Blank][m] = Blank
BY BatchType, BlankExplained DEF ExplainedInv, SessionExplained, BatchExplained, HandledOnce

LEMMA BeginExplained ==
    ASSUME TypeInv, ExplainedInv, UNCHANGED <<storeVars, attempts, accepted>>,
           NEW s \in Sessions, NEW op, NEW m \in Messages, Begin(s, op, m),
           op = "attempt_fallback" => lock[m] # s
    PROVE  ExplainedInv'
<1>1. Go(s, "read", op, m, Blank, ses[s].batch)
  BY DEF Begin
<1>2. "read" \notin Saving
  BY DEF Saving
<1> DEFINE batch == ses[s].batch
<1>3. \A n \in Messages : /\ Explained(n, batch[n], {})
                          /\ lock[n] = s => batch[n] = Blank
  BY BatchesExplained
<1>4. Go(s, "read", op, m, Blank, batch)
  BY <1>1
<1> HIDE DEF batch
<1> QED BY <1>2, <1>3, <1>4, StepExplained

LEMMA ReturnExplained ==
    ASSUME TypeInv, ExplainedInv, UNCHANGED <<storeVars, attempts, accepted>>,
           NEW s \in Sessions, NEW m, Return(s, m)
    PROVE  ExplainedInv'
<1> DEFINE batch == [ses[s].batch EXCEPT ![m] = Blank]
<1>1. Go(s, "next", None, None, Blank, batch)
  BY DEF Return
<1>2. "next" \notin Saving
  BY DEF Saving
<1>3. \A n \in Messages : /\ Explained(n, batch[n], {})
                          /\ lock[n] = s => batch[n] = Blank
  BY BatchesExplained
<1> HIDE DEF batch
<1> QED BY <1>1, <1>2, <1>3, StepExplained

LEMMA UpdateExplained ==
    ASSUME TypeInv, ExplainedInv, UNCHANGED <<storeVars, attempts, accepted>>,
           NEW s \in Sessions, NEW op, NEW m \in Messages, NEW record,
           Update(s, op, m, record),
           Explained(m, record, Own(s, m) \cup {FactOf(op, record)}),
           op = "attempt_fallback" => "escalation_triggered" \in events[m]
    PROVE  ExplainedInv'
<1> DEFINE batch == [ses[s].batch EXCEPT ![m] = Blank]
<1>1. Go(s, "refetch", op, m, record, batch)
  BY DEF Update
<1>2. /\ \A n \in Messages : /\ Explained(n, batch[n], {})
                             /\ lock[n] = s => batch[n] = Blank
      /\ batch[m] = Blank
  BY BatchesExplained
<1> HIDE DEF batch
<1> QED BY <1>1, <1>2, StepExplained

\* The handlers apply no transition to a state that a channel answers for,
\* and record the event that goes with the state.
LEMMA TransitionExplained ==
    ASSUME TypeInv, ExplainedInv, UNCHANGED <<storeVars, attempts, accepted>>,
           NEW s \in Sessions, NEW op, NEW m \in Messages, NEW record \in Row,
           NEW next \in MessageStates \ {"SENT_TO_CHANNEL", "FALLBACK_DELIVERED"},
           Transition(s, op, m, record, next),
           NEW fact, fact = FactOf(op, [record EXCEPT !.current_state = next]),
           Explained(m, record, Own(s, m) \cup {fact}),
           \A f : <<next, f>> \in StateEvents => f = fact,
           op = "attempt_fallback" => "escalation_triggered" \in events[m]
    PROVE  ExplainedInv'
<1>1. CASE Update(s, op, m, [record EXCEPT !.current_state = next])
  <2>1. Explained(m, [record EXCEPT !.current_state = next], Own(s, m) \cup {fact})
    BY MovedExplained
  <2> QED BY <1>1, <2>1, UpdateExplained
<1>2. CASE Return(s, m)
  BY <1>2, ReturnExplained
<1> QED BY <1>1, <1>2 DEF Transition

LEMMA EscalateExplained ==
    ASSUME TypeInv, ExplainedInv, UNCHANGED <<storeVars, attempts, accepted>>,
           NEW s \in Sessions, NEW m \in Messages, NEW record \in Row,
           Escalate(s, m, record), Explained(m, record, Own(s, m))
    PROVE  ExplainedInv'
<1>1. ASSUME NEW next \in {"ESCALATION_PENDING", "DEAD_LETTER"},
             Transition(s, "escalate_message", m, record, next)
      PROVE  ExplainedInv'
  <2> DEFINE fact == IF next = "DEAD_LETTER" THEN "dead_letter"
                                             ELSE "escalation_triggered"
  <2>1. [record EXCEPT !.current_state = next].current_state = next
    BY DEF Row
  <2>2. fact = FactOf("escalate_message", [record EXCEPT !.current_state = next])
    BY <2>1 DEF FactOf
  <2>3. \A f : <<next, f>> \in StateEvents => f = fact
    BY DEF StateEvents
  <2>4. next \in MessageStates \ {"SENT_TO_CHANNEL", "FALLBACK_DELIVERED"}
    BY DEF MessageStates
  <2>5. Explained(m, record, Own(s, m) \cup {fact})
    BY MoreExplained
  <2> HIDE DEF fact
  <2> QED BY <1>1, <2>2, <2>3, <2>4, <2>5, TransitionExplained
<1> QED BY <1>1 DEF Escalate

-----------------------------------------------------------------------------
(* The actions, one lemma for each kind                                     *)

LEMMA ReadExplained ==
    ASSUME TypeInv, ExplainedInv, NEW s \in Sessions,
           \/ ProcessNewMessage(s) \/ AttemptDelivery(s)
           \/ AttemptFallback(s) \/ AcknowledgeMessage(s)
    PROVE  ExplainedInv'
<1> DEFINE m == ses[s].msg
<1>1. m \in Messages /\ View(s, m) \in Row
  BY ViewType DEF ProcessNewMessage, AttemptDelivery, AttemptFallback,
                  AcknowledgeMessage, At, TypeInv, HandlersHaveMessage, Handling
<1>2. UNCHANGED <<storeVars, attempts, accepted>>
  BY DEF ProcessNewMessage, AttemptDelivery, AttemptFallback, AcknowledgeMessage
<1>3. Explained(m, View(s, m), Own(s, m))
  BY <1>1, ViewExplained
<1>4. ASSUME NEW op, NEW next \in {"QUEUED", "SENDING", "FALLBACK_SENDING"},
             Transition(s, op, m, View(s, m), next),
             op = "attempt_fallback" => "escalation_triggered" \in events[m]
      PROVE  ExplainedInv'
  <2>1. \A f : <<next, f>> \notin StateEvents
    BY DEF StateEvents
  <2>2. next \in MessageStates \ {"SENT_TO_CHANNEL", "FALLBACK_DELIVERED"}
    BY DEF MessageStates
  <2>3. \A fact : Explained(m, View(s, m), Own(s, m) \cup {fact})
    BY <1>3, MoreExplained
  <2> HIDE DEF m
  <2> QED BY <1>1, <1>2, <1>4, <2>1, <2>2, <2>3, TransitionExplained
<1>5. CASE ProcessNewMessage(s)
  BY <1>1, <1>2, <1>4, <1>5, BeginExplained DEF ProcessNewMessage
<1>6. CASE AttemptDelivery(s)
  BY <1>4, <1>6 DEF AttemptDelivery
<1>7. CASE AttemptFallback(s)
  <2>1. CASE /\ View(s, m).current_state = "ESCALATION_PENDING"
             /\ Transition(s, "attempt_fallback", m, View(s, m), "FALLBACK_SENDING")
    <3>1. View(s, m) = row[m]
      BY <1>7 DEF AttemptFallback, At, ExplainedInv, SessionExplained, HandledOnce, View
    <3>2. "escalation_triggered" \in Owed(row[m])
      BY <2>1, <3>1 DEF Owed, StateEvents, EventTypes
    <3>3. "escalation_triggered" \in events[m]
      BY <1>1, <3>2 DEF ExplainedInv, RowsExplained, Explained
    <3> QED BY <1>4, <2>1, <3>3
  <2>2. CASE Return(s, m)
    BY <1>2, <2>2, ReturnExplained
  <2> QED BY <1>7, <2>1, <2>2 DEF AttemptFallback
<1>8. CASE AcknowledgeMessage(s)
  <2> DEFINE record == [View(s, m) EXCEPT !.acknowledged_at = s]
             facts == Own(s, m) \cup {"ack_received"}
  <2>1. record \in Row /\ record.current_state = View(s, m).current_state
    BY <1>1 DEF Row
  <2>2. Owed(record) \subseteq Owed(View(s, m)) \cup {"ack_received"}
    BY <2>1 DEF Owed
  <2>3. Explained(m, record, facts)
    BY <1>3, <2>1, <2>2 DEF Explained, Confirmed
  <2>4. \A r : FactOf("acknowledge_message", r) = "ack_received"
    BY DEF FactOf
  <2>5. \A f : <<"ACKNOWLEDGED", f>> \in StateEvents => f = "ack_received"
    BY DEF StateEvents
  <2>6. "ACKNOWLEDGED" \in MessageStates \ {"SENT_TO_CHANNEL", "FALLBACK_DELIVERED"}
    BY DEF MessageStates
  <2>7. \/ Transition(s, "acknowledge_message", m, record, "ACKNOWLEDGED")
        \/ Update(s, "acknowledge_message", m, record)
    BY <1>8 DEF AcknowledgeMessage
  <2> HIDE DEF record, m
  <2>8. CASE Transition(s, "acknowledge_message", m, record, "ACKNOWLEDGED")
    <3>1. "ack_received" =
            FactOf("acknowledge_message", [record EXCEPT !.current_state = "ACKNOWLEDGED"])
      BY <2>4
    <3>2. Explained(m, record, Own(s, m) \cup {"ack_received"})
      BY <2>3
    <3> QED BY <1>1, <1>2, <2>1, <2>5, <2>6, <2>8, <3>1, <3>2, TransitionExplained
  <2>9. CASE Update(s, "acknowledge_message", m, record)
    BY <1>1, <1>2, <2>3, <2>4, <2>9, UpdateExplained
  <2> QED BY <2>7, <2>8, <2>9
<1> QED BY <1>5, <1>6, <1>7, <1>8

LEMMA RefetchExplained ==
    ASSUME TypeInv, ExplainedInv, NEW s \in Sessions, Refetch(s)
    PROVE  ExplainedInv'
<1>1. /\ row' = row /\ events' = events /\ lock' = lock /\ dirty' = dirty
      /\ pending' = pending /\ attempts' = attempts /\ accepted' = accepted
  BY DEF Refetch, storeVars
<1>2. RowsExplained' /\ VersionsExplained' /\ FallbackAfterEscalation'
  BY <1>1 DEF ExplainedInv, RowsExplained, VersionsExplained,
              FallbackAfterEscalation, Explained
<1>3. /\ ses[s].pc = "refetch" /\ ses'[s].pc = "flush"
      /\ ses'[s].msg = ses[s].msg /\ ses'[s].op = ses[s].op
      /\ ses'[s].rec = ses[s].rec /\ ses'[s].batch = ses[s].batch
      /\ \A t \in Sessions \ {s} : ses'[t] = ses[t]
  BY DEF Refetch, TypeInv, TypeOK, ProcessorTypeOK, Session
<1>4. ASSUME NEW t \in Sessions
      PROVE  SessionExplained(t)'
  <2>1. /\ ses'[t].msg = ses[t].msg /\ ses'[t].op = ses[t].op
        /\ ses'[t].rec = ses[t].rec /\ ses'[t].batch = ses[t].batch
        /\ \/ ses'[t].pc = ses[t].pc
           \/ ses[t].pc = "refetch" /\ ses'[t].pc = "flush"
    BY <1>3
  <2>2. SessionExplained(t)
    BY DEF ExplainedInv
  <2>3. RecordExplained(t)'
    BY <1>1, <2>1, <2>2 DEF SessionExplained, RecordExplained, Explained, Own
  <2>4. BatchExplained(t)'
    BY <1>1, <2>1, <2>2 DEF SessionExplained, BatchExplained, Explained
  <2>5. HandledOnce(t)'
    BY <1>1, <2>1, <2>2 DEF SessionExplained, HandledOnce, Saving, Blank
  <2>6. RestsOnEscalation(t)'
    BY <1>1, <2>1, <2>2 DEF SessionExplained, RestsOnEscalation, Saving
  <2> QED BY <2>3, <2>4, <2>5, <2>6 DEF SessionExplained
<1> QED BY <1>2, <1>4 DEF ExplainedInv

\* A session writes an explained version of its message, records the events
\* that explain it, and goes on.
LEMMA WriteExplained ==
    ASSUME TypeInv, ExplainedInv, NEW s \in Sessions, NEW m \in Messages,
           NEW version, NEW facts, WriteRow(s, m, version, facts),
           Owed(version) \subseteq events[m] \cup pending[m] \cup facts,
           Confirmed(m, version, accepted'),
           accepted \subseteq accepted', FallbackAfterEscalation',
           NEW pc, NEW op, NEW msg, NEW rec, NEW batch,
           Go(s, pc, op, msg, rec, batch),
           pc \notin {"refetch", "flush"},
           pc = "send" => msg = m /\ Explained(m, rec, Own(s, m) \cup facts),
           pc = "send" /\ op = "attempt_fallback" =>
               "escalation_triggered" \in events[m],
           \A n \in Messages : Explained(n, batch[n], {}),
           \A n \in Messages : lock[n] = s => batch[n] = Blank,
           batch[m] = Blank,
           op # "attempt_fallback" \/ pc # "read"
    PROVE  ExplainedInv'
<1>1. /\ row' = row /\ events' = events
      /\ lock[m] \in {None, s} /\ lock'[m] = s
      /\ dirty'[m] = version /\ pending'[m] = pending[m] \cup facts
      /\ \A n \in Messages \ {m} : /\ lock'[n] = lock[n] /\ dirty'[n] = dirty[n]
                                   /\ pending'[n] = pending[n]
  BY DEF WriteRow, TypeInv, TypeOK, StoreTypeOK
<1>2. RowsExplained'
  BY <1>1 DEF ExplainedInv, RowsExplained, Explained, Confirmed
<1>3. VersionsExplained'
  <2> SUFFICES ASSUME NEW n \in Messages, lock'[n] # None
               PROVE  Explained(n, dirty[n], pending[n])'
    BY DEF VersionsExplained
  <2>1. CASE n = m
    BY <1>1, <2>1 DEF Explained
  <2>2. CASE n # m
    BY <1>1, <2>2 DEF ExplainedInv, VersionsExplained, Explained, Confirmed
  <2> QED BY <2>1, <2>2
<1>4. \A t \in Sessions \ {s} : \A n \in Messages :
         /\ lock'[n] = t <=> lock[n] = t
         /\ lock[n] = t => pending'[n] = pending[n]
  BY <1>1, NoneAssumption
<1>5. pc = "send" => Explained(msg, rec, Own(s, msg))'
  BY <1>1 DEF Explained, Confirmed, Own
<1>6. \A n \in Messages : Explained(n, batch[n], {})'
  BY <1>1 DEF Explained, Confirmed
<1>7. \A n \in Messages : lock'[n] = s => batch[n] = Blank
  BY <1>1
<1>8. /\ \A n \in Messages : events[n] \subseteq events'[n]
      /\ pc \in Saving => batch[msg] = Blank
      /\ pc = "read" /\ op = "attempt_fallback" => lock'[msg] # s
      /\ pc \in Saving /\ op = "attempt_fallback" =>
            "escalation_triggered" \in events'[msg]
  BY <1>1 DEF Saving
<1>9. \A t \in Sessions : SessionExplained(t)'
  BY <1>4, <1>5, <1>6, <1>7, <1>8, GoExplained DEF Explained, Own
<1> QED BY <1>2, <1>3, <1>9 DEF ExplainedInv

LEMMA FlushExplained ==
    ASSUME TypeInv, ExplainedInv, NEW s \in Sessions, Flush(s)
    PROVE  ExplainedInv'
<1>1. PICK m, op, rec, fact, version :
          /\ m = ses[s].msg /\ op = ses[s].op /\ rec = ses[s].rec
          /\ fact = FactOf(op, rec)
          /\ version = Written(rec, ses[s].loaded, View(s, m))
  OBVIOUS
<1>2. ses[s].pc = "flush" /\ m \in Messages
  BY <1>1 DEF Flush, TypeInv, HandlersHaveMessage, Handling
<1>3. WriteRow(s, m, version, {fact}) /\ UNCHANGED <<attempts, accepted>>
  BY <1>1 DEF Flush
<1>4. SessionExplained(s)
  BY DEF ExplainedInv
<1>5. Explained(m, rec, Own(s, m) \cup {fact})
  BY <1>1, <1>2, <1>4 DEF SessionExplained, RecordExplained
<1>6. Explained(m, View(s, m), Own(s, m) \cup {fact})
  BY <1>2, ViewExplained, MoreExplained
<1>7. Explained(m, version, Own(s, m) \cup {fact})
  BY <1>1, <1>5, <1>6, WrittenExplained
<1>8. /\ Owed(version) \subseteq events[m] \cup pending[m] \cup {fact}
      /\ Confirmed(m, version, accepted')
  BY <1>3, <1>7 DEF Explained, Own
<1>9. FallbackAfterEscalation'
  BY <1>3 DEF WriteRow, ExplainedInv, FallbackAfterEscalation
<1>10. accepted \subseteq accepted'
  BY <1>3
<1>11. /\ \A n \in Messages : Explained(n, ses[s].batch[n], {})
       /\ \A n \in Messages : lock[n] = s => ses[s].batch[n] = Blank
       /\ ses[s].batch[m] = Blank
  BY <1>1, <1>2, <1>4, BatchesExplained DEF SessionExplained, HandledOnce, Saving
<1> DEFINE batch == [ses[s].batch EXCEPT ![m] = Blank]
<1>12. /\ \A n \in Messages : Explained(n, batch[n], {})
       /\ \A n \in Messages : lock[n] = s => batch[n] = Blank
       /\ batch[m] = Blank
  BY <1>2, BatchesExplained
<1> HIDE DEF batch
<1>13. op = "attempt_fallback" => "escalation_triggered" \in events[m]
  BY <1>1, <1>2, <1>4 DEF SessionExplained, RestsOnEscalation, Saving
<1>14. ASSUME NEW pc \in {"read", "next"}, NEW next, NEW msg, NEW none, NEW left,
              Go(s, pc, next, msg, none, left),
              next # "attempt_fallback" \/ pc # "read",
              \A n \in Messages : Explained(n, left[n], {}),
              \A n \in Messages : lock[n] = s => left[n] = Blank,
              left[m] = Blank
       PROVE  ExplainedInv'
  <2>1. pc \notin {"refetch", "flush"} /\ pc # "send"
    OBVIOUS
  <2> QED BY <1>2, <1>3, <1>8, <1>9, <1>10, <1>14, <2>1, WriteExplained DEF Explained
<1>15. CASE Go(s, "read", "attempt_delivery", m, Blank, ses[s].batch)
  BY <1>11, <1>14, <1>15
<1>16. CASE Go(s, "send", op, m, rec, ses[s].batch)
  BY <1>2, <1>3, <1>5, <1>8, <1>9, <1>10, <1>11, <1>13, <1>16, WriteExplained
     DEF Explained
<1>17. CASE Go(s, "next", None, None, Blank, batch)
  BY <1>12, <1>14, <1>17
<1>18. \/ Begin(s, "attempt_delivery", m)
       \/ Go(s, "send", op, m, rec, ses[s].batch)
       \/ Return(s, m)
  BY <1>1 DEF Flush
<1> QED BY <1>15, <1>16, <1>17, <1>18 DEF Begin, Return, batch

\* An outcome is explained by what its record owed before the send, by the
\* events it records, and by the answers of the channels.
Accounts(o, m, owed, answers) ==
    Owed(o.rec) \subseteq owed \cup o.facts /\ Confirmed(m, o.rec, answers)

LEMMA ThenAccounts ==
    ASSUME NEW o, o.rec \in Row, NEW next \in MessageStates, NEW fact,
           NEW m, NEW owed, NEW answers, Accounts(o, m, owed, answers),
           \A f : <<next, f>> \in StateEvents => f = fact,
           next = "SENT_TO_CHANNEL" => <<m, "primary">> \in answers,
           next = "FALLBACK_DELIVERED" => <<m, "fallback">> \in answers
    PROVE  Accounts(Then(o, next, fact), m, owed, answers)
<1> DEFINE moved == [o.rec EXCEPT !.current_state = next]
<1>1. moved.current_state = next /\ moved.acknowledged_at = o.rec.acknowledged_at
  BY DEF Row
<1> HIDE DEF moved
<1>2. Owed(moved) \subseteq owed \cup o.facts \cup {fact}
  BY <1>1 DEF Owed, Accounts
<1>3. Confirmed(m, moved, answers)
  BY <1>1 DEF Confirmed
<1>4. \/ Then(o, next, fact) = o
      \/ /\ Then(o, next, fact).rec = moved
         /\ Then(o, next, fact).facts = o.facts \cup {fact}
  BY DEF Then, Outcome, moved
<1> QED BY <1>2, <1>3, <1>4 DEF Accounts

LEMMA SendingAccounts ==
    ASSUME NEW record \in Row, record.current_state \in Transient, NEW facts,
           NEW m, NEW owed, Owed(record) \subseteq owed, NEW answers
    PROVE  Accounts(Outcome(record, facts), m, owed, answers)
BY DEF Accounts, Outcome, Confirmed, Transient

LEMMA PrimaryAccounts ==
    ASSUME NEW record \in Row, record.current_state = "SENDING",
           NEW m, NEW owed, Owed(record) \subseteq owed, NEW answers,
           NEW hasFallback \in BOOLEAN, NEW success \in BOOLEAN,
           success => <<m, "primary">> \in answers
    PROVE  /\ Accounts(PrimaryOutcome(record, hasFallback, success), m, owed, answers)
           /\ Accounts(Then(Outcome(record, {}), "FAILED", "send_failed"),
                       m, owed, answers)
<1> DEFINE sent == Outcome(record, {"send_attempt"})
<1>1. /\ {"SENT_TO_CHANNEL", "ESCALATION_PENDING", "FAILED"} \subseteq MessageStates
      /\ \A f : <<"SENT_TO_CHANNEL", f>> \in StateEvents => f = "send_success"
      /\ \A f : <<"FAILED", f>> \in StateEvents => f = "send_failed"
      /\ \A f : <<"ESCALATION_PENDING", f>> \in StateEvents => f = "escalation_triggered"
  BY DEF MessageStates, StateEvents
<1>2. /\ \A facts : Accounts(Outcome(record, facts), m, owed, answers)
      /\ \A facts : Outcome(record, facts).rec = record
  BY SendingAccounts DEF Transient, Outcome
<1>3. Accounts(Then(sent, "FAILED", "send_failed"), m, owed, answers)
  BY <1>1, <1>2, ThenAccounts
<1>4. Accounts(Then(Outcome(record, {}), "FAILED", "send_failed"), m, owed, answers)
  BY <1>1, <1>2, ThenAccounts
<1>5. ASSUME success
      PROVE  Accounts(Then(sent, "SENT_TO_CHANNEL", "send_success"), m, owed, answers)
  BY <1>1, <1>2, <1>5, ThenAccounts
<1>6. Accounts(Then(Then(sent, "SENT_TO_CHANNEL", "send_failed"),
                    "ESCALATION_PENDING", "escalation_triggered"), m, owed, answers)
  <2> DEFINE late == [record EXCEPT !.current_state = "SENT_TO_CHANNEL"]
             escalated == [record EXCEPT !.current_state = "ESCALATION_PENDING"]
             facts == {"send_attempt", "send_failed", "escalation_triggered"}
  <2>1. Then(sent, "SENT_TO_CHANNEL", "send_failed")
          = Outcome(late, {"send_attempt", "send_failed"})
    BY Transitions DEF Then, Outcome
  <2>2. /\ late.current_state = "SENT_TO_CHANNEL"
        /\ [late EXCEPT !.current_state = "ESCALATION_PENDING"] = escalated
    BY DEF Row
  <2>3. Then(Outcome(late, {"send_attempt", "send_failed"}),
             "ESCALATION_PENDING", "escalation_triggered")
          = Outcome(escalated, {"send_attempt", "send_failed"} \cup {"escalation_triggered"})
    BY <2>2, Transitions DEF Then, Outcome
  <2>4. /\ escalated.current_state = "ESCALATION_PENDING"
        /\ escalated.acknowledged_at = record.acknowledged_at
    BY DEF Row
  <2> HIDE DEF late, escalated
  <2>5. Owed(escalated) \subseteq owed \cup {"escalation_triggered"}
    BY <1>1, <2>4 DEF Owed
  <2>6. Accounts(Outcome(escalated, {"send_attempt", "send_failed"}
                                      \cup {"escalation_triggered"}), m, owed, answers)
    BY <2>4, <2>5 DEF Accounts, Outcome, Confirmed
  <2> QED BY <2>1, <2>3, <2>6
<1> QED BY <1>3, <1>4, <1>5, <1>6 DEF PrimaryOutcome

LEMMA FallbackAccounts ==
    ASSUME NEW record \in Row, record.current_state = "FALLBACK_SENDING",
           NEW m, NEW owed, Owed(record) \subseteq owed, NEW answers,
           NEW success \in BOOLEAN, success => <<m, "fallback">> \in answers
    PROVE  /\ Accounts(FallbackOutcome(record, success), m, owed, answers)
           /\ Accounts(Then(Outcome(record, {}), "DEAD_LETTER", "dead_letter"),
                       m, owed, answers)
<1> DEFINE facts == {"fallback_attempt"}
           failed == [record EXCEPT !.retry_count = record.retry_count + 1]
           deferred == [failed EXCEPT !.next_retry_at = record.retry_count + 1]
<1>1. /\ {"FALLBACK_DELIVERED", "ESCALATION_DEFERRED", "DEAD_LETTER"} \subseteq MessageStates
      /\ \A f : <<"FALLBACK_DELIVERED", f>> \in StateEvents => f = "fallback_success"
      /\ \A f : <<"ESCALATION_DEFERRED", f>> \in StateEvents => f = "escalation_deferred"
      /\ \A f : <<"DEAD_LETTER", f>> \in StateEvents => f = "dead_letter"
  BY DEF MessageStates, StateEvents
<1>2. ASSUME NEW r \in Row, r.current_state = record.current_state,
             r.acknowledged_at = record.acknowledged_at
      PROVE  \A fs : /\ Accounts(Outcome(r, fs), m, owed, answers)
                     /\ Outcome(r, fs).rec = r
  <2>1. Owed(r) \subseteq owed /\ r.current_state \in Transient
    BY <1>2 DEF Owed, Transient
  <2> QED BY <2>1, SendingAccounts DEF Outcome
<1>3. /\ failed \in Row /\ failed.current_state = record.current_state
      /\ failed.acknowledged_at = record.acknowledged_at
      /\ deferred \in Row /\ deferred.current_state = record.current_state
      /\ deferred.acknowledged_at = record.acknowledged_at
  <2>1. record.retry_count + 1 \in Nat
    BY DEF Row
  <2>2. /\ failed \in Row /\ failed.current_state = record.current_state
        /\ failed.acknowledged_at = record.acknowledged_at
    BY <2>1 DEF Row
  <2>3. /\ deferred \in Row /\ deferred.current_state = failed.current_state
        /\ deferred.acknowledged_at = failed.acknowledged_at
    BY <2>1, <2>2 DEF Row
  <2> QED BY <2>2, <2>3
<1>4. FallbackOutcome(record, success) =
        IF success
        THEN Then(Outcome(record, facts), "FALLBACK_DELIVERED", "fallback_success")
        ELSE IF ShouldRetry(FALLBACK_RETRY_POLICY, record.retry_count + 1)
             THEN Then(Outcome(deferred, facts), "ESCALATION_DEFERRED",
                       "escalation_deferred")
             ELSE Then(Outcome(failed, facts), "DEAD_LETTER", "dead_letter")
  BY DEF FallbackOutcome
<1> HIDE DEF failed, deferred, facts
<1>5. /\ Accounts(Then(Outcome(failed, facts), "DEAD_LETTER", "dead_letter"),
                  m, owed, answers)
      /\ Accounts(Then(Outcome(deferred, facts), "ESCALATION_DEFERRED",
                       "escalation_deferred"), m, owed, answers)
      /\ Accounts(Then(Outcome(record, {}), "DEAD_LETTER", "dead_letter"),
                  m, owed, answers)
  BY <1>1, <1>2, <1>3, ThenAccounts
<1>6. ASSUME success
      PROVE  Accounts(Then(Outcome(record, facts), "FALLBACK_DELIVERED",
                           "fallback_success"), m, owed, answers)
  BY <1>1, <1>2, <1>6, ThenAccounts
<1> QED BY <1>4, <1>5, <1>6

LEMMA SaveExplained ==
    ASSUME TypeInv, DurableInv, ExplainedInv, NEW s \in Sessions, ses[s].pc = "send",
           NEW m, m = ses[s].msg, NEW o, Save(s, o),
           Accounts(o, m, events[m] \cup pending[m], accepted'),
           accepted \subseteq accepted', FallbackAfterEscalation'
    PROVE  ExplainedInv'
<1> DEFINE version == IF o.rec.current_state = ses[s].rec.current_state
                      THEN dirty[m] ELSE o.rec
           batch == [ses[s].batch EXCEPT ![m] = Blank]
<1>1. m \in Messages /\ lock[m] # None
  BY NoneAssumption DEF TypeInv, HandlersHaveMessage, Handling, DurableInv, SendersHold
<1>2. Explained(m, dirty[m], pending[m])
  BY <1>1 DEF ExplainedInv, VersionsExplained
<1>3. /\ Owed(version) \subseteq events[m] \cup pending[m] \cup o.facts
      /\ Confirmed(m, version, accepted')
  BY <1>2 DEF Explained, Confirmed, Accounts
<1>4. WriteRow(s, m, version, o.facts)
  BY DEF Save
<1>5. Go(s, "next", None, None, Blank, batch)
  BY DEF Save, Return
<1>6. /\ \A n \in Messages : Explained(n, batch[n], {})
      /\ \A n \in Messages : lock[n] = s => batch[n] = Blank
      /\ batch[m] = Blank
  BY <1>1, BatchesExplained
<1> HIDE DEF version, batch
<1> QED BY <1>1, <1>3, <1>4, <1>5, <1>6, WriteExplained DEF Explained

LEMMA SendExplained ==
    ASSUME TypeInv, DurableInv, ExplainedInv, NEW s \in Sessions, NEW channel,
           SendPrimary(s) \/ SendFallback(s, channel)
    PROVE  ExplainedInv'
<1>1. PICK m, rec, owed : /\ m = ses[s].msg /\ rec = ses[s].rec
                          /\ owed = events[m] \cup pending[m]
  OBVIOUS
<1>2. ses[s].pc = "send" /\ m \in Messages /\ rec \in Row
  BY <1>1 DEF SendPrimary, SendFallback, At, TypeInv, TypeOK, ProcessorTypeOK,
              Session, HandlersHaveMessage, Handling
<1>3. Owed(rec) \subseteq owed
  BY <1>1, <1>2 DEF ExplainedInv, SessionExplained, RecordExplained, Explained, Own
<1>4. ASSUME NEW leg \in Legs, NEW success \in BOOLEAN, CallChannel(m, leg, success)
      PROVE  /\ accepted \subseteq accepted'
             /\ success => <<m, leg>> \in accepted'
             /\ \A n \in Messages, l \in Legs :
                   attempts'[n][l] # attempts[n][l] => n = m /\ l = leg
  BY <1>4 DEF CallChannel, TypeInv, TypeOK, ProcessorTypeOK
<1>5. events' = events
  BY DEF SendPrimary, SendFallback, Save, WriteRow
<1>6. ASSUME UNCHANGED <<attempts, accepted>>
      PROVE  FallbackAfterEscalation'
  BY <1>5, <1>6 DEF ExplainedInv, FallbackAfterEscalation
<1>7. "primary" \in Legs /\ "fallback" \in Legs /\ "unavailable" \in Legs
  BY DEF Legs
<1>8. CASE SendPrimary(s)
  <2>1. rec.current_state = "SENDING"
    BY <1>1, <1>8 DEF SendPrimary, At, DurableInv, SendersHold, Aim
  <2>2. CASE /\ Save(s, Then(Outcome(rec, {}), "FAILED", "send_failed"))
             /\ UNCHANGED <<attempts, accepted>>
    <3>1. Accounts(Then(Outcome(rec, {}), "FAILED", "send_failed"), m, owed, accepted')
      BY <1>2, <1>3, <2>1, <2>2, PrimaryAccounts
    <3> QED BY <1>1, <1>2, <1>6, <2>2, <3>1, SaveExplained
  <2>3. ASSUME NEW success \in BOOLEAN, CallChannel(m, "primary", success),
               NEW hasFallback \in BOOLEAN,
               Save(s, PrimaryOutcome(rec, hasFallback, success))
        PROVE  ExplainedInv'
    <3>1. accepted \subseteq accepted' /\ (success => <<m, "primary">> \in accepted')
      BY <1>4, <1>7, <2>3
    <3>2. FallbackAfterEscalation'
      BY <1>4, <1>5, <1>7, <2>3 DEF ExplainedInv, FallbackAfterEscalation
    <3>3. Accounts(PrimaryOutcome(rec, hasFallback, success), m, owed, accepted')
      BY <1>2, <1>3, <2>1, <3>1, PrimaryAccounts
    <3> QED BY <1>1, <1>2, <2>3, <3>1, <3>2, <3>3, SaveExplained
  <2> QED BY <1>1, <1>8, <2>2, <2>3 DEF SendPrimary
<1>9. CASE SendFallback(s, channel)
  <2>1. rec.current_state = "FALLBACK_SENDING"
    BY <1>1, <1>9 DEF SendFallback, At, DurableInv, SendersHold, Aim
  <2>2. "escalation_triggered" \in events[m]
    BY <1>1, <1>9 DEF SendFallback, At, ExplainedInv, SessionExplained,
                      RestsOnEscalation, Saving
  <2>3. CASE /\ Save(s, Then(Outcome(rec, {}), "DEAD_LETTER", "dead_letter"))
             /\ attempts' = [attempts EXCEPT ![m]["unavailable"] = 1]
             /\ UNCHANGED accepted
    <3>1. Accounts(Then(Outcome(rec, {}), "DEAD_LETTER", "dead_letter"),
                   m, owed, accepted')
      <4>1. PICK success \in BOOLEAN : ~success
        OBVIOUS
      <4> QED BY <1>2, <1>3, <2>1, <4>1, FallbackAccounts
    <3>2. accepted' = accepted
      BY <2>3
    <3>3. FallbackAfterEscalation'
      <4>1. \A n \in Messages : attempts'[n]["fallback"] = attempts[n]["fallback"]
        BY <1>1, <2>3 DEF TypeInv, TypeOK, ProcessorTypeOK, Legs
      <4> QED BY <1>5, <4>1 DEF ExplainedInv, FallbackAfterEscalation
    <3> QED BY <1>1, <1>2, <2>3, <3>1, <3>2, <3>3, SaveExplained
  <2>4. ASSUME NEW success \in BOOLEAN, CallChannel(m, "fallback", success),
               Save(s, FallbackOutcome(rec, success))
        PROVE  ExplainedInv'
    <3>1. accepted \subseteq accepted' /\ (success => <<m, "fallback">> \in accepted')
      BY <1>4, <1>7, <2>4
    <3>2. FallbackAfterEscalation'
      BY <1>4, <1>5, <1>7, <2>2, <2>4 DEF ExplainedInv, FallbackAfterEscalation
    <3>3. Accounts(FallbackOutcome(rec, success), m, owed, accepted')
      BY <1>2, <1>3, <2>1, <3>1, FallbackAccounts
    <3> QED BY <1>1, <1>2, <2>4, <3>1, <3>2, <3>3, SaveExplained
  <2>5. \/ <2>3!1
        \/ \E success \in BOOLEAN : /\ CallChannel(m, "fallback", success)
                                   /\ Save(s, FallbackOutcome(rec, success))
    BY <1>1, <1>9 DEF SendFallback
  <2> QED BY <2>3, <2>4, <2>5
<1> QED BY <1>8, <1>9

LEMMA GotoExplained ==
    ASSUME TypeInv, ExplainedInv, UNCHANGED <<storeVars, attempts, accepted>>,
           NEW s \in Sessions, NEW pc \in {"idle", "insert", "done"}, Goto(s, pc)
    PROVE  ExplainedInv'
<1>1. Go(s, pc, None, None, Blank, NoBatch)
  BY DEF Goto, Go, Fresh
<1>2. \A n \in Messages : Explained(n, NoBatch[n], {}) /\ NoBatch[n] = Blank
  BY BlankExplained DEF NoBatch
<1> QED BY <1>1, <1>2, StepExplained DEF Saving

LEMMA InsertExplained ==
    ASSUME TypeInv, ExplainedInv, NEW c \in Sessions, Insert(c)
    PROVE  ExplainedInv'
<1>1. UNCHANGED <<attempts, accepted>>
  BY DEF Insert
<1>2. CASE Goto(c, "done") /\ UNCHANGED storeVars
  BY <1>1, <1>2, GotoExplained
<1>3. ASSUME NEW m \in Messages, NEW pol \in Policies,
             InsertRow(m, KeyOf[c], pol), Begin(c, "process_new_message", m)
      PROVE  ExplainedInv'
  <2>1. /\ events' = events /\ lock' = lock /\ dirty' = dirty /\ pending' = pending
        /\ row'[m].current_state = "PENDING" /\ row'[m].acknowledged_at = None
        /\ \A n \in Messages \ {m} : row'[n] = row[n]
    BY <1>3 DEF InsertRow, Blank, TypeInv, TypeOK, StoreTypeOK
  <2>2. Owed(row'[m]) = {}
    BY <2>1 DEF Owed, StateEvents
  <2>3. RowsExplained'
    BY <1>1, <2>1, <2>2 DEF ExplainedInv, RowsExplained, Explained, Confirmed
  <2>4. VersionsExplained' /\ FallbackAfterEscalation'
    BY <1>1, <2>1 DEF ExplainedInv, VersionsExplained, Explained, Confirmed,
                      FallbackAfterEscalation
  <2> DEFINE batch == ses[c].batch
  <2>5. Go(c, "read", "process_new_message", m, Blank, batch)
    BY <1>3 DEF Begin
  <2>6. \A n \in Messages : /\ Explained(n, batch[n], {})
                            /\ lock[n] = c => batch[n] = Blank
    BY BatchesExplained
  <2> HIDE DEF batch
  <2>7. \A t \in Sessions : SessionExplained(t)'
    BY <1>1, <2>1, <2>5, <2>6, GoExplained DEF Explained, Saving
  <2> QED BY <2>3, <2>4, <2>7 DEF ExplainedInv
<1> QED BY <1>2, <1>3 DEF Insert

LEMMA ArriveExplained ==
    ASSUME TypeInv, DurableInv, ExplainedInv, Arrive
    PROVE  ExplainedInv'
<1>1. PICK s \in Sessions : \/ s \in Creators /\ Create(s)
                            \/ s \in Ackers /\ Acknowledge(s)
                            \/ s \in Escalators /\ ManualEscalate(s)
                            \/ s \in Retriers /\ RetryFallback(s)
  BY SessionsAssumption DEF Arrive, Requests
<1>2. UNCHANGED <<storeVars, attempts, accepted>> /\ ses[s].pc = "idle"
  BY <1>1 DEF Create, Acknowledge, ManualEscalate, RetryFallback
<1>3. \A n \in Messages : lock[n] # s
  BY <1>2 DEF DurableInv, RestingHoldNothing
<1>4. \A m \in Messages : row[m] \in Row /\ Explained(m, row[m], Own(s, m))
  BY MoreExplained DEF TypeInv, TypeOK, StoreTypeOK, ExplainedInv, RowsExplained
<1>5. Stored \subseteq Messages
  BY DEF Stored
<1>6. CASE Goto(s, "insert") \/ Goto(s, "done")
  BY <1>2, <1>6, GotoExplained
<1>7. ASSUME NEW m \in Messages, NEW op, Begin(s, op, m)
      PROVE  ExplainedInv'
  BY <1>2, <1>3, <1>7, BeginExplained
<1>8. ASSUME NEW m \in Messages, Escalate(s, m, row[m])
      PROVE  ExplainedInv'
  BY <1>2, <1>4, <1>8, EscalateExplained
<1>9. CASE Create(s)
  BY <1>5, <1>6, <1>7, <1>9 DEF Create
<1>10. CASE Acknowledge(s)
  BY <1>5, <1>7, <1>10 DEF Acknowledge
<1>11. CASE ManualEscalate(s)
  BY <1>5, <1>6, <1>8, <1>11 DEF ManualEscalate
<1>12. CASE RetryFallback(s)
  BY <1>5, <1>6, <1>7, <1>12 DEF RetryFallback
<1> QED BY <1>1, <1>9, <1>10, <1>11, <1>12

LEMMA PassExplained ==
    ASSUME TypeInv, DurableInv, ExplainedInv, Pass
    PROVE  ExplainedInv'
<1>1. DeadlineLoop \in Sessions /\ FallbackLoop \in Sessions /\ RetryLoop \in Sessions
  BY SessionsAssumption DEF Loops
<1>2. UNCHANGED <<storeVars, attempts, accepted>>
  BY DEF Pass, Scan, DeadlineScan, DeadlineItem, FallbackScan, FallbackItem,
         RetryScan, RetryItem
<1>3. ASSUME NEW s \in Sessions, NEW due, Scan(s, due)
      PROVE  ExplainedInv'
  <2> DEFINE batch == [m \in Messages |-> IF m \in due THEN row[m] ELSE Blank]
  <2>1. \A n \in Messages : Explained(n, batch[n], {})
    BY BlankExplained DEF ExplainedInv, RowsExplained
  <2>2. \A n \in Messages : lock[n] # s
    BY <1>3 DEF Scan, DurableInv, RestingHoldNothing
  <2>3. Go(s, "next", None, None, Blank, batch) /\ "next" \notin Saving
    BY <1>3 DEF Scan, Saving
  <2> HIDE DEF batch
  <2> QED BY <1>2, <2>1, <2>2, <2>3, StepExplained
<1>4. CASE DeadlineScan \/ FallbackScan \/ RetryScan
  BY <1>1, <1>3, <1>4 DEF DeadlineScan, FallbackScan, RetryScan
<1>5. ASSUME NEW s \in Sessions, NEW m \in Listed(s)
      PROVE  /\ m \in Messages /\ lock[m] # s
             /\ ses[s].batch[m] \in Row /\ Explained(m, ses[s].batch[m], Own(s, m))
  BY BatchesExplained, MoreExplained
     DEF Listed, TypeInv, TypeOK, ProcessorTypeOK, Session
<1>6. CASE DeadlineItem
  BY <1>1, <1>2, <1>5, <1>6, EscalateExplained DEF DeadlineItem
<1>7. CASE FallbackItem
  BY <1>1, <1>2, <1>5, <1>7, BeginExplained DEF FallbackItem
<1>8. CASE RetryItem
  BY <1>1, <1>2, <1>5, <1>8, BeginExplained, EscalateExplained DEF RetryItem
<1> QED BY <1>4, <1>6, <1>7, <1>8 DEF Pass

\* The transactions of S end, the events only grow, and the sessions of S come
\* to rest.
LEMMA EndExplained ==
    ASSUME TypeInv, DurableInv, ExplainedInv, NEW S \in SUBSET Sessions,
           EndTransactions(S), RowsExplained',
           \A m \in Messages : events[m] \subseteq events'[m],
           UNCHANGED <<attempts, accepted>>,
           \A t \in Sessions \ S : ses'[t] = ses[t],
           \A t \in S : \/ ses'[t] = ses[t] /\ ses[t].pc \in {"idle", "done"}
                        \/ /\ ses'[t].pc \in {"idle", "done"}
                           /\ ses'[t].batch = NoBatch
    PROVE  ExplainedInv'
<1>1. \A m \in Messages : lock[m] \notin S =>
         lock'[m] = lock[m] /\ dirty'[m] = dirty[m] /\ pending'[m] = pending[m]
  BY DEF EndTransactions
<1>2. \A m \in Messages : lock[m] \in S => lock'[m] = None
  BY DEF EndTransactions
<1>3. VersionsExplained'
  BY <1>1, <1>2, StaysExplained DEF ExplainedInv, VersionsExplained
<1>4. FallbackAfterEscalation'
  BY DEF ExplainedInv, FallbackAfterEscalation
<1>5. ASSUME NEW t \in Sessions \ S
      PROVE  SessionExplained(t)'
  <2>1. ses'[t] = ses[t] /\ SessionExplained(t)
    BY DEF ExplainedInv
  <2>2. \A m \in Messages : /\ lock'[m] = t <=> lock[m] = t
                            /\ Own(t, m)' = Own(t, m)
    BY <1>1, <1>2, NoneAssumption DEF Own
  <2>3. ses[t].pc \in Handling => ses[t].msg \in Messages
    BY DEF TypeInv, HandlersHaveMessage
  <2>4. RecordExplained(t)'
    <3>1. CASE ses[t].pc \in {"refetch", "flush"}
      BY <2>1, <2>2, <2>3, <3>1, StaysExplained
         DEF SessionExplained, RecordExplained, Handling
    <3>2. CASE ses[t].pc = "send"
      BY <2>1, <2>2, <2>3, <3>2, StaysExplained
         DEF SessionExplained, RecordExplained, Handling
    <3> QED BY <2>1, <3>1, <3>2 DEF RecordExplained
  <2>5. BatchExplained(t)'
    BY <2>1, StaysExplained DEF SessionExplained, BatchExplained
  <2>6. HandledOnce(t)'
    BY <2>1, <2>2, <2>3 DEF SessionExplained, HandledOnce, Handling, Saving, Blank
  <2>7. RestsOnEscalation(t)'
    BY <2>1, <2>3 DEF SessionExplained, RestsOnEscalation, Handling, Saving
  <2> QED BY <2>4, <2>5, <2>6, <2>7 DEF SessionExplained
<1>6. ASSUME NEW t \in S
      PROVE  SessionExplained(t)'
  <2>1. \A m \in Messages : lock'[m] # t
    BY <1>1, <1>2, NoneAssumption
  <2>2. ses'[t].pc \in {"idle", "done"}
    OBVIOUS
  <2>3. BatchExplained(t)'
    <3>1. CASE ses'[t] = ses[t]
      BY <3>1, StaysExplained DEF ExplainedInv, SessionExplained, BatchExplained
    <3>2. CASE ses'[t].batch = NoBatch
      BY <3>2, BlankExplained, StaysExplained DEF BatchExplained, NoBatch
    <3> QED BY <3>1, <3>2
  <2> QED BY <2>1, <2>2, <2>3
          DEF SessionExplained, RecordExplained, HandledOnce, RestsOnEscalation, Saving
<1> QED BY <1>3, <1>4, <1>5, <1>6 DEF ExplainedInv

LEMMA CommitExplained ==
    ASSUME TypeInv, DurableInv, ExplainedInv, NEW s \in Sessions, Commit(s)
    PROVE  ExplainedInv'
<1>1. EndTransactions({s}) /\ {s} \in SUBSET Sessions /\ UNCHANGED <<attempts, accepted>>
  BY DEF Commit, CommitTransaction
<1>2. \A m \in Messages :
         /\ row'[m] = (IF lock[m] = s THEN dirty[m] ELSE row[m])
         /\ events'[m] = (IF lock[m] = s THEN events[m] \cup pending[m] ELSE events[m])
  BY DEF Commit, CommitTransaction
<1>3. s # None
  BY NoneAssumption
<1>4. RowsExplained'
  BY <1>1, <1>2, <1>3 DEF ExplainedInv, RowsExplained, VersionsExplained, Explained
<1>5. /\ ses'[s].pc \in {"idle", "done"} /\ ses'[s].batch = NoBatch
      /\ \A t \in Sessions \ {s} : ses'[t] = ses[t]
  BY DEF Commit, Goto, Fresh, TypeInv, TypeOK, ProcessorTypeOK
<1>6. \A m \in Messages : events[m] \subseteq events'[m]
  BY <1>2
<1> QED BY <1>1, <1>4, <1>5, <1>6, EndExplained

LEMMA AbortExplained ==
    ASSUME TypeInv, DurableInv, ExplainedInv, NEW S \in SUBSET Sessions, Abort(S)
    PROVE  ExplainedInv'
<1>1. EndTransactions(S) /\ UNCHANGED <<row, events, attempts, accepted>>
  BY DEF Abort, RollbackTransactions
<1>2. RowsExplained'
  BY <1>1 DEF ExplainedInv, RowsExplained, Explained
<1>3. \A t \in Sessions \ S : ses'[t] = ses[t]
  BY DEF Abort
<1>4. ASSUME NEW t \in S
      PROVE  \/ ses'[t] = ses[t] /\ ses[t].pc \in {"idle", "done"}
             \/ ses'[t].pc \in {"idle", "done"} /\ ses'[t].batch = NoBatch
  <2>1. \/ ses'[t] = ses[t] /\ ses[t].pc \in {"idle", "done"}
        \/ ses'[t] = Fresh("idle") \/ ses'[t] = Fresh("done")
    BY DEF Abort, Running
  <2> QED BY <2>1 DEF Fresh
<1> QED BY <1>1, <1>2, <1>3, <1>4, EndExplained

LEMMA ExplainedStep ==
    TypeInv /\ DurableInv /\ ExplainedInv /\ [Next]_vars => ExplainedInv'
<1> SUFFICES ASSUME TypeInv, DurableInv, ExplainedInv, [Next]_vars
             PROVE  ExplainedInv'
  OBVIOUS
<1>1. CASE Arrive
  BY <1>1, ArriveExplained
<1>2. ASSUME NEW c \in Creators, Insert(c)
      PROVE  ExplainedInv'
  BY <1>2, InsertExplained, SessionsAssumption DEF Requests
<1>3. CASE Pass
  BY <1>3, PassExplained
<1>4. ASSUME NEW s \in Sessions, Handle(s)
      PROVE  ExplainedInv'
  BY <1>4, ReadExplained, RefetchExplained, FlushExplained, SendExplained DEF Handle
<1>5. ASSUME NEW s \in Sessions, Commit(s)
      PROVE  ExplainedInv'
  BY <1>5, CommitExplained
<1>6. CASE (\E m \in Messages : Elapse(m)) \/ UNCHANGED vars
  <2>1. /\ row' = row /\ events' = events /\ lock' = lock /\ dirty' = dirty
        /\ pending' = pending /\ ses' = ses /\ attempts' = attempts
        /\ accepted' = accepted
    BY <1>6 DEF Elapse, vars, processorVars, storeVars
  <2>2. RowsExplained' /\ VersionsExplained' /\ FallbackAfterEscalation'
    BY <2>1 DEF ExplainedInv, RowsExplained, VersionsExplained, Explained,
                FallbackAfterEscalation
  <2>3. \A s \in Sessions : SessionExplained(s)'
    BY <2>1 DEF ExplainedInv, SessionExplained, RecordExplained, BatchExplained,
                HandledOnce, RestsOnEscalation, Explained, Own, Saving, Blank
  <2> QED BY <2>2, <2>3 DEF ExplainedInv
<1>7. CASE \/ \E s \in Sessions : SessionError(s) \/ DeadlockVictim(s)
           \/ Crash
  <2>1. ASSUME NEW s \in Sessions, Abort({s})
        PROVE  ExplainedInv'
    BY <2>1, AbortExplained
  <2>2. CASE Crash
    BY <2>2, AbortExplained DEF Crash
  <2> QED BY <1>7, <2>1, <2>2 DEF SessionError, DeadlockVictim
<1> QED BY <1>1, <1>2, <1>3, <1>4, <1>5, <1>6, <1>7 DEF Next, IdlePass

LEMMA ExplainedInit == Init => ExplainedInv
<1> SUFFICES ASSUME Init PROVE ExplainedInv
  OBVIOUS
<1>1. /\ row = [m \in Messages |-> Blank] /\ lock = [m \in Messages |-> None]
      /\ ses = [s \in Sessions |-> Fresh("idle")]
      /\ attempts = [m \in Messages |-> [l \in Legs |-> 0]]
  BY DEF Init, StoreInit, ProcessorInit
<1>2. \A s \in Sessions : ses[s].pc = "idle" /\ ses[s].batch = NoBatch
  BY <1>1 DEF Fresh
<1>3. RowsExplained /\ VersionsExplained
  BY <1>1, BlankExplained DEF RowsExplained, VersionsExplained
<1>4. FallbackAfterEscalation
  BY <1>1 DEF FallbackAfterEscalation, Legs
<1>5. ASSUME NEW s \in Sessions
      PROVE  SessionExplained(s)
  <2>1. BatchExplained(s)
    BY <1>2, BlankExplained DEF BatchExplained, NoBatch
  <2>2. \A m \in Messages : lock[m] # s
    BY <1>1, NoneAssumption
  <2> QED BY <1>2, <2>1, <2>2
          DEF SessionExplained, RecordExplained, HandledOnce, RestsOnEscalation, Saving
<1> QED BY <1>3, <1>4, <1>5 DEF ExplainedInv

LEMMA ExplainedCorrect == Spec => []ExplainedInv
BY TypeCorrect, DurableCorrect, ExplainedInit, ExplainedStep, PTL DEF Spec

-----------------------------------------------------------------------------
(* The theorems                                                             *)

\* For any number of sessions that write over one another's versions of a row,
\* and any number of failures, the event that goes with a committed state, and
\* with a committed acknowledgement, is committed too.
THEOREM TrailIsComplete == Spec => []AuditTrail
<1>1. ExplainedInv => AuditTrail
  BY DEF ExplainedInv, RowsExplained, Explained, AuditTrail
<1> QED BY <1>1, ExplainedCorrect, PTL

\* No interleaving makes a row say that a message was sent, or delivered by its
\* fallback, when the channel of that leg has not accepted it.
THEOREM DeliveriesAreReal == Spec => []NoPhantomDelivery
<1>1. ExplainedInv => NoPhantomDelivery
  BY DEF ExplainedInv, RowsExplained, Explained, Confirmed, NoPhantomDelivery, Committed
<1> QED BY <1>1, ExplainedCorrect, PTL

\* Whatever is rolled back, a fallback channel has only been called for a message
\* whose escalation is committed.
THEOREM FallbacksAreEscalated == Spec => []FallbackAfterEscalation
<1>1. ExplainedInv => FallbackAfterEscalation
  BY DEF ExplainedInv
<1> QED BY <1>1, ExplainedCorrect, PTL
=============================================================================
