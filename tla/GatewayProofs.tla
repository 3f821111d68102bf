---------------------------- MODULE GatewayProofs ----------------------------
(***************************************************************************)
(* Theorems about the gateway, for every set of messages, requests, keys,   *)
(* policies and channels and any number of failures.                        *)
(***************************************************************************)
EXTENDS GatewayInvariants, TLAPS

-----------------------------------------------------------------------------
(* Types                                                                    *)

LEMMA BlankType ==
    Blank \in Row /\ NoBatch \in [Messages -> Row]
BY DEF Blank, Row, NoBatch, MessageStates

LEMMA FreshType ==
    ASSUME NEW pc \in Points
    PROVE  Fresh(pc) \in Session
BY BlankType DEF Fresh, Session

SessionsOK == ses \in [Sessions -> Session] /\ HandlersHaveMessage

\* Go changes the record of its session only.
LEMMA GoEffect ==
    ASSUME TypeInv, NEW s \in Sessions,
           NEW pc, NEW op, NEW m, NEW rec, NEW batch,
           Go(s, pc, op, m, rec, batch)
    PROVE  /\ ses'[s] = [pc |-> pc, op |-> op, msg |-> m, rec |-> rec,
                         loaded |-> Blank, batch |-> batch]
           /\ \A t \in Sessions \ {s} : ses'[t] = ses[t]
BY DEF Go, TypeInv, TypeOK, ProcessorTypeOK

LEMMA GoType ==
    ASSUME TypeInv, NEW s \in Sessions, NEW pc \in Points,
           NEW op \in Ops \cup {None}, NEW m \in Messages \cup {None},
           NEW rec \in Row, NEW batch \in [Messages -> Row],
           pc \in Handling => m \in Messages /\ op \in Ops,
           Go(s, pc, op, m, rec, batch)
    PROVE  SessionsOK'
<1>1. [pc |-> pc, op |-> op, msg |-> m, rec |-> rec, loaded |-> Blank,
       batch |-> batch] \in Session
  BY BlankType DEF Session
<1>2. ses' \in [Sessions -> Session]
  BY <1>1 DEF Go, TypeInv, TypeOK, ProcessorTypeOK
<1>3. /\ ses'[s].pc = pc /\ ses'[s].msg = m /\ ses'[s].op = op
      /\ \A t \in Sessions \ {s} : ses'[t] = ses[t]
  BY DEF Go, TypeInv, TypeOK, ProcessorTypeOK
<1>4. HandlersHaveMessage'
  BY <1>3 DEF HandlersHaveMessage, TypeInv
<1> QED BY <1>2, <1>4 DEF SessionsOK

LEMMA GotoType ==
    ASSUME TypeInv, NEW s \in Sessions, NEW pc \in Points \ Handling, Goto(s, pc)
    PROVE  SessionsOK'
<1>1. ses' \in [Sessions -> Session]
  BY FreshType DEF Goto, TypeInv, TypeOK, ProcessorTypeOK
<1>2. HandlersHaveMessage'
  BY DEF Goto, Fresh, HandlersHaveMessage, TypeInv, TypeOK, ProcessorTypeOK
<1> QED BY <1>1, <1>2 DEF SessionsOK

LEMMA BatchType ==
    ASSUME TypeInv, NEW s \in Sessions
    PROVE  /\ ses[s].batch \in [Messages -> Row]
           /\ \A m : [ses[s].batch EXCEPT ![m] = Blank] \in [Messages -> Row]
BY BlankType DEF TypeInv, TypeOK, ProcessorTypeOK, Session

LEMMA BeginType ==
    ASSUME TypeInv, NEW s \in Sessions, NEW op \in Ops, NEW m \in Messages,
           Begin(s, op, m)
    PROVE  SessionsOK'
BY GoType, BatchType, BlankType DEF Begin, Points

LEMMA ReturnType ==
    ASSUME TypeInv, NEW s \in Sessions, NEW m, Return(s, m)
    PROVE  SessionsOK'
<1>1. "next" \in Points /\ "next" \notin Handling
  BY DEF Points, Handling
<1> QED BY <1>1, GoType, BatchType, BlankType DEF Return

LEMMA UpdateType ==
    ASSUME TypeInv, NEW s \in Sessions, NEW op \in Ops, NEW m \in Messages,
           NEW record \in Row, Update(s, op, m, record)
    PROVE  SessionsOK'
BY GoType, BatchType DEF Update, Points

LEMMA TransitionType ==
    ASSUME TypeInv, NEW s \in Sessions, NEW op \in Ops, NEW m \in Messages,
           NEW record \in Row, NEW next \in MessageStates,
           Transition(s, op, m, record, next)
    PROVE  SessionsOK'
<1>1. [record EXCEPT !.current_state = next] \in Row
  BY DEF Row
<1> QED BY <1>1, UpdateType, ReturnType DEF Transition

LEMMA EscalateType ==
    ASSUME TypeInv, NEW s \in Sessions, NEW m \in Messages, NEW record \in Row,
           Escalate(s, m, record)
    PROVE  SessionsOK'
<1>1. "escalate_message" \in Ops
  BY DEF Ops
<1>2. "ESCALATION_PENDING" \in MessageStates /\ "DEAD_LETTER" \in MessageStates
  BY DEF MessageStates
<1> QED BY <1>1, <1>2, TransitionType DEF Escalate

LEMMA ViewType ==
    ASSUME TypeInv, NEW s \in Sessions, NEW m \in Messages
    PROVE  View(s, m) \in Row
BY DEF View, TypeInv, TypeOK, StoreTypeOK

LEMMA WrittenType ==
    ASSUME NEW record \in Row, NEW loaded \in Row, NEW current \in Row
    PROVE  Written(record, loaded, current) \in Row
BY DEF Written, Changed, Row

LEMMA WriteRowType ==
    ASSUME StoreTypeOK, NEW s \in Sessions, NEW m \in Messages,
           NEW version \in Row, NEW facts \in SUBSET EventTypes,
           WriteRow(s, m, version, facts)
    PROVE  StoreTypeOK'
BY DEF WriteRow, StoreTypeOK

LEMMA EndTransactionsType ==
    ASSUME StoreTypeOK, NEW S, EndTransactions(S)
    PROVE  /\ key' \in [Messages -> Keys \cup {None}]
           /\ policy' \in [Messages -> Policies \cup {NoPolicy}]
           /\ lock' \in [Messages -> Sessions \cup {None}]
           /\ dirty' \in [Messages -> Row]
           /\ pending' \in [Messages -> SUBSET EventTypes]
BY BlankType DEF EndTransactions, StoreTypeOK

LEMMA CommitTransactionType ==
    ASSUME StoreTypeOK, NEW s, CommitTransaction(s)
    PROVE  StoreTypeOK'
BY EndTransactionsType DEF CommitTransaction, StoreTypeOK

LEMMA RollbackTransactionsType ==
    ASSUME StoreTypeOK, NEW S, RollbackTransactions(S)
    PROVE  StoreTypeOK'
BY EndTransactionsType DEF RollbackTransactions, StoreTypeOK

-----------------------------------------------------------------------------
(* Types: one lemma per group of actions                                    *)

LEMMA StoreUnchanged ==
    ASSUME StoreTypeOK, UNCHANGED storeVars
    PROVE  StoreTypeOK'
BY DEF storeVars, StoreTypeOK

\* The reads of the handlers change ses only.
LEMMA ReadType ==
    ASSUME TypeInv, NEW s \in Sessions,
           \/ ProcessNewMessage(s) \/ AttemptDelivery(s)
           \/ AttemptFallback(s) \/ AcknowledgeMessage(s) \/ Refetch(s)
    PROVE  SessionsOK'
<1> DEFINE m == ses[s].msg
<1>1. ses[s].pc \in {"read", "refetch"} => m \in Messages /\ ses[s].op \in Ops
  BY DEF TypeInv, HandlersHaveMessage, Handling
<1>2. m \in Messages => View(s, m) \in Row
  BY ViewType
<1>3. CASE ProcessNewMessage(s)
  <2>1. m \in Messages /\ "process_new_message" \in Ops /\ "attempt_delivery" \in Ops
    BY <1>1, <1>3 DEF ProcessNewMessage, At, Ops
  <2>2. "QUEUED" \in MessageStates
    BY DEF MessageStates
  <2>3. \/ Transition(s, "process_new_message", m, View(s, m), "QUEUED")
        \/ Begin(s, "attempt_delivery", m)
    BY <1>3 DEF ProcessNewMessage
  <2>4. View(s, m) \in Row
    BY <1>2, <2>1
  <2>5. CASE Transition(s, "process_new_message", m, View(s, m), "QUEUED")
    BY <2>1, <2>2, <2>4, <2>5, TransitionType
  <2>6. CASE Begin(s, "attempt_delivery", m)
    BY <2>1, <2>6, BeginType
  <2> QED BY <2>3, <2>5, <2>6
<1>4. CASE AttemptDelivery(s)
  <2>1. m \in Messages /\ "attempt_delivery" \in Ops
    BY <1>1, <1>4 DEF AttemptDelivery, At, Ops
  <2>2. "SENDING" \in MessageStates
    BY DEF MessageStates
  <2> QED BY <1>2, <1>4, <2>1, <2>2, TransitionType DEF AttemptDelivery
<1>5. CASE AttemptFallback(s)
  <2>1. m \in Messages /\ "attempt_fallback" \in Ops
    BY <1>1, <1>5 DEF AttemptFallback, At, Ops
  <2>2. "FALLBACK_SENDING" \in MessageStates
    BY DEF MessageStates
  <2> QED BY <1>2, <1>5, <2>1, <2>2, TransitionType, ReturnType DEF AttemptFallback
<1>6. CASE AcknowledgeMessage(s)
  <2> DEFINE record == [View(s, m) EXCEPT !.acknowledged_at = s]
  <2>1. m \in Messages /\ "acknowledge_message" \in Ops
    BY <1>1, <1>6 DEF AcknowledgeMessage, At, Ops
  <2>2. "ACKNOWLEDGED" \in MessageStates
    BY DEF MessageStates
  <2>3. record \in Row
    BY <1>2, <2>1 DEF Row
  <2> QED BY <1>6, <2>1, <2>2, <2>3, TransitionType, UpdateType
          DEF AcknowledgeMessage
<1>7. CASE Refetch(s)
  <2>1. View(s, m) \in Row
    BY <1>1, <1>2, <1>7 DEF Refetch
  <2> DEFINE new == [ses[s] EXCEPT !.pc = "flush", !.loaded = View(s, m)]
  <2>0. new \in Session
    BY <2>1 DEF TypeInv, TypeOK, ProcessorTypeOK, Session, Points
  <2>2. ses' \in [Sessions -> Session]
    <3>1. ses \in [Sessions -> Session]
      BY DEF TypeInv, TypeOK, ProcessorTypeOK
    <3>2. ses' = [ses EXCEPT ![s] = new]
      BY <1>7, <3>1 DEF Refetch
    <3> HIDE DEF new
    <3> QED BY <2>0, <3>1, <3>2
  <2>3. HandlersHaveMessage'
    BY <1>7 DEF Refetch, TypeInv, TypeOK, ProcessorTypeOK, Session,
                HandlersHaveMessage, Handling
  <2> QED BY <2>2, <2>3 DEF SessionsOK
<1> QED BY <1>3, <1>4, <1>5, <1>6, <1>7

LEMMA FlushType ==
    ASSUME TypeInv, NEW s \in Sessions, Flush(s)
    PROVE  StoreTypeOK' /\ SessionsOK'
<1> DEFINE m == ses[s].msg
           op == ses[s].op
           rec == ses[s].rec
           version == Written(rec, ses[s].loaded, View(s, m))
<1>1. ses[s].pc = "flush" /\ m \in Messages /\ op \in Ops
  BY DEF Flush, TypeInv, HandlersHaveMessage, Handling
<1>2. rec \in Row /\ ses[s].loaded \in Row /\ ses[s].batch \in [Messages -> Row]
  BY DEF TypeInv, TypeOK, ProcessorTypeOK, Session
<1>3. version \in Row
  BY <1>1, <1>2, ViewType, WrittenType
<1>4. {FactOf(op, rec)} \in SUBSET EventTypes
  BY DEF FactOf, EventTypes
<1>5. StoreTypeOK'
  BY <1>1, <1>3, <1>4, WriteRowType DEF Flush, TypeInv, TypeOK
<1>6. CASE op = "process_new_message"
  <2>1. Begin(s, "attempt_delivery", m)
    BY <1>6 DEF Flush
  <2> QED BY <1>1, <1>5, <2>1, BeginType DEF Ops
<1>7. CASE op \in {"attempt_delivery", "attempt_fallback"}
  <2>1. Go(s, "send", op, m, rec, ses[s].batch)
    BY <1>7 DEF Flush
  <2>2. "send" \in Points
    BY DEF Points
  <2> QED BY <1>1, <1>2, <1>5, <2>1, <2>2, GoType
<1>8. CASE op \notin {"process_new_message", "attempt_delivery", "attempt_fallback"}
  <2>1. Return(s, m)
    BY <1>8 DEF Flush
  <2> QED BY <1>5, <2>1, ReturnType
<1> QED BY <1>6, <1>7, <1>8

LEMMA ThenType ==
    ASSUME NEW record \in Row, NEW facts \in SUBSET EventTypes,
           NEW next \in MessageStates, NEW fact \in EventTypes
    PROVE  /\ Then(Outcome(record, facts), next, fact).rec \in Row
           /\ Then(Outcome(record, facts), next, fact).facts \in SUBSET EventTypes
           /\ Then(Outcome(record, facts), next, fact)
                = Outcome(Then(Outcome(record, facts), next, fact).rec,
                          Then(Outcome(record, facts), next, fact).facts)
BY DEF Then, Outcome, Row

LEMMA PrimaryOutcomeType ==
    ASSUME NEW record \in Row, NEW hasFallback \in BOOLEAN, NEW success \in BOOLEAN
    PROVE  /\ PrimaryOutcome(record, hasFallback, success).rec \in Row
           /\ PrimaryOutcome(record, hasFallback, success).facts \in SUBSET EventTypes
<1> DEFINE sent == Outcome(record, {"send_attempt"})
           late == Then(sent, "SENT_TO_CHANNEL", "send_failed")
<1>1. /\ {"SENT_TO_CHANNEL", "ESCALATION_PENDING", "FAILED"} \subseteq MessageStates
      /\ {"send_attempt", "send_success", "send_failed", "escalation_triggered"}
           \subseteq EventTypes
  BY DEF MessageStates, EventTypes
<1>2. /\ late.rec \in Row
      /\ late.facts \in SUBSET EventTypes
      /\ late = Outcome(late.rec, late.facts)
  BY <1>1, ThenType
<1>3. /\ Then(late, "ESCALATION_PENDING", "escalation_triggered").rec \in Row
      /\ Then(late, "ESCALATION_PENDING", "escalation_triggered").facts
           \in SUBSET EventTypes
  <2> HIDE DEF late
  <2> QED BY <1>1, <1>2, ThenType
<1>4. /\ Then(sent, "SENT_TO_CHANNEL", "send_success").rec \in Row
      /\ Then(sent, "SENT_TO_CHANNEL", "send_success").facts \in SUBSET EventTypes
      /\ Then(sent, "FAILED", "send_failed").rec \in Row
      /\ Then(sent, "FAILED", "send_failed").facts \in SUBSET EventTypes
  BY <1>1, ThenType
<1> QED BY <1>3, <1>4 DEF PrimaryOutcome

LEMMA FallbackOutcomeType ==
    ASSUME NEW record \in Row, NEW success \in BOOLEAN
    PROVE  /\ FallbackOutcome(record, success).rec \in Row
           /\ FallbackOutcome(record, success).facts \in SUBSET EventTypes
<1> DEFINE tries == record.retry_count + 1
           failed == [record EXCEPT !.retry_count = tries]
           deferred == [failed EXCEPT !.next_retry_at = tries]
           facts == {"fallback_attempt"}
<1>1. /\ {"FALLBACK_DELIVERED", "ESCALATION_DEFERRED", "DEAD_LETTER"} \subseteq MessageStates
      /\ {"fallback_attempt", "fallback_success", "escalation_deferred", "dead_letter"}
           \subseteq EventTypes
  BY DEF MessageStates, EventTypes
<1>2. failed \in Row /\ deferred \in Row
  <2>1. tries \in Nat
    BY DEF Row
  <2>2. \A n \in Nat : /\ [record EXCEPT !.retry_count = n] \in Row
                       /\ [[record EXCEPT !.retry_count = n]
                              EXCEPT !.next_retry_at = n] \in Row
    BY DEF Row
  <2> QED BY <2>1, <2>2
<1>3. /\ Then(Outcome(record, facts), "FALLBACK_DELIVERED", "fallback_success").rec \in Row
      /\ Then(Outcome(record, facts), "FALLBACK_DELIVERED", "fallback_success").facts
           \in SUBSET EventTypes
  BY <1>1, ThenType
<1>4. /\ Then(Outcome(failed, facts), "DEAD_LETTER", "dead_letter").rec \in Row
      /\ Then(Outcome(failed, facts), "DEAD_LETTER", "dead_letter").facts
           \in SUBSET EventTypes
      /\ Then(Outcome(deferred, facts), "ESCALATION_DEFERRED", "escalation_deferred").rec
           \in Row
      /\ Then(Outcome(deferred, facts), "ESCALATION_DEFERRED", "escalation_deferred").facts
           \in SUBSET EventTypes
  <2> HIDE DEF failed, deferred
  <2> QED BY <1>1, <1>2, ThenType
<1> QED BY <1>3, <1>4 DEF FallbackOutcome

LEMMA SaveType ==
    ASSUME TypeInv, NEW s \in Sessions, ses[s].pc = "send",
           NEW o, o.rec \in Row, o.facts \in SUBSET EventTypes, Save(s, o)
    PROVE  StoreTypeOK' /\ SessionsOK'
<1> DEFINE m == ses[s].msg
           version == IF o.rec.current_state = ses[s].rec.current_state
                      THEN dirty[m] ELSE o.rec
<1>1. m \in Messages
  BY DEF TypeInv, HandlersHaveMessage, Handling
<1>2. version \in Row
  BY <1>1 DEF TypeInv, TypeOK, StoreTypeOK
<1>3. WriteRow(s, m, version, o.facts) /\ Return(s, m)
  BY DEF Save
<1>4. StoreTypeOK
  BY DEF TypeInv, TypeOK
<1> HIDE DEF version, m
<1> QED BY <1>1, <1>2, <1>3, <1>4, WriteRowType, ReturnType

CountersOK ==
    /\ attempts \in [Messages -> [Legs -> Nat]]
    /\ accepted \in SUBSET (Messages \X Legs)

LEMMA CallChannelType ==
    ASSUME CountersOK, NEW m \in Messages, NEW leg \in Legs, NEW success,
           CallChannel(m, leg, success)
    PROVE  CountersOK'
BY DEF CallChannel, CountersOK

LEMMA SendType ==
    ASSUME TypeInv, NEW s \in Sessions, NEW channel,
           SendPrimary(s) \/ SendFallback(s, channel)
    PROVE  StoreTypeOK' /\ SessionsOK' /\ CountersOK'
<1> DEFINE m == ses[s].msg
           rec == ses[s].rec
<1>1. ses[s].pc = "send" /\ m \in Messages /\ rec \in Row
  BY DEF SendPrimary, SendFallback, At, TypeInv, TypeOK, HandlersHaveMessage,
         Handling, ProcessorTypeOK, Session
<1>2. CountersOK
  BY DEF TypeInv, TypeOK, ProcessorTypeOK, CountersOK
<1>3. "primary" \in Legs /\ "fallback" \in Legs /\ "unavailable" \in Legs
  BY DEF Legs
<1>4. /\ "FAILED" \in MessageStates /\ "DEAD_LETTER" \in MessageStates
      /\ "send_failed" \in EventTypes /\ "dead_letter" \in EventTypes
  BY DEF MessageStates, EventTypes
<1>5. ASSUME NEW o, o.rec \in Row, o.facts \in SUBSET EventTypes, Save(s, o)
      PROVE  StoreTypeOK' /\ SessionsOK'
  BY <1>1, <1>5, SaveType
<1>6. ASSUME UNCHANGED <<attempts, accepted>>
      PROVE  CountersOK'
  BY <1>2, <1>6 DEF CountersOK
<1>7. CASE SendPrimary(s)
  <2>1. CASE Save(s, Then(Outcome(rec, {}), "FAILED", "send_failed"))
             /\ UNCHANGED <<attempts, accepted>>
    BY <1>1, <1>4, <1>5, <1>6, <2>1, ThenType
  <2>2. ASSUME NEW success \in BOOLEAN, CallChannel(m, "primary", success),
               Save(s, PrimaryOutcome(rec, policy[m].fallback # None, success))
        PROVE  StoreTypeOK' /\ SessionsOK' /\ CountersOK'
    BY <1>1, <1>2, <1>3, <1>5, <2>2, PrimaryOutcomeType, CallChannelType
  <2> QED BY <1>7, <2>1, <2>2 DEF SendPrimary
<1>8. CASE SendFallback(s, channel)
  <2>1. CASE /\ Save(s, Then(Outcome(rec, {}), "DEAD_LETTER", "dead_letter"))
             /\ attempts' = [attempts EXCEPT ![m]["unavailable"] = 1]
             /\ UNCHANGED accepted
    <3>1. CountersOK'
      BY <1>1, <1>2, <1>3, <2>1 DEF CountersOK
    <3> QED BY <1>1, <1>4, <1>5, <2>1, <3>1, ThenType
  <2>2. ASSUME NEW success \in BOOLEAN, CallChannel(m, "fallback", success),
               Save(s, FallbackOutcome(rec, success))
        PROVE  StoreTypeOK' /\ SessionsOK' /\ CountersOK'
    BY <1>1, <1>2, <1>3, <1>5, <2>2, FallbackOutcomeType, CallChannelType
  <2>3. \/ <2>1!1
        \/ \E success \in BOOLEAN : /\ CallChannel(m, "fallback", success)
                                   /\ Save(s, FallbackOutcome(rec, success))
    BY <1>8 DEF SendFallback
  <2> QED BY <2>1, <2>2, <2>3
<1> QED BY <1>7, <1>8

\* The requests arrive: they change ses only.
LEMMA ArriveType ==
    ASSUME TypeInv, Arrive
    PROVE  SessionsOK' /\ UNCHANGED <<storeVars, attempts, accepted, elapsed, failures>>
<1>1. Creators \subseteq Sessions /\ Ackers \subseteq Sessions
      /\ Escalators \subseteq Sessions /\ Retriers \subseteq Sessions
  BY SessionsAssumption DEF Requests
<1>2. {"insert", "done"} \subseteq Points \ Handling
  BY DEF Points, Handling
<1>3. {"process_new_message", "acknowledge_message", "attempt_fallback"} \subseteq Ops
  BY DEF Ops
<1>4. Stored \subseteq Messages
  BY DEF Stored
<1>5. \A m \in Messages : row[m] \in Row
  BY DEF TypeInv, TypeOK, StoreTypeOK
<1>6. ASSUME NEW c \in Creators, Create(c)
      PROVE  SessionsOK'
  BY <1>1, <1>2, <1>3, <1>4, <1>6, GotoType, BeginType DEF Create
<1>7. ASSUME NEW a \in Ackers, Acknowledge(a)
      PROVE  SessionsOK'
  BY <1>1, <1>3, <1>4, <1>7, BeginType DEF Acknowledge
<1>8. ASSUME NEW e \in Escalators, ManualEscalate(e)
      PROVE  SessionsOK'
  BY <1>1, <1>2, <1>4, <1>5, <1>8, GotoType, EscalateType DEF ManualEscalate
<1>9. ASSUME NEW r \in Retriers, RetryFallback(r)
      PROVE  SessionsOK'
  BY <1>1, <1>2, <1>3, <1>4, <1>9, GotoType, BeginType DEF RetryFallback
<1>10. UNCHANGED <<storeVars, attempts, accepted, elapsed, failures>>
  BY DEF Arrive, Create, Acknowledge, ManualEscalate, RetryFallback
<1> QED BY <1>6, <1>7, <1>8, <1>9, <1>10 DEF Arrive

LEMMA InsertType ==
    ASSUME TypeInv, NEW c \in Creators, Insert(c)
    PROVE  StoreTypeOK' /\ SessionsOK'
<1>1. c \in Sessions /\ KeyOf[c] \in Keys \cup {None} /\ StoreTypeOK
  BY SessionsAssumption, DataAssumption DEF Requests, TypeInv, TypeOK
<1>2. CASE Goto(c, "done") /\ UNCHANGED storeVars
  BY <1>1, <1>2, GotoType, StoreUnchanged DEF Points, Handling
<1>3. ASSUME NEW m \in Messages, NEW pol \in Policies, InsertRow(m, KeyOf[c], pol),
             Begin(c, "process_new_message", m)
      PROVE  StoreTypeOK' /\ SessionsOK'
  <2>1. [Blank EXCEPT !.current_state = "PENDING"] \in Row
    BY BlankType DEF Row, MessageStates
  <2>2. StoreTypeOK'
    BY <1>1, <1>3, <2>1 DEF InsertRow, StoreTypeOK
  <2>3. SessionsOK'
    BY <1>1, <1>3, BeginType DEF Ops
  <2> QED BY <2>2, <2>3
<1> QED BY <1>2, <1>3 DEF Insert

\* The loops: they change ses only.
LEMMA PassType ==
    ASSUME TypeInv, Pass
    PROVE  SessionsOK' /\ UNCHANGED <<storeVars, attempts, accepted, elapsed, failures>>
<1>0. SUFFICES SessionsOK'
  BY DEF Pass, Scan, DeadlineScan, DeadlineItem, FallbackScan, FallbackItem,
         RetryScan, RetryItem
<1>1. DeadlineLoop \in Sessions /\ FallbackLoop \in Sessions /\ RetryLoop \in Sessions
  BY SessionsAssumption DEF Loops
<1>2. \A m \in Messages : row[m] \in Row
  BY DEF TypeInv, TypeOK, StoreTypeOK
<1>3. ASSUME NEW s \in Sessions, NEW due, Scan(s, due)
      PROVE  SessionsOK'
  <2>1. [m \in Messages |-> IF m \in due THEN row[m] ELSE Blank] \in [Messages -> Row]
    BY <1>2, BlankType
  <2>2. "next" \in Points /\ "next" \notin Handling
    BY DEF Points, Handling
  <2> QED BY <1>3, <2>1, <2>2, GoType, BlankType DEF Scan
<1>4. \A s \in Sessions : \A m \in Listed(s) : m \in Messages /\ ses[s].batch[m] \in Row
  BY DEF Listed, TypeInv, TypeOK, ProcessorTypeOK, Session
<1>5. {"attempt_fallback", "attempt_delivery"} \subseteq Ops
  BY DEF Ops
<1>6. CASE DeadlineScan \/ FallbackScan \/ RetryScan
  <2>1. ASSUME NEW s \in Sessions, \E due \in SUBSET Messages : Scan(s, due)
        PROVE  SessionsOK'
    BY <1>3, <2>1
  <2>2. CASE DeadlineScan
    <3>1. Overdue \in SUBSET Messages
      BY DEF Overdue
    <3> QED BY <1>1, <2>1, <2>2, <3>1 DEF DeadlineScan
  <2>3. CASE FallbackScan
    BY <1>1, <2>1, <2>3 DEF FallbackScan
  <2>4. CASE RetryScan
    BY <1>1, <2>1, <2>4 DEF RetryScan
  <2> QED BY <1>6, <2>2, <2>3, <2>4
<1>7. CASE DeadlineItem
  BY <1>1, <1>4, <1>7, EscalateType DEF DeadlineItem
<1>8. CASE FallbackItem
  BY <1>1, <1>4, <1>5, <1>8, BeginType DEF FallbackItem
<1>9. CASE RetryItem
  <2>1. PICK m \in Listed(RetryLoop) :
            \/ Begin(RetryLoop, "attempt_delivery", m)
            \/ Escalate(RetryLoop, m, ses[RetryLoop].batch[m])
    BY <1>9 DEF RetryItem
  <2>2. m \in Messages /\ ses[RetryLoop].batch[m] \in Row
    BY <1>1, <1>4
  <2>3. CASE Begin(RetryLoop, "attempt_delivery", m)
    BY <1>1, <1>5, <2>2, <2>3, BeginType
  <2>4. CASE Escalate(RetryLoop, m, ses[RetryLoop].batch[m])
    BY <1>1, <2>2, <2>4, EscalateType
  <2> QED BY <2>1, <2>3, <2>4
<1> QED BY <1>6, <1>7, <1>8, <1>9 DEF Pass

LEMMA AbortType ==
    ASSUME TypeInv, NEW S, Abort(S)
    PROVE  StoreTypeOK' /\ SessionsOK'
<1>1. StoreTypeOK'
  BY RollbackTransactionsType DEF Abort, TypeInv, TypeOK
<1>2. Fresh("idle") \in Session /\ Fresh("done") \in Session
  BY FreshType DEF Points
<1>3. ses' \in [Sessions -> Session]
  BY <1>2 DEF Abort, TypeInv, TypeOK, ProcessorTypeOK
<1>4. HandlersHaveMessage'
  BY DEF Abort, Fresh, Handling, HandlersHaveMessage, TypeInv
<1> QED BY <1>1, <1>3, <1>4 DEF SessionsOK

LEMMA TypeInit == Init => TypeInv
<1> SUFFICES ASSUME Init PROVE TypeInv
  OBVIOUS
<1>1. StoreTypeOK
  BY BlankType DEF Init, StoreInit, StoreTypeOK
<1>2. ProcessorTypeOK
  BY FreshType DEF Init, ProcessorInit, ProcessorTypeOK, Points
<1>3. HandlersHaveMessage
  BY DEF Init, ProcessorInit, HandlersHaveMessage, Handling, Fresh
<1> QED BY <1>1, <1>2, <1>3 DEF TypeInv, TypeOK, Init

LEMMA TypeStep == TypeInv /\ [Next]_vars => TypeInv'
<1> SUFFICES ASSUME TypeInv, [Next]_vars PROVE TypeInv'
  OBVIOUS
<1>1. /\ StoreTypeOK /\ SessionsOK /\ CountersOK
      /\ elapsed \in SUBSET (Messages \X Nat) /\ failures \in Nat
  BY DEF TypeInv, TypeOK, ProcessorTypeOK, SessionsOK, CountersOK
<1>2. SUFFICES /\ StoreTypeOK' /\ SessionsOK' /\ CountersOK'
               /\ elapsed' \in SUBSET (Messages \X Nat) /\ failures' \in Nat
  BY DEF TypeInv, TypeOK, ProcessorTypeOK, SessionsOK, CountersOK
<1>3. ASSUME UNCHANGED <<attempts, accepted>>
      PROVE  CountersOK'
  BY <1>1, <1>3 DEF CountersOK
<1>4. CASE Arrive \/ Pass
  BY <1>1, <1>3, <1>4, ArriveType, PassType, StoreUnchanged
<1>5. ASSUME NEW c \in Creators, Insert(c)
      PROVE  <1>2!1
  BY <1>1, <1>3, <1>5, InsertType DEF Insert
<1>6. ASSUME NEW s \in Sessions, Handle(s)
      PROVE  <1>2!1
  <2>1. UNCHANGED <<elapsed, failures>>
    BY <1>6 DEF Handle
  <2>2. CASE ProcessNewMessage(s) \/ AttemptDelivery(s) \/ AttemptFallback(s)
             \/ AcknowledgeMessage(s) \/ Refetch(s)
    <3>1. UNCHANGED <<storeVars, attempts, accepted>>
      BY <2>2 DEF ProcessNewMessage, AttemptDelivery, AttemptFallback,
                  AcknowledgeMessage, Refetch
    <3> QED BY <1>1, <1>3, <2>1, <2>2, <3>1, ReadType, StoreUnchanged
  <2>3. CASE Flush(s)
    BY <1>1, <1>3, <2>1, <2>3, FlushType DEF Flush
  <2>4. CASE SendPrimary(s) \/ \E channel \in Channels : SendFallback(s, channel)
    BY <1>1, <2>1, <2>4, SendType
  <2> QED BY <1>6, <2>2, <2>3, <2>4 DEF Handle
<1>7. ASSUME NEW s \in Sessions, Commit(s)
      PROVE  <1>2!1
  <2>1. Goto(s, "idle") \/ Goto(s, "done")
    BY <1>7 DEF Commit
  <2>2. SessionsOK'
    BY <2>1, GotoType DEF Points, Handling
  <2>3. StoreTypeOK'
    BY <1>1, <1>7, CommitTransactionType DEF Commit
  <2> QED BY <1>1, <1>3, <1>7, <2>2, <2>3 DEF Commit
<1>8. ASSUME NEW m \in Messages, Elapse(m)
      PROVE  <1>2!1
  <2>1. elapsed' \in SUBSET (Messages \X Nat)
    BY <1>1, <1>8 DEF Elapse, RunOut, StoreTypeOK, Row
  <2>2. UNCHANGED <<storeVars, processorVars, failures>>
    BY <1>8 DEF Elapse
  <2>3. SessionsOK'
    BY <1>1, <2>2 DEF SessionsOK, HandlersHaveMessage, processorVars
  <2> QED BY <1>1, <1>3, <2>1, <2>2, <2>3, StoreUnchanged DEF processorVars
<1>9. ASSUME NEW S \in SUBSET Sessions, Abort(S), failures' \in Nat
      PROVE  <1>2!1
  BY <1>1, <1>3, <1>9, AbortType DEF Abort
<1>10. CASE \/ \E s \in Sessions : SessionError(s) \/ DeadlockVictim(s)
            \/ Crash
  <2>1. failures' \in Nat
    <3>1. failures' = failures \/ failures' = failures + 1
      BY <1>10 DEF SessionError, DeadlockVictim, Crash
    <3> QED BY <1>1, <3>1
  <2>2. \E S \in SUBSET Sessions : Abort(S)
    <3>1. ASSUME NEW s \in Sessions, Abort({s})
          PROVE  \E S \in SUBSET Sessions : Abort(S)
      <4>1. {s} \in SUBSET Sessions
        OBVIOUS
      <4> QED BY <3>1, <4>1
    <3>2. Sessions \in SUBSET Sessions
      OBVIOUS
    <3> QED BY <1>10, <3>1, <3>2 DEF SessionError, DeadlockVictim, Crash
  <2> QED BY <1>9, <2>1, <2>2
<1>11. CASE UNCHANGED vars
  <2>1. UNCHANGED <<storeVars, ses, attempts, accepted, elapsed, failures>>
    BY <1>11 DEF vars, processorVars
  <2>2. SessionsOK'
    BY <1>1, <2>1 DEF SessionsOK, HandlersHaveMessage
  <2> QED BY <1>1, <1>3, <2>1, <2>2, StoreUnchanged
<1> QED BY <1>4, <1>5, <1>6, <1>7, <1>8, <1>10, <1>11 DEF Next, IdlePass

\* Every variable keeps its type, and a session inside a handler always has a
\* message to handle, whatever the interleaving of requests, loops and failures.
THEOREM TypeCorrect == Spec => []TypeInv
BY TypeInit, TypeStep, PTL DEF Spec

\* The part of it the runs check: the types of the variables.
THEOREM TypesHold == Spec => []TypeOK
<1>1. TypeInv => TypeOK
  BY DEF TypeInv
<1> QED BY <1>1, TypeCorrect, PTL

-----------------------------------------------------------------------------
(* No passing state is ever committed                                       *)

\* What the proof needs of the transition table
LEMMA Transitions ==
    /\ \A st : CanTransition(st, "SENDING") <=> st = "QUEUED"
    /\ \A st : CanTransition(st, "FALLBACK_SENDING") <=> st = "ESCALATION_PENDING"
    /\ CanTransition("SENDING", "SENT_TO_CHANNEL")
    /\ CanTransition("SENDING", "FAILED")
    /\ CanTransition("SENT_TO_CHANNEL", "ESCALATION_PENDING")
    /\ CanTransition("FALLBACK_SENDING", "FALLBACK_DELIVERED")
    /\ CanTransition("FALLBACK_SENDING", "ESCALATION_DEFERRED")
    /\ CanTransition("FALLBACK_SENDING", "DEAD_LETTER")
BY DEF CanTransition, ValidTransitions

LEMMA BlankSettled ==
    Settled(Blank) /\ \A m \in Messages : Settled(NoBatch[m])
BY DEF Settled, Blank, NoBatch, Transient

\* A handler that is not in attempt_delivery, nor at its send, has saved
\* nothing unsettled, so it reads settled rows.
NothingUnsettled(s) == \A m \in Messages : lock[m] = s => Settled(dirty[m])

LEMMA SettledViews ==
    ASSUME DurableInv, NEW s \in Sessions, ses[s].pc # "send",
           ses[s].op # "attempt_delivery" \/ ses[s].pc \notin {"read", "refetch", "flush"}
    PROVE  /\ NothingUnsettled(s)
           /\ \A m \in Messages : Settled(View(s, m))
BY DEF DurableInv, UnsettledInHand, NothingUnsettled, View, RowsSettled

\* A step of a session to a read, a SELECT or the end of a handler, the store
\* left as it is
LEMMA GoDurable ==
    ASSUME TypeInv, DurableInv, UNCHANGED storeVars,
           NEW s \in Sessions, NEW pc \in {"read", "refetch", "next"},
           NEW op, NEW m, NEW rec, NEW batch,
           Go(s, pc, op, m, rec, batch),
           \A n \in Messages : Settled(batch[n]),
           pc = "refetch" => IF op \in Aiming THEN rec.current_state = Aim(op)
                                              ELSE Settled(rec),
           \A n \in Messages : lock[n] = s /\ ~Settled(dirty[n]) =>
               /\ m = n /\ pc \in {"read", "refetch"}
               /\ op = "attempt_delivery"
               /\ dirty[n].current_state = "QUEUED"
    PROVE  DurableInv'
<1>1. /\ ses'[s].pc = pc /\ ses'[s].op = op /\ ses'[s].msg = m
      /\ ses'[s].rec = rec /\ ses'[s].batch = batch
      /\ \A t \in Sessions \ {s} : ses'[t] = ses[t]
  BY DEF Go, TypeInv, TypeOK, ProcessorTypeOK
<1>2. row' = row /\ lock' = lock /\ dirty' = dirty
  BY DEF storeVars
<1>3. RowsSettled'
  BY <1>2 DEF DurableInv, RowsSettled, Settled
<1>4. BatchesSettled'
  BY <1>1 DEF DurableInv, BatchesSettled, Settled
<1>5. RecordsAim'
  BY <1>1 DEF DurableInv, RecordsAim, Settled, Aim
<1>6. LoadedSettled'
  BY <1>1 DEF DurableInv, LoadedSettled, Settled
<1>7. SendersHold'
  BY <1>1, <1>2 DEF DurableInv, SendersHold, Aim
<1>8. RestingHoldNothing'
  BY <1>1, <1>2 DEF DurableInv, RestingHoldNothing
<1>9. UnsettledInHand'
  BY <1>1, <1>2 DEF DurableInv, UnsettledInHand, Settled
<1> QED BY <1>3, <1>4, <1>5, <1>6, <1>7, <1>8, <1>9 DEF DurableInv

LEMMA BatchSettled ==
    ASSUME TypeInv, DurableInv, NEW s \in Sessions, NEW m
    PROVE  /\ \A n \in Messages : Settled(ses[s].batch[n])
           /\ \A n \in Messages : Settled([ses[s].batch EXCEPT ![m] = Blank][n])
BY BlankSettled, BatchType DEF DurableInv, BatchesSettled

LEMMA BeginDurable ==
    ASSUME TypeInv, DurableInv, UNCHANGED storeVars, NEW s \in Sessions,
           NEW op, NEW m, NothingUnsettled(s), Begin(s, op, m)
    PROVE  DurableInv'
BY BatchSettled, GoDurable DEF Begin, NothingUnsettled

LEMMA ReturnDurable ==
    ASSUME TypeInv, DurableInv, UNCHANGED storeVars, NEW s \in Sessions,
           NEW m, NothingUnsettled(s), Return(s, m)
    PROVE  DurableInv'
BY BatchSettled, GoDurable DEF Return, NothingUnsettled

LEMMA UpdateDurable ==
    ASSUME TypeInv, DurableInv, UNCHANGED storeVars, NEW s \in Sessions,
           NEW op, NEW m, NEW record, NothingUnsettled(s),
           Update(s, op, m, record),
           IF op \in Aiming THEN record.current_state = Aim(op) ELSE Settled(record)
    PROVE  DurableInv'
BY BatchSettled, GoDurable DEF Update, NothingUnsettled

LEMMA TransitionDurable ==
    ASSUME TypeInv, DurableInv, UNCHANGED storeVars, NEW s \in Sessions,
           NEW op, NEW m, NEW record \in Row, NEW next, NothingUnsettled(s),
           Transition(s, op, m, record, next),
           IF op \in Aiming THEN next = Aim(op) ELSE next \notin Transient
    PROVE  DurableInv'
<1>1. [record EXCEPT !.current_state = next].current_state = next
  BY DEF Row
<1>2. CASE Update(s, op, m, [record EXCEPT !.current_state = next])
  BY <1>1, <1>2, UpdateDurable DEF Settled
<1>3. CASE Return(s, m)
  BY <1>3, ReturnDurable
<1> QED BY <1>2, <1>3 DEF Transition

LEMMA EscalateDurable ==
    ASSUME TypeInv, DurableInv, UNCHANGED storeVars, NEW s \in Sessions,
           NEW m, NEW record \in Row, NothingUnsettled(s), Escalate(s, m, record)
    PROVE  DurableInv'
<1>1. "escalate_message" \notin Aiming
  BY DEF Aiming
<1>2. "ESCALATION_PENDING" \notin Transient /\ "DEAD_LETTER" \notin Transient
  BY DEF Transient
<1> QED BY <1>1, <1>2, TransitionDurable DEF Escalate

LEMMA ReadDurable ==
    ASSUME TypeInv, DurableInv, NEW s \in Sessions,
           \/ ProcessNewMessage(s) \/ AttemptDelivery(s)
           \/ AttemptFallback(s) \/ AcknowledgeMessage(s)
    PROVE  DurableInv'
<1> DEFINE m == ses[s].msg
<1>1. ses[s].pc = "read" /\ m \in Messages /\ View(s, m) \in Row
  BY ViewType DEF ProcessNewMessage, AttemptDelivery, AttemptFallback,
                  AcknowledgeMessage, At, TypeInv, HandlersHaveMessage, Handling
<1>2. UNCHANGED storeVars
  BY DEF ProcessNewMessage, AttemptDelivery, AttemptFallback, AcknowledgeMessage
<1>3. ASSUME ses[s].op # "attempt_delivery"
      PROVE  NothingUnsettled(s) /\ Settled(View(s, m))
  BY <1>1, <1>3, SettledViews
<1>4. CASE ProcessNewMessage(s)
  <2>1. NothingUnsettled(s)
    BY <1>3, <1>4 DEF ProcessNewMessage, At
  <2>2. "process_new_message" \in Aiming /\ "QUEUED" = Aim("process_new_message")
    BY DEF Aiming, Aim
  <2>3. CASE Transition(s, "process_new_message", m, View(s, m), "QUEUED")
    BY <1>1, <1>2, <2>1, <2>2, <2>3, TransitionDurable
  <2>4. CASE Begin(s, "attempt_delivery", m)
    BY <1>2, <2>1, <2>4, BeginDurable
  <2> QED BY <1>4, <2>3, <2>4 DEF ProcessNewMessage
<1>5. CASE AttemptFallback(s)
  <2>1. NothingUnsettled(s)
    BY <1>3, <1>5 DEF AttemptFallback, At
  <2>2. "attempt_fallback" \in Aiming /\ "FALLBACK_SENDING" = Aim("attempt_fallback")
    BY DEF Aiming, Aim
  <2>3. CASE Transition(s, "attempt_fallback", m, View(s, m), "FALLBACK_SENDING")
    BY <1>1, <1>2, <2>1, <2>2, <2>3, TransitionDurable
  <2>4. CASE Return(s, m)
    BY <1>2, <2>1, <2>4, ReturnDurable
  <2> QED BY <1>5, <2>3, <2>4 DEF AttemptFallback
<1>6. CASE AcknowledgeMessage(s)
  <2> DEFINE record == [View(s, m) EXCEPT !.acknowledged_at = s]
  <2>1. NothingUnsettled(s) /\ Settled(View(s, m))
    BY <1>3, <1>6 DEF AcknowledgeMessage, At
  <2>2. "acknowledge_message" \notin Aiming /\ "ACKNOWLEDGED" \notin Transient
    BY DEF Aiming, Transient
  <2>3. record \in Row /\ Settled(record)
    BY <1>1, <2>1 DEF Row, Settled
  <2>4. CASE Transition(s, "acknowledge_message", m, record, "ACKNOWLEDGED")
    BY <1>2, <2>1, <2>2, <2>3, <2>4, TransitionDurable
  <2>5. CASE Update(s, "acknowledge_message", m, record)
    BY <1>2, <2>1, <2>2, <2>3, <2>5, UpdateDurable
  <2> QED BY <1>6, <2>4, <2>5 DEF AcknowledgeMessage
<1>7. CASE AttemptDelivery(s)
  <2> DEFINE record == View(s, m)
             sending == [record EXCEPT !.current_state = "SENDING"]
             batch == [ses[s].batch EXCEPT ![m] = Blank]
  <2>1. \A n \in Messages : lock[n] = s /\ ~Settled(dirty[n]) =>
           m = n /\ dirty[n].current_state = "QUEUED"
    BY <1>1 DEF DurableInv, UnsettledInHand
  <2>2. \A n \in Messages : Settled(batch[n])
    BY BatchSettled
  <2>3. sending.current_state = Aim("attempt_delivery") /\ "attempt_delivery" \in Aiming
    BY <1>1 DEF Row, Aim, Aiming
  <2>4. CASE record.current_state = "QUEUED"
    <3>1. Go(s, "refetch", "attempt_delivery", m, sending, batch)
      BY <1>7, <2>4, Transitions DEF AttemptDelivery, Transition, Update
    <3> HIDE DEF batch, sending, record
    <3> QED BY <1>2, <2>1, <2>2, <2>3, <3>1, GoDurable
  <2>5. CASE record.current_state # "QUEUED"
    <3>1. Return(s, m)
      BY <1>7, <2>5, Transitions DEF AttemptDelivery, Transition
    <3>2. NothingUnsettled(s)
      BY <1>1, <2>1, <2>5 DEF NothingUnsettled, View
    <3> QED BY <1>2, <3>1, <3>2, ReturnDurable
  <2> QED BY <2>4, <2>5
<1> QED BY <1>4, <1>5, <1>6, <1>7

LEMMA RefetchDurable ==
    ASSUME TypeInv, DurableInv, NEW s \in Sessions, Refetch(s)
    PROVE  DurableInv'
<1> DEFINE m == ses[s].msg
<1>1. ses[s].pc = "refetch" /\ m \in Messages
  BY DEF Refetch, TypeInv, HandlersHaveMessage, Handling
<1>2. /\ ses'[s].pc = "flush" /\ ses'[s].op = ses[s].op /\ ses'[s].msg = m
      /\ ses'[s].rec = ses[s].rec /\ ses'[s].batch = ses[s].batch
      /\ ses'[s].loaded = View(s, m)
      /\ \A t \in Sessions \ {s} : ses'[t] = ses[t]
  BY DEF Refetch, TypeInv, TypeOK, ProcessorTypeOK, Session
<1>3. row' = row /\ lock' = lock /\ dirty' = dirty
  BY DEF Refetch, storeVars
<1>4. RowsSettled'
  BY <1>3 DEF DurableInv, RowsSettled, Settled
<1>5. BatchesSettled'
  BY <1>2 DEF DurableInv, BatchesSettled, Settled
<1>6. RecordsAim'
  BY <1>1, <1>2 DEF DurableInv, RecordsAim, Settled, Aim
<1>7. LoadedSettled'
  <2>1. \/ Settled(View(s, m))
        \/ ses[s].op = "attempt_delivery" /\ View(s, m).current_state = "QUEUED"
    BY <1>1 DEF DurableInv, UnsettledInHand, RowsSettled, View
  <2> QED BY <1>2, <2>1 DEF DurableInv, LoadedSettled, Settled
<1>8. SendersHold'
  BY <1>2, <1>3 DEF DurableInv, SendersHold, Aim
<1>9. RestingHoldNothing'
  BY <1>2, <1>3 DEF DurableInv, RestingHoldNothing
<1>10. UnsettledInHand'
  BY <1>1, <1>2, <1>3 DEF DurableInv, UnsettledInHand, Settled
<1> QED BY <1>4, <1>5, <1>6, <1>7, <1>8, <1>9, <1>10 DEF DurableInv

\* A step that writes version to the message of s and takes s to pc
LEMMA WriteDurable ==
    ASSUME TypeInv, DurableInv, NEW s \in Sessions, NEW m \in Messages,
           ses[s].pc \in {"flush", "send"}, ses[s].msg = m,
           NEW version \in Row, NEW facts, WriteRow(s, m, version, facts),
           NEW pc \in {"read", "send", "next"}, NEW op, NEW msg, NEW rec, NEW batch,
           Go(s, pc, op, msg, rec, batch),
           \A n \in Messages : Settled(batch[n]),
           pc = "send" =>
               /\ op \in {"attempt_delivery", "attempt_fallback"} /\ msg = m
               /\ rec.current_state = Aim(op) /\ version.current_state = Aim(op),
           pc = "read" =>
               /\ op = "attempt_delivery" /\ msg = m
               /\ version.current_state = "QUEUED",
           pc = "next" => Settled(version)
    PROVE  DurableInv'
<1>1. /\ ses'[s].pc = pc /\ ses'[s].op = op /\ ses'[s].msg = msg
      /\ ses'[s].rec = rec /\ ses'[s].batch = batch
      /\ \A t \in Sessions \ {s} : ses'[t] = ses[t]
  BY DEF Go, TypeInv, TypeOK, ProcessorTypeOK
<1>2. /\ lock[m] \in {None, s} /\ lock'[m] = s /\ dirty'[m] = version /\ row' = row
      /\ \A n \in Messages \ {m} : lock'[n] = lock[n] /\ dirty'[n] = dirty[n]
  BY DEF WriteRow, TypeInv, TypeOK, StoreTypeOK
<1>3. \A t \in Sessions \ {s} : \A n \in Messages :
         lock'[n] = t <=> lock[n] = t /\ n # m
  BY <1>2, NoneAssumption
<1>4. \A n \in Messages \ {m} : lock[n] = s => Settled(dirty[n])
  BY DEF DurableInv, UnsettledInHand
<1>5. RowsSettled'
  BY <1>2 DEF DurableInv, RowsSettled, Settled
<1>6. BatchesSettled'
  BY <1>1 DEF DurableInv, BatchesSettled, Settled
<1>7. RecordsAim'
  BY <1>1 DEF DurableInv, RecordsAim, Settled, Aim
<1>8. LoadedSettled'
  BY <1>1 DEF DurableInv, LoadedSettled, Settled
<1>9. SendersHold'
  <2>1. ASSUME NEW t \in Sessions, ses'[t].pc = "send", t # s
        PROVE  /\ ses[t].pc = "send" /\ ses[t].msg \in Messages \ {m}
               /\ lock[ses[t].msg] = t
    BY <1>1, <1>2, <2>1, NoneAssumption
       DEF DurableInv, SendersHold, TypeInv, HandlersHaveMessage, Handling
  <2> QED BY <1>1, <1>2, <2>1 DEF DurableInv, SendersHold, Aim
<1>10. RestingHoldNothing'
  BY <1>1, <1>3 DEF DurableInv, RestingHoldNothing
<1>11. UnsettledInHand'
  <2>1. ASSUME NEW t \in Sessions \ {s}, NEW n \in Messages, lock'[n] = t
        PROVE  lock[n] = t /\ dirty'[n] = dirty[n] /\ ses'[t] = ses[t]
    BY <1>1, <1>2, <1>3, <2>1
  <2>2. ASSUME NEW n \in Messages, lock'[n] = s, ~Settled(dirty[n])'
        PROVE  /\ n = m /\ msg = m
               /\ pc = "send" \/ (pc = "read" /\ op = "attempt_delivery"
                                  /\ dirty'[n].current_state = "QUEUED")
    BY <1>2, <1>4, <2>2 DEF Settled
  <2> QED BY <1>1, <2>1, <2>2 DEF DurableInv, UnsettledInHand, Settled
<1> QED BY <1>5, <1>6, <1>7, <1>8, <1>9, <1>10, <1>11 DEF DurableInv

LEMMA FlushDurable ==
    ASSUME TypeInv, DurableInv, NEW s \in Sessions, Flush(s)
    PROVE  DurableInv'
<1> DEFINE m == ses[s].msg
           op == ses[s].op
           rec == ses[s].rec
           loaded == ses[s].loaded
           version == Written(rec, loaded, View(s, m))
<1>1. ses[s].pc = "flush" /\ m \in Messages /\ op \in Ops
  BY DEF Flush, TypeInv, HandlersHaveMessage, Handling
<1>2. rec \in Row /\ loaded \in Row /\ View(s, m) \in Row /\ version \in Row
  BY <1>1, ViewType, WrittenType DEF TypeInv, TypeOK, ProcessorTypeOK, Session
<1>3. WriteRow(s, m, version, {FactOf(op, rec)})
  BY DEF Flush
<1>4. version.current_state = IF rec.current_state # loaded.current_state
                              THEN rec.current_state ELSE View(s, m).current_state
  BY DEF Written, Changed
<1>5. \A n \in Messages : /\ Settled(ses[s].batch[n])
                          /\ Settled([ses[s].batch EXCEPT ![m] = Blank][n])
  BY BatchSettled
<1>6. CASE op \in Aiming
  <2>1. rec.current_state = Aim(op) /\ Aim(op) \in Transient
    BY <1>1, <1>6 DEF DurableInv, RecordsAim, Aim, Aiming, Transient
  <2>2. loaded.current_state # Aim(op)
    BY <1>1, <1>6, <2>1 DEF DurableInv, LoadedSettled, Settled, Aim, Aiming
  <2>3. version.current_state = Aim(op)
    BY <1>4, <2>1, <2>2
  <2>4. CASE op = "process_new_message"
    <3>1. Go(s, "read", "attempt_delivery", m, Blank, ses[s].batch)
      BY <2>4 DEF Flush, Begin
    <3>2. version.current_state = "QUEUED"
      BY <2>3, <2>4 DEF Aim
    <3> DEFINE batch == ses[s].batch
    <3>3. \A n \in Messages : Settled(batch[n])
      BY <1>5
    <3>4. Go(s, "read", "attempt_delivery", m, Blank, batch)
      BY <3>1
    <3>5. ses[s].pc \in {"flush", "send"} /\ "read" \in {"read", "send", "next"}
      BY <1>1
    <3>6. "read" # "send" /\ "read" # "next"
      OBVIOUS
    <3> HIDE DEF version, batch, op, rec, loaded
    <3> QED BY <1>1, <1>2, <1>3, <3>2, <3>3, <3>4, <3>5, <3>6, WriteDurable
  <2>5. CASE op \in {"attempt_delivery", "attempt_fallback"}
    <3>1. Go(s, "send", op, m, rec, ses[s].batch)
      BY <2>5 DEF Flush
    <3> HIDE DEF version
    <3> QED BY <1>1, <1>2, <1>3, <1>5, <2>1, <2>3, <2>5, <3>1, WriteDurable
  <2> QED BY <1>6, <2>4, <2>5 DEF Aiming
<1>7. CASE op \notin Aiming
  <2>1. Settled(rec)
    BY <1>1, <1>7 DEF DurableInv, RecordsAim
  <2>2. Settled(View(s, m))
    BY <1>1, <1>7, SettledViews DEF Aiming
  <2>3. Settled(version)
    BY <1>4, <2>1, <2>2 DEF Settled
  <2>4. Go(s, "next", None, None, Blank, [ses[s].batch EXCEPT ![m] = Blank])
    BY <1>7 DEF Flush, Return, Aiming
  <2> DEFINE batch == [ses[s].batch EXCEPT ![m] = Blank]
  <2>5. \A n \in Messages : Settled(batch[n])
    BY <1>5
  <2>6. Go(s, "next", None, None, Blank, batch)
    BY <2>4
  <2>7. ses[s].pc \in {"flush", "send"} /\ "next" \in {"read", "send", "next"}
    BY <1>1
  <2> HIDE DEF version, batch
  <2> QED BY <1>1, <1>2, <1>3, <2>3, <2>5, <2>6, <2>7, WriteDurable
<1> QED BY <1>6, <1>7

LEMMA ThenSettled ==
    ASSUME NEW r \in Row, NEW facts, NEW next, NEW fact,
           CanTransition(r.current_state, next), next \notin Transient
    PROVE  Settled(Then(Outcome(r, facts), next, fact).rec)
<1>1. [r EXCEPT !.current_state = next].current_state = next
  BY DEF Row
<1> QED BY <1>1 DEF Then, Outcome, Settled

\* Every outcome of a send is settled.
LEMMA OutcomeSettled ==
    ASSUME NEW record \in Row, NEW hasFallback \in BOOLEAN, NEW success \in BOOLEAN
    PROVE  /\ record.current_state = "SENDING" =>
                 /\ Settled(PrimaryOutcome(record, hasFallback, success).rec)
                 /\ Settled(Then(Outcome(record, {}), "FAILED", "send_failed").rec)
           /\ record.current_state = "FALLBACK_SENDING" =>
                 /\ Settled(FallbackOutcome(record, success).rec)
                 /\ Settled(Then(Outcome(record, {}), "DEAD_LETTER", "dead_letter").rec)
<1>1. /\ "SENT_TO_CHANNEL" \notin Transient /\ "ESCALATION_PENDING" \notin Transient
      /\ "FAILED" \notin Transient /\ "FALLBACK_DELIVERED" \notin Transient
      /\ "ESCALATION_DEFERRED" \notin Transient /\ "DEAD_LETTER" \notin Transient
  BY DEF Transient
<1>2. ASSUME record.current_state = "SENDING"
      PROVE  /\ Settled(PrimaryOutcome(record, hasFallback, success).rec)
             /\ Settled(Then(Outcome(record, {}), "FAILED", "send_failed").rec)
  <2> DEFINE sent == Outcome(record, {"send_attempt"})
             late == Then(sent, "SENT_TO_CHANNEL", "send_failed")
  <2>1. /\ CanTransition(record.current_state, "SENT_TO_CHANNEL")
        /\ CanTransition(record.current_state, "FAILED")
    BY <1>2, Transitions
  <2>2. Settled(Then(sent, "SENT_TO_CHANNEL", "send_success").rec)
    BY <1>1, <2>1, ThenSettled
  <2>3. Settled(Then(sent, "FAILED", "send_failed").rec)
    BY <1>1, <2>1, ThenSettled
  <2>4. Settled(Then(Outcome(record, {}), "FAILED", "send_failed").rec)
    BY <1>1, <2>1, ThenSettled
  <2>5. late = Outcome(late.rec, late.facts) /\ late.rec \in Row
        /\ late.rec.current_state = "SENT_TO_CHANNEL"
    BY <1>2, Transitions DEF Then, Outcome, Row, MessageStates
  <2>6. Settled(Then(Outcome(late.rec, late.facts), "ESCALATION_PENDING",
                     "escalation_triggered").rec)
    <3>1. CanTransition(late.rec.current_state, "ESCALATION_PENDING")
      BY <2>5, Transitions
    <3> HIDE DEF late
    <3> QED BY <1>1, <2>5, <3>1, ThenSettled
  <2>7. Settled(Then(late, "ESCALATION_PENDING", "escalation_triggered").rec)
    <3> HIDE DEF late
    <3> QED BY <2>5, <2>6
  <2> QED BY <2>2, <2>3, <2>4, <2>7 DEF PrimaryOutcome
<1>3. ASSUME record.current_state = "FALLBACK_SENDING"
      PROVE  /\ Settled(FallbackOutcome(record, success).rec)
             /\ Settled(Then(Outcome(record, {}), "DEAD_LETTER", "dead_letter").rec)
  <2> DEFINE tries == record.retry_count + 1
             failed == [record EXCEPT !.retry_count = tries]
             deferred == [failed EXCEPT !.next_retry_at = tries]
             facts == {"fallback_attempt"}
  <2>1. /\ CanTransition(record.current_state, "FALLBACK_DELIVERED")
        /\ CanTransition(record.current_state, "DEAD_LETTER")
    BY <1>3, Transitions
  <2>2. Settled(Then(Outcome(record, facts), "FALLBACK_DELIVERED", "fallback_success").rec)
    BY <1>1, <2>1, ThenSettled
  <2>3. Settled(Then(Outcome(record, {}), "DEAD_LETTER", "dead_letter").rec)
    BY <1>1, <2>1, ThenSettled
  <2>4. /\ failed \in Row /\ deferred \in Row
        /\ failed.current_state = "FALLBACK_SENDING"
        /\ deferred.current_state = "FALLBACK_SENDING"
    <3>1. tries \in Nat
      BY DEF Row
    <3>2. \A n \in Nat :
             /\ [record EXCEPT !.retry_count = n] \in Row
             /\ [[record EXCEPT !.retry_count = n] EXCEPT !.next_retry_at = n] \in Row
             /\ [record EXCEPT !.retry_count = n].current_state = "FALLBACK_SENDING"
             /\ [[record EXCEPT !.retry_count = n]
                    EXCEPT !.next_retry_at = n].current_state = "FALLBACK_SENDING"
      BY <1>3 DEF Row
    <3> QED BY <3>1, <3>2
  <2>5. /\ CanTransition(failed.current_state, "DEAD_LETTER")
        /\ CanTransition(deferred.current_state, "ESCALATION_DEFERRED")
    <3> HIDE DEF failed, deferred
    <3> QED BY <2>4, Transitions
  <2>6. Settled(Then(Outcome(failed, facts), "DEAD_LETTER", "dead_letter").rec)
    <3> HIDE DEF failed
    <3> QED BY <1>1, <2>4, <2>5, ThenSettled
  <2>7. Settled(Then(Outcome(deferred, facts), "ESCALATION_DEFERRED",
                     "escalation_deferred").rec)
    <3> HIDE DEF deferred
    <3> QED BY <1>1, <2>4, <2>5, ThenSettled
  <2> QED BY <2>2, <2>3, <2>6, <2>7 DEF FallbackOutcome
<1> QED BY <1>2, <1>3

LEMMA SaveDurable ==
    ASSUME TypeInv, DurableInv, NEW s \in Sessions, ses[s].pc = "send",
           NEW o, o.rec \in Row, Settled(o.rec), Save(s, o)
    PROVE  DurableInv'
<1> DEFINE m == ses[s].msg
<1>1. m \in Messages
  BY DEF TypeInv, HandlersHaveMessage, Handling
<1>2. ~Settled(ses[s].rec)
  BY DEF DurableInv, SendersHold, Settled, Aim, Transient
<1>3. WriteRow(s, m, o.rec, o.facts)
  BY <1>2 DEF Save, Settled
<1>4. Go(s, "next", None, None, Blank, [ses[s].batch EXCEPT ![m] = Blank])
  BY DEF Save, Return
<1>5. \A n \in Messages : Settled([ses[s].batch EXCEPT ![m] = Blank][n])
  BY BatchSettled
<1> QED BY <1>1, <1>3, <1>4, <1>5, WriteDurable

LEMMA SendDurable ==
    ASSUME TypeInv, DurableInv, NEW s \in Sessions, NEW channel,
           SendPrimary(s) \/ SendFallback(s, channel)
    PROVE  DurableInv'
<1> DEFINE m == ses[s].msg
           rec == ses[s].rec
<1>1. ses[s].pc = "send" /\ rec \in Row
  BY DEF SendPrimary, SendFallback, At, TypeInv, TypeOK, ProcessorTypeOK, Session
<1>2. CASE SendPrimary(s)
  <2>1. rec.current_state = "SENDING"
    BY <1>1, <1>2 DEF SendPrimary, At, DurableInv, SendersHold, Aim
  <2>2. CASE Save(s, Then(Outcome(rec, {}), "FAILED", "send_failed"))
    <3>1. Then(Outcome(rec, {}), "FAILED", "send_failed").rec \in Row
      BY <1>1, ThenType DEF MessageStates, EventTypes
    <3> QED BY <1>1, <2>1, <2>2, <3>1, OutcomeSettled, SaveDurable
  <2>3. ASSUME NEW success \in BOOLEAN,
               Save(s, PrimaryOutcome(rec, policy[m].fallback # None, success))
        PROVE  DurableInv'
    BY <1>1, <2>1, <2>3, PrimaryOutcomeType, OutcomeSettled, SaveDurable
  <2> QED BY <1>2, <2>2, <2>3 DEF SendPrimary
<1>3. CASE SendFallback(s, channel)
  <2>1. rec.current_state = "FALLBACK_SENDING"
    BY <1>1, <1>3 DEF SendFallback, At, DurableInv, SendersHold, Aim
  <2>2. CASE Save(s, Then(Outcome(rec, {}), "DEAD_LETTER", "dead_letter"))
    <3>1. Then(Outcome(rec, {}), "DEAD_LETTER", "dead_letter").rec \in Row
      BY <1>1, ThenType DEF MessageStates, EventTypes
    <3> QED BY <1>1, <2>1, <2>2, <3>1, OutcomeSettled, SaveDurable
  <2>3. ASSUME NEW success \in BOOLEAN, Save(s, FallbackOutcome(rec, success))
        PROVE  DurableInv'
    BY <1>1, <2>1, <2>3, FallbackOutcomeType, OutcomeSettled, SaveDurable
  <2> QED BY <1>3, <2>2, <2>3 DEF SendFallback
<1> QED BY <1>2, <1>3

\* A session that holds no lock goes somewhere, locks and versions left alone
LEMMA FreshDurable ==
    ASSUME TypeInv, DurableInv, NEW s \in Sessions,
           NEW pc \in Points \ {"flush", "send"}, NEW op, NEW m, NEW batch,
           Go(s, pc, op, m, Blank, batch), pc # "refetch",
           RowsSettled', lock' = lock, dirty' = dirty,
           \A n \in Messages : lock[n] # s,
           \A n \in Messages : Settled(batch[n])
    PROVE  DurableInv'
<1>1. /\ ses'[s].pc = pc /\ ses'[s].batch = batch
      /\ \A t \in Sessions \ {s} : ses'[t] = ses[t]
  BY DEF Go, TypeInv, TypeOK, ProcessorTypeOK
<1>2. BatchesSettled'
  BY <1>1 DEF DurableInv, BatchesSettled, Settled
<1>3. RecordsAim'
  BY <1>1 DEF DurableInv, RecordsAim, Settled, Aim
<1>4. LoadedSettled'
  BY <1>1 DEF DurableInv, LoadedSettled, Settled
<1>5. SendersHold'
  BY <1>1 DEF DurableInv, SendersHold, Aim
<1>6. RestingHoldNothing'
  BY <1>1 DEF DurableInv, RestingHoldNothing
<1>7. UnsettledInHand'
  BY <1>1 DEF DurableInv, UnsettledInHand, Settled
<1> QED BY <1>2, <1>3, <1>4, <1>5, <1>6, <1>7 DEF DurableInv

LEMMA GotoDurable ==
    ASSUME TypeInv, DurableInv, UNCHANGED storeVars, NEW s \in Sessions,
           NEW pc \in {"idle", "insert", "done"}, Goto(s, pc),
           \A n \in Messages : lock[n] # s
    PROVE  DurableInv'
<1>1. Go(s, pc, None, None, Blank, NoBatch)
  BY DEF Goto, Go, Fresh
<1>2. RowsSettled' /\ lock' = lock /\ dirty' = dirty
  BY DEF storeVars, DurableInv, RowsSettled, Settled
<1>3. pc \in Points \ {"flush", "send"} /\ pc # "refetch"
  BY DEF Points
<1> QED BY <1>1, <1>2, <1>3, BlankSettled, FreshDurable

LEMMA InsertDurable ==
    ASSUME TypeInv, DurableInv, NEW c \in Sessions, Insert(c)
    PROVE  DurableInv'
<1>1. \A n \in Messages : lock[n] # c
  BY DEF Insert, DurableInv, RestingHoldNothing
<1>2. CASE UNCHANGED storeVars /\ Goto(c, "done")
  BY <1>1, <1>2, GotoDurable
<1>3. ASSUME NEW m \in Messages, NEW pol \in Policies,
             InsertRow(m, KeyOf[c], pol), Begin(c, "process_new_message", m)
      PROVE  DurableInv'
  <2>1. lock' = lock /\ dirty' = dirty
    BY <1>3 DEF InsertRow
  <2>2. Settled([Blank EXCEPT !.current_state = "PENDING"])
    BY DEF Settled, Blank, Transient
  <2>3. RowsSettled'
    BY <1>3, <2>2 DEF InsertRow, DurableInv, RowsSettled, Settled,
                      TypeInv, TypeOK, StoreTypeOK
  <2>4. Go(c, "read", "process_new_message", m, Blank, ses[c].batch)
    BY <1>3 DEF Begin
  <2>5. "read" \in Points \ {"flush", "send"} /\ "read" # "refetch"
    BY DEF Points
  <2>6. \A n \in Messages : Settled(ses[c].batch[n])
    BY BatchSettled
  <2> QED BY <1>1, <2>1, <2>3, <2>4, <2>5, <2>6, FreshDurable
<1> QED BY <1>2, <1>3 DEF Insert

LEMMA ArriveDurable ==
    ASSUME TypeInv, DurableInv, Arrive
    PROVE  DurableInv'
<1>1. PICK s \in Sessions : \/ s \in Creators /\ Create(s)
                            \/ s \in Ackers /\ Acknowledge(s)
                            \/ s \in Escalators /\ ManualEscalate(s)
                            \/ s \in Retriers /\ RetryFallback(s)
  BY SessionsAssumption DEF Arrive, Requests
<1>2. UNCHANGED storeVars /\ ses[s].pc = "idle"
  BY <1>1 DEF Create, Acknowledge, ManualEscalate, RetryFallback
<1>3. \A n \in Messages : lock[n] # s
  BY <1>2 DEF DurableInv, RestingHoldNothing
<1>4. NothingUnsettled(s)
  BY <1>3 DEF NothingUnsettled
<1>5. \A m \in Messages : row[m] \in Row
  BY DEF TypeInv, TypeOK, StoreTypeOK
<1>6. CASE Goto(s, "insert") \/ Goto(s, "done")
  BY <1>2, <1>3, <1>6, GotoDurable
<1>7. ASSUME NEW m \in Messages, NEW op, Begin(s, op, m)
      PROVE  DurableInv'
  BY <1>2, <1>4, <1>7, BeginDurable
<1>8. ASSUME NEW m \in Messages, Escalate(s, m, row[m])
      PROVE  DurableInv'
  BY <1>2, <1>4, <1>5, <1>8, EscalateDurable
<1>9. Stored \subseteq Messages
  BY DEF Stored
<1>10. CASE Create(s)
  BY <1>6, <1>7, <1>9, <1>10 DEF Create
<1>11. CASE Acknowledge(s)
  BY <1>7, <1>9, <1>11 DEF Acknowledge
<1>12. CASE ManualEscalate(s)
  BY <1>6, <1>8, <1>9, <1>12 DEF ManualEscalate
<1>13. CASE RetryFallback(s)
  BY <1>6, <1>7, <1>9, <1>13 DEF RetryFallback
<1> QED BY <1>1, <1>10, <1>11, <1>12, <1>13

LEMMA PassDurable ==
    ASSUME TypeInv, DurableInv, Pass
    PROVE  DurableInv'
<1>1. DeadlineLoop \in Sessions /\ FallbackLoop \in Sessions /\ RetryLoop \in Sessions
  BY SessionsAssumption DEF Loops
<1>2. ASSUME NEW s \in Sessions, NEW due, Scan(s, due)
      PROVE  DurableInv'
  <2> DEFINE batch == [m \in Messages |-> IF m \in due THEN row[m] ELSE Blank]
  <2>1. \A n \in Messages : Settled(batch[n])
    BY BlankSettled DEF DurableInv, RowsSettled
  <2>2. \A n \in Messages : lock[n] # s
    BY <1>2 DEF Scan, DurableInv, RestingHoldNothing
  <2>3. Go(s, "next", None, None, Blank, batch) /\ UNCHANGED storeVars
    BY <1>2 DEF Scan
  <2>4. RowsSettled' /\ lock' = lock /\ dirty' = dirty
    BY <2>3 DEF storeVars, DurableInv, RowsSettled, Settled
  <2>5. "next" \in Points \ {"flush", "send"} /\ "next" # "refetch"
    BY DEF Points
  <2> HIDE DEF batch
  <2> QED BY <2>1, <2>2, <2>3, <2>4, <2>5, FreshDurable
<1>3. CASE DeadlineScan \/ FallbackScan \/ RetryScan
  BY <1>1, <1>2, <1>3 DEF DeadlineScan, FallbackScan, RetryScan
<1>4. ASSUME NEW s \in Sessions, ses[s].pc = "next"
      PROVE  NothingUnsettled(s)
  BY <1>4, SettledViews
<1>5. ASSUME NEW s \in Sessions, ses[s].pc = "next", UNCHANGED storeVars,
             NEW m \in Messages, Escalate(s, m, ses[s].batch[m])
      PROVE  DurableInv'
  <2>1. ses[s].batch[m] \in Row
    BY DEF TypeInv, TypeOK, ProcessorTypeOK, Session
  <2> QED BY <1>4, <1>5, <2>1, EscalateDurable
<1>6. ASSUME NEW s \in Sessions, ses[s].pc = "next", UNCHANGED storeVars,
             NEW m \in Messages, NEW op, Begin(s, op, m)
      PROVE  DurableInv'
  BY <1>4, <1>6, BeginDurable
<1>7. \A s \in Sessions : Listed(s) \subseteq Messages
  BY DEF Listed
<1>8. CASE DeadlineItem
  BY <1>1, <1>5, <1>7, <1>8 DEF DeadlineItem
<1>9. CASE FallbackItem
  BY <1>1, <1>6, <1>7, <1>9 DEF FallbackItem
<1>10. CASE RetryItem
  BY <1>1, <1>5, <1>6, <1>7, <1>10 DEF RetryItem
<1> QED BY <1>3, <1>8, <1>9, <1>10 DEF Pass

\* The transactions of S end, and the sessions of S come to rest.
LEMMA EndDurable ==
    ASSUME TypeInv, DurableInv, RowsSettled', NEW S \in SUBSET Sessions,
           EndTransactions(S),
           \A t \in Sessions \ S : ses'[t] = ses[t],
           \A t \in S : /\ ses'[t].pc \in {"idle", "done"}
                        /\ \A m \in Messages : Settled(ses'[t].batch[m])
    PROVE  DurableInv'
<1>1. \A t \in Sessions, m \in Messages :
         lock'[m] = t <=> lock[m] = t /\ t \notin S
  BY NoneAssumption DEF EndTransactions
<1>2. \A m \in Messages : lock[m] \notin S => dirty'[m] = dirty[m]
  BY DEF EndTransactions
<1>3. BatchesSettled'
  BY DEF DurableInv, BatchesSettled, Settled
<1>4. RecordsAim'
  BY DEF DurableInv, RecordsAim, Settled, Aim
<1>5. LoadedSettled'
  BY DEF DurableInv, LoadedSettled, Settled
<1>6. SendersHold'
  <2>1. ASSUME NEW t \in Sessions, ses'[t].pc = "send"
        PROVE  /\ t \notin S /\ ses'[t] = ses[t] /\ ses[t].msg \in Messages
               /\ lock[ses[t].msg] = t
    BY <2>1 DEF DurableInv, SendersHold, TypeInv, HandlersHaveMessage, Handling
  <2> QED BY <1>1, <1>2, <2>1 DEF DurableInv, SendersHold, Aim
<1>7. RestingHoldNothing'
  BY <1>1 DEF DurableInv, RestingHoldNothing
<1>8. UnsettledInHand'
  BY <1>1, <1>2 DEF DurableInv, UnsettledInHand, Settled
<1> QED BY <1>3, <1>4, <1>5, <1>6, <1>7, <1>8 DEF DurableInv

LEMMA CommitDurable ==
    ASSUME TypeInv, DurableInv, NEW s \in Sessions, Commit(s)
    PROVE  DurableInv'
<1>1. NothingUnsettled(s)
  BY SettledViews DEF Commit
<1>2. RowsSettled'
  BY <1>1 DEF Commit, CommitTransaction, NothingUnsettled, DurableInv, RowsSettled,
              Settled
<1>3. EndTransactions({s}) /\ {s} \in SUBSET Sessions
  BY DEF Commit, CommitTransaction
<1>4. /\ ses'[s].pc \in {"idle", "done"} /\ ses'[s].batch = NoBatch
      /\ \A t \in Sessions \ {s} : ses'[t] = ses[t]
  BY DEF Commit, Goto, Fresh, TypeInv, TypeOK, ProcessorTypeOK
<1> QED BY <1>2, <1>3, <1>4, BlankSettled, EndDurable

LEMMA AbortDurable ==
    ASSUME TypeInv, DurableInv, NEW S \in SUBSET Sessions, Abort(S)
    PROVE  DurableInv'
<1>1. RowsSettled' /\ EndTransactions(S)
  BY DEF Abort, RollbackTransactions, DurableInv, RowsSettled, Settled
<1>2. \A t \in Sessions \ S : ses'[t] = ses[t]
  BY DEF Abort
<1>3. ASSUME NEW t \in S
      PROVE  /\ ses'[t].pc \in {"idle", "done"}
             /\ \A m \in Messages : Settled(ses'[t].batch[m])
  <2>1. CASE Running(t)
    <3>1. ses'[t] = Fresh("idle") \/ ses'[t] = Fresh("done")
      BY <2>1 DEF Abort
    <3>2. ses'[t].pc \in {"idle", "done"} /\ ses'[t].batch = NoBatch
      BY <3>1 DEF Fresh
    <3> QED BY <3>2, BlankSettled
  <2>2. CASE ~Running(t)
    <3>1. ses'[t] = ses[t] /\ ses[t].pc \in {"idle", "done"}
      BY <2>2 DEF Abort, Running
    <3> QED BY <3>1 DEF DurableInv, BatchesSettled
  <2> QED BY <2>1, <2>2
<1> QED BY <1>1, <1>2, <1>3, EndDurable

LEMMA DurableInit == Init => DurableInv
<1> SUFFICES ASSUME Init PROVE DurableInv
  OBVIOUS
<1>1. /\ row = [m \in Messages |-> Blank] /\ lock = [m \in Messages |-> None]
      /\ ses = [s \in Sessions |-> Fresh("idle")]
  BY DEF Init, StoreInit, ProcessorInit
<1>2. \A s \in Sessions : ses[s].pc = "idle" /\ ses[s].batch = NoBatch
  BY <1>1 DEF Fresh
<1>3. \A s \in Sessions, m \in Messages : lock[m] # s
  BY <1>1, NoneAssumption
<1>4. RowsSettled /\ BatchesSettled
  BY <1>1, <1>2, BlankSettled DEF RowsSettled, BatchesSettled
<1>5. RecordsAim /\ LoadedSettled /\ SendersHold
  BY <1>2 DEF RecordsAim, LoadedSettled, SendersHold
<1>6. RestingHoldNothing /\ UnsettledInHand
  BY <1>3 DEF RestingHoldNothing, UnsettledInHand
<1> QED BY <1>4, <1>5, <1>6 DEF DurableInv

LEMMA StutterDurable ==
    ASSUME DurableInv, UNCHANGED <<storeVars, ses>>
    PROVE  DurableInv'
<1>1. row' = row /\ lock' = lock /\ dirty' = dirty /\ ses' = ses
  BY DEF storeVars
<1>2. RowsSettled' /\ BatchesSettled'
  BY <1>1 DEF DurableInv, RowsSettled, BatchesSettled, Settled
<1>3. RecordsAim' /\ LoadedSettled'
  BY <1>1 DEF DurableInv, RecordsAim, LoadedSettled, Settled, Aim
<1>4. SendersHold'
  BY <1>1 DEF DurableInv, SendersHold, Aim
<1>5. RestingHoldNothing' /\ UnsettledInHand'
  BY <1>1 DEF DurableInv, RestingHoldNothing, UnsettledInHand, Settled
<1> QED BY <1>2, <1>3, <1>4, <1>5 DEF DurableInv

LEMMA DurableStep == TypeInv /\ DurableInv /\ [Next]_vars => DurableInv'
<1> SUFFICES ASSUME TypeInv, DurableInv, [Next]_vars
             PROVE  DurableInv'
  OBVIOUS
<1>1. CASE Arrive
  BY <1>1, ArriveDurable
<1>2. ASSUME NEW c \in Creators, Insert(c)
      PROVE  DurableInv'
  BY <1>2, InsertDurable, SessionsAssumption DEF Requests
<1>3. CASE Pass
  BY <1>3, PassDurable
<1>4. ASSUME NEW s \in Sessions, Handle(s)
      PROVE  DurableInv'
  <2>1. CASE \/ ProcessNewMessage(s) \/ AttemptDelivery(s)
             \/ AttemptFallback(s) \/ AcknowledgeMessage(s)
    BY <2>1, ReadDurable
  <2>2. CASE Refetch(s)
    BY <2>2, RefetchDurable
  <2>3. CASE Flush(s)
    BY <2>3, FlushDurable
  <2>4. CASE SendPrimary(s)
    BY <2>4, SendDurable
  <2>5. CASE \E channel \in Channels : SendFallback(s, channel)
    BY <2>5, SendDurable
  <2> QED BY <1>4, <2>1, <2>2, <2>3, <2>4, <2>5 DEF Handle
<1>5. ASSUME NEW s \in Sessions, Commit(s)
      PROVE  DurableInv'
  BY <1>5, CommitDurable
<1>6. CASE (\E m \in Messages : Elapse(m)) \/ UNCHANGED vars
  <2>1. UNCHANGED <<storeVars, ses>>
    BY <1>6 DEF Elapse, vars, processorVars
  <2> QED BY <2>1, StutterDurable
<1>7. ASSUME NEW S \in SUBSET Sessions, Abort(S)
      PROVE  DurableInv'
  BY <1>7, AbortDurable
<1>8. CASE \/ \E s \in Sessions : SessionError(s) \/ DeadlockVictim(s)
           \/ Crash
  <2>1. ASSUME NEW s \in Sessions, Abort({s})
        PROVE  DurableInv'
    BY <1>7, <2>1
  <2>2. CASE Crash
    BY <1>7, <2>2 DEF Crash
  <2> QED BY <1>8, <2>1, <2>2 DEF SessionError, DeadlockVictim
<1> QED BY <1>1, <1>2, <1>3, <1>4, <1>5, <1>6, <1>8 DEF Next, IdlePass

LEMMA DurableCorrect == Spec => []DurableInv
BY TypeCorrect, DurableInit, DurableStep, PTL DEF Spec

\* No crash, error or early return of a handler leaves a message in QUEUED,
\* SENDING or FALLBACK_SENDING, for any number of messages, requests and
\* failures: a version in such a state exists only in the transaction of the
\* session that is about to replace it.
THEOREM RestingIsDurable == Spec => []DurableResting
<1>1. DurableInv => DurableResting
  BY DEF DurableInv, RowsSettled, Settled, DurableResting, Committed
<1> QED BY <1>1, DurableCorrect, PTL


\* No row lock outlives the work it was taken for, whatever ends that work: an
\* exception, a crash, a deadlock or a commit.
THEOREM LocksAreHeldByWork == Spec => []LocksHeldByWork
<1>1. TypeInv /\ DurableInv => LocksHeldByWork
  <2> SUFFICES ASSUME TypeInv, DurableInv, NEW m \in Messages, lock[m] # None
               PROVE  /\ ses[lock[m]].pc \notin {"idle", "insert", "done"}
                      /\ dirty[m].current_state \in Transient =>
                            ses[lock[m]].msg = m /\ ses[lock[m]].pc # "next"
    BY DEF LocksHeldByWork
  <2>1. lock[m] \in Sessions
    BY DEF TypeInv, TypeOK, StoreTypeOK
  <2>2. ses[lock[m]].pc \notin {"idle", "insert", "done"}
    BY <2>1 DEF DurableInv, RestingHoldNothing
  <2>3. ASSUME dirty[m].current_state \in Transient
        PROVE  ses[lock[m]].msg = m /\ ses[lock[m]].pc # "next"
    BY <2>1, <2>3 DEF DurableInv, UnsettledInHand, Settled
  <2> QED BY <2>2, <2>3
<1> QED BY <1>1, TypeCorrect, DurableCorrect, PTL

-----------------------------------------------------------------------------
(* No request takes part in a deadlock                                      *)

\* Session s moves on to its caller, or within a handler of the same message.
Moves(s) ==
    /\ \A t \in Sessions \ {s} : ses'[t] = ses[t]
    /\ \/ ses'[s].pc = "next"
       \/ ses'[s].pc \in Handling /\ ses'[s].msg = ses[s].msg

LEMMA GoMoves ==
    ASSUME TypeInv, NEW s \in Sessions, NEW pc, NEW op, NEW m, NEW rec, NEW batch,
           Go(s, pc, op, m, rec, batch),
           pc = "next" \/ (pc \in Handling /\ m = ses[s].msg)
    PROVE  Moves(s)
BY DEF Go, Moves, TypeInv, TypeOK, ProcessorTypeOK

LEMMA CallMoves ==
    ASSUME TypeInv, NEW s \in Sessions
    PROVE  /\ \A op : Begin(s, op, ses[s].msg) => Moves(s)
           /\ \A op, record : Update(s, op, ses[s].msg, record) => Moves(s)
           /\ \A m : Return(s, m) => Moves(s)
           /\ \A op, record, next :
                 Transition(s, op, ses[s].msg, record, next) => Moves(s)
<1>1. "read" \in Handling /\ "refetch" \in Handling
  BY DEF Handling
<1>2. ASSUME NEW op, Begin(s, op, ses[s].msg)
      PROVE  Moves(s)
  BY <1>1, <1>2, GoMoves DEF Begin
<1>3. ASSUME NEW op, NEW record, Update(s, op, ses[s].msg, record)
      PROVE  Moves(s)
  BY <1>1, <1>3, GoMoves DEF Update
<1>4. ASSUME NEW m, Return(s, m)
      PROVE  Moves(s)
  BY <1>4, GoMoves DEF Return
<1>5. ASSUME NEW op, NEW record, NEW next,
             Transition(s, op, ses[s].msg, record, next)
      PROVE  Moves(s)
  BY <1>3, <1>4, <1>5 DEF Transition
<1> QED BY <1>2, <1>3, <1>4, <1>5

\* A step of a handler locks at most the row of its message.
LEMMA HandleMoves ==
    ASSUME TypeInv, NEW s \in Sessions, Handle(s)
    PROVE  /\ Moves(s) /\ ses[s].pc \in Handling
           /\ \A n \in Messages : \/ lock'[n] = lock[n]
                                  \/ lock'[n] = s /\ n = ses[s].msg
<1> DEFINE m == ses[s].msg
<1>1. CASE \/ ProcessNewMessage(s) \/ AttemptDelivery(s)
           \/ AttemptFallback(s) \/ AcknowledgeMessage(s)
  <2>1. UNCHANGED storeVars /\ ses[s].pc \in Handling
    BY <1>1 DEF ProcessNewMessage, AttemptDelivery, AttemptFallback,
                AcknowledgeMessage, At, Handling
  <2>2. Moves(s)
    BY <1>1, CallMoves DEF ProcessNewMessage, AttemptDelivery, AttemptFallback,
                           AcknowledgeMessage
  <2> QED BY <2>1, <2>2 DEF storeVars
<1>2. CASE Refetch(s)
  <2>1. lock' = lock /\ ses[s].pc \in Handling
    BY <1>2 DEF Refetch, storeVars, Handling
  <2>2. Moves(s)
    BY <1>2 DEF Refetch, Moves, Handling, TypeInv, TypeOK, ProcessorTypeOK, Session
  <2> QED BY <2>1, <2>2
<1>3. ASSUME NEW version, NEW facts, WriteRow(s, m, version, facts), NEW n \in Messages
      PROVE  lock'[n] = lock[n] \/ (lock'[n] = s /\ n = m)
  BY <1>3 DEF WriteRow, TypeInv, TypeOK, StoreTypeOK
<1>4. CASE Flush(s)
  <2>1. /\ WriteRow(s, m, Written(ses[s].rec, ses[s].loaded, View(s, m)),
                    {FactOf(ses[s].op, ses[s].rec)})
        /\ ses[s].pc \in Handling
    BY <1>4 DEF Flush, Handling
  <2>2. Moves(s)
    <3>1. CASE Begin(s, "attempt_delivery", m)
      BY <3>1, CallMoves
    <3>2. CASE Go(s, "send", ses[s].op, m, ses[s].rec, ses[s].batch)
      BY <3>2, GoMoves DEF Handling
    <3>3. CASE Return(s, m)
      BY <3>3, CallMoves
    <3> QED BY <1>4, <3>1, <3>2, <3>3 DEF Flush
  <2> QED BY <1>3, <2>1, <2>2
<1>5. ASSUME NEW o, Save(s, o)
      PROVE  /\ Moves(s)
             /\ \A n \in Messages : lock'[n] = lock[n] \/ (lock'[n] = s /\ n = m)
  BY <1>3, <1>5, CallMoves DEF Save
<1>6. CASE SendPrimary(s)
  <2>1. ses[s].pc \in Handling
    BY <1>6 DEF SendPrimary, At, Handling
  <2>2. \E o : Save(s, o)
    BY <1>6 DEF SendPrimary
  <2> QED BY <1>5, <2>1, <2>2
<1>7. CASE \E channel \in Channels : SendFallback(s, channel)
  <2>1. ses[s].pc \in Handling
    BY <1>7 DEF SendFallback, At, Handling
  <2>2. \E o : Save(s, o)
    BY <1>7 DEF SendFallback
  <2> QED BY <1>5, <2>1, <2>2
<1> QED BY <1>1, <1>2, <1>4, <1>6, <1>7 DEF Handle

\* The transactions of S end; nobody else moves.
LEMMA EndHolds ==
    ASSUME RequestsHoldOneRow, NEW S \in SUBSET Sessions, EndTransactions(S),
           \A t \in Sessions \ S : ses'[t] = ses[t]
    PROVE  RequestsHoldOneRow'
<1>1. Requests \subseteq Sessions
  BY SessionsAssumption
<1>2. \A t \in Sessions, m \in Messages : lock'[m] = t => lock[m] = t /\ t \notin S
  BY NoneAssumption DEF EndTransactions
<1> QED BY <1>1, <1>2 DEF RequestsHoldOneRow

LEMMA HoldsStep == TypeInv /\ DurableInv /\ RequestsHoldOneRow /\ [Next]_vars
                       => RequestsHoldOneRow'
<1> SUFFICES ASSUME TypeInv, DurableInv, RequestsHoldOneRow, [Next]_vars
             PROVE  RequestsHoldOneRow'
  OBVIOUS
<1>1. Requests \subseteq Sessions /\ \A s \in Loops : s \notin Requests
  BY SessionsAssumption DEF Loops
<1>2. ASSUME NEW s \in Sessions, \A t \in Sessions \ {s} : ses'[t] = ses[t],
             lock' = lock, s \in Requests => \A m \in Messages : lock[m] # s
      PROVE  RequestsHoldOneRow'
  BY <1>1, <1>2 DEF RequestsHoldOneRow
<1>3. ASSUME NEW s \in Sessions, ses[s].pc \in {"idle", "insert", "done"}
      PROVE  \A m \in Messages : lock[m] # s
  BY <1>3 DEF DurableInv, RestingHoldNothing
<1>4. ASSUME NEW s \in Sessions, NEW pc, NEW op, NEW m, NEW rec, NEW batch,
             Go(s, pc, op, m, rec, batch)
      PROVE  \A t \in Sessions \ {s} : ses'[t] = ses[t]
  BY <1>4 DEF Go, TypeInv, TypeOK, ProcessorTypeOK
<1>5. ASSUME NEW s \in Sessions, NEW pc, Goto(s, pc)
      PROVE  \A t \in Sessions \ {s} : ses'[t] = ses[t]
  BY <1>5 DEF Goto, TypeInv, TypeOK, ProcessorTypeOK
<1>6. ASSUME NEW s \in Sessions, NEW m, NEW record, Escalate(s, m, record)
      PROVE  \A t \in Sessions \ {s} : ses'[t] = ses[t]
  BY <1>4, <1>6 DEF Escalate, Transition, Update, Return
<1>7. CASE Arrive
  <2>1. PICK s \in Sessions : \/ s \in Creators /\ Create(s)
                              \/ s \in Ackers /\ Acknowledge(s)
                              \/ s \in Escalators /\ ManualEscalate(s)
                              \/ s \in Retriers /\ RetryFallback(s)
    BY <1>7, SessionsAssumption DEF Arrive, Requests
  <2>2. ses[s].pc = "idle" /\ lock' = lock
    BY <2>1 DEF Create, Acknowledge, ManualEscalate, RetryFallback, storeVars
  <2>3. \A t \in Sessions \ {s} : ses'[t] = ses[t]
    <3>1. CASE Create(s)
      BY <1>4, <1>5, <3>1 DEF Create, Begin
    <3>2. CASE Acknowledge(s)
      BY <1>4, <3>2 DEF Acknowledge, Begin
    <3>3. CASE ManualEscalate(s)
      BY <1>5, <1>6, <3>3 DEF ManualEscalate
    <3>4. CASE RetryFallback(s)
      BY <1>4, <1>5, <3>4 DEF RetryFallback, Begin
    <3> QED BY <2>1, <3>1, <3>2, <3>3, <3>4
  <2> QED BY <1>2, <1>3, <2>2, <2>3
<1>8. ASSUME NEW c \in Creators, Insert(c)
      PROVE  RequestsHoldOneRow'
  <2>1. c \in Sessions /\ ses[c].pc = "insert" /\ lock' = lock
    BY <1>1, <1>8 DEF Insert, InsertRow, storeVars, Requests
  <2>2. \A t \in Sessions \ {c} : ses'[t] = ses[t]
    BY <1>4, <1>5, <1>8, <2>1 DEF Insert, Begin
  <2> QED BY <1>2, <1>3, <2>1, <2>2
<1>9. CASE Pass
  <2>1. lock' = lock
    BY <1>9 DEF Pass, DeadlineScan, DeadlineItem, FallbackScan, FallbackItem,
                RetryScan, RetryItem, Scan, storeVars
  <2>2. /\ DeadlineLoop \in Loops /\ FallbackLoop \in Loops /\ RetryLoop \in Loops
        /\ Loops \subseteq Sessions
    BY SessionsAssumption DEF Loops
  <2>3. \E s \in Loops : \A t \in Sessions \ {s} : ses'[t] = ses[t]
    <3>1. CASE DeadlineScan \/ FallbackScan \/ RetryScan
      BY <1>4, <2>2, <3>1 DEF DeadlineScan, FallbackScan, RetryScan, Scan
    <3>2. CASE DeadlineItem
      BY <1>6, <2>2, <3>2 DEF DeadlineItem
    <3>3. CASE FallbackItem
      BY <1>4, <2>2, <3>3 DEF FallbackItem, Begin
    <3>4. CASE RetryItem
      BY <1>4, <1>6, <2>2, <3>4 DEF RetryItem, Begin
    <3> QED BY <1>9, <3>1, <3>2, <3>3, <3>4 DEF Pass
  <2> QED BY <1>1, <1>2, <2>1, <2>2, <2>3
<1>10. ASSUME NEW s \in Sessions, Handle(s)
       PROVE  RequestsHoldOneRow'
  <2>1. Moves(s) /\ ses[s].pc \in Handling
    BY <1>10, HandleMoves
  <2>2. \A n \in Messages : lock'[n] = lock[n] \/ (lock'[n] = s /\ n = ses[s].msg)
    BY <1>10, HandleMoves
  <2>3. "next" \notin Handling
    BY DEF Handling
  <2> QED BY <1>1, <2>1, <2>2, <2>3 DEF RequestsHoldOneRow, Moves
<1>11. ASSUME NEW s \in Sessions, Commit(s)
       PROVE  RequestsHoldOneRow'
  <2>1. EndTransactions({s}) /\ {s} \in SUBSET Sessions
    BY <1>11 DEF Commit, CommitTransaction
  <2>2. \A t \in Sessions \ {s} : ses'[t] = ses[t]
    BY <1>5, <1>11 DEF Commit
  <2> QED BY <2>1, <2>2, EndHolds
<1>12. CASE (\E m \in Messages : Elapse(m)) \/ UNCHANGED vars
  <2>1. lock' = lock /\ ses' = ses
    BY <1>12 DEF Elapse, vars, processorVars, storeVars
  <2> QED BY <2>1 DEF RequestsHoldOneRow
<1>13. ASSUME NEW S \in SUBSET Sessions, Abort(S)
       PROVE  RequestsHoldOneRow'
  BY <1>13, EndHolds DEF Abort, RollbackTransactions
<1>14. CASE \/ \E s \in Sessions : SessionError(s) \/ DeadlockVictim(s)
            \/ Crash
  <2>1. ASSUME NEW s \in Sessions, Abort({s})
        PROVE  RequestsHoldOneRow'
    BY <1>13, <2>1
  <2>2. CASE Crash
    BY <1>13, <2>2 DEF Crash
  <2> QED BY <1>14, <2>1, <2>2 DEF SessionError, DeadlockVictim
<1> QED BY <1>7, <1>8, <1>9, <1>10, <1>11, <1>12, <1>14 DEF Next, IdlePass

LEMMA HoldsCorrect == Spec => []RequestsHoldOneRow
<1>1. Init => RequestsHoldOneRow
  BY SessionsAssumption, NoneAssumption DEF Init, StoreInit, RequestsHoldOneRow
<1> QED BY <1>1, TypeCorrect, DurableCorrect, HoldsStep, PTL DEF Spec

\* No request is ever on a waiting cycle, for any number of requests and
\* messages: one that waits for a row holds none that another waits for.
THEOREM NoRequestDeadlocks == Spec => []RequestsNeverDeadlock
<1>1. TypeInv /\ RequestsHoldOneRow => RequestsNeverDeadlock
  <2> SUFFICES ASSUME TypeInv, RequestsHoldOneRow, NEW s \in Requests, Deadlocked(s)
               PROVE  FALSE
    BY DEF RequestsNeverDeadlock
  <2>1. PICK u \in Sessions, v \in Sessions : WaitsFor(s, u) /\ WaitsFor(v, s)
    BY DEF Deadlocked
  <2>2. ses[v].msg \in Messages /\ lock[ses[v].msg] = s
    BY <2>1 DEF WaitsFor, TypeInv, HandlersHaveMessage, Handling
  <2>3. ses[s].pc = "flush" /\ lock[ses[s].msg] = u /\ u # s
    BY <2>1 DEF WaitsFor
  <2>4. ses[s].msg = ses[v].msg
    BY <2>2, <2>3 DEF RequestsHoldOneRow
  <2> QED BY <2>2, <2>3, <2>4
<1> QED BY <1>1, TypeCorrect, HoldsCorrect, PTL
=============================================================================
