------------------------------- MODULE Gateway -------------------------------
(***************************************************************************)
(* The messaging gateway: HTTP requests (app/api/routes) and the three     *)
(* loops of the scheduler (app/workers/scheduler.py), each on a database    *)
(* session of its own, interleaved at their awaits on one message store.   *)
(*                                                                         *)
(* A request is served once: Creators, Ackers, Escalators and Retriers are *)
(* the requests a run offers, each at any moment or never.  The loops run  *)
(* for ever; a pass that lists nothing changes nothing.                     *)
(***************************************************************************)
EXTENDS MessageProcessor

CONSTANTS
    Creators,      \* POST /messages
    KeyOf,         \* KeyOf[c]: the idempotency_key of request c, or None
    Ackers,        \* POST /messages/{id}/acknowledge
    Escalators,    \* POST /admin/messages/{id}/escalate
    Retriers,      \* POST /admin/messages/{id}/retry-fallback
    DeadlineLoop,  \* _deadline_check_loop
    FallbackLoop,  \* _fallback_attempt_loop
    RetryLoop,     \* _retry_check_loop
    MaxFailures    \* bound: session errors and crashes in a behaviour

Loops == {DeadlineLoop, FallbackLoop, RetryLoop}
Requests == Creators \cup Ackers \cup Escalators \cup Retriers

ASSUME SessionsAssumption ==
    /\ Sessions = Requests \cup Loops
    /\ DeadlineLoop \notin Requests \cup {FallbackLoop, RetryLoop}
    /\ FallbackLoop \notin Requests \cup {RetryLoop}
    /\ RetryLoop \notin Requests
    /\ Creators \cap (Ackers \cup Escalators \cup Retriers) = {}
    /\ Ackers \cap (Escalators \cup Retriers) = {}
    /\ Escalators \cap Retriers = {}

ASSUME NoneAssumption ==
    None \notin Sessions \cup Messages \cup Keys \cup Channels

ASSUME DataAssumption ==
    /\ KeyOf \in [Creators -> Keys \cup {None}]
    /\ Policies \subseteq [primary : Channels, fallback : Channels \cup {None}]
    /\ Registered \subseteq Channels
    /\ MaxFailures \in Nat

\* The submissions of a behaviour can be counted.
ASSUME SubmissionsAssumption == IsFiniteSet(Creators)

VARIABLES
    elapsed,       \* the timers of a message that have run out: <<m, 0>> its
                   \* acknowledgement deadline, <<m, k>> the wait for retry k
    failures       \* session errors and crashes so far

vars == <<storeVars, processorVars, elapsed, failures>>

TypeOK ==
    /\ StoreTypeOK
    /\ ProcessorTypeOK
    /\ elapsed \in SUBSET (Messages \X Nat)
    /\ failures \in Nat

Init ==
    /\ StoreInit
    /\ ProcessorInit
    /\ elapsed = {}
    /\ failures = 0

-----------------------------------------------------------------------------
Goto(s, pc) == ses' = [ses EXCEPT ![s] = Fresh(pc)]

\* create_message, up to its INSERT: a known key yields the existing message,
\* which is processed again if it is still PENDING.
Create(c) ==
    LET known == {m \in Stored : KeyOf[c] # None /\ key[m] = KeyOf[c]}
    IN  /\ ses[c].pc = "idle"
        /\ IF known = {}
           THEN Goto(c, "insert")
           ELSE \E m \in known :
                   IF row[m].current_state = "PENDING"
                   THEN Begin(c, "process_new_message", m)
                   ELSE Goto(c, "done")
        /\ UNCHANGED <<storeVars, attempts, accepted, elapsed, failures>>

\* The INSERT and the first commit; then process_message.  A request that
\* loses the race for its key fails with an IntegrityError.
Insert(c) ==
    /\ ses[c].pc = "insert"
    /\ \/ /\ KeyTaken(KeyOf[c])
          /\ Goto(c, "done")
          /\ UNCHANGED storeVars
       \/ /\ ~KeyTaken(KeyOf[c])
          /\ \E m \in Messages, pol \in Policies :
                /\ InsertRow(m, KeyOf[c], pol)
                /\ Begin(c, "process_new_message", m)
    /\ UNCHANGED <<attempts, accepted, elapsed, failures>>

\* acknowledge_message of the route, up to the handler's read
Acknowledge(a) ==
    /\ ses[a].pc = "idle"
    /\ \E m \in Stored : Begin(a, "acknowledge_message", m)
    /\ UNCHANGED <<storeVars, attempts, accepted, elapsed, failures>>

\* manually_escalate_message: the record it has checked goes to
\* _escalate_message as it is.
ManualEscalate(e) ==
    /\ ses[e].pc = "idle"
    /\ \E m \in Stored :
          IF row[m].current_state = "SENT_TO_CHANNEL"
          THEN Escalate(e, m, row[m])
          ELSE Goto(e, "done")
    /\ UNCHANGED <<storeVars, attempts, accepted, elapsed, failures>>

\* retry_fallback_delivery, up to the read of attempt_fallback
RetryFallback(r) ==
    /\ ses[r].pc = "idle"
    /\ \E m \in Stored :
          IF row[m].current_state = "ESCALATION_PENDING"
          THEN Begin(r, "attempt_fallback", m)
          ELSE Goto(r, "done")
    /\ UNCHANGED <<storeVars, attempts, accepted, elapsed, failures>>

-----------------------------------------------------------------------------
\* A loop lists the rows its query selects.
Scan(s, due) ==
    /\ ses[s].pc = "idle"
    /\ due # {}
    /\ Go(s, "next", None, None, Blank,
          [m \in Messages |-> IF m \in due THEN row[m] ELSE Blank])
    /\ UNCHANGED <<storeVars, attempts, accepted, elapsed, failures>>

Due(m, k) == <<m, k>> \in elapsed

\* Mutant: no condition on the state.
OverdueAnyState == {m \in Messages : row[m].acknowledged_at = None /\ Due(m, 0)}

\* list_due_for_escalation
Overdue == {m \in Messages : /\ row[m].current_state = "SENT_TO_CHANNEL"
                             /\ row[m].acknowledged_at = None
                             /\ Due(m, 0)}

\* Mutant: next_retry_at in the place of ack_deadline_at.
DeadlineScanByRetry ==
    Scan(DeadlineLoop, {m \in Messages : /\ row[m].current_state = "SENT_TO_CHANNEL"
                                         /\ row[m].acknowledged_at = None
                                         /\ row[m].next_retry_at # None
                                         /\ Due(m, row[m].next_retry_at)})

\* check_deadlines, its query
DeadlineScan == Scan(DeadlineLoop, Overdue)

\* list_by_state(ESCALATION_PENDING), less the messages without a fallback
FallbackScan ==
    Scan(FallbackLoop, {m \in Messages :
                          /\ row[m].current_state = "ESCALATION_PENDING"
                          /\ policy[m].fallback # None})

\* Mutant: deferred messages are not listed.
RetryScanQueuedOnly ==
    Scan(RetryLoop, {m \in Messages : /\ row[m].next_retry_at # None
                                      /\ row[m].current_state = "QUEUED"})

\* list_due_for_retry, less the rows in a state the loop passes over
RetryScan ==
    Scan(RetryLoop, {m \in Messages :
                       /\ row[m].next_retry_at # None
                       /\ Due(m, row[m].next_retry_at)
                       /\ row[m].current_state \in {"QUEUED", "ESCALATION_DEFERRED"}})

Listed(s) == {m \in Messages : ses[s].batch[m] # Blank}

\* The bodies of the loops.  The queries have no ORDER BY.  The deadline and
\* the retry loop hand the record they listed to _escalate_message.
DeadlineItem ==
    /\ ses[DeadlineLoop].pc = "next"
    /\ \E m \in Listed(DeadlineLoop) :
          Escalate(DeadlineLoop, m, ses[DeadlineLoop].batch[m])
    /\ UNCHANGED <<storeVars, attempts, accepted, elapsed, failures>>

FallbackItem ==
    /\ ses[FallbackLoop].pc = "next"
    /\ \E m \in Listed(FallbackLoop) : Begin(FallbackLoop, "attempt_fallback", m)
    /\ UNCHANGED <<storeVars, attempts, accepted, elapsed, failures>>

RetryItem ==
    /\ ses[RetryLoop].pc = "next"
    /\ \E m \in Listed(RetryLoop) :
          LET record == ses[RetryLoop].batch[m]
          IN  IF record.current_state = "QUEUED"
              THEN Begin(RetryLoop, "attempt_delivery", m)
              ELSE Escalate(RetryLoop, m, record)
    /\ UNCHANGED <<storeVars, attempts, accepted, elapsed, failures>>

-----------------------------------------------------------------------------
\* A step of the handler session s is in
Handle(s) ==
    /\ \/ ProcessNewMessage(s)
       \/ AttemptDelivery(s)
       \/ AttemptFallback(s)
       \/ AcknowledgeMessage(s)
       \/ Refetch(s)
       \/ Flush(s)
       \/ SendPrimary(s)
       \/ \E channel \in Channels :
             /\ SendFallback(s, channel)
             /\ s \notin Retriers => channel = policy[ses[s].msg].fallback
    /\ UNCHANGED <<elapsed, failures>>

\* Mutant: a pass of a loop ends without its commit.
CommitOfRequests(s) ==
    /\ ses[s].pc = "next"
    /\ Listed(s) = {}
    /\ IF s \in Loops THEN UNCHANGED storeVars ELSE CommitTransaction(s)
    /\ Goto(s, IF s \in Loops THEN "idle" ELSE "done")
    /\ UNCHANGED <<attempts, accepted, elapsed, failures>>

\* Mutant: an administrator's session goes on to another message uncommitted.
CommitLater(s) ==
    /\ ses[s].pc = "next"
    /\ Listed(s) = {}
    /\ \/ CommitTransaction(s) /\ Goto(s, IF s \in Loops THEN "idle" ELSE "done")
       \/ s \in Escalators /\ UNCHANGED storeVars /\ Goto(s, "idle")
    /\ UNCHANGED <<attempts, accepted, elapsed, failures>>

\* session.commit at the end of a request or of a pass of a loop
Commit(s) ==
    /\ ses[s].pc = "next"
    /\ Listed(s) = {}
    /\ CommitTransaction(s)
    /\ Goto(s, IF s \in Loops THEN "idle" ELSE "done")
    /\ UNCHANGED <<attempts, accepted, elapsed, failures>>

\* A timer runs out.  An acknowledgement deadline is looked at only while the
\* message is in SENT_TO_CHANNEL, so running out before counts from there.
RunOut(m, k) ==
    /\ ~Due(m, k)
    /\ elapsed' = elapsed \cup {<<m, k>>}

Elapse(m) ==
    /\ \/ /\ row[m].current_state = "SENT_TO_CHANNEL"
          /\ RunOut(m, 0)
       \/ /\ row[m].current_state = "ESCALATION_DEFERRED"
          /\ row[m].next_retry_at # None
          /\ RunOut(m, row[m].next_retry_at)
    /\ UNCHANGED <<storeVars, processorVars, failures>>

-----------------------------------------------------------------------------
Running(s) == ses[s].pc \notin {"idle", "done"}

\* Mutant: a failed session goes on without its rollback.
AbortWithoutRollback(S) ==
    /\ ses' = [s \in Sessions |->
                 IF s \in S /\ Running(s)
                 THEN Fresh(IF s \in Loops THEN "idle" ELSE "done")
                 ELSE ses[s]]
    /\ UNCHANGED <<storeVars, attempts, accepted, elapsed>>

\* The transactions of S are rolled back.  A request among them is answered
\* with an error, or never; a loop goes on with its next pass.
Abort(S) ==
    /\ RollbackTransactions(S)
    /\ ses' = [s \in Sessions |->
                 IF s \in S /\ Running(s)
                 THEN Fresh(IF s \in Loops THEN "idle" ELSE "done")
                 ELSE ses[s]]
    /\ UNCHANGED <<attempts, accepted, elapsed>>

\* An exception leaves a handler: the database or a channel raised it.
SessionError(s) ==
    /\ failures < MaxFailures
    /\ Running(s)
    /\ Abort({s})
    /\ failures' = failures + 1

\* The process dies, or shuts down under its sessions, and starts again.
Crash ==
    /\ failures < MaxFailures
    /\ \E s \in Sessions : Running(s)
    /\ Abort(Sessions)
    /\ failures' = failures + 1

\* s waits for a row lock that t holds.
WaitsFor(s, t) ==
    /\ ses[s].pc = "flush"
    /\ t # s
    /\ lock[ses[s].msg] = t

\* s is on a cycle of sessions waiting for each other.
Deadlocked(s) ==
    \E S \in SUBSET Sessions :
        /\ s \in S
        /\ \A t \in S : /\ \E u \in S : WaitsFor(t, u)
                        /\ \E u \in S : WaitsFor(u, t)

\* PostgreSQL ends a deadlock by failing one of its statements.
DeadlockVictim(s) ==
    /\ \E t \in Sessions : WaitsFor(s, t)
    /\ Deadlocked(s)
    /\ Abort({s})
    /\ UNCHANGED failures

-----------------------------------------------------------------------------
\* Everything is at rest: the loops poll and find nothing.
IdlePass ==
    /\ \A s \in Sessions : ~Running(s)
    /\ UNCHANGED vars

Arrive ==
    \/ \E c \in Creators : Create(c)
    \/ \E a \in Ackers : Acknowledge(a)
    \/ \E e \in Escalators : ManualEscalate(e)
    \/ \E r \in Retriers : RetryFallback(r)

Pass ==
    \/ DeadlineScan
    \/ DeadlineItem
    \/ FallbackScan
    \/ FallbackItem
    \/ RetryScan
    \/ RetryItem

Next ==
    \/ Arrive
    \/ \E c \in Creators : Insert(c)
    \/ Pass
    \/ \E s \in Sessions : Handle(s)
    \/ \E s \in Sessions : Commit(s)
    \/ \E m \in Messages : Elapse(m)
    \/ \E s \in Sessions : SessionError(s)
    \/ Crash
    \/ \E s \in Sessions : DeadlockVictim(s)
    \/ IdlePass

Spec == Init /\ [][Next]_vars

\* What the deployment guarantees: the event loop runs every session that can
\* go on (a channel's send returns), the loops poll again and again, time
\* passes, PostgreSQL resolves deadlocks.  A handler's step is strongly fair
\* because of its UPDATE: a session that waits for a row is queued, and gets it
\* although others lock it in the meantime.  Nothing makes a request arrive or
\* a failure happen.
Fairness ==
    /\ \A c \in Creators : WF_vars(Insert(c))
    /\ WF_vars(DeadlineScan) /\ WF_vars(DeadlineItem)
    /\ WF_vars(FallbackScan) /\ WF_vars(FallbackItem)
    /\ WF_vars(RetryScan) /\ WF_vars(RetryItem)
    /\ \A s \in Sessions : /\ SF_vars(Handle(s))
                           /\ WF_vars(Commit(s))
                           /\ WF_vars(DeadlockVictim(s))
    /\ \A m \in Messages : WF_vars(Elapse(m))

FairSpec == Spec /\ Fairness
=============================================================================
