---------------------------- MODULE MessageStore ----------------------------
(***************************************************************************)
(* The tables messages and message_events and the transactions on them, as *)
(* app/repositories/message_repository.py and app/workers/events.py use    *)
(* PostgreSQL at READ COMMITTED: a SELECT sees the last committed version  *)
(* of a row, or the session's own uncommitted one; an UPDATE takes the     *)
(* row's lock and holds it until commit or rollback, and blocks while      *)
(* another session holds it.                                               *)
(*                                                                         *)
(* Of the columns only those some handler branches on are kept.  The      *)
(* recorded events of a message are kept as the set of their types.        *)
(***************************************************************************)
EXTENDS Naturals, FiniteSets, MessageState

CONSTANTS
    Messages,   \* message ids (uuid4 values)
    Sessions,   \* database sessions: one per request, one per scheduler loop
    Keys,       \* idempotency keys
    Policies,   \* delivery policies a sender may ask for
    None        \* Python's None

VARIABLES
    row,        \* row[m]: committed version of message m
    key,        \* key[m]: its idempotency_key
    policy,     \* policy[m]: its primary and its first fallback channel
    events,     \* events[m]: types of the committed events of m
    lock,       \* lock[m]: session whose transaction has updated m, or None
    dirty,      \* dirty[m]: version of m written by that transaction
    pending     \* pending[m]: types of the events it has added for m

storeVars == <<row, key, policy, events, lock, dirty, pending>>

EventTypes ==
    {"queued", "sending", "send_attempt", "send_success", "send_failed",
     "ack_received", "escalation_triggered", "escalation_deferred",
     "fallback_attempt", "fallback_success", "dead_letter"}

\* acknowledged_at is named by the request that set it (two acknowledgements
\* have different timestamps), next_retry_at by the number of the retry it
\* schedules.
Row ==
    [current_state   : MessageStates \cup {"ABSENT"},
     acknowledged_at : Sessions \cup {None},
     retry_count     : Nat,
     next_retry_at   : Nat \cup {None}]

Blank ==
    [current_state |-> "ABSENT", acknowledged_at |-> None,
     retry_count |-> 0, next_retry_at |-> None]

NoPolicy == [primary |-> None, fallback |-> None]

Stored == {m \in Messages : row[m].current_state # "ABSENT"}

StoreTypeOK ==
    /\ row \in [Messages -> Row]
    /\ key \in [Messages -> Keys \cup {None}]
    /\ policy \in [Messages -> Policies \cup {NoPolicy}]
    /\ events \in [Messages -> SUBSET EventTypes]
    /\ lock \in [Messages -> Sessions \cup {None}]
    /\ dirty \in [Messages -> Row]
    /\ pending \in [Messages -> SUBSET EventTypes]

StoreInit ==
    /\ row = [m \in Messages |-> Blank]
    /\ key = [m \in Messages |-> None]
    /\ policy = [m \in Messages |-> NoPolicy]
    /\ events = [m \in Messages |-> {}]
    /\ lock = [m \in Messages |-> None]
    /\ dirty = [m \in Messages |-> Blank]
    /\ pending = [m \in Messages |-> {}]

-----------------------------------------------------------------------------
\* get_by_id: what a SELECT of row m returns to session s.
View(s, m) == IF lock[m] = s THEN dirty[m] ELSE row[m]

\* The UPDATE that update() flushes sets exactly the columns in which the
\* handler's record differs from the row update() has just loaded; the other
\* columns keep the value the row has when the UPDATE runs.
Changed(new, loaded, current) == IF new # loaded THEN new ELSE current

Written(record, loaded, current) ==
    [current_state   |-> Changed(record.current_state, loaded.current_state,
                                 current.current_state),
     acknowledged_at |-> Changed(record.acknowledged_at, loaded.acknowledged_at,
                                 current.acknowledged_at),
     retry_count     |-> Changed(record.retry_count, loaded.retry_count,
                                 current.retry_count),
     next_retry_at   |-> Changed(record.next_retry_at, loaded.next_retry_at,
                                 current.next_retry_at)]

\* Mutant: no unique index.
KeyTakenNever(k) == FALSE

\* create() and its commit.  The unique index refuses a second row with the
\* same key.
KeyTaken(k) == k # None /\ \E m \in Stored : key[m] = k

InsertRow(m, k, pol) ==
    /\ m \notin Stored
    /\ row' = [row EXCEPT ![m] = [Blank EXCEPT !.current_state = "PENDING"]]
    /\ key' = [key EXCEPT ![m] = k]
    /\ policy' = [policy EXCEPT ![m] = pol]
    /\ UNCHANGED <<events, lock, dirty, pending>>

\* The flush of update() followed by EventRecorder.record of facts.
WriteRow(s, m, version, facts) ==
    /\ lock[m] \in {None, s}
    /\ lock' = [lock EXCEPT ![m] = s]
    /\ dirty' = [dirty EXCEPT ![m] = version]
    /\ pending' = [pending EXCEPT ![m] = @ \cup facts]
    /\ UNCHANGED <<row, key, policy, events>>

\* Locks are released and the working copies dropped when a transaction ends.
EndTransactions(S) ==
    /\ lock' = [m \in Messages |-> IF lock[m] \in S THEN None ELSE lock[m]]
    /\ dirty' = [m \in Messages |-> IF lock[m] \in S THEN Blank ELSE dirty[m]]
    /\ pending' = [m \in Messages |-> IF lock[m] \in S THEN {} ELSE pending[m]]
    /\ UNCHANGED <<key, policy>>

CommitTransaction(s) ==
    /\ row' = [m \in Messages |-> IF lock[m] = s THEN dirty[m] ELSE row[m]]
    /\ events' = [m \in Messages |->
                    IF lock[m] = s THEN events[m] \cup pending[m] ELSE events[m]]
    /\ EndTransactions({s})

\* Mutant: rows survive the rollback that drops the events.
RollbackEventsOnly(S) ==
    /\ EndTransactions(S)
    /\ row' = [m \in Messages |-> IF lock[m] \in S THEN dirty[m] ELSE row[m]]
    /\ UNCHANGED events

RollbackTransactions(S) ==
    /\ EndTransactions(S)
    /\ UNCHANGED <<row, events>>
=============================================================================
