--------------------------- MODULE ConnectionPool ---------------------------
(***************************************************************************)
(* The gateway on its connection pool (app/infrastructure/database.py), and *)
(* channels that may never answer (channel.send is awaited without a        *)
(* timeout).                                                                *)
(*                                                                         *)
(* A session takes a connection for the first statement of a transaction   *)
(* and gives it back when the transaction ends; it keeps it while it waits *)
(* for a row lock or for a channel.  When all are taken the session waits, *)
(* a request for at most pool_timeout.  The routes that acknowledge,        *)
(* escalate and retry read the message once more after their commit, in a  *)
(* transaction of its own.  Requests that only read (the GET routes) take   *)
(* and give back connections all the time.                                 *)
(***************************************************************************)
EXTENDS GatewayProperties

CONSTANTS
    PoolCapacity,  \* db_pool_size and the pool's overflow
    MaxSilent,     \* bound: sends that never return, at a time
    MaxReading     \* bound: GET requests at a time

ASSUME PoolAssumption ==
    PoolCapacity \in Nat \ {0} /\ MaxSilent \in Nat /\ MaxReading \in Nat

VARIABLES
    connected,     \* sessions that hold a connection
    refused,       \* requests that have waited for one in vain: their clients
                   \* have an error, their sessions take no further step
    answering,     \* requests that have committed and not read their answer
    silent,        \* sessions at a send that does not return
    reading        \* connections held by GET requests

poolVars == <<vars, connected, refused, answering, silent, reading>>

PoolTypeOK ==
    /\ TypeOK
    /\ connected \in SUBSET Sessions
    /\ refused \in SUBSET Requests
    /\ answering \in SUBSET Requests
    /\ silent \in SUBSET Sessions
    /\ reading \in Nat

PoolInit ==
    /\ Init
    /\ connected = {}
    /\ refused = {}
    /\ answering = {}
    /\ silent = {}
    /\ reading = 0

-----------------------------------------------------------------------------
Full == Cardinality(connected) + reading >= PoolCapacity

\* A step of session s that executes a statement needs a connection.
Executes(s) ==
    /\ s \notin refused \cup silent
    /\ s \in connected \/ ~Full
    /\ UNCHANGED <<refused, silent, reading>>

\* ... within a transaction that goes on as long as the session is at work,
Within(s) ==
    /\ Executes(s)
    /\ connected' = IF Running(s)' THEN connected \cup {s} ELSE connected \ {s}
    /\ UNCHANGED answering

\* ... or as the last one of its transaction.
Ends(s) ==
    /\ Executes(s)
    /\ connected' = connected \ {s}

\* A request without a key makes no query before its INSERT.  The transaction
\* that finds the message of a key is committed before the message is processed.
PooledCreate(c) ==
    /\ Create(c)
    /\ IF KeyOf[c] = None
       THEN c \notin refused /\ UNCHANGED <<connected, refused, answering, silent, reading>>
       ELSE IF ses'[c].pc = "insert" THEN Within(c)
                                      ELSE Ends(c) /\ UNCHANGED answering

PooledInsert(c) == Insert(c) /\ Ends(c) /\ UNCHANGED answering

PooledRequest(s) ==
    /\ \/ s \in Ackers /\ Acknowledge(s)
       \/ s \in Escalators /\ ManualEscalate(s)
       \/ s \in Retriers /\ RetryFallback(s)
    /\ Within(s)

PooledDeadlinePass == (DeadlineScan \/ DeadlineItem) /\ Within(DeadlineLoop)
PooledFallbackPass == (FallbackScan \/ FallbackItem) /\ Within(FallbackLoop)
PooledRetryPass == (RetryScan \/ RetryItem) /\ Within(RetryLoop)

PooledHandle(s) == Handle(s) /\ Within(s)

\* The commit gives the connection back; a submission is answered with it.
PooledCommit(s) ==
    /\ Commit(s)
    /\ Ends(s)
    /\ answering' = IF s \in Requests \ Creators THEN answering \cup {s} ELSE answering

\* A request reads the message it has committed, and answers with it or, if the
\* read fails, with an error.
Reread(s) ==
    /\ s \in answering \ connected
    /\ ~Full
    /\ connected' = connected \cup {s}
    /\ UNCHANGED <<vars, refused, answering, silent, reading>>

Respond(s) ==
    /\ s \in answering \cap connected
    /\ connected' = connected \ {s}
    /\ answering' = answering \ {s}
    /\ UNCHANGED <<vars, refused, silent, reading>>

\* A session that fails closes its transaction.
PooledError(s) ==
    /\ s \notin refused \cup silent
    /\ SessionError(s) \/ DeadlockVictim(s)
    /\ connected' = connected \ {s}
    /\ UNCHANGED <<refused, answering, silent, reading>>

\* A restarted process has a new pool, and has forgotten its sends and the
\* requests it has not answered.
PooledCrash ==
    /\ Crash
    /\ connected' = {}
    /\ answering' = {}
    /\ silent' = {}
    /\ reading' = 0
    /\ UNCHANGED refused

\* Mutant: only submissions give up waiting.
PoolTimeoutOfSubmissions(s) ==
    /\ Running(s)
    /\ s \notin connected \cup refused
    /\ Full
    /\ refused' = refused \cup {s}
    /\ UNCHANGED <<vars, connected, answering, silent, reading>>

\* A request that waits for a connection gives up: a submission before its
\* INSERT or between its two transactions, any other before it reads its answer.
\* (One that gives up on its very first statement is a request that has not
\* arrived.)
PoolTimeout(s) ==
    /\ Running(s) \/ s \in answering
    /\ s \notin connected \cup refused
    /\ Full
    /\ refused' = refused \cup {s}
    /\ answering' = answering \ {s}
    /\ UNCHANGED <<vars, connected, silent, reading>>

\* The channels that the send of session s may call
Called(s) ==
    LET m == ses[s].msg
    IN  Registered \cap CASE ses[s].op = "attempt_delivery" -> {policy[m].primary}
                          [] s \in Retriers -> Channels
                          [] OTHER -> {policy[m].fallback}

\* The send of session s will not return.
FallSilent(s) ==
    /\ ses[s].pc = "send"
    /\ Called(s) # {}
    /\ s \notin silent
    /\ Cardinality(silent) < MaxSilent
    /\ silent' = silent \cup {s}
    /\ UNCHANGED <<vars, connected, refused, answering, reading>>

\* A GET request takes a connection, and gives it back with its answer.
ReadBegins ==
    /\ ~Full
    /\ reading < MaxReading
    /\ reading' = reading + 1
    /\ UNCHANGED <<vars, connected, refused, answering, silent>>

ReadEnds ==
    /\ reading > 0
    /\ reading' = reading - 1
    /\ UNCHANGED <<vars, connected, refused, answering, silent>>

PooledElapse(m) == Elapse(m) /\ UNCHANGED <<connected, refused, answering, silent, reading>>

PoolNext ==
    \/ \E c \in Creators : PooledCreate(c) \/ PooledInsert(c)
    \/ \E s \in Requests : \/ PooledRequest(s)
                           \/ Reread(s)
                           \/ Respond(s)
                           \/ PoolTimeout(s)
    \/ PooledDeadlinePass
    \/ PooledFallbackPass
    \/ PooledRetryPass
    \/ \E s \in Sessions : \/ PooledHandle(s)
                           \/ PooledCommit(s)
                           \/ PooledError(s)
                           \/ FallSilent(s)
    \/ PooledCrash
    \/ ReadBegins
    \/ ReadEnds
    \/ \E m \in Messages : PooledElapse(m)

PoolSpec == PoolInit /\ [][PoolNext]_poolVars

\* What session s does by itself once its request has arrived or its loop polls
GoesOn(s) ==
    \/ s \in Creators /\ PooledInsert(s)
    \/ s \in Requests /\ (Reread(s) \/ Respond(s) \/ PoolTimeout(s))
    \/ s = DeadlineLoop /\ PooledDeadlinePass
    \/ s = FallbackLoop /\ PooledFallbackPass
    \/ s = RetryLoop /\ PooledRetryPass
    \/ PooledHandle(s)
    \/ PooledCommit(s)
    \/ DeadlockVictim(s) /\ PooledError(s)

\* The fairness of Gateway, in one condition per session.  A session that waits
\* for a row or for a connection is queued and gets it although others take it in
\* the meantime, or, a request and a connection, is timed out: it is strongly fair.
PoolFairness ==
    /\ \A s \in Sessions : SF_poolVars(GoesOn(s))
    /\ WF_poolVars(ReadEnds)
    /\ \A m \in Messages : WF_poolVars(PooledElapse(m))

PoolFairSpec == PoolSpec /\ PoolFairness

-----------------------------------------------------------------------------
\* The sessions that a silent channel holds up: its own, those that wait for a
\* row it has locked, and so on.
Behind(S) == S \cup {s \in Sessions : \E t \in S : WaitsFor(s, t)}

HeldUp == Behind(Behind(Behind(silent)))

\* A request that has arrived is answered, be it with an error, unless a silent
\* channel keeps its row: the pool alone, however small, delays nobody for ever,
\* neither between two transactions of a submission nor between the commit of a
\* request and the read of its answer.
RequestsAreAnswered ==
    \A s \in Requests :
        Running(s) ~> \/ ses[s].pc = "done" /\ s \notin answering
                      \/ s \in refused
                      \/ s \in HeldUp

\* A row lock is released again, whatever ends the work it was taken for,
\* unless its holder is held up by a silent channel.
LocksAreReleased ==
    \A m \in Messages :
        lock[m] # None ~> lock[m] = None \/ lock[m] \in HeldUp

\* Once escalated, a message ends delivered by its fallback, dead or
\* acknowledged, whatever the failures (of which there are finitely many),
\* unless a channel stays silent.
EscalationConcludes ==
    \A m \in Messages :
        InEscalation(m) ~> \/ Committed(m) \in {"FALLBACK_DELIVERED", "DEAD_LETTER",
                                                "ACKNOWLEDGED"}
                           \/ silent # {}

\* A message that is not acknowledged in time is escalated if it can be, unless
\* a channel stays silent.
OverdueIsEscalated ==
    \A m \in Messages :
        m \in Overdue /\ policy[m].fallback # None
            ~> \/ Committed(m) # "SENT_TO_CHANNEL"
               \/ row[m].acknowledged_at # None
               \/ silent # {}
=============================================================================
