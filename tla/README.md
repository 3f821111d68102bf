# The messaging gateway in TLA+

Specifications of the Resilient Hybrid Messaging Gateway (RHMG): what happens to
a message between HTTP requests, the scheduler's loops, PostgreSQL and the
channels. `PROJECT.json` maps every definition to the lines it models; this file
says how the parts fit, what has been checked, what has been proved and what is
left. Paths are relative to the repository; `app/` stands for `src/app/`.

## The system

| Component | State | Operations | Correct when |
|---|---|---|---|
| State machine (`app/domain/message_state.py`, `state_machine.py`) | none | `transition_state`, `apply_transition` | committed states move along its table |
| Retry policy (`app/domain/retry_policy.py`) | none | `should_retry`, `next_retry_at` | retries are bounded, backoffs respected |
| Tables and repository (`app/infrastructure/models.py`, `app/repositories/`) | `messages` | `create`, `get_by_*`, `update`, three list queries | one row per idempotency key, no update is lost |
| Event recorder (`app/workers/events.py`) | `message_events` | `record` | the trail explains every row |
| Processor (`app/workers/processor.py`) | the record in memory | process, deliver, acknowledge, escalate, attempt fallback | resting states only are committed; nothing is called delivered that is not; nothing is given up too early |
| Message routes (`app/api/routes/messages.py`, `app/services/`) | one database session per request | submit, acknowledge, get | every request is answered, a submission is processed |
| Admin routes (`app/api/routes/admin.py`) | as above | escalate, retry fallback, lists, statistics | an intervention does no harm |
| Scheduler (`app/workers/scheduler.py`) | `running`, three tasks, one session per pass | start, stop; deadline, fallback and retry pass | overdue and deferred messages go on, escalations conclude, in time; nothing but the shutdown ends a loop |
| Channels (`app/channels/`) | the registry | `get`, `send` | external |
| Database engine (`app/infrastructure/database.py`) | connection pool | session per request or pass | locks and connections are given back |
| Application (`app/main.py`) | scheduler task | start, shutdown | shutdown ends and leaves nobody at work |
| Metrics, health (`app/observability/`, `app/api/routes/health.py`) | none | counts | the counts of a report agree as far as they can |
| Schemas, configuration, logging, Redis client, migrations | - | - | not about messages |

Requests and passes share nothing but the database. Each works in a transaction
of its own and awaits the database and the channel many times in it, and
whatever it has read may be out of date when it writes. What makes the system
hard:

* `MessageRepository.update` writes a record read earlier over a row that is
  locked only by the UPDATE itself. The transition was validated against the
  state that was read. The UPDATE sets only the columns that differ from a
  second SELECT, so rows can mix the columns of two handlers.
* the deadline loop, the retry loop and the administrator's escalation hand on a
  record listed or checked earlier;
* a pass handles many messages in one transaction: it locks their rows one after
  the other, keeps them over the calls of the channels, and one exception rolls
  all of it back, also what a channel has already accepted;
* a submission takes two transactions; a crash between them leaves a PENDING row;
* two submissions with one key race through lookup, insert and processing;
* every transaction takes a connection of a bounded pool and keeps it while it
  waits for a row lock or for a channel, and a channel has no timeout; most requests
  need two connections, one after the other;
* a backoff begins before the call it is counted from, and a pass that fails is made
  again a whole interval later;
* the shutdown comes at any moment, also before the scheduler has started, and
  after five seconds it cancels whatever the loops are doing;
* a report takes up to eighteen SELECTs, between which messages move.

`PROJECT.json` lists these hazards line by line with the properties meant to
catch them.

## The modules

    MessageState    RetryPolicy ----- RetryTiming     (real time; with MessageState)
          \            /
        MessageStore                      tables, transactions, row locks
               |
        MessageProcessor                  handlers, split at their awaits
               |
            Gateway --------- Metrics     requests, loops, time, failures; reports
               |            \
        GatewayProperties -- MessageLifecycle   properties; abstract specification
               |         \
        GatewayInvariants  ConnectionPool       inductive invariants; the bounded pool
            /        \          /    |
      MCGateway    GatewayProofs    |           TLC instances; TLAPS proofs
            \        |       \       |
     MCConnectionPool|      ConnectionPoolProofs
                     |
        DeliveryProofs                          keys, calls, messages given up
        AuditProofs                             the trail
        SchedulerAloneProofs -- Metrics, Sums   the scheduler alone, reports on it

      RetryTiming -- MCRetryTiming, RetryTimingProofs -- Sums
      Lifespan -- MCLifespan, LifespanProofs    startup and shutdown

`MCMetrics` instantiates `Metrics`. `Sums` relates the sum of a function over a set
to the size of a set; only proofs use it.

**MessageState** has `_VALID_TRANSITIONS` as a set of pairs. `Transient` names the
three states that exist only inside a transaction.

**MessageStore** is PostgreSQL at READ COMMITTED as the repository uses it. `row`
is the committed version of each message, `lock` the session whose transaction has
updated it, `dirty` that session's version, `events` and `pending` the committed
and uncommitted event types. `View` is a SELECT. `Written` is the UPDATE SQLAlchemy
emits: sessions keep ORM objects only by weak references, so the SELECT of
`update()` loads the row afresh, and the flush sets the columns that the record
changes, the others staying as they are when the UPDATE gets the lock.
`updated_at` always changes, so there always is an UPDATE and the lock is always
taken.

**MessageProcessor** keeps per session, in `ses`, the handler it is in, the
message, the record in memory, the row loaded by `update()` and the records of the
pass not yet handled. A handler runs as

    read --> refetch --> flush --> send --> next
    (get_by_id, (update:    (update:     (channel, later
     transition) SELECT)     UPDATE,       updates, events)
                             event)

with other sessions between the steps. After `flush` the row is locked, nobody
else can change it, and the rest of the handler is one step: later updates load
the session's own version, so they leave the row equal to the record
(`Save`). `attempts` and `accepted` record what the channels were asked and what
they reported, and whether a fallback was ever attempted on a channel the registry lacks
(`"unavailable"`: it calls nothing); no handler reads them.

**Gateway** adds the requests (`Create`, `Insert`, `Acknowledge`, `ManualEscalate`,
`RetryFallback`), the loops (`*Scan` is the query, `*Item` one turn of the loop
body), `Commit`, the timers (`Elapse`), and the failures: an exception in any
session (`SessionError`), the death of the process (`Crash`, which no code of the
repository handles), and PostgreSQL failing one session of a waiting cycle
(`DeadlockVictim`). All three end in `Abort`: rollback, the request answered with an error, the loop back at its sleep.

**MessageLifecycle** is the abstract specification: the states a client can see,
one move per message and step, retries counted up to `max_retries`.

**ConnectionPool** is the gateway on its pool. Each action of `Gateway` is
conjoined with what it does to the connections: a step that executes a statement
needs one (`Executes`), keeps it while the transaction goes on (`Within`) or gives
it back (`Ends`). A submission gives its connection back between its two
transactions; a request that acknowledges, escalates or retries commits and then
reads its answer in a new transaction (`answering`, `Reread`, `Respond`). Either may
wait in vain for that second connection (`PoolTimeout`): its client has an error,
though what it committed stays. GET requests come and go (`ReadBegins`, `ReadEnds`)
and may have the whole pool in use. `FallSilent` makes the send of a channel that is
registered one that never returns. That `ConnectionPool` implements `Gateway` is
proved, so every safety property of `Gateway` holds on a pool of any size.

**Lifespan** is three layers of tasks: the lifespan of the application waits for
the task that runs `start()`, which gathers the loops, each of which opens a
session per pass. A pass ends in its commit, or in an exception whose rollback may
raise another one (`PassCommits`, `PassFails`, `Rollback`); that one leaves the pass
and is caught by the loop (`Caught`). What else matters is which await is where when
the `CancelledError` comes: a sleep catches it and the loop ends, a pass does not
(`CancelledError` is no `Exception`), the close of a session is shielded, `start()`
catches it (`Cancelled`, `StartReturns`). Opening a session executes nothing and
closing one is taken not to raise.

**Metrics** adds one report to `Gateway`: its endpoint determines a sequence of
queries, and each `Count` is the answer to the next one at that moment.

**RetryTiming** is the escalation of one message in real time. A tick is a second;
a loop sleeps for its interval, lists the message or not, and commits at the end of
its pass, or fails and rolls it back (`PassFails`). An attempt at the fallback has two
steps: it takes the time its backoff will count from (`BeginFallback`) and, after an
update and an event that may wait, calls the channel (`CallFallback`). It starts when
the acknowledgement deadline passes, with the loops in any phase, for a message with
a fallback channel or one without, which `_escalate_message` leaves as it is.

### Abstractions

* Columns no handler branches on are left out. The events of a message are a set
  of types: their order and multiplicity are not kept.
* A policy is its primary and its first fallback channel; the loops never use
  another.
* Time, in `Gateway`, is a set of timers that have run out. The acknowledgement
  deadline is looked at only in SENT_TO_CHANNEL, so it runs out from there; the wait
  for retry *k* runs out once, so a second deferral with the same *k* (possible only
  when sessions overwrite each other's `retry_count`) may be due at once.
  `RetryTiming` has seconds instead, and one message.
* A request is served once and never repeated by itself; the number of requests
  of each kind is a constant of the run. A channel's send reports success or
  failure, raises (`SessionError`), or, in `ConnectionPool`, never returns.
* A session that waits in vain for its very first connection is a request that has
  not arrived: it has read and written nothing. A pass that does is one that has not
  begun. The pre-ping of a connection is part of taking it.
* Of the 24 hours of `/metrics` only which messages are recent is kept
  (`Recent`); the average latency is left out, its query is not.
* The read-only endpoints that are one SELECT are left out; so is the second
  existence check of the routes (messages are never deleted).
* The QUEUED branch of the retry loop (`app/workers/scheduler.py:175`) is
  modelled, and never taken: QUEUED is never committed.

## What TLC checks

Runs check for deadlock unless a channel may stay silent (`failures`, `liveness`):
then the system may really stop, everyone behind the silent send. The policies are
those the request schema admits.

| Run | Instance | Properties |
|---|---|---|
| `core_safety` | 1 message; one submission, acknowledgement, escalation and retry; one channel the registry lacks | `TypeOK` `DurableResting` `AuditTrail` `NoPhantomDelivery` `FallbackAfterEscalation` `NotGivenUpEarly` |
| `failures` | 2 submissions with one key, one acknowledgement and manual retry; pool of 2, 1 failure, 1 silent send; only telegram registered, every policy | `OneMessagePerKey` `AuditTrail` `NoPhantomDelivery` `LocksHeldByWork` |
| `scheduler_alone` | 2 messages with keys of their own, 1 failure, no other request | `FallbackCallsCounted` `ImplementsLifecycle` |
| `deadlocks` | 2 messages, 2 escalations | `RequestsNeverDeadlock` |
| `liveness` | 1 message, 1 escalation; pool of 2 with up to 2 GET requests, 1 failure, 1 silent send, fair | `EscalationConcludes` `OverdueIsEscalated` `RequestsAreAnswered` `LocksAreReleased` |
| `shutdown` | 3 loops whose passes commit, fail or never end, shutdown at any moment, fair | `LoopsSurvive` `QuietWhenClosing` `ShutdownEnds` |
| `metrics` | 1 message, 1 failure, 1 report | `FinalCountsGrow` `MissedOnlyInRetry` `UnhealthyIsStable` |
| `retry_timing` | default intervals and policy, passes of up to 1 s, 1 failing pass, with and without fallback | `BackoffRespected` `ResolvedInTime` |

`core_safety` (about 1.3 million states) is the central one: every kind of request
and every loop can hold a record of the same message, so each order of reads and
overwrites that the seven sessions can produce is explored, and the administrator may retry on a
channel that is not configured (`processor.py:319`). One message is
enough there because handlers of different messages meet only in a pass; what
passes add (several locks, one rollback for all) is explored with two messages in
`scheduler_alone` and `deadlocks`. Two rows and two administrators are the least
that let two loops wait for each other: each must list both rows, the second
after others have moved them on.

`failures` adds what can go wrong to two submissions, an acknowledgement and a manual
retry; the manual escalation, whose stale record `core_safety` explores, is left out,
since the instance with it is beyond five minutes. One
failure at any step suffices to separate a row from its events or a lock from its
work. Two identifiers are enough for two submissions: without the unique index both
would be used. A pool of two is the smallest in which one session holds a lock and
another waits for it; with seven sessions, five can be waiting for the pool.
Identifiers and the two submissions are interchangeable, hence the symmetry.

`liveness` has five sessions and two GET requests on two connections, so that the
pool can be full for everyone: for a submission before its INSERT and between its
transactions, for the administrator before reading the answer, for a loop in front of
its query. The run would fail without the timeout of the pool.

`shutdown` has all of `Lifespan`: any loop may fail any number of times before, while
and after the shutdown comes.

`metrics` has one message because its properties compare counts, and a message
counted once too often or too seldom shows with one; a query is a sum over
messages.

`retry_timing` shows two things. A backoff is respected up to the length of a pass:
`next_retry_at` counts from the beginning of the attempt (`processor.py:302`), before
an update that may wait for a row and before the call (331), so the retry may come that
much sooner after the call; that the failure is committed late takes nothing more from
it. And the time to resolve a message that has a fallback is bounded by rounds of the
loops (`ResolutionTime`), and one more round for each pass that fails. A message
without a fallback has no bound: it is never resolved, which `overdue_without_fallback`
shows. With the default intervals the fallback loop's own sleep of 15 s is longer than
the backoff of 10 to 11 s; as `max_retries` 2 allows a single retry, neither the doubling
nor the cap of the backoff is ever used.

`MaxFailures`, `MaxSilent`, `MaxReading` and `MaxPass` are the only bounds, and they
bound the environment; `retry_count` is bounded by the code where the property says so.
In `retry_timing` a pass takes at most a second and one pass fails, which keeps the run
at six million states: each step of a pass can come before or after that second, so an
attempt can wait before its call as well as after it. The theorems hold for passes of
any length and any number of failures.

The lifecycle, the count of fallback calls and the properties of reports are
promised only while the scheduler works alone (`SchedulerAlone`: no acknowledgement,
no request of an administrator, no two submissions with one key): stale records of requests break
them, as the findings show. Likewise `EscalationConcludes` and
`OverdueIsEscalated` hold with a single manual escalation, and are refuted with
acknowledgements or manual retries added: an escalation that overlaps another one
and two fallback attempts can leave a deferred message without a time for its
retry (`app/repositories/message_repository.py:112`).

Fairness: `asyncio` runs every session that can go on, the loops poll for ever,
time passes, PostgreSQL resolves deadlocks and the pool gives up on a waiter, so
the steps of sessions and timers are weakly fair. `Handle` is strongly fair for one
reason: a session waiting for a row lock is disabled again and again while others
hold the row, and PostgreSQL grants row locks in order of arrival. In
`ConnectionPool` whatever a session does by itself is strongly fair, as one condition
per session (`GoesOn`), for the same reason: the pool is a queue, too. A GET request
gives its connection back. In `Lifespan` the event loop runs every task that
can go on and the timeout strikes, but only until the lifespan is over: then the server
leaves its event loop, and what is left may never run. The end of a pass or of its
rollback is not fair, since a channel or the database may never answer. Requests,
failures, silence and the shutdown are never fair: nothing makes them happen.

### What the repository says and the program does not do

| Run | Refuted statement | What happens |
|---|---|---|
| `overdue_without_fallback` | overdue messages are escalated or dead-lettered (`app/workers/processor.py:183`) | without fallback the dead-letter transition is refused; the message is listed for ever |
| `abandoned_pending` | messages stuck in intermediate states are polled (`app/workers/scheduler.py:6`) | PENDING is not |
| `lost_acknowledgement` | late acknowledgements are kept as facts (`app/domain/message_state.py:67`) | a stale record writes NULL over the timestamp |
| `key_sent_twice` | idempotent submission (`src/README.md:12`) | a repetition that finds PENDING sends again |

Others have no run, because one call shows them or because they come with the same
stale record as `lost_acknowledgement`:

* A transition is validated against the state the handler has read, not the one it
  overwrites, so a row can leave a terminal state: an escalation is committed over
  ACKNOWLEDGED, a late acknowledgement commits the PENDING it has read over
  ESCALATION_PENDING (`message_repository.py:102`; `src/README.md:40` says that every
  transition is validated). In the same way stale retry columns leave a deferred
  message without a `next_retry_at`, and no loop lists it
  (`message_repository.py:112`; `app/workers/scheduler.py:148`).
* `attempt_fallback` counts the initial attempt before it asks `should_retry`
  (`app/workers/processor.py:370`), so a message is dead after two calls of its
  fallback, one retry: `src/README.md:211` promises two retries, and `max_retries` is
  "Maximum number of retry attempts after the initial attempt"
  (`app/domain/retry_policy.py:18`). `NotGivenUpEarly` therefore says what the code
  does, that death needs two calls, and is no statement that two are enough.
* `PRIMARY_RETRY_POLICY` is not used: a failed primary send is final
  (`processor.py:178`), against the "up to 3 retries" of `src/README.md:210`. That the
  primary channel is called no more often than the message is submitted
  (`SendsWithinSubmissions`) is for that reason not listed among the properties; it is
  proved as a fact about the code. A message whose primary channel is not registered
  fails without a look at its fallback (`processor.py:106`).
* An administrator's retry on a channel that is not registered dead-letters the message
  although its own fallback has retries left (`app/api/routes/admin.py:241`,
  `processor.py:319`).
* `acknowledge_message` does not consult `can_record_acknowledgement`
  (`processor.py:229`).
* The event of a send is lost with the transaction when the process dies after the
  channel has accepted the message (`processor.py:115`), against
  `app/workers/events.py:14`.
* The response to a submission shows the record as it was created
  (`app/api/routes/messages.py:31`).
* The answer to an acknowledgement, an escalation or a retry is read in a transaction
  after the commit (`messages.py:64`, `admin.py:198`, `249`): when the pool is full the
  client has an error for what has been done.
* `start()` swallows its cancellation, so `wait_for` never raises `TimeoutError` and
  `scheduler_task.cancel()` (`app/main.py:34`) is never called. `gather` is done as
  soon as one loop is cancelled, so a session of another one may still be closing
  when `engine.dispose()` runs, and an exception of `redis_client.aclose()` skips
  it, against the docstring of `lifespan` (`main.py:18`).
* The "snapshot" of `/metrics` (`app/observability/metrics.py:22`) does not add up:
  its counts are taken one after the other.
* The loops run every 10, 15 and 20 seconds, not 10, 20 and 30
  (`scheduler.py:30-32`); the jitter is added after the cap, so a delay can exceed
  `max_backoff_seconds` (`retry_policy.py:59-65`).
* `GET /admin/messages/{id}/events` promises all events and returns the oldest 50
  unless asked for more (`app/api/routes/admin.py:90`); the median latency is never
  computed (`metrics.py:38`).

## What is proved

Proved with TLAPS, for all sets of messages, keys, channels, policies and requests
and any bound on failures:

| Module | Theorem | States |
|---|---|---|
| `GatewayProofs` | `TypeCorrect`, `TypesHold` | `Spec => []TypeInv`, `Spec => []TypeOK` |
| | `RestingIsDurable` | `Spec => []DurableResting` |
| | `LocksAreHeldByWork` | `Spec => []LocksHeldByWork` |
| | `NoRequestDeadlocks` | `Spec => []RequestsNeverDeadlock` |
| `DeliveryProofs` | `KeysAreUnique` | `Spec => []OneMessagePerKey` |
| | `SendsBounded` | `Spec => []SendsWithinSubmissions` |
| | `GivenUpOnlyAfterCalls` | `Spec => []NotGivenUpEarly` |
| `AuditProofs` | `TrailIsComplete` | `Spec => []AuditTrail` |
| | `DeliveriesAreReal` | `Spec => []NoPhantomDelivery` |
| | `FallbacksAreEscalated` | `Spec => []FallbackAfterEscalation` |
| `ConnectionPoolProofs` | `PoolImplementsGateway` | `PoolSpec => Spec` |
| `LifespanProofs` | `ShutdownIsQuiet` | `Spec => []QuietWhenClosing` |
| | `SchedulerSurvives` | `Spec => []LoopsSurvive` |
| `SchedulerAloneProofs` | `LoneCorrect` | `Spec => []LoneInv` (*) |
| | `CallsAccountedFor` | `Spec => []FallbackCallsCounted` (*) |
| | `LifecycleImplemented` | `Spec => ImplementsLifecycle` (*) |
| | `FinalCountsOutgrown` | `MetricsSpec => []FinalCountsGrow` (*) |
| | `MissedAreRetried` | `MetricsSpec => []MissedOnlyInRetry` (*) |
| | `UnhealthyStays` | `MetricsSpec => []UnhealthyIsStable` (*) |
| `RetryTimingProofs` | `RetriesWait` | `TimingSpec => BackoffRespected` |
| | `EscalationEndsInTime` | `TimingSpec => []ResolvedInTime` |

(*) under the hypothesis `SchedulerAlone`, a condition on the constants only: the sets
of acknowledgers, escalators and retriers are empty, and submissions repeat no key.
Without it stale records break them, as said above.

The assumptions are those of `Gateway`: requests of different kinds and the three
loops are different sessions, `None` is nothing else, keys and policies have their
types, registered channels are channels. Where something is counted it is finite:
the submissions of a behaviour (`SubmissionsAssumption`, for `SendsBounded`) and the
messages (`MetricsAssumption`, for the reports). `TimingAssumption` takes loops to be
three tasks with intervals of at least a second, and retry policies to be natural
numbers with at least one retry; that a backoff is a number is part of it because
the provers know nothing of powers.

*Types.* `TypeInv` strengthens `TypeOK` by `HandlersHaveMessage`: without it a step
of a handler might use a message that is not there. A row lemma types each pure
operator (`Written`, `Then`, both outcomes), and one lemma types each helper that
moves a session.

*Resting states.* That no transient state is committed is not inductive: `Commit`
copies the session's version, so one must know that a session at its commit has no
transient version, hence where one can be. `DurableInv` follows it: a row locked in
a transient state is its session's current message, on the way from QUEUED to
SENDING or at the send (`UnsettledInHand`); a session at its send holds that lock,
in the state its handler aims at (`SendersHold`); the record it is going to write
is settled or that state (`RecordsAim`), the row `update()` has loaded is settled or
the session's own QUEUED (`LoadedSettled`), so that the UPDATE really changes the
state; listed records are settled (`BatchesSettled`); and sessions at rest hold
nothing (`RestingHoldNothing`). Four lemmas carry the steps: `GoDurable` (the store
stays as it is), `WriteDurable` (one row is written), `FreshDurable` (a session
without locks) and `EndDurable` (transactions end); the actions are instances of
them.

*Deadlocks.* A request holds at most the row it works on (`RequestsHoldOneRow`). So
one that waits, at its flush, for a row of another session holds none that
another session waits for, and is on no cycle.

*Keys.* The index is checked at the INSERT only, so that keys stay unique rests on
what never happens to a stored row: no version in hand would delete it, and nobody
locks, handles or lists a message that is not stored (`KeyInv`).

*The trail.* A row is explained when the events it owes are committed and the
channels have said what it says they said. Every version of a row must be
explained: the committed one, the uncommitted one together with its session's
uncommitted events, and the records in hand, to which the handler will add its own
event (`RecordExplained`). The UPDATE is the hard case: it mixes the columns of the
record with those of a row that others have moved on, and each column brings its
own debt, so what is owed by the mixture is owed by one of the two
(`ExplainedInv`). A pass handles a message once (`HandledOnce`), so what a fallback
attempt reads of its message is committed, and so is the escalation it rests on
(`RestsOnEscalation`).

*Calls of the primary channel.* No row says how often the channel was called: a crash
or a rollback takes the state back to PENDING, and a repeated submission sends once
more. So the calls are charged to submissions (`SendInv`): a message with a key has
had at most as many calls as submissions of that key are past their call
(`Callers`), and whoever is on the way to one is a submission that is not yet among
them (`SubmissionsDeliver`). A message without a key is in the hands of one
submission only, the one that inserted it (`DeliveredOnce`).

*Giving up.* `retry_count` is written over by stale records, so it may count fewer
calls than were made. It never counts more (`Counted`), which is what giving up
needs: a message that is dead after `max_retries` counted calls has had them. The
calls only grow, so a record that is right stays right however long it is held
(`StaysRight`). An attempt at the message on a channel that is not registered makes it
dead without a call; it is recorded as such in the same step, for this message, and
that record stays as well.

*The pool.* `PoolImplementsGateway`: every action of `ConnectionPool` is an action of
`Gateway` with a condition on connections, or changes none of the variables of
`Gateway`. The theorems above carry over.

*The shutdown.* `LifespanProofs` proves `ShutdownIsQuiet`
(`Spec => []QuietWhenClosing`) and `SchedulerSurvives` (`Spec => []LoopsSurvive`) for
any set of loops. `LoopsSurvive` rests on the handlers: every way a pass can end, its
failing rollback included, leads back to the sleep, and only `running` or a
cancellation, both of which the shutdown alone brings, lead out of the loop.
`QuietWhenClosing` is not inductive: one must know that `running`
is FALSE when the last loop has ended by itself (`Stopping`), that the timeout
leaves no loop that could work (`Stopped`), and that before its first step the
scheduler has no loops at all (`Serving`).

*The scheduler alone.* `LoneInv` says that nothing is stale. The loops list disjoint
states, and a submission has its own message: so the committed state of a message
determines which session may have it in hand (`Responsibilities`), no two have
(`Undivided`), and what the one has read is what is committed, but for the steps it
has taken itself (`HandlerCurrent`, `BatchCurrent`). Then an open version is a
successor of the row it will be committed over (`VersionsSucceed`, `Succeeds`), which
gives the refinement: `RowsSucceed` says that a step leaves each row as it is or moves
it on, and the steps of `Lifecycle!Next` are such moves, of many messages at once when
a pass commits. Rows are `Regular`; and a call of the fallback channel is counted in
the row, in the open version of it, or was rolled back by a failure (`CallsCounted`),
which gives `FallbackCallsCounted` where no version is open. That a submission has its own
message needs the keys: whoever brought the key of a stored message is past its
lookup (`KeysUsed`), so no other submission finds it. `AdvanceAlone` carries every
step of one session within its transaction, `EndAlone` those that end transactions;
the actions are instances of the two.

*The reports.* A report counts what no single state of the system contains, so its
invariants relate each count to the messages as they are now. What is failed or dead
stays so: such a count never exceeds what is stored, nor a later count of the same
states (`ReportInv`). For the total (`TotalInv`): after *n* queries the total is at
most the sum of the counts by state so far plus the number of messages that are still
ahead, in a state the loop over `MessageState` has not reached, or in retry (`Ahead`).
Every move of the lifecycle goes to a state later in the enumeration, except one:
ESCALATION_DEFERRED, the last, back to ESCALATION_PENDING, and a message there has a
`retry_count` above zero. When the report is complete, only those in retry are ahead.

*Real time.* Of the three loops at most the one responsible for the state is busy with
the message (`EscalationInv`), and what it will save follows from what it has listed.
While an attempt is between its beginning and its call, the seconds since it began are
at most those of its pass; so when a retry is taken up, all of the backoff has passed
since the attempt began and all but `MaxPass` of it since the call.
For the time to resolve, `OnTime` bounds `overdue` plus the time left (`TimeLeft`) by
`ResolutionTime` and a `LongestRound` for each failure: the time left is what the
current loop may still need for its sleep and passes, the backoff that remains, and the
rounds of the retries to come. A tick takes a second of it, a failing pass gives the
loop at most another round, and no other step adds to it.

*Sums.* Both `messages_by_state` and `ResolutionTime` are sums over sets, and
`MapThenSumSet` picks the elements in an order that nothing is known of. Induction
over data is not at hand, but the strict subset ordering of a finite set is well
founded: a minimal subset on which the sum is not the number of points under the
function contradicts itself without the element picked first (`SumsToSize`).
Afterwards sums are sizes of sets, which the theorems on finite sets
can add and compare.

TLC has checked these invariants before they were proved: `DurableInv` and
`RequestsHoldOneRow` on the instances of `failures`, `scheduler_alone` and
`deadlocks`, `KeyInv`, `ExplainedInv` and `RightInv` on those of `core_safety`,
`failures` and `scheduler_alone`, `SendInv` on those of `failures` and
`scheduler_alone`, `LoneInv` on `scheduler_alone`, `ReportInv` and `TotalInv` on
`metrics`, `EscalationInv` and `OnTime` on `retry_timing`, the invariants of
`LifespanProofs` on `shutdown`.

Every safety property that a passing run checks is proved. Only model-checked is what
needs fairness, which with ENABLED is beyond the prover: `EscalationConcludes`,
`OverdueIsEscalated`, `RequestsAreAnswered`, `LocksAreReleased` and `ShutdownEnds`. That
`SchedulerAlone` is needed is an observation of TLC, too. The other way round,
`core_safety` has no failure: that errors and crashes commit no transient state, call
no fallback before its escalation and give nothing up too early is shown by the
theorems alone.

## Not modelled

* The admin key, the list of messages and of events, the pings of `/ready`: single
  reads that change nothing.
* Schemas and response formatting, configuration, logging, migrations: no state of
  a message. (The context variables of the logging middleware are set and reset
  within one request, and nothing reads them but a formatter.)
* The Redis client: created and closed, never used for a message.
* What the Telegram stub computes from a recipient: its result is a free choice.

## Plan

Done: every module above, the runs, and the theorems listed.

Next, proofs:

1. The safety half of the liveness properties: that a session at work always has a
   step that would end its work, or waits for a lock or a connection that another one
   holds, as invariants (`RequestsAreAnswered`, `LocksAreReleased`), and that after the
   timeout of the shutdown every await on its way is one that returns
   (`ShutdownEnds`).
2. `LoneInv` for the gateway on its pool, as a corollary of `PoolImplementsGateway`,
   with the refinement of `MessageLifecycle` stated for `PoolSpec`.
