----------------------------- MODULE RetryTiming -----------------------------
(***************************************************************************)
(* The escalation of one message that nobody acknowledges, in real time:   *)
(* the loops of app/workers/scheduler.py with their intervals, and the     *)
(* backoff of app/domain/retry_policy.py.  Seconds pass one at a time; a    *)
(* loop sleeps its interval out and then makes a pass, in which it lists    *)
(* the message or not, handles it, and commits at the end or fails.  Other *)
(* messages, row locks and the channels take part of the pass, MaxPass      *)
(* seconds at most in all.  A behaviour begins when the acknowledgement     *)
(* deadline of the message passes, each loop anywhere in its round.  The    *)
(* message has a registered fallback channel, or it has none at all.        *)
(***************************************************************************)
EXTENDS Integers, FiniteSetsExt, MessageState, RetryPolicy

CONSTANTS
    DeadlineLoop,   \* _deadline_check_loop
    FallbackLoop,   \* _fallback_attempt_loop
    RetryLoop,      \* _retry_check_loop
    Interval,       \* Interval[l]: seconds loop l sleeps between its passes
    Policy,         \* the retry policy of fallback channels
    MaxPass,        \* bound: seconds a pass takes
    MaxFailures     \* bound: passes that fail

Loops == {DeadlineLoop, FallbackLoop, RetryLoop}

\* The three loops are tasks of their own, and no backoff is negative.
ASSUME TimingAssumption ==
    /\ DeadlineLoop # FallbackLoop /\ DeadlineLoop # RetryLoop /\ FallbackLoop # RetryLoop
    /\ Interval \in [Loops -> Nat \ {0}]
    /\ MaxPass \in Nat
    /\ MaxFailures \in Nat
    /\ Policy \in [max_retries : Nat \ {0}, initial_backoff : Nat, max_backoff : Nat]
    /\ \A n \in 0 .. Policy.max_retries - 1 : Policy.initial_backoff * 2 ^ n \in Nat

VARIABLES
    current_state, retry_count,   \* the committed record
    retry_in,       \* seconds until its next_retry_at, 0 when it has come
    loop,           \* loop[l]: asleep or in a pass, and the message in it
    since,          \* seconds since the last call of the fallback channel
    overdue,        \* seconds since the acknowledgement deadline
    failures,       \* passes that have failed
    has_fallback    \* the policy of the message names a fallback channel

timingVars == <<current_state, retry_count, retry_in, loop, since, overdue,
                failures, has_fallback>>

\* clock   seconds until a sleeping loop wakes up, or since a pass began
\* listed  the pass has listed the message and not handled it yet
\* begun   the pass is in attempt_fallback, before it calls the channel
\* saved   the records it has saved and not committed, <<state, retries>>
Idle(pc, seconds) ==
    [pc |-> pc, clock |-> seconds, listed |-> FALSE, begun |-> FALSE, saved |-> {}]

Asleep(seconds) == Idle("asleep", seconds)

InPass(seconds) == Idle("pass", seconds)

LoopState == [pc : {"asleep", "pass"}, clock : Nat, listed : BOOLEAN, begun : BOOLEAN,
              saved : SUBSET (MessageStates \X Nat)]

TimingTypeOK ==
    /\ current_state \in MessageStates
    /\ retry_count \in Nat /\ retry_in \in Nat /\ since \in Nat /\ overdue \in Nat
    /\ failures \in Nat /\ has_fallback \in BOOLEAN
    /\ loop \in [Loops -> LoopState]

TimingInit ==
    /\ current_state = "SENT_TO_CHANNEL"
    /\ retry_count = 0
    /\ retry_in = 0
    /\ loop \in [Loops -> {InPass(t) : t \in 0 .. MaxPass}
                            \cup {Asleep(t) : t \in 0 .. Max({Interval[l] : l \in Loops})}]
    /\ \A l \in Loops : loop[l].pc = "asleep" => loop[l].clock <= Interval[l]
    /\ since = 0
    /\ overdue = 0
    /\ failures = 0
    /\ has_fallback \in BOOLEAN

-----------------------------------------------------------------------------
\* Mutant: next_retry_at is not compared with the time.
DueAtAnyTime(l) ==
    CASE l = DeadlineLoop -> current_state = "SENT_TO_CHANNEL"
      [] l = FallbackLoop -> current_state = "ESCALATION_PENDING"
      [] l = RetryLoop    -> current_state = "ESCALATION_DEFERRED"

\* What the query of loop l selects.
Due(l) ==
    CASE l = DeadlineLoop -> current_state = "SENT_TO_CHANNEL"
      [] l = FallbackLoop -> current_state = "ESCALATION_PENDING"
      [] l = RetryLoop    -> current_state = "ESCALATION_DEFERRED" /\ retry_in = 0

\* A loop wakes up and lists the messages that are due.
Scan(l) ==
    /\ loop[l].pc = "asleep"
    /\ loop[l].clock = 0
    /\ loop' = [loop EXCEPT ![l] = [InPass(0) EXCEPT !.listed = Due(l)]]
    /\ UNCHANGED <<current_state, retry_count, retry_in, since, overdue,
                   failures, has_fallback>>

Save(l, state, retries) ==
    loop' = [loop EXCEPT ![l].listed = FALSE, ![l].begun = FALSE,
                         ![l].saved = {<<state, retries>>}]

\* _escalate_message, by the deadline loop and by the retry loop.  Without a
\* fallback channel the message should be dead, a transition its state refuses:
\* nothing is saved, and the next pass lists the message again.
Escalate(l) ==
    /\ l # FallbackLoop
    /\ loop[l].listed
    /\ IF has_fallback
       THEN Save(l, "ESCALATION_PENDING", retry_count)
       ELSE loop' = [loop EXCEPT ![l].listed = FALSE]
    /\ UNCHANGED <<current_state, retry_count, retry_in, since, overdue,
                   failures, has_fallback>>

\* Mutant: the backoff of the retry after the next.
BackoffsOfFailures(failed) == Delays(Policy, failed)

\* The backoff before the next retry: failed fallbacks include the one at hand.
Backoffs(failed) == Delays(Policy, failed - 1)

\* attempt_fallback begins.  The time it takes here is the one from which
\* next_retry_at will count if the call fails and a retry is left; the update and
\* the event before the call may wait, for a row lock or for the database.
BeginFallback ==
    /\ loop[FallbackLoop].listed
    /\ loop' = [loop EXCEPT ![FallbackLoop].listed = FALSE, ![FallbackLoop].begun = TRUE]
    /\ IF ShouldRetry(Policy, retry_count + 1)
       THEN retry_in' \in Backoffs(retry_count + 1)
       ELSE UNCHANGED retry_in
    /\ UNCHANGED <<current_state, retry_count, since, overdue, failures, has_fallback>>

\* It calls the channel and saves what becomes of the message.
CallFallback ==
    /\ loop[FallbackLoop].begun
    /\ since' = 0
    /\ \/ Save(FallbackLoop, "FALLBACK_DELIVERED", retry_count)
       \/ /\ ShouldRetry(Policy, retry_count + 1)
          /\ Save(FallbackLoop, "ESCALATION_DEFERRED", retry_count + 1)
       \/ /\ ~ShouldRetry(Policy, retry_count + 1)
          /\ Save(FallbackLoop, "DEAD_LETTER", retry_count + 1)
    /\ UNCHANGED <<current_state, retry_count, retry_in, overdue, failures, has_fallback>>

\* The pass commits, and the loop goes to sleep.
PassEnds(l) ==
    /\ loop[l].pc = "pass"
    /\ ~loop[l].listed /\ ~loop[l].begun
    /\ IF loop[l].saved = {}
       THEN UNCHANGED <<current_state, retry_count>>
       ELSE \E v \in loop[l].saved : current_state' = v[1] /\ retry_count' = v[2]
    /\ loop' = [loop EXCEPT ![l] = Asleep(Interval[l])]
    /\ UNCHANGED <<retry_in, since, overdue, failures, has_fallback>>

\* The pass fails: it is rolled back, whatever it has done and saved, and the
\* loop goes to sleep.
PassFails(l) ==
    /\ loop[l].pc = "pass"
    /\ failures < MaxFailures
    /\ failures' = failures + 1
    /\ loop' = [loop EXCEPT ![l] = Asleep(Interval[l])]
    /\ UNCHANGED <<current_state, retry_count, retry_in, since, overdue, has_fallback>>

Less(n) == IF n = 0 THEN 0 ELSE n - 1

\* A second passes: every loop that sleeps or works still has one to go.  The
\* seconds of a message without fallback are not counted.
Tick ==
    /\ \A l \in Loops : IF loop[l].pc = "asleep" THEN loop[l].clock > 0
                                                 ELSE loop[l].clock < MaxPass
    /\ loop' = [l \in Loops |->
                  [loop[l] EXCEPT !.clock = IF loop[l].pc = "asleep" THEN @ - 1
                                                                     ELSE @ + 1]]
    /\ retry_in' = Less(retry_in)
    /\ IF has_fallback THEN since' = since + 1 /\ overdue' = overdue + 1
                       ELSE UNCHANGED <<since, overdue>>
    /\ UNCHANGED <<current_state, retry_count, failures, has_fallback>>

Resolved == current_state \in {"FALLBACK_DELIVERED", "DEAD_LETTER"}

TimingNext ==
    \/ /\ ~Resolved
       /\ \/ \E l \in Loops : Scan(l) \/ Escalate(l) \/ PassEnds(l) \/ PassFails(l)
          \/ BeginFallback
          \/ CallFallback
          \/ Tick
    \/ Resolved /\ UNCHANGED timingVars

TimingSpec == TimingInit /\ [][TimingNext]_timingVars

-----------------------------------------------------------------------------
\* A deferred message is taken up again no sooner than its backoff after the
\* call of its fallback channel that failed, less what the attempt waited before
\* the call, which is part of a pass: whatever the phases of the loops, and however
\* late the failure was committed.
BackoffRespected ==
    [][current_state = "ESCALATION_DEFERRED" /\ current_state' # current_state =>
          since + MaxPass >= Min(Delays(Policy, retry_count - 1))]_timingVars

\* A loop comes round to a message in the time of a pass that just missed it, of
\* its sleep and of a pass.
Round(l) == MaxPass + Interval[l] + MaxPass

RetryRound(n) == Max(Delays(Policy, n)) + Round(RetryLoop) + Round(FallbackLoop)

ResolutionTime ==
    Round(DeadlineLoop) + Round(FallbackLoop)
        + MapThenSumSet(RetryRound, 0 .. Policy.max_retries - 2)

LongestRound == Max({Round(l) : l \in Loops})

\* From its deadline on a message with a fallback channel that is not acknowledged
\* is delivered by that channel or dead in a time that follows from intervals and
\* retry policy: each of its steps is taken by another loop, none of them waits
\* for more than a round of it, and a pass that fails costs another round.
ResolvedInTime ==
    has_fallback /\ ~Resolved => overdue <= ResolutionTime + failures * LongestRound
=============================================================================
