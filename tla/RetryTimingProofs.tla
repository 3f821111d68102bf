-------------------------- MODULE RetryTimingProofs --------------------------
(***************************************************************************)
(* Theorems about the escalation of one message in real time, for every     *)
(* interval of the loops, every retry policy, every length of a pass and    *)
(* every number of passes that fail.                                        *)
(***************************************************************************)
EXTENDS RetryTiming, Sums

-----------------------------------------------------------------------------
(* The backoff and the time of a retry                                      *)

\* Seconds that the retries to come after n failures may take
RetriesFrom(n) == MapThenSumSet(RetryRound, n .. Policy.max_retries - 2)

LEMMA DelaysBounds ==
    ASSUME NEW n \in 0 .. Policy.max_retries - 1
    PROVE  \E d, j \in Nat : /\ Delays(Policy, n) = d .. d + j
                             /\ Min(Delays(Policy, n)) = d
                             /\ Max(Delays(Policy, n)) = d + j
<1> DEFINE backoff == Policy.initial_backoff * 2 ^ n
           delay == IF backoff <= Policy.max_backoff THEN backoff ELSE Policy.max_backoff
<1>1. backoff \in Nat /\ Policy.max_backoff \in Nat
  BY TimingAssumption
<1>2. Delays(Policy, n) = delay .. delay + (delay \div 10)
  BY DEF Delays
<1> HIDE DEF backoff
<1>3. delay \in Nat
  BY <1>1
<1> HIDE DEF delay
<1>4. PICK j \in Nat : j = delay \div 10
  BY <1>3
<1>5. Min(delay .. delay + j) = delay /\ Max(delay .. delay + j) = delay + j
  BY <1>3, <1>4 DEF Min, Max
<1> QED BY <1>2, <1>3, <1>4, <1>5

LEMMA RoundType == \A l \in Loops : Round(l) \in Nat
BY TimingAssumption DEF Round

LEMMA RetryRoundType == \A n \in 0 .. Policy.max_retries - 1 : RetryRound(n) \in Nat
<1> SUFFICES ASSUME NEW n \in 0 .. Policy.max_retries - 1 PROVE RetryRound(n) \in Nat
  OBVIOUS
<1>1. Max(Delays(Policy, n)) \in Nat
  BY DelaysBounds
<1>2. Round(RetryLoop) \in Nat /\ Round(FallbackLoop) \in Nat
  BY RoundType DEF Loops
<1> QED BY <1>1, <1>2 DEF RetryRound

LEMMA RetriesFinite ==
    ASSUME NEW n \in 0 .. Policy.max_retries
    PROVE  LET S == n .. Policy.max_retries - 2
           IN  IsFiniteSet(S) /\ S \subseteq 0 .. Policy.max_retries - 1
<1>1. n \in Int /\ Policy.max_retries - 2 \in Int /\ Policy.max_retries \in Nat
  BY TimingAssumption
<1>2. IsFiniteSet(n .. Policy.max_retries - 2)
  BY <1>1, FS_Interval
<1> QED BY <1>1, <1>2

LEMMA RetriesFromSize ==
    ASSUME NEW n \in 0 .. Policy.max_retries
    PROVE  LET f == [i \in 0 .. Policy.max_retries - 1 |-> RetryRound(i)]
           IN  RetriesFrom(n) = Cardinality(Under(f, n .. Policy.max_retries - 2))
<1> DEFINE f == [i \in 0 .. Policy.max_retries - 1 |-> RetryRound(i)]
           S == n .. Policy.max_retries - 2
           body(it, s) == IF s = {} THEN 0 ELSE RetryRound(Pick(s)) + it[s \ {Pick(s)}]
           sum == CHOOSE it : it = [s \in SUBSET S |-> body(it, s)]
<1>1. IsFiniteSet(S) /\ S \subseteq 0 .. Policy.max_retries - 1
  BY RetriesFinite
<1>2. RetriesFrom(n) = sum[S]
  BY DEF RetriesFrom, MapThenSumSet, MapThenFoldSet, Pick
<1>3. \A x \in S : f[x] = RetryRound(x) /\ f[x] \in Nat
  BY <1>1, RetryRoundType
<1>4. \A it : Summing(it, f, S) <=> it = [s \in SUBSET S |-> body(it, s)]
  <2> SUFFICES ASSUME NEW it
               PROVE  [s \in SUBSET S |-> body(it, s)]
                        = [s \in SUBSET S |->
                             IF s = {} THEN 0 ELSE f[Pick(s)] + it[s \ {Pick(s)}]]
    BY DEF Summing
  <2>1. ASSUME NEW s \in SUBSET S, s # {} PROVE RetryRound(Pick(s)) = f[Pick(s)]
    BY <1>3, <2>1 DEF Pick
  <2> HIDE DEF f, S
  <2> QED BY <2>1
<1> HIDE DEF f, S
<1>5. \E it : Summing(it, f, S)
  BY <1>1, <1>3, SummingExists
<1>6. Summing(sum, f, S)
  <2> HIDE DEF body
  <2> QED BY <1>4, <1>5
<1>7. sum[S] = Cardinality(Under(f, S))
  <2> HIDE DEF sum
  <2> QED BY <1>1, <1>3, <1>6, SumsToSize
<1> QED BY <1>2, <1>7 DEF f, S

LEMMA RetriesFromType ==
    ASSUME NEW n \in 0 .. Policy.max_retries
    PROVE  RetriesFrom(n) \in Nat
<1> DEFINE f == [i \in 0 .. Policy.max_retries - 1 |-> RetryRound(i)]
           S == n .. Policy.max_retries - 2
<1>1. IsFiniteSet(S) /\ S \subseteq 0 .. Policy.max_retries - 1
  BY RetriesFinite
<1>2. \A x \in S : f[x] \in Nat
  BY <1>1, RetryRoundType
<1>3. RetriesFrom(n) = Cardinality(Under(f, S))
  BY RetriesFromSize
<1> HIDE DEF f, S
<1> QED BY <1>1, <1>2, <1>3, UnderFinite

LEMMA RetriesFromAdds ==
    ASSUME NEW n \in 0 .. Policy.max_retries - 2
    PROVE  RetriesFrom(n) = RetryRound(n) + RetriesFrom(n + 1)
<1> DEFINE f == [i \in 0 .. Policy.max_retries - 1 |-> RetryRound(i)]
           S == n .. Policy.max_retries - 2
           R == n + 1 .. Policy.max_retries - 2
<1>1. /\ IsFiniteSet(S) /\ S \subseteq 0 .. Policy.max_retries - 1
      /\ n \in S /\ S \ {n} = R /\ IsFiniteSet(R)
      /\ n \in 0 .. Policy.max_retries /\ n + 1 \in 0 .. Policy.max_retries
  <2>1. Policy.max_retries \in Nat
    BY TimingAssumption
  <2>2. /\ n \in 0 .. Policy.max_retries /\ n + 1 \in 0 .. Policy.max_retries
        /\ n \in S /\ S \ {n} = R
    BY <2>1
  <2> QED BY <2>2, RetriesFinite
<1>2. (\A x \in S : f[x] \in Nat) /\ f[n] = RetryRound(n)
  BY <1>1, RetryRoundType
<1>3. /\ RetriesFrom(n) = Cardinality(Under(f, S))
      /\ RetriesFrom(n + 1) = Cardinality(Under(f, R))
  BY <1>1, RetriesFromSize
<1> HIDE DEF f, S, R
<1>4. \A x \in R : f[x] \in Nat
  BY <1>1, <1>2
<1>5. IsFiniteSet(Under(f, S \ {n}))
  BY <1>1, <1>4, UnderFinite
<1>6. Cardinality(Under(f, S)) = f[n] + Cardinality(Under(f, S \ {n}))
  BY <1>1, <1>2, <1>5, UnderAdds
<1> QED BY <1>1, <1>2, <1>3, <1>6

-----------------------------------------------------------------------------
(* The invariant                                                            *)

\* The loop works on the message: has listed it, is in attempt_fallback with it, or
\* has saved a record of it.
Busy(l) == loop[l].listed \/ loop[l].begun \/ loop[l].saved # {}

LoopInv(l) ==
    /\ loop[l].pc = "asleep" => loop[l].clock <= Interval[l] /\ ~Busy(l)
    /\ loop[l].pc = "pass" => loop[l].clock <= MaxPass
    /\ loop[l].listed => loop[l].saved = {} /\ ~loop[l].begun
    /\ loop[l].begun => l = FallbackLoop /\ loop[l].saved = {}
    /\ Busy(l) => Due(l)

\* The message has been deferred after n failures before, and the backoff drawn
\* then counts from the beginning of the attempt, a pass before the call at most.
BackoffDrawn(n) ==
    /\ n \in 0 .. Policy.max_retries - 2
    /\ since + MaxPass + retry_in >= Min(Delays(Policy, n))
    /\ retry_in <= Max(Delays(Policy, n))

\* The attempt after n failures has begun: its backoff counts since then.
BackoffBegun(n) ==
    /\ loop[FallbackLoop].clock + retry_in >= Min(Delays(Policy, n))
    /\ retry_in <= Max(Delays(Policy, n))

\* Without a fallback channel the message stays as it is.
FallbackInv ==
    ~has_fallback => /\ current_state = "SENT_TO_CHANNEL"
                     /\ \A l \in Loops : loop[l].saved = {} /\ ~loop[l].begun

\* The committed record, and what a loop that is busy may have saved over it
EscalationInv ==
    /\ \A l \in Loops : LoopInv(l)
    /\ FallbackInv
    /\ \/ current_state = "SENT_TO_CHANNEL" /\ retry_count = 0
       \/ current_state = "ESCALATION_PENDING" /\ retry_count < Policy.max_retries
       \/ /\ current_state = "ESCALATION_DEFERRED" /\ retry_count > 0
          /\ BackoffDrawn(retry_count - 1)
       \/ Resolved
    /\ \A l \in {DeadlineLoop, RetryLoop} :
          loop[l].saved \subseteq {<<"ESCALATION_PENDING", retry_count>>}
    /\ loop[FallbackLoop].begun /\ ShouldRetry(Policy, retry_count + 1)
          => BackoffBegun(retry_count)
    /\ \A v \in loop[FallbackLoop].saved :
          \/ v[1] \in {"FALLBACK_DELIVERED", "DEAD_LETTER"}
          \/ v = <<"ESCALATION_DEFERRED", retry_count + 1>> /\ BackoffDrawn(retry_count)

\* Seconds that loop l may still take to commit a message that is due
Left(l) ==
    IF loop[l].pc = "asleep" THEN loop[l].clock + MaxPass
    ELSE IF Busy(l) THEN MaxPass - loop[l].clock
    ELSE MaxPass - loop[l].clock + Interval[l] + MaxPass

\* Seconds that the escalation may still take
TimeLeft ==
    CASE current_state = "SENT_TO_CHANNEL" ->
            Left(DeadlineLoop) + Round(FallbackLoop) + RetriesFrom(0)
      [] current_state = "ESCALATION_PENDING" ->
            Left(FallbackLoop) + RetriesFrom(retry_count)
      [] current_state = "ESCALATION_DEFERRED" ->
            (IF retry_in = 0 THEN Left(RetryLoop) ELSE retry_in + Round(RetryLoop))
               + Round(FallbackLoop) + RetriesFrom(retry_count)
      [] OTHER -> 0

OnTime ==
    has_fallback /\ ~Resolved
        => overdue + TimeLeft <= ResolutionTime + failures * LongestRound

LEMMA ThreeLoops ==
    /\ DeadlineLoop \in Loops /\ FallbackLoop \in Loops /\ RetryLoop \in Loops
    /\ Due(DeadlineLoop) <=> current_state = "SENT_TO_CHANNEL"
    /\ Due(FallbackLoop) <=> current_state = "ESCALATION_PENDING"
    /\ Due(RetryLoop) <=> current_state = "ESCALATION_DEFERRED" /\ retry_in = 0
    /\ \A l \in Loops : Due(l) \in BOOLEAN
BY TimingAssumption DEF Loops, Due

\* The message is due for one loop, so one loop at most is busy with it.
LEMMA OneBusy ==
    ASSUME EscalationInv, NEW l \in Loops, NEW k \in Loops, Busy(l), Busy(k)
    PROVE  l = k
<1>1. Due(l) /\ Due(k)
  BY DEF EscalationInv, LoopInv
<1> QED BY <1>1, ThreeLoops DEF Loops

LEMMA BackoffsType ==
    ASSUME NEW n \in Nat, ShouldRetry(Policy, n + 1)
    PROVE  /\ n \in 0 .. Policy.max_retries - 2
           /\ \A t \in Backoffs(n + 1) :
                 /\ t \in Nat
                 /\ Min(Delays(Policy, n)) <= t /\ t <= Max(Delays(Policy, n))
<1>1. n \in 0 .. Policy.max_retries - 2 /\ n \in 0 .. Policy.max_retries - 1
  BY TimingAssumption DEF ShouldRetry
<1>2. Backoffs(n + 1) = Delays(Policy, n)
  <2>1. n + 1 - 1 = n
    OBVIOUS
  <2> QED BY <2>1 DEF Backoffs
<1>3. PICK d \in Nat, j \in Nat : /\ Delays(Policy, n) = d .. d + j
                                  /\ Min(Delays(Policy, n)) = d
                                  /\ Max(Delays(Policy, n)) = d + j
  BY <1>1, DelaysBounds
<1> QED BY <1>1, <1>2, <1>3

LEMMA SaveType ==
    ASSUME TimingTypeOK, NEW l \in Loops, NEW state \in MessageStates, NEW n \in Nat,
           Save(l, state, n)
    PROVE  loop' \in [Loops -> LoopState]
<1>1. {<<state, n>>} \in SUBSET (MessageStates \X Nat)
  OBVIOUS
<1>2. PICK saved \in SUBSET (MessageStates \X Nat) : saved = {<<state, n>>}
  BY <1>1
<1>3. loop' = [loop EXCEPT ![l].listed = FALSE, ![l].begun = FALSE, ![l].saved = saved]
  BY <1>2 DEF Save
<1>4. loop \in [Loops -> LoopState]
  BY DEF TimingTypeOK, LoopState
<1>5. \A r \in LoopState :
         [r EXCEPT !.listed = FALSE, !.begun = FALSE, !.saved = saved] \in LoopState
  BY DEF LoopState
<1> QED BY <1>3, <1>4, <1>5

LEMMA SleepType ==
    ASSUME TimingTypeOK, NEW l \in Loops, loop' = [loop EXCEPT ![l] = Asleep(Interval[l])]
    PROVE  loop' \in [Loops -> LoopState]
<1>1. Asleep(Interval[l]) \in LoopState
  BY TimingAssumption DEF Asleep, Idle, LoopState
<1> HIDE DEF Asleep
<1> QED BY <1>1 DEF TimingTypeOK

LEMMA TimingTypeStep ==
    ASSUME TimingTypeOK, [TimingNext]_timingVars
    PROVE  TimingTypeOK'
<1>1. ASSUME NEW l \in Loops, Scan(l) PROVE TimingTypeOK'
  <2>1. [InPass(0) EXCEPT !.listed = Due(l)] \in LoopState
    BY ThreeLoops DEF InPass, Idle, LoopState
  <2>2. loop' \in [Loops -> LoopState]
    BY <1>1, <2>1 DEF Scan, TimingTypeOK, LoopState
  <2> QED BY <1>1, <2>2 DEF Scan, TimingTypeOK, LoopState
<1>2. ASSUME NEW l \in Loops, Escalate(l) PROVE TimingTypeOK'
  <2>1. CASE Save(l, "ESCALATION_PENDING", retry_count)
    <3>1. loop' \in [Loops -> LoopState]
      BY <2>1, SaveType DEF MessageStates, TimingTypeOK
    <3> QED BY <1>2, <3>1 DEF Escalate, TimingTypeOK, LoopState
  <2>2. CASE loop' = [loop EXCEPT ![l].listed = FALSE]
    <3>1. loop' \in [Loops -> LoopState]
      BY <2>2 DEF TimingTypeOK, LoopState
    <3> QED BY <1>2, <3>1 DEF Escalate, TimingTypeOK, LoopState
  <2> QED BY <1>2, <2>1, <2>2 DEF Escalate
<1>3. ASSUME NEW l \in Loops, PassEnds(l) PROVE TimingTypeOK'
  <2>1. loop' \in [Loops -> LoopState]
    BY <1>3, SleepType DEF PassEnds
  <2>2. loop[l].saved \subseteq MessageStates \X Nat
    BY DEF TimingTypeOK, LoopState
  <2>3. current_state' \in MessageStates /\ retry_count' \in Nat
    BY <1>3, <2>2 DEF PassEnds, TimingTypeOK
  <2> QED BY <1>3, <2>1, <2>3 DEF PassEnds, TimingTypeOK
<1>4. ASSUME NEW l \in Loops, PassFails(l) PROVE TimingTypeOK'
  <2>1. loop' \in [Loops -> LoopState]
    BY <1>4, SleepType DEF PassFails
  <2> QED BY <1>4, <2>1 DEF PassFails, TimingTypeOK
<1>5. CASE BeginFallback
  <2>1. retry_in' \in Nat
    BY <1>5, BackoffsType DEF BeginFallback, TimingTypeOK
  <2>2. loop' \in [Loops -> LoopState]
    BY <1>5, ThreeLoops DEF BeginFallback, TimingTypeOK, LoopState
  <2> QED BY <1>5, <2>1, <2>2 DEF BeginFallback, TimingTypeOK
<1>6. CASE CallFallback
  <2>1. \E state \in MessageStates : \E n \in Nat : Save(FallbackLoop, state, n)
    <3>1. /\ retry_count \in Nat /\ retry_count + 1 \in Nat
          /\ {"FALLBACK_DELIVERED", "ESCALATION_DEFERRED", "DEAD_LETTER"} \subseteq MessageStates
      BY DEF TimingTypeOK, MessageStates
    <3> QED BY <1>6, <3>1 DEF CallFallback
  <2>2. loop' \in [Loops -> LoopState]
    BY <2>1, SaveType, ThreeLoops
  <2> QED BY <1>6, <2>2 DEF CallFallback, TimingTypeOK, LoopState
<1>7. CASE Tick
  <2>1. loop' \in [Loops -> LoopState]
    BY <1>7 DEF Tick, TimingTypeOK, LoopState
  <2> QED BY <1>7, <2>1 DEF Tick, Less, TimingTypeOK
<1>8. CASE UNCHANGED timingVars
  BY <1>8 DEF timingVars, TimingTypeOK
<1> QED BY <1>1, <1>2, <1>3, <1>4, <1>5, <1>6, <1>7, <1>8 DEF TimingNext

LEMMA TimingTypeInit == TimingInit => TimingTypeOK
<1> SUFFICES ASSUME TimingInit PROVE TimingTypeOK
  OBVIOUS
<1>1. loop \in [Loops -> LoopState]
  <2>1. loop \in [Loops -> {InPass(t) : t \in 0 .. MaxPass}
                             \cup {Asleep(t) : t \in 0 .. Max({Interval[l] : l \in Loops})}]
    BY DEF TimingInit
  <2>2. \A t \in Nat : InPass(t) \in LoopState /\ Asleep(t) \in LoopState
    BY DEF InPass, Asleep, Idle, LoopState
  <2>3. (0 .. MaxPass) \subseteq Nat /\ \A limit : (0 .. limit) \subseteq Nat
    OBVIOUS
  <2>4. \A l \in Loops : loop[l] \in LoopState
    BY <2>1, <2>2, <2>3
  <2> QED BY <2>1, <2>4 DEF LoopState
<1> QED BY <1>1 DEF TimingInit, TimingTypeOK, MessageStates

-----------------------------------------------------------------------------
(* The record, and who works on it                                          *)

LEMMA EscalationScan ==
    ASSUME TimingTypeOK, EscalationInv, NEW l \in Loops, Scan(l)
    PROVE  EscalationInv'
<1>1. /\ loop'[l] = [InPass(0) EXCEPT !.listed = Due(l)]
      /\ \A k \in Loops \ {l} : loop'[k] = loop[k]
  BY DEF Scan, TimingTypeOK
<1>2. /\ loop'[l].pc = "pass" /\ loop'[l].clock = 0
      /\ loop'[l].listed = Due(l) /\ loop'[l].begun = FALSE /\ loop'[l].saved = {}
  BY <1>1 DEF InPass, Idle
<1>3. \A k \in Loops : Due(k)' = Due(k)
  BY DEF Scan, Due
<1>4. LoopInv(l)'
  BY <1>2, <1>3, TimingAssumption DEF LoopInv, Busy
<1>5. \A k \in Loops : LoopInv(k)'
  BY <1>1, <1>3, <1>4 DEF EscalationInv, LoopInv, Busy
<1>6. \A k \in Loops : /\ loop'[k].saved = loop[k].saved \/ loop'[k].saved = {}
                       /\ loop'[k].begun => loop[k].begun /\ loop'[k] = loop[k]
  BY <1>1, <1>2
<1>7. FallbackInv'
  BY <1>6 DEF Scan, EscalationInv, FallbackInv
<1> QED BY <1>5, <1>6, <1>7, ThreeLoops
        DEF Scan, EscalationInv, Resolved, BackoffDrawn, BackoffBegun

LEMMA EscalationEscalate ==
    ASSUME TimingTypeOK, EscalationInv, NEW l \in Loops, Escalate(l)
    PROVE  EscalationInv'
<1>1. /\ loop'[l].listed = FALSE /\ loop'[l].begun = FALSE
      /\ IF has_fallback THEN loop'[l].saved = {<<"ESCALATION_PENDING", retry_count>>}
                         ELSE loop'[l].saved = {}
      /\ loop'[l].pc = loop[l].pc /\ loop'[l].clock = loop[l].clock
      /\ \A k \in Loops \ {l} : loop'[k] = loop[k]
  BY DEF Escalate, Save, TimingTypeOK, LoopState, EscalationInv, LoopInv
<1>2. \A k \in Loops : Due(k)' = Due(k)
  BY DEF Escalate, Due
<1>3. LoopInv(l)'
  BY <1>1, <1>2 DEF Escalate, EscalationInv, LoopInv, Busy
<1>4. \A k \in Loops : LoopInv(k)'
  BY <1>1, <1>2, <1>3 DEF EscalationInv, LoopInv, Busy
<1>5. /\ loop'[FallbackLoop] = loop[FallbackLoop]
      /\ \A k \in {DeadlineLoop, RetryLoop} :
            loop'[k].saved \subseteq {<<"ESCALATION_PENDING", retry_count>>}
  BY <1>1, ThreeLoops DEF Escalate, EscalationInv
<1>6. FallbackInv'
  BY <1>1 DEF Escalate, EscalationInv, FallbackInv
<1> QED BY <1>4, <1>5, <1>6
        DEF Escalate, EscalationInv, Resolved, BackoffDrawn, BackoffBegun

LEMMA EscalationBegins ==
    ASSUME TimingTypeOK, EscalationInv, BeginFallback
    PROVE  EscalationInv'
<1>1. /\ loop'[FallbackLoop].listed = FALSE /\ loop'[FallbackLoop].begun = TRUE
      /\ loop'[FallbackLoop].pc = loop[FallbackLoop].pc
      /\ loop'[FallbackLoop].clock = loop[FallbackLoop].clock
      /\ loop'[FallbackLoop].saved = {}
      /\ \A k \in Loops \ {FallbackLoop} : loop'[k] = loop[k]
  BY ThreeLoops DEF BeginFallback, TimingTypeOK, LoopState, EscalationInv, LoopInv
<1>2. /\ Busy(FallbackLoop) /\ current_state = "ESCALATION_PENDING"
      /\ \A k \in Loops \ {FallbackLoop} : ~Busy(k)
  BY OneBusy, ThreeLoops DEF BeginFallback, EscalationInv, LoopInv, Busy
<1>3. retry_count \in Nat /\ retry_count < Policy.max_retries /\ has_fallback
  BY <1>2 DEF EscalationInv, FallbackInv, TimingTypeOK, Resolved
<1>4. /\ current_state' = current_state /\ retry_count' = retry_count
      /\ has_fallback' = has_fallback
  BY DEF BeginFallback
<1>5. ASSUME ShouldRetry(Policy, retry_count + 1)
      PROVE  BackoffBegun(retry_count)'
  <2>1. PICK d \in Nat, j \in Nat : /\ Min(Delays(Policy, retry_count)) = d
                                    /\ Max(Delays(Policy, retry_count)) = d + j
    <3>1. retry_count \in 0 .. Policy.max_retries - 1
      BY <1>3, TimingAssumption
    <3> QED BY <3>1, DelaysBounds
  <2>2. retry_in' \in Nat /\ d <= retry_in' /\ retry_in' <= d + j
    BY <1>3, <1>5, <2>1, BackoffsType DEF BeginFallback
  <2>3. loop[FallbackLoop].clock \in Nat
    BY ThreeLoops DEF TimingTypeOK, LoopState
  <2>4. /\ loop'[FallbackLoop].clock + retry_in' >= Min(Delays(Policy, retry_count))
        /\ retry_in' <= Max(Delays(Policy, retry_count))
    BY <1>1, <2>1, <2>2, <2>3
  <2> QED BY <1>4, <2>4 DEF BackoffBegun
<1>6. \A k \in Loops \ {FallbackLoop} : LoopInv(k)'
  BY <1>1, <1>2 DEF EscalationInv, LoopInv, Busy
<1>7. LoopInv(FallbackLoop)'
  BY <1>1, <1>2, <1>4, ThreeLoops DEF EscalationInv, LoopInv, Busy, Due
<1>8. FallbackInv'
  BY <1>3, <1>4 DEF FallbackInv
<1> QED BY <1>1, <1>2, <1>3, <1>4, <1>5, <1>6, <1>7, <1>8, ThreeLoops
        DEF EscalationInv, Busy, Resolved

LEMMA EscalationCalls ==
    ASSUME TimingTypeOK, EscalationInv, CallFallback
    PROVE  EscalationInv'
<1>1. /\ loop'[FallbackLoop].listed = FALSE /\ loop'[FallbackLoop].begun = FALSE
      /\ loop'[FallbackLoop].pc = loop[FallbackLoop].pc
      /\ loop'[FallbackLoop].clock = loop[FallbackLoop].clock
      /\ \A k \in Loops \ {FallbackLoop} : loop'[k] = loop[k]
  BY ThreeLoops DEF CallFallback, Save, TimingTypeOK, LoopState
<1>2. /\ Busy(FallbackLoop) /\ current_state = "ESCALATION_PENDING"
      /\ \A k \in Loops \ {FallbackLoop} : ~Busy(k)
  BY OneBusy, ThreeLoops DEF CallFallback, EscalationInv, LoopInv, Busy
<1>3. retry_count \in Nat /\ retry_count < Policy.max_retries /\ has_fallback
  BY <1>2 DEF EscalationInv, FallbackInv, TimingTypeOK, Resolved
<1>4. /\ current_state' = current_state /\ retry_count' = retry_count
      /\ retry_in' = retry_in /\ since' = 0 /\ has_fallback' = has_fallback
  BY DEF CallFallback
<1>5. \A v \in loop'[FallbackLoop].saved :
         \/ v[1] \in {"FALLBACK_DELIVERED", "DEAD_LETTER"}
         \/ v = <<"ESCALATION_DEFERRED", retry_count + 1>> /\ BackoffDrawn(retry_count)'
  <2>1. CASE loop'[FallbackLoop].saved = {<<"FALLBACK_DELIVERED", retry_count>>}
    BY <2>1
  <2>2. CASE loop'[FallbackLoop].saved = {<<"DEAD_LETTER", retry_count + 1>>}
    BY <2>2
  <2>3. CASE /\ loop'[FallbackLoop].saved = {<<"ESCALATION_DEFERRED", retry_count + 1>>}
             /\ ShouldRetry(Policy, retry_count + 1)
    <3>1. BackoffBegun(retry_count) /\ retry_count \in 0 .. Policy.max_retries - 2
      BY <1>3, <2>3, BackoffsType DEF CallFallback, EscalationInv
    <3>2. PICK d \in Nat, j \in Nat : /\ Min(Delays(Policy, retry_count)) = d
                                      /\ Max(Delays(Policy, retry_count)) = d + j
      <4>1. retry_count \in 0 .. Policy.max_retries - 1
        BY <1>3, TimingAssumption
      <4> QED BY <4>1, DelaysBounds
    <3>3. /\ loop[FallbackLoop].clock \in Nat /\ loop[FallbackLoop].clock <= MaxPass
          /\ retry_in \in Nat /\ MaxPass \in Nat
      BY <1>2, ThreeLoops, TimingAssumption
         DEF TimingTypeOK, LoopState, EscalationInv, LoopInv
    <3>4. loop[FallbackLoop].clock + retry_in >= d /\ retry_in <= d + j
      BY <3>1, <3>2 DEF BackoffBegun
    <3>5. 0 + MaxPass + retry_in >= Min(Delays(Policy, retry_count))
      BY <3>2, <3>3, <3>4
    <3>6. retry_in <= Max(Delays(Policy, retry_count))
      BY <3>2, <3>4
    <3>7. BackoffDrawn(retry_count)'
      BY <1>4, <3>1, <3>5, <3>6 DEF BackoffDrawn
    <3> QED BY <2>3, <3>7
  <2> QED BY <2>1, <2>2, <2>3, ThreeLoops DEF CallFallback, Save, TimingTypeOK, LoopState
<1>6. \A k \in Loops \ {FallbackLoop} : LoopInv(k)'
  BY <1>1, <1>2 DEF EscalationInv, LoopInv, Busy
<1>7. LoopInv(FallbackLoop)'
  BY <1>1, <1>2, <1>4, ThreeLoops DEF EscalationInv, LoopInv, Busy, Due
<1>8. FallbackInv'
  BY <1>3, <1>4 DEF FallbackInv
<1> QED BY <1>1, <1>2, <1>3, <1>4, <1>5, <1>6, <1>7, <1>8, ThreeLoops
        DEF EscalationInv, Busy, Resolved

\* A pass that fails leaves the record as it was, and nobody else's work.
LEMMA EscalationPassFails ==
    ASSUME TimingTypeOK, EscalationInv, NEW l \in Loops, PassFails(l)
    PROVE  EscalationInv'
<1>1. /\ loop'[l] = Asleep(Interval[l])
      /\ \A k \in Loops \ {l} : loop'[k] = loop[k]
  BY DEF PassFails, TimingTypeOK
<1>2. /\ loop'[l].pc = "asleep" /\ loop'[l].clock = Interval[l]
      /\ loop'[l].listed = FALSE /\ loop'[l].begun = FALSE /\ loop'[l].saved = {}
      /\ ~Busy(l)' /\ Interval[l] <= Interval[l]
  BY <1>1, TimingAssumption DEF Asleep, Idle, Busy
<1>3. /\ current_state' = current_state /\ retry_count' = retry_count
      /\ retry_in' = retry_in /\ since' = since /\ has_fallback' = has_fallback
  BY DEF PassFails
<1>4. \A k \in Loops : Due(k)' = Due(k)
  BY <1>3 DEF Due
<1>5. \A k \in Loops : LoopInv(k)'
  BY <1>1, <1>2, <1>4 DEF EscalationInv, LoopInv, Busy
<1>6. \A k \in Loops : loop'[k] = loop[k] \/ (loop'[k].saved = {} /\ ~loop'[k].begun)
  BY <1>1, <1>2
<1>7. FallbackInv'
  BY <1>3, <1>6 DEF EscalationInv, FallbackInv
<1> QED BY <1>3, <1>5, <1>6, <1>7, ThreeLoops
        DEF EscalationInv, Resolved, BackoffDrawn, BackoffBegun

\* Whoever commits a record was the only one busy with it.
LEMMA EscalationPassEnds ==
    ASSUME TimingTypeOK, EscalationInv, NEW l \in Loops, PassEnds(l)
    PROVE  EscalationInv'
<1>1. /\ loop'[l] = Asleep(Interval[l])
      /\ \A k \in Loops \ {l} : loop'[k] = loop[k]
  BY DEF PassEnds, TimingTypeOK
<1>2. /\ loop'[l].pc = "asleep" /\ loop'[l].clock = Interval[l]
      /\ loop'[l].listed = FALSE /\ loop'[l].begun = FALSE /\ loop'[l].saved = {}
      /\ ~Busy(l)' /\ Interval[l] <= Interval[l]
  BY <1>1, TimingAssumption DEF Asleep, Idle, Busy
<1>3. LoopInv(l)'
  BY <1>2 DEF LoopInv
<1>4. retry_in' = retry_in /\ since' = since /\ has_fallback' = has_fallback
  BY DEF PassEnds
<1>5. CASE loop[l].saved = {}
  <2>1. current_state' = current_state /\ retry_count' = retry_count
    BY <1>5 DEF PassEnds
  <2>2. \A k \in Loops : Due(k)' = Due(k)
    BY <1>4, <2>1 DEF Due
  <2>3. \A k \in Loops : LoopInv(k)'
    BY <1>1, <1>3, <2>2 DEF EscalationInv, LoopInv, Busy
  <2>4. \A k \in Loops : /\ loop'[k].saved = loop[k].saved
                         /\ loop'[k].begun => loop'[k] = loop[k]
    BY <1>1, <1>2, <1>5
  <2>5. FallbackInv'
    BY <1>4, <2>1, <2>4 DEF EscalationInv, FallbackInv
  <2> QED BY <1>4, <2>1, <2>3, <2>4, <2>5, ThreeLoops
          DEF EscalationInv, Resolved, BackoffDrawn, BackoffBegun
<1>6. CASE loop[l].saved # {}
  <2>1. Busy(l) /\ Due(l) /\ \A k \in Loops \ {l} : ~Busy(k)
    BY <1>6, OneBusy DEF EscalationInv, LoopInv, Busy
  <2>2. \A k \in Loops : ~Busy(k)'
    BY <1>1, <1>2, <2>1 DEF Busy
  <2>3. \A k \in Loops : LoopInv(k)'
    BY <1>1, <1>3, <2>2 DEF EscalationInv, LoopInv, Busy
  <2>4. \A k \in Loops : loop'[k].saved = {} /\ ~loop'[k].begun
    BY <2>2 DEF Busy
  <2>5. PICK v \in loop[l].saved : current_state' = v[1] /\ retry_count' = v[2]
    BY <1>6 DEF PassEnds
  <2>6. \/ current_state' = "ESCALATION_PENDING" /\ retry_count' < Policy.max_retries
        \/ /\ current_state' = "ESCALATION_DEFERRED" /\ retry_count' > 0
           /\ BackoffDrawn(retry_count - 1)'
        \/ Resolved'
    <3>1. CASE l = FallbackLoop
      <4>1. CASE v[1] \in {"FALLBACK_DELIVERED", "DEAD_LETTER"}
        BY <2>5, <4>1 DEF Resolved
      <4>2. CASE v = <<"ESCALATION_DEFERRED", retry_count + 1>> /\ BackoffDrawn(retry_count)
        <5>1. retry_count' = retry_count + 1 /\ current_state' = "ESCALATION_DEFERRED"
          BY <2>5, <4>2
        <5>2. retry_count' > 0 /\ retry_count' - 1 = retry_count
          BY <5>1 DEF TimingTypeOK
        <5> QED BY <1>4, <4>2, <5>1, <5>2 DEF BackoffDrawn
      <4> QED BY <2>5, <3>1, <4>1, <4>2 DEF EscalationInv
    <3>2. CASE l # FallbackLoop
      <4>1. v = <<"ESCALATION_PENDING", retry_count>>
        BY <2>5, <3>2 DEF EscalationInv, Loops
      <4>2. retry_count < Policy.max_retries
        <5>1. current_state \in {"SENT_TO_CHANNEL", "ESCALATION_DEFERRED"}
          BY <2>1, <3>2, ThreeLoops DEF Loops
        <5> QED BY <5>1, TimingAssumption
                DEF EscalationInv, BackoffDrawn, Resolved, TimingTypeOK
      <4> QED BY <2>5, <4>1, <4>2
    <3> QED BY <3>1, <3>2
  <2>7. FallbackInv'
    BY <1>4, <1>6 DEF EscalationInv, FallbackInv
  <2> QED BY <2>3, <2>4, <2>6, <2>7, ThreeLoops DEF EscalationInv
<1> QED BY <1>5, <1>6

LEMMA EscalationTick ==
    ASSUME TimingTypeOK, EscalationInv, Tick
    PROVE  EscalationInv'
<1>1. ASSUME NEW l \in Loops
      PROVE  /\ loop'[l].pc = loop[l].pc /\ loop'[l].listed = loop[l].listed
             /\ loop'[l].begun = loop[l].begun
             /\ loop'[l].saved = loop[l].saved
             /\ loop'[l].clock = IF loop[l].pc = "asleep" THEN loop[l].clock - 1
                                                          ELSE loop[l].clock + 1
             /\ loop[l].pc \in {"asleep", "pass"} /\ loop[l].clock \in Nat
             /\ IF loop[l].pc = "asleep" THEN loop[l].clock > 0 ELSE loop[l].clock < MaxPass
  BY <1>1 DEF Tick, TimingTypeOK, LoopState
<1>2. /\ current_state' = current_state /\ retry_count' = retry_count
      /\ has_fallback' = has_fallback /\ (has_fallback => since' = since + 1)
      /\ retry_in' = Less(retry_in)
      /\ since \in Nat /\ retry_in \in Nat
  BY DEF Tick, TimingTypeOK
<1>3. /\ retry_in' \in Nat /\ retry_in' <= retry_in /\ retry_in' >= retry_in - 1
      /\ retry_in = 0 => retry_in' = 0
  BY <1>2 DEF Less
<1>4. ASSUME NEW l \in Loops, Due(l)
      PROVE  Due(l)'
  <2>1. CASE l = DeadlineLoop
    BY <1>2, <1>4, <2>1, TimingAssumption DEF Due
  <2>2. CASE l = FallbackLoop
    BY <1>2, <1>4, <2>2, TimingAssumption DEF Due
  <2>3. CASE l = RetryLoop
    BY <1>2, <1>3, <1>4, <2>3, TimingAssumption DEF Due
  <2> QED BY <2>1, <2>2, <2>3 DEF Loops
<1>5. ASSUME NEW l \in Loops
      PROVE  LoopInv(l)'
  BY <1>1, <1>4, TimingAssumption DEF EscalationInv, LoopInv, Busy
<1>6. ASSUME NEW n, BackoffDrawn(n), has_fallback
      PROVE  /\ since' + MaxPass + retry_in' >= Min(Delays(Policy, n))
             /\ retry_in' <= Max(Delays(Policy, n))
  <2>1. PICK d \in Nat, j \in Nat : /\ Min(Delays(Policy, n)) = d
                                    /\ Max(Delays(Policy, n)) = d + j
    <3>1. n \in 0 .. Policy.max_retries - 1
      BY <1>6, TimingAssumption DEF BackoffDrawn
    <3> QED BY <3>1, DelaysBounds
  <2>2. since + MaxPass + retry_in >= d /\ retry_in <= d + j /\ MaxPass \in Nat
    BY <1>6, <2>1, TimingAssumption DEF BackoffDrawn
  <2> QED BY <1>2, <1>3, <1>6, <2>1, <2>2
<1>7. has_fallback => /\ BackoffDrawn(retry_count) => BackoffDrawn(retry_count)'
                      /\ BackoffDrawn(retry_count - 1) => BackoffDrawn(retry_count - 1)'
  BY <1>2, <1>6 DEF BackoffDrawn
<1>8. ASSUME loop[FallbackLoop].begun, ShouldRetry(Policy, retry_count + 1)
      PROVE  BackoffBegun(retry_count)'
  <2>1. loop[FallbackLoop].pc = "pass" /\ current_state = "ESCALATION_PENDING"
    BY <1>1, <1>8, ThreeLoops DEF EscalationInv, LoopInv, Busy
  <2>2. PICK d \in Nat, j \in Nat : /\ Min(Delays(Policy, retry_count)) = d
                                    /\ Max(Delays(Policy, retry_count)) = d + j
    <3>1. retry_count \in 0 .. Policy.max_retries - 1
      BY <2>1, TimingAssumption DEF EscalationInv, TimingTypeOK, Resolved
    <3> QED BY <3>1, DelaysBounds
  <2>3. /\ loop[FallbackLoop].clock + retry_in >= d /\ retry_in <= d + j
        /\ loop'[FallbackLoop].clock = loop[FallbackLoop].clock + 1
        /\ loop[FallbackLoop].clock \in Nat
    BY <1>1, <1>8, <2>1, <2>2, ThreeLoops DEF EscalationInv, BackoffBegun
  <2>4. /\ loop'[FallbackLoop].clock + retry_in' >= Min(Delays(Policy, retry_count))
        /\ retry_in' <= Max(Delays(Policy, retry_count))
    BY <1>2, <1>3, <2>2, <2>3
  <2> QED BY <1>2, <2>4 DEF BackoffBegun
<1>9. FallbackInv'
  BY <1>1, <1>2 DEF EscalationInv, FallbackInv
<1>10. has_fallback \/ /\ current_state = "SENT_TO_CHANNEL"
                       /\ \A l \in Loops : loop[l].saved = {}
  BY DEF EscalationInv, FallbackInv, TimingTypeOK
<1> QED BY <1>1, <1>2, <1>5, <1>7, <1>8, <1>9, <1>10, ThreeLoops DEF EscalationInv, Resolved

LEMMA EscalationStep ==
    ASSUME TimingTypeOK, EscalationInv, [TimingNext]_timingVars
    PROVE  EscalationInv'
<1>1. CASE UNCHANGED timingVars
  BY <1>1 DEF timingVars, EscalationInv, FallbackInv, LoopInv, Busy, Due, Resolved,
             BackoffDrawn, BackoffBegun
<1> QED BY <1>1, EscalationScan, EscalationEscalate, EscalationBegins, EscalationCalls,
           EscalationPassEnds, EscalationPassFails, EscalationTick DEF TimingNext

LEMMA EscalationInit == TimingInit => EscalationInv
<1> SUFFICES ASSUME TimingInit PROVE EscalationInv
  OBVIOUS
<1>1. ASSUME NEW l \in Loops
      PROVE  /\ loop[l].pc = "asleep" => loop[l].clock <= Interval[l]
             /\ loop[l].pc = "pass" => loop[l].clock <= MaxPass
             /\ loop[l].listed = FALSE /\ loop[l].begun = FALSE /\ loop[l].saved = {}
  <2>1. \/ \E t \in 0 .. MaxPass : loop[l] = InPass(t)
        \/ \E t : loop[l] = Asleep(t)
    BY DEF TimingInit
  <2>2. CASE \E t \in 0 .. MaxPass : loop[l] = InPass(t)
    BY <2>2 DEF InPass, Idle
  <2>3. CASE \E t : loop[l] = Asleep(t)
    <3>1. /\ loop[l].pc = "asleep" /\ loop[l].listed = FALSE
          /\ loop[l].begun = FALSE /\ loop[l].saved = {}
      BY <2>3 DEF Asleep, Idle
    <3> QED BY <3>1 DEF TimingInit
  <2> QED BY <2>1, <2>2, <2>3
<1> QED BY <1>1, ThreeLoops DEF TimingInit, EscalationInv, FallbackInv, LoopInv, Busy

LEMMA EscalationCorrect == TimingSpec => [](TimingTypeOK /\ EscalationInv)
<1>1. TimingTypeOK /\ EscalationInv /\ [TimingNext]_timingVars
        => (TimingTypeOK /\ EscalationInv)'
  BY TimingTypeStep, EscalationStep
<1> QED BY <1>1, TimingTypeInit, EscalationInit, PTL DEF TimingSpec

\* A deferred message is not taken up again before its backoff has passed since the
\* call of its fallback channel that failed, less a pass: only the retry loop can
\* be busy with it, has found it due, and what it waited is what the attempt drew
\* when it began, which was not more than a pass before the call.
THEOREM RetriesWait == TimingSpec => BackoffRespected
<1>1. ASSUME TimingTypeOK, EscalationInv, [TimingNext]_timingVars,
             current_state = "ESCALATION_DEFERRED", current_state' # current_state
      PROVE  since + MaxPass >= Min(Delays(Policy, retry_count - 1))
  <2>1. PICK l \in Loops : PassEnds(l) /\ loop[l].saved # {}
    BY <1>1 DEF TimingNext, timingVars, Scan, Escalate, BeginFallback, CallFallback, Tick,
                PassEnds, PassFails
  <2>2. Due(l)
    BY <1>1, <2>1 DEF EscalationInv, LoopInv, Busy
  <2>3. retry_in = 0
    BY <1>1, <2>2, ThreeLoops DEF Loops
  <2>4. since + MaxPass + retry_in >= Min(Delays(Policy, retry_count - 1))
    BY <1>1 DEF EscalationInv, BackoffDrawn, Resolved
  <2> QED BY <1>1, <2>3, <2>4, TimingAssumption DEF TimingTypeOK
<1>2. TimingTypeOK /\ EscalationInv /\ [TimingNext]_timingVars
        => [current_state = "ESCALATION_DEFERRED" /\ current_state' # current_state =>
              since + MaxPass >= Min(Delays(Policy, retry_count - 1))]_timingVars
  BY <1>1
<1> QED BY <1>2, EscalationCorrect, PTL DEF TimingSpec, BackoffRespected

-----------------------------------------------------------------------------
(* The time it takes                                                        *)

LEMMA LeftBounds ==
    ASSUME TimingTypeOK, EscalationInv, NEW l \in Loops
    PROVE  /\ Left(l) \in Nat /\ Round(l) \in Nat
           /\ Left(l) <= Round(l)
<1>1. /\ MaxPass \in Nat /\ Interval[l] \in Nat
      /\ loop[l].clock \in Nat /\ loop[l].pc \in {"asleep", "pass"}
      /\ loop[l].pc = "asleep" => loop[l].clock <= Interval[l]
      /\ loop[l].pc = "pass" => loop[l].clock <= MaxPass
  BY TimingAssumption DEF EscalationInv, LoopInv, TimingTypeOK, LoopState
<1> QED BY <1>1 DEF Left, Round

LEMMA RetriesLeft ==
    ASSUME TimingTypeOK, EscalationInv
    PROVE  /\ RetriesFrom(0) \in Nat
           /\ ~Resolved => RetriesFrom(retry_count) \in Nat
<1>1. ~Resolved => retry_count \in 0 .. Policy.max_retries
  BY TimingAssumption DEF EscalationInv, BackoffDrawn, TimingTypeOK
<1>2. 0 \in 0 .. Policy.max_retries
  BY TimingAssumption
<1> QED BY <1>1, <1>2, RetriesFromType

LEMMA TimeLeftType ==
    ASSUME TimingTypeOK, EscalationInv
    PROVE  TimeLeft \in Nat
<1>1. \A l \in Loops : Left(l) \in Nat /\ Round(l) \in Nat
  BY LeftBounds
<1>2. retry_in \in Nat
  BY DEF TimingTypeOK
<1> HIDE DEF Left, Round
<1>3. CASE current_state = "SENT_TO_CHANNEL"
  BY <1>1, <1>3, RetriesLeft, ThreeLoops DEF TimeLeft
<1>4. CASE current_state = "ESCALATION_PENDING"
  BY <1>1, <1>4, RetriesLeft, ThreeLoops DEF TimeLeft, Resolved
<1>5. CASE current_state = "ESCALATION_DEFERRED"
  BY <1>1, <1>2, <1>5, RetriesLeft, ThreeLoops DEF TimeLeft, Resolved
<1> QED BY <1>3, <1>4, <1>5 DEF TimeLeft

LEMMA TimeLeftIsNat == TimingTypeOK /\ EscalationInv => TimeLeft \in Nat
BY TimeLeftType

\* While the message stays in its state, d seconds take d from the time left.
LEMMA TimeWithin ==
    ASSUME TimingTypeOK, EscalationInv, ~Resolved, NEW d \in {0, 1},
           current_state' = current_state, retry_count' = retry_count,
           current_state = "ESCALATION_DEFERRED" =>
               IF retry_in = 0 THEN retry_in' = 0 ELSE retry_in' = retry_in - d,
           \A l \in Loops : /\ Left(l)' \in Nat /\ Left(l)' <= Round(l)
                            /\ Due(l) => Left(l)' <= Left(l) - d
    PROVE  TimeLeft' <= TimeLeft - d
<1>1. \A l \in Loops : Left(l) \in Nat /\ Round(l) \in Nat
  BY LeftBounds
<1>2. retry_in \in Nat
  BY DEF TimingTypeOK
<1>3. RetriesFrom(0) \in Nat /\ RetriesFrom(retry_count) \in Nat
  BY RetriesLeft
<1>4. PICK n : n = retry_count
  OBVIOUS
<1>5. RetriesFrom(retry_count)' = RetriesFrom(n) /\ RetriesFrom(retry_count) = RetriesFrom(n)
  BY <1>4
<1>6. CASE current_state = "SENT_TO_CHANNEL"
  <2>1. /\ TimeLeft = Left(DeadlineLoop) + Round(FallbackLoop) + RetriesFrom(0)
        /\ TimeLeft' = Left(DeadlineLoop)' + Round(FallbackLoop) + RetriesFrom(0)
    BY <1>6 DEF TimeLeft
  <2>2. Left(DeadlineLoop)' \in Nat /\ Left(DeadlineLoop)' <= Left(DeadlineLoop) - d
    BY <1>6, ThreeLoops
  <2> QED BY <1>1, <1>3, <2>1, <2>2, ThreeLoops
<1>7. CASE current_state = "ESCALATION_PENDING"
  <2>1. /\ TimeLeft = Left(FallbackLoop) + RetriesFrom(n)
        /\ TimeLeft' = Left(FallbackLoop)' + RetriesFrom(n)
    BY <1>5, <1>7 DEF TimeLeft
  <2>2. Left(FallbackLoop)' \in Nat /\ Left(FallbackLoop)' <= Left(FallbackLoop) - d
    BY <1>7, ThreeLoops
  <2> QED BY <1>1, <1>3, <1>5, <2>1, <2>2, ThreeLoops
<1>8. CASE current_state = "ESCALATION_DEFERRED"
  <2>1. /\ TimeLeft = (IF retry_in = 0 THEN Left(RetryLoop) ELSE retry_in + Round(RetryLoop))
                         + Round(FallbackLoop) + RetriesFrom(n)
        /\ TimeLeft' = (IF retry_in' = 0 THEN Left(RetryLoop)' ELSE retry_in' + Round(RetryLoop))
                          + Round(FallbackLoop) + RetriesFrom(n)
    BY <1>5, <1>8 DEF TimeLeft
  <2>2. /\ Left(RetryLoop)' \in Nat /\ Left(RetryLoop)' <= Round(RetryLoop)
        /\ retry_in = 0 => Left(RetryLoop)' <= Left(RetryLoop) - d
    BY <1>8, ThreeLoops
  <2> QED BY <1>1, <1>2, <1>3, <1>5, <1>8, <2>1, <2>2, ThreeLoops
<1> QED BY <1>6, <1>7, <1>8 DEF EscalationInv, Resolved

\* A loop that lists the message, and one that handles it, keeps its time.
LEMMA TimeInPass ==
    ASSUME TimingTypeOK, EscalationInv, ~Resolved, has_fallback, NEW l \in Loops,
           (Scan(l) \/ Escalate(l)) \/ (l = FallbackLoop /\ (BeginFallback \/ CallFallback))
    PROVE  overdue' = overdue /\ TimeLeft' <= TimeLeft
<1>1. \A k \in Loops : Left(k) \in Nat /\ Round(k) \in Nat /\ Left(k) <= Round(k)
  BY LeftBounds
<1>2. \A k \in Loops \ {l} : loop'[k] = loop[k]
  BY DEF Scan, Escalate, BeginFallback, CallFallback, Save, TimingTypeOK
<1>3. \A k \in Loops \ {l} : Left(k)' = Left(k)
  BY <1>2 DEF Left, Busy
<1>4. ASSUME Scan(l)
      PROVE  /\ Left(l)' \in Nat /\ Left(l)' <= Round(l)
             /\ Due(l) => Left(l)' = Left(l)
  <2>1. loop'[l] = [InPass(0) EXCEPT !.listed = Due(l)]
    BY <1>4 DEF Scan, TimingTypeOK
  <2>2. /\ loop'[l].pc = "pass" /\ loop'[l].clock = 0
        /\ loop'[l].listed = Due(l) /\ loop'[l].begun = FALSE /\ loop'[l].saved = {}
        /\ loop[l].pc = "asleep" /\ loop[l].clock = 0
    BY <1>4, <2>1 DEF InPass, Idle, Scan
  <2> QED BY <2>2, TimingAssumption DEF Left, Busy, Round
<1>5. ASSUME Escalate(l) \/ (l = FallbackLoop /\ (BeginFallback \/ CallFallback))
      PROVE  Left(l)' = Left(l)
  <2>1. /\ loop'[l].pc = loop[l].pc /\ loop'[l].clock = loop[l].clock
        /\ Busy(l)' /\ Busy(l)
    <3>1. CASE \E state, n : Save(l, state, n)
      <4>1. PICK saved : /\ loop' = [loop EXCEPT ![l].listed = FALSE, ![l].begun = FALSE,
                                                ![l].saved = saved]
                         /\ saved # {}
        BY <3>1 DEF Save
      <4>2. Busy(l)
        BY <1>5 DEF Escalate, BeginFallback, CallFallback, Busy
      <4> QED BY <4>1, <4>2 DEF TimingTypeOK, LoopState, Busy
    <3>2. CASE l = FallbackLoop /\ BeginFallback
      BY <3>2 DEF BeginFallback, TimingTypeOK, LoopState, Busy
    <3> QED BY <1>5, <3>1, <3>2 DEF Escalate, CallFallback
  <2> QED BY <2>1 DEF Left
<1>6. \A k \in Loops : /\ Left(k)' \in Nat /\ Left(k)' <= Round(k)
                       /\ Due(k) => Left(k)' <= Left(k) - 0
  <2> SUFFICES ASSUME NEW k \in Loops
               PROVE  /\ Left(k)' \in Nat /\ Left(k)' <= Round(k)
                      /\ Due(k) => Left(k)' <= Left(k) - 0
    OBVIOUS
  <2>1. Left(k) \in Nat /\ Round(k) \in Nat /\ Left(k) <= Round(k)
    BY <1>1
  <2>2. CASE k # l
    BY <1>3, <2>1, <2>2
  <2>3. CASE k = l
    <3>1. /\ Left(k)' \in Nat /\ Left(k)' <= Round(k)
          /\ Due(k) => Left(k)' = Left(k)
      <4>1. CASE Scan(l)
        BY <1>4, <2>3, <4>1
      <4>2. CASE Escalate(l) \/ (l = FallbackLoop /\ (BeginFallback \/ CallFallback))
        BY <1>5, <2>1, <2>3, <4>2
      <4> QED BY <4>1, <4>2
    <3> QED BY <2>1, <3>1
  <2> QED BY <2>2, <2>3
<1>7. /\ current_state' = current_state /\ retry_count' = retry_count /\ overdue' = overdue
      /\ current_state = "ESCALATION_DEFERRED" => retry_in' = retry_in
  <2>1. BeginFallback => current_state = "ESCALATION_PENDING"
    BY ThreeLoops DEF BeginFallback, EscalationInv, LoopInv, Busy
  <2> QED BY <2>1 DEF Scan, Escalate, BeginFallback, CallFallback
<1>8. /\ retry_in \in Nat /\ TimeLeft \in Nat
      /\ current_state = "ESCALATION_DEFERRED" =>
            IF retry_in = 0 THEN retry_in' = 0 ELSE retry_in' = retry_in - 0
  BY <1>7, TimeLeftType DEF TimingTypeOK
<1>9. TimeLeft' <= TimeLeft - 0
  BY <1>6, <1>7, <1>8, TimeWithin
<1> QED BY <1>7, <1>8, <1>9

\* A second passes for every loop.
LEMMA TimeTick ==
    ASSUME TimingTypeOK, EscalationInv, ~Resolved, has_fallback, Tick
    PROVE  overdue' = overdue + 1 /\ TimeLeft' <= TimeLeft - 1
<1>1. ASSUME NEW l \in Loops
      PROVE  Left(l)' \in Nat /\ Left(l)' <= Round(l) /\ Left(l)' <= Left(l) - 1
  <2>1. /\ loop'[l].pc = loop[l].pc /\ Busy(l)' = Busy(l)
        /\ loop'[l].clock = IF loop[l].pc = "asleep" THEN loop[l].clock - 1
                                                     ELSE loop[l].clock + 1
        /\ IF loop[l].pc = "asleep" THEN loop[l].clock > 0 ELSE loop[l].clock < MaxPass
        /\ loop[l].clock \in Nat
    BY DEF Tick, TimingTypeOK, LoopState, Busy
  <2>2. MaxPass \in Nat /\ Interval[l] \in Nat
    BY TimingAssumption
  <2>3. Left(l) \in Nat /\ Round(l) \in Nat /\ Left(l) <= Round(l)
    BY LeftBounds
  <2>4. Left(l)' \in Nat /\ Left(l)' = Left(l) - 1
    BY <2>1, <2>2 DEF Left
  <2> QED BY <2>3, <2>4
<1>2. /\ current_state' = current_state /\ retry_count' = retry_count
      /\ overdue' = overdue + 1
      /\ IF retry_in = 0 THEN retry_in' = 0 ELSE retry_in' = retry_in - 1
  BY DEF Tick, Less
<1> QED BY <1>1, <1>2, TimeWithin

\* A commit hands the message on to the next loop, which takes a round at most.
LEMMA TimePassEnds ==
    ASSUME TimingTypeOK, EscalationInv, ~Resolved, NEW l \in Loops, PassEnds(l), ~Resolved'
    PROVE  overdue' = overdue /\ TimeLeft' <= TimeLeft
<1>1. \A k \in Loops : Left(k) \in Nat /\ Round(k) \in Nat /\ Left(k) <= Round(k)
  BY LeftBounds
<1>2. /\ loop'[l] = Asleep(Interval[l])
      /\ \A k \in Loops \ {l} : loop'[k] = loop[k]
      /\ overdue' = overdue /\ retry_in' = retry_in /\ retry_in \in Nat
  BY DEF PassEnds, TimingTypeOK
<1>3. \A k \in Loops \ {l} : Left(k)' = Left(k)
  BY <1>2 DEF Left, Busy
<1>4. /\ MaxPass \in Nat /\ Interval[l] \in Nat
      /\ loop'[l].pc = "asleep" /\ loop'[l].clock = Interval[l]
  BY <1>2, TimingAssumption DEF Asleep, Idle
<1>5. /\ Left(l)' \in Nat /\ Left(l)' <= Round(l)
  BY <1>4 DEF Left, Round
<1>6. \A k \in Loops : Left(k)' \in Nat /\ Left(k)' <= Round(k)
  BY <1>1, <1>3, <1>5
<1>7. CASE loop[l].saved = {}
  <2>1. /\ current_state' = current_state /\ retry_count' = retry_count
        /\ loop[l].pc = "pass" /\ ~Busy(l) /\ loop[l].clock \in Nat
        /\ loop[l].clock <= MaxPass
    BY <1>7 DEF PassEnds, Busy, TimingTypeOK, LoopState, EscalationInv, LoopInv
  <2>2. Left(l)' <= Left(l)
    BY <1>4, <2>1 DEF Left
  <2>3. \A k \in Loops : /\ Left(k)' \in Nat /\ Left(k)' <= Round(k)
                         /\ Due(k) => Left(k)' <= Left(k) - 0
    BY <1>1, <1>3, <1>6, <2>2
  <2>4. IF retry_in = 0 THEN retry_in' = 0 ELSE retry_in' = retry_in - 0
    BY <1>2
  <2>5. TimeLeft' <= TimeLeft - 0
    BY <2>1, <2>3, <2>4, TimeWithin
  <2> QED BY <1>2, <2>5, TimeLeftType
<1>8. CASE loop[l].saved # {}
  <2>1. PICK v \in loop[l].saved : current_state' = v[1] /\ retry_count' = v[2]
    BY <1>8 DEF PassEnds
  <2>2. Due(l)
    BY <1>8 DEF EscalationInv, LoopInv, Busy
  <2>3. PICK n : n = retry_count
    OBVIOUS
  <2>4. RetriesFrom(0) \in Nat /\ RetriesFrom(n) \in Nat
    BY <2>3, RetriesLeft
  <2>5. CASE l = FallbackLoop
    <3>1. v = <<"ESCALATION_DEFERRED", n + 1>> /\ BackoffDrawn(n)
      BY <2>1, <2>3, <2>5 DEF EscalationInv, Resolved
    <3>2. /\ n \in 0 .. Policy.max_retries - 2 /\ n \in 0 .. Policy.max_retries - 1
          /\ n + 1 \in 0 .. Policy.max_retries
          /\ retry_in <= Max(Delays(Policy, n))
      BY <3>1, TimingAssumption DEF BackoffDrawn
    <3>3. /\ RetriesFrom(n) = RetryRound(n) + RetriesFrom(n + 1)
          /\ RetriesFrom(n + 1) \in Nat
      BY <3>2, RetriesFromAdds, RetriesFromType
    <3>4. RetryRound(n) = Max(Delays(Policy, n)) + Round(RetryLoop) + Round(FallbackLoop)
      BY DEF RetryRound
    <3>5. Max(Delays(Policy, n)) \in Nat
      BY <3>2, DelaysBounds
    <3>6. TimeLeft = Left(FallbackLoop) + RetriesFrom(n)
      BY <2>2, <2>3, <2>5, ThreeLoops DEF TimeLeft
    <3>7. current_state' = "ESCALATION_DEFERRED" /\ retry_count' = n + 1
      BY <2>1, <3>1
    <3>8. TimeLeft' = (IF retry_in' = 0 THEN Left(RetryLoop)' ELSE retry_in' + Round(RetryLoop))
                         + Round(FallbackLoop) + RetriesFrom(n + 1)
      BY <3>7 DEF TimeLeft
    <3> HIDE DEF Left, Round
    <3>9. TimeLeft' <= TimeLeft
      BY <1>1, <1>2, <1>6, <3>2, <3>3, <3>4, <3>5, <3>6, <3>8, ThreeLoops
    <3> QED BY <1>2, <3>9
  <2>6. CASE l # FallbackLoop
    <3>1. v = <<"ESCALATION_PENDING", n>>
      BY <2>1, <2>3, <2>6 DEF EscalationInv, Loops
    <3>2. current_state' = "ESCALATION_PENDING" /\ retry_count' = n
      BY <2>1, <3>1
    <3>3. TimeLeft' = Left(FallbackLoop)' + RetriesFrom(n)
      BY <3>2 DEF TimeLeft
    <3>4. CASE l = DeadlineLoop
      <4>1. current_state = "SENT_TO_CHANNEL" /\ n = 0
        BY <2>2, <2>3, <3>4, ThreeLoops DEF EscalationInv, Resolved
      <4>2. TimeLeft = Left(DeadlineLoop) + Round(FallbackLoop) + RetriesFrom(0)
        BY <4>1 DEF TimeLeft
      <4>3. TimeLeft' <= TimeLeft
        BY <1>1, <1>6, <2>4, <3>3, <4>1, <4>2, ThreeLoops
      <4> QED BY <1>2, <4>3
    <3>5. CASE l = RetryLoop
      <4>1. current_state = "ESCALATION_DEFERRED" /\ retry_in = 0
        BY <2>2, <3>5, ThreeLoops
      <4>2. TimeLeft = Left(RetryLoop) + Round(FallbackLoop) + RetriesFrom(n)
        BY <2>3, <4>1 DEF TimeLeft
      <4>3. TimeLeft' <= TimeLeft
        BY <1>1, <1>6, <2>4, <3>3, <4>2, ThreeLoops
      <4> QED BY <1>2, <4>3
    <3> QED BY <2>6, <3>4, <3>5 DEF Loops
  <2> QED BY <2>5, <2>6
<1> QED BY <1>7, <1>8

LEMMA LongestRoundType ==
    /\ LongestRound \in Nat
    /\ \A l \in Loops : Round(l) <= LongestRound
<1>1. /\ Round(DeadlineLoop) \in Nat /\ Round(FallbackLoop) \in Nat
      /\ Round(RetryLoop) \in Nat
  BY RoundType, ThreeLoops
<1>2. {Round(l) : l \in Loops} = {Round(DeadlineLoop), Round(FallbackLoop), Round(RetryLoop)}
  BY DEF Loops
<1> DEFINE S == {Round(DeadlineLoop), Round(FallbackLoop), Round(RetryLoop)}
<1> HIDE DEF Round
<1>3. \E x \in S : \A y \in S : x >= y
  BY <1>1
<1>4. LongestRound \in S /\ \A y \in S : LongestRound >= y
  <2>1. LongestRound = CHOOSE x \in S : \A y \in S : x >= y
    BY <1>2 DEF LongestRound, Max
  <2> HIDE DEF S
  <2> QED BY <1>3, <2>1
<1> QED BY <1>1, <1>4 DEF Loops

\* A pass that fails costs another round of its loop at most.
LEMMA TimePassFails ==
    ASSUME TimingTypeOK, EscalationInv, ~Resolved, NEW l \in Loops, PassFails(l)
    PROVE  overdue' = overdue /\ TimeLeft' <= TimeLeft + LongestRound
<1>1. \A k \in Loops : Left(k) \in Nat /\ Round(k) \in Nat
  BY LeftBounds
<1>2. /\ loop'[l] = Asleep(Interval[l])
      /\ \A k \in Loops \ {l} : loop'[k] = loop[k]
      /\ current_state' = current_state /\ retry_count' = retry_count
      /\ overdue' = overdue /\ retry_in' = retry_in /\ retry_in \in Nat
  BY DEF PassFails, TimingTypeOK
<1>3. \A k \in Loops \ {l} : Left(k)' = Left(k)
  BY <1>2 DEF Left, Busy
<1>4. /\ MaxPass \in Nat /\ Interval[l] \in Nat
      /\ loop'[l].pc = "asleep" /\ loop'[l].clock = Interval[l]
  BY <1>2, TimingAssumption DEF Asleep, Idle
<1>5. /\ Left(l)' \in Nat /\ Left(l)' <= Round(l)
  BY <1>4 DEF Left, Round
<1>6. LongestRound \in Nat /\ Round(l) <= LongestRound
  BY LongestRoundType
<1> HIDE DEF Left, Round
<1>7. \A k \in Loops : Left(k)' \in Nat /\ Left(k)' <= Left(k) + LongestRound
  BY <1>1, <1>3, <1>5, <1>6
<1>8. PICK n : n = retry_count
  OBVIOUS
<1>9. RetriesFrom(0) \in Nat /\ RetriesFrom(n) \in Nat /\ RetriesFrom(retry_count)' = RetriesFrom(n)
  BY <1>2, <1>8, RetriesLeft
<1>10. CASE current_state = "SENT_TO_CHANNEL"
  <2>1. /\ TimeLeft = Left(DeadlineLoop) + Round(FallbackLoop) + RetriesFrom(0)
        /\ TimeLeft' = Left(DeadlineLoop)' + Round(FallbackLoop) + RetriesFrom(0)
    BY <1>2, <1>10 DEF TimeLeft
  <2> QED BY <1>1, <1>2, <1>6, <1>7, <1>9, <2>1, ThreeLoops
<1>11. CASE current_state = "ESCALATION_PENDING"
  <2>1. /\ TimeLeft = Left(FallbackLoop) + RetriesFrom(n)
        /\ TimeLeft' = Left(FallbackLoop)' + RetriesFrom(n)
    BY <1>2, <1>8, <1>9, <1>11 DEF TimeLeft
  <2> QED BY <1>1, <1>2, <1>6, <1>7, <1>9, <2>1, ThreeLoops
<1>12. CASE current_state = "ESCALATION_DEFERRED"
  <2>1. /\ TimeLeft = (IF retry_in = 0 THEN Left(RetryLoop) ELSE retry_in + Round(RetryLoop))
                         + Round(FallbackLoop) + RetriesFrom(n)
        /\ TimeLeft' = (IF retry_in = 0 THEN Left(RetryLoop)' ELSE retry_in + Round(RetryLoop))
                          + Round(FallbackLoop) + RetriesFrom(n)
    BY <1>2, <1>8, <1>9, <1>12 DEF TimeLeft
  <2> QED BY <1>1, <1>2, <1>6, <1>7, <1>9, <2>1, ThreeLoops
<1> QED BY <1>10, <1>11, <1>12 DEF EscalationInv, Resolved

LEMMA ResolutionTimeType ==
    /\ ResolutionTime \in Nat
    /\ ResolutionTime = Round(DeadlineLoop) + Round(FallbackLoop) + RetriesFrom(0)
<1>1. /\ Round(DeadlineLoop) \in Nat /\ Round(FallbackLoop) \in Nat
      /\ 0 \in 0 .. Policy.max_retries
  BY RoundType, ThreeLoops, TimingAssumption
<1>2. RetriesFrom(0) \in Nat
  BY <1>1, RetriesFromType
<1>3. ResolutionTime = Round(DeadlineLoop) + Round(FallbackLoop) + RetriesFrom(0)
  BY DEF ResolutionTime, RetriesFrom
<1> QED BY <1>1, <1>2, <1>3

LEMMA OnTimeStep ==
    ASSUME TimingTypeOK, EscalationInv, TimingTypeOK', EscalationInv', OnTime,
           [TimingNext]_timingVars
    PROVE  OnTime'
<1>1. CASE UNCHANGED timingVars
  BY <1>1 DEF timingVars, OnTime, Resolved, TimeLeft, Left, Busy
<1>2. CASE Resolved /\ UNCHANGED timingVars
  BY <1>1, <1>2
<1>3. CASE ~Resolved /\ ~Resolved' /\ has_fallback /\ TimingNext
  <2>1. /\ TimeLeft \in Nat /\ overdue \in Nat /\ failures \in Nat
        /\ overdue + TimeLeft <= ResolutionTime + failures * LongestRound
    BY <1>3, TimeLeftType DEF OnTime, TimingTypeOK
  <2>2. ResolutionTime \in Nat /\ LongestRound \in Nat
    BY ResolutionTimeType, LongestRoundType
  <2>3. \/ overdue' = overdue /\ failures' = failures /\ TimeLeft' <= TimeLeft
        \/ overdue' = overdue + 1 /\ failures' = failures /\ TimeLeft' <= TimeLeft - 1
        \/ /\ overdue' = overdue /\ failures' = failures + 1
           /\ TimeLeft' <= TimeLeft + LongestRound
    <3>1. ASSUME NEW l \in Loops, Scan(l) \/ Escalate(l)
          PROVE  overdue' = overdue /\ failures' = failures /\ TimeLeft' <= TimeLeft
      <4>1. (Scan(l) \/ Escalate(l)) \/ (l = FallbackLoop /\ (BeginFallback \/ CallFallback))
        BY <3>1
      <4>2. overdue' = overdue /\ TimeLeft' <= TimeLeft
        BY <1>3, <4>1, TimeInPass
      <4> QED BY <3>1, <4>2 DEF Scan, Escalate
    <3>2. ASSUME BeginFallback \/ CallFallback
          PROVE  overdue' = overdue /\ failures' = failures /\ TimeLeft' <= TimeLeft
      <4>1. overdue' = overdue /\ TimeLeft' <= TimeLeft
        BY <1>3, <3>2, TimeInPass, ThreeLoops
      <4> QED BY <3>2, <4>1 DEF BeginFallback, CallFallback
    <3>3. ASSUME NEW l \in Loops, PassEnds(l)
          PROVE  overdue' = overdue /\ failures' = failures /\ TimeLeft' <= TimeLeft
      <4>1. overdue' = overdue /\ TimeLeft' <= TimeLeft
        BY <1>3, <3>3, TimePassEnds
      <4> QED BY <3>3, <4>1 DEF PassEnds
    <3>4. ASSUME NEW l \in Loops, PassFails(l)
          PROVE  /\ overdue' = overdue /\ failures' = failures + 1
                 /\ TimeLeft' <= TimeLeft + LongestRound
      <4>1. overdue' = overdue /\ TimeLeft' <= TimeLeft + LongestRound
        BY <1>3, <3>4, TimePassFails
      <4> QED BY <3>4, <4>1 DEF PassFails
    <3>5. ASSUME Tick
          PROVE  overdue' = overdue + 1 /\ failures' = failures /\ TimeLeft' <= TimeLeft - 1
      <4>1. overdue' = overdue + 1 /\ TimeLeft' <= TimeLeft - 1
        BY <1>3, <3>5, TimeTick
      <4> QED BY <3>5, <4>1 DEF Tick
    <3> HIDE DEF TimeLeft
    <3> QED BY <1>3, <3>1, <3>2, <3>3, <3>4, <3>5 DEF TimingNext
  <2>4. ResolutionTime' = ResolutionTime /\ LongestRound' = LongestRound
    OBVIOUS
  <2>5. TimeLeft' \in Nat
    <3>1. (TimingTypeOK /\ EscalationInv)' => (TimeLeft \in Nat)'
      BY TimeLeftIsNat, PTL
    <3> QED BY <3>1
  <2> HIDE DEF TimeLeft
  <2>6. PICK spent \in Int : spent = failures * LongestRound
    BY <2>1, <2>2
  <2>7. \/ failures' = failures /\ failures' * LongestRound = spent
        \/ failures' = failures + 1 /\ failures' * LongestRound = spent + LongestRound
    <3>1. (failures + 1) * LongestRound = spent + LongestRound
      BY ONLY <2>1, <2>2, <2>6
    <3> QED BY <2>3, <2>6, <3>1
  <2>8. overdue' + TimeLeft' <= ResolutionTime + failures' * LongestRound
    <3>1. PICK after \in Int : after = failures' * LongestRound
      BY <2>2, <2>6, <2>7
    <3>2. overdue' + TimeLeft' <= ResolutionTime + after
      BY <2>1, <2>2, <2>3, <2>5, <2>6, <2>7, <3>1
    <3> QED BY <3>1, <3>2
  <2> QED BY <2>4, <2>8 DEF OnTime
<1>4. has_fallback' => has_fallback
  BY DEF TimingNext, timingVars, Scan, Escalate, PassEnds, PassFails, BeginFallback,
         CallFallback, Tick
<1> QED BY <1>1, <1>2, <1>3, <1>4 DEF TimingNext, OnTime

LEMMA OnTimeInit ==
    ASSUME TimingInit, TimingTypeOK, EscalationInv
    PROVE  OnTime
<1>1. /\ Left(DeadlineLoop) \in Nat /\ Left(DeadlineLoop) <= Round(DeadlineLoop)
      /\ Round(DeadlineLoop) \in Nat /\ Round(FallbackLoop) \in Nat
  BY LeftBounds, ThreeLoops
<1>2. RetriesFrom(0) \in Nat
  BY RetriesLeft
<1>3. ResolutionTime = Round(DeadlineLoop) + Round(FallbackLoop) + RetriesFrom(0)
  BY ResolutionTimeType
<1>4. /\ overdue = 0 /\ failures = 0 /\ LongestRound \in Nat
      /\ TimeLeft = Left(DeadlineLoop) + Round(FallbackLoop) + RetriesFrom(0)
  BY LongestRoundType DEF TimingInit, TimeLeft
<1> HIDE DEF Left, Round
<1>5. overdue + TimeLeft <= ResolutionTime + failures * LongestRound
  BY <1>1, <1>2, <1>3, <1>4
<1> QED BY <1>5 DEF OnTime

\* A message with a fallback channel that nobody acknowledges is delivered by that
\* channel or dead within the time that follows from the intervals, the retry
\* policy and the passes that failed: what has passed and what is left never
\* exceed it.
THEOREM EscalationEndsInTime == TimingSpec => []ResolvedInTime
<1>1. TimingInit => OnTime
  BY OnTimeInit, TimingTypeInit, EscalationInit
<1>2. (TimingTypeOK /\ EscalationInv) /\ (TimingTypeOK /\ EscalationInv)' /\ OnTime
        /\ [TimingNext]_timingVars => OnTime'
  BY OnTimeStep
<1>3. TimingTypeOK /\ EscalationInv /\ OnTime => ResolvedInTime
  <2> SUFFICES ASSUME TimingTypeOK, EscalationInv, OnTime, has_fallback, ~Resolved
               PROVE  overdue <= ResolutionTime + failures * LongestRound
    BY DEF ResolvedInTime
  <2>1. PICK limit \in Int : limit = ResolutionTime + failures * LongestRound
    BY ResolutionTimeType, LongestRoundType DEF TimingTypeOK
  <2>2. TimeLeft \in Nat /\ overdue \in Nat /\ overdue + TimeLeft <= limit
    BY <2>1, TimeLeftType DEF OnTime, TimingTypeOK
  <2>3. overdue <= limit
    BY ONLY <2>1, <2>2
  <2> QED BY <2>1, <2>3
<1> QED BY <1>1, <1>2, <1>3, EscalationCorrect, PTL DEF TimingSpec
=============================================================================
