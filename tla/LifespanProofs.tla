---------------------------- MODULE LifespanProofs ----------------------------
(***************************************************************************)
(* What a shutdown leaves behind, for any set of loops.                     *)
(***************************************************************************)
EXTENDS Lifespan, TLAPS

\* Loops out of reach of running: nothing makes them work again.
Finished == {"ended", "unwinding", "cancelled"}

\* Before its first step the scheduler has nothing; while the application
\* serves, it runs, and its loops do.
Serving ==
    /\ scheduler = "created" => /\ ~running
                                /\ \A l \in Loops : loop[l] = "unborn"
    /\ scheduler # "created" => \A l \in Loops : loop[l] # "unborn"
    /\ lifespan = "serving" =>
          /\ scheduler = "created" \/ (scheduler = "gathering" /\ running)
          /\ \A l \in Loops : loop[l] # "ended"

\* A loop is cancelled by the timeout only, and ends by itself only because
\* running has been set to FALSE.
Stopping ==
    /\ lifespan \in {"serving", "waiting"} =>
          \A l \in Loops : loop[l] \notin {"unwinding", "cancelled"}
    /\ lifespan = "waiting" => \A l \in Loops : loop[l] = "ended" => ~running

\* The cancellation reaches every loop.
Stopped ==
    /\ lifespan = "cancelling" =>
          /\ scheduler # "created"
          /\ \A l \in Loops : loop[l] \in Finished
    /\ lifespan \in {"closing", "ended", "failed"} => scheduler = "ended"
    /\ scheduler = "ended" => /\ ~running
                              /\ \A l \in Loops : loop[l] \in Finished

\* A session is open in a pass and its rollback only, and closed again when its
\* loop goes on.
SessionsInUse ==
    \A l \in Loops :
        /\ session[l] = "open" => loop[l] \in {"pass", "rollback"}
        /\ loop[l] \in {"unborn", "begin", "sleep", "ended"} => session[l] = "closed"

LifespanInv == TypeOK /\ Serving /\ Stopping /\ Stopped /\ SessionsInUse

USE LifespanAssumption

LEMMA InitLifespan == Init => LifespanInv
BY DEF Init, LifespanInv, TypeOK, LoopStates, Serving, Stopping, Stopped, SessionsInUse

LEMMA StepLifespan == LifespanInv /\ [Next]_vars => LifespanInv'
<1> SUFFICES ASSUME LifespanInv, [Next]_vars PROVE LifespanInv'
  OBVIOUS
<1> USE DEF LifespanInv, TypeOK, LoopStates, Finished
<1>1. CASE Start
  BY <1>1 DEF Start, Serving, Stopping, Stopped, SessionsInUse
<1>2. ASSUME NEW l \in Loops, Turn(l) PROVE LifespanInv'
  <2>1. CASE running
    BY <1>2, <2>1 DEF Turn, Serving, Stopping, Stopped, SessionsInUse
  <2>2. CASE ~running
    BY <1>2, <2>2 DEF Turn, Serving, Stopping, Stopped, SessionsInUse
  <2> QED BY <2>1, <2>2
<1>3. ASSUME NEW l \in Loops, PassCommits(l) \/ PassFails(l) PROVE LifespanInv'
  BY <1>3 DEF PassCommits, PassFails, Serving, Stopping, Stopped, SessionsInUse
<1>12. ASSUME NEW l \in Loops, Rollback(l) PROVE LifespanInv'
  BY <1>12 DEF Rollback, Serving, Stopping, Stopped, SessionsInUse
<1>13. ASSUME NEW l \in Loops, Caught(l) PROVE LifespanInv'
  BY <1>13 DEF Caught, Serving, Stopping, Stopped, SessionsInUse
<1>4. ASSUME NEW l \in Loops, Close(l) PROVE LifespanInv'
  BY <1>4 DEF Close, Serving, Stopping, Stopped, SessionsInUse
<1>5. ASSUME NEW l \in Loops, Leave(l) PROVE LifespanInv'
  BY <1>5 DEF Leave, Serving, Stopping, Stopped, SessionsInUse
<1>6. CASE StartReturns
  BY <1>6 DEF StartReturns, Gathered, Serving, Stopping, Stopped, SessionsInUse
<1>7. CASE Shutdown
  BY <1>7 DEF Shutdown, Serving, Stopping, Stopped, SessionsInUse
<1>8. CASE Timeout
  BY <1>8 DEF Timeout, Cancelled, Serving, Stopping, Stopped, SessionsInUse
<1>9. CASE Join
  BY <1>9 DEF Join, Serving, Stopping, Stopped, SessionsInUse
<1>10. CASE ClosePools
  BY <1>10 DEF ClosePools, Serving, Stopping, Stopped, SessionsInUse
<1>11. CASE UNCHANGED vars
  BY <1>11 DEF vars, Serving, Stopping, Stopped, SessionsInUse
<1> QED
  BY <1>1, <1>2, <1>3, <1>4, <1>5, <1>6, <1>7, <1>8, <1>9, <1>10, <1>11,
     <1>12, <1>13
  DEF Next, Exited

LEMMA LifespanCorrect == Spec => []LifespanInv
<1>1. Init => LifespanInv
  BY InitLifespan
<1>2. LifespanInv /\ [Next]_vars => LifespanInv'
  BY StepLifespan
<1> QED BY <1>1, <1>2, PTL DEF Spec

\* No pass runs, none will begin, no session is in use and only those of passes
\* cut short are still to be closed once the lifespan closes the pools, for any
\* number of loops, however the shutdown came.
THEOREM ShutdownIsQuiet == Spec => []QuietWhenClosing
<1>1. LifespanInv => QuietWhenClosing
  BY DEF LifespanInv, TypeOK, LoopStates, Stopped, SessionsInUse, Finished,
         QuietWhenClosing
<1> QED BY <1>1, LifespanCorrect, PTL

\* While the application serves no loop of the scheduler ends, whether its passes
\* commit, fail and roll back, or fail in their rollback.
THEOREM SchedulerSurvives == Spec => []LoopsSurvive
<1>1. LifespanInv => LoopsSurvive
  BY DEF LifespanInv, Serving, Stopping, LoopsSurvive
<1> QED BY <1>1, LifespanCorrect, PTL
=============================================================================
