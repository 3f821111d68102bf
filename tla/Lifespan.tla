------------------------------- MODULE Lifespan -------------------------------
(***************************************************************************)
(* Startup and shutdown of the application (app/main.py) and of its        *)
(* scheduler (app/workers/scheduler.py): three asyncio tasks deep, the     *)
(* lifespan waits for start(), which gathers the loops, each of which opens *)
(* a database session per pass.                                            *)
(*                                                                         *)
(* What a pass does is the subject of Gateway; here it begins, may take for *)
(* ever (a channel does not answer), and ends: in its commit, in an         *)
(* Exception that it rolls back, or in an Exception of that rollback, which *)
(* leaves the pass and is caught by its loop.  A cancelled await raises     *)
(* CancelledError, which is no Exception: it passes the handlers of the     *)
(* pass and of the loop, but not those of the sleep and of start().        *)
(***************************************************************************)
CONSTANTS
    Loops,        \* the loops start() gathers
    EarlyStop     \* may the shutdown come before start() has run?

ASSUME LifespanAssumption ==
    /\ Loops # {}
    /\ EarlyStop \in BOOLEAN

VARIABLES
    lifespan,     \* the lifespan: "serving" (its yield), "waiting" (wait_for),
                  \* "cancelling" (the timeout has struck), "closing" (pools)
    scheduler,    \* the task that runs start()
    running,      \* MessageScheduler.running
    loop,         \* the task of each loop
    session       \* the session of its pass

vars == <<lifespan, scheduler, running, loop, session>>

\* "rollback": the handler of the pass awaits its rollback; "leaving": the pass
\* is over and the loop awaits the close of its session; "failing", "unwinding":
\* the same with an Exception or a CancelledError on its way.
LoopStates == {"unborn", "begin", "pass", "rollback", "leaving", "failing",
               "unwinding", "sleep", "ended", "cancelled"}

TypeOK ==
    /\ lifespan \in {"serving", "waiting", "cancelling", "closing", "ended", "failed"}
    /\ scheduler \in {"created", "gathering", "ended"}
    /\ running \in BOOLEAN
    /\ loop \in [Loops -> LoopStates]
    /\ session \in [Loops -> {"closed", "open", "closing"}]

\* create_task(scheduler.start()) has been called; the task has not run.
Init ==
    /\ lifespan = "serving"
    /\ scheduler = "created"
    /\ running = FALSE
    /\ loop = [l \in Loops |-> "unborn"]
    /\ session = [l \in Loops |-> "closed"]

-----------------------------------------------------------------------------
(* The scheduler                                                            *)

\* start, up to its gather
Start ==
    /\ scheduler = "created"
    /\ scheduler' = "gathering"
    /\ running' = TRUE
    /\ loop' = [l \in Loops |-> "begin"]
    /\ UNCHANGED <<lifespan, session>>

\* The condition of a loop, and the session its pass opens (which does not
\* execute anything yet)
Turn(l) ==
    /\ loop[l] \in {"begin", "sleep"}
    /\ IF running
       THEN /\ loop' = [loop EXCEPT ![l] = "pass"]
            /\ session' = [session EXCEPT ![l] = "open"]
       ELSE /\ loop' = [loop EXCEPT ![l] = "ended"]
            /\ UNCHANGED session
    /\ UNCHANGED <<lifespan, scheduler, running>>

\* The pass commits, or an Exception of it or of its commit is caught and
\* rolled back.
PassCommits(l) ==
    /\ loop[l] = "pass"
    /\ loop' = [loop EXCEPT ![l] = "leaving"]
    /\ session' = [session EXCEPT ![l] = "closing"]
    /\ UNCHANGED <<lifespan, scheduler, running>>

PassFails(l) ==
    /\ loop[l] = "pass"
    /\ loop' = [loop EXCEPT ![l] = "rollback"]
    /\ UNCHANGED <<lifespan, scheduler, running, session>>

\* The rollback returns, or it raises an Exception as well.
Rollback(l) ==
    /\ loop[l] = "rollback"
    /\ \E next \in {"leaving", "failing"} : loop' = [loop EXCEPT ![l] = next]
    /\ session' = [session EXCEPT ![l] = "closing"]
    /\ UNCHANGED <<lifespan, scheduler, running>>

\* AsyncSession.close, in a task of its own: the connection goes back to the pool.
Close(l) ==
    /\ session[l] = "closing"
    /\ session' = [session EXCEPT ![l] = "closed"]
    /\ UNCHANGED <<lifespan, scheduler, running, loop>>

\* The end of "async with": on to the sleep, or out of the loop.
Leave(l) ==
    /\ session[l] = "closed"
    /\ \/ /\ loop[l] = "leaving"
          /\ loop' = [loop EXCEPT ![l] = "sleep"]
       \/ /\ loop[l] = "unwinding"
          /\ loop' = [loop EXCEPT ![l] = "cancelled"]
    /\ UNCHANGED <<lifespan, scheduler, running, session>>

\* Mutant: the loop has no handler of its own.
NotCaught(l) ==
    /\ loop[l] = "failing"
    /\ session[l] = "closed"
    /\ loop' = [loop EXCEPT ![l] = "ended"]
    /\ UNCHANGED <<lifespan, scheduler, running, session>>

\* An Exception that leaves the pass is caught by its loop, which goes to sleep.
Caught(l) ==
    /\ loop[l] = "failing"
    /\ session[l] = "closed"
    /\ loop' = [loop EXCEPT ![l] = "sleep"]
    /\ UNCHANGED <<lifespan, scheduler, running, session>>

\* asyncio.gather is done when all its loops have ended, or as soon as one of
\* them has ended in an exception.
Gathered ==
    \/ \A l \in Loops : loop[l] = "ended"
    \/ \E l \in Loops : loop[l] = "cancelled"

\* start returns; a cancelled gather raises CancelledError, which it catches.
StartReturns ==
    /\ scheduler = "gathering"
    /\ Gathered
    /\ scheduler' = "ended"
    /\ running' = IF lifespan = "cancelling" THEN FALSE ELSE running
    /\ UNCHANGED <<lifespan, loop, session>>

-----------------------------------------------------------------------------
(* The lifespan                                                             *)

\* The server shuts down: scheduler.stop(), and on to wait_for.
Shutdown ==
    /\ lifespan = "serving"
    /\ EarlyStop \/ scheduler # "created"
    /\ lifespan' = "waiting"
    /\ running' = FALSE
    /\ UNCHANGED <<scheduler, loop, session>>

\* Mutant: the handler of the pass catches the CancelledError as well.
CancelledSwallowed(l) ==
    IF loop[l] = "sleep" THEN "ended" ELSE loop[l]

\* What the cancellation of start(), its gather and so of every loop makes of
\* loop l.  The close of a session is shielded: a loop that awaits it is
\* cancelled at once, its session is closed nevertheless.
Cancelled(l) ==
    CASE loop[l] = "sleep"                   -> "ended"
      [] loop[l] \in {"pass", "rollback"}    -> "unwinding"
      [] loop[l] \in {"leaving", "failing"}  -> "cancelled"
      [] OTHER                               -> loop[l]

\* wait_for gives up after five seconds, by which time the loops have begun,
\* and cancels the task it waits for.
Timeout ==
    /\ lifespan = "waiting"
    /\ scheduler = "gathering"
    /\ \A l \in Loops : loop[l] # "begin"
    /\ lifespan' = "cancelling"
    /\ loop' = [l \in Loops |-> Cancelled(l)]
    /\ session' = [l \in Loops |-> IF loop'[l] = "unwinding" THEN "closing" ELSE session[l]]
    /\ UNCHANGED <<scheduler, running>>

\* Mutant: the lifespan does not wait for the cancelled task.
JoinWithoutWaiting ==
    /\ \/ lifespan = "waiting" /\ scheduler = "ended"
       \/ lifespan = "cancelling"
    /\ lifespan' = "closing"
    /\ UNCHANGED <<scheduler, running, loop, session>>

\* wait_for returns when start() has, also after the timeout.  start() never
\* ends cancelled, so there is no TimeoutError, and no second cancel().
Join ==
    /\ lifespan \in {"waiting", "cancelling"}
    /\ scheduler = "ended"
    /\ lifespan' = "closing"
    /\ UNCHANGED <<scheduler, running, loop, session>>

Over == lifespan \in {"ended", "failed"}

\* redis_client.aclose() and engine.dispose(); when the first one raises, the
\* second one is not called.
ClosePools ==
    /\ lifespan = "closing"
    /\ lifespan' \in {"ended", "failed"}
    /\ UNCHANGED <<scheduler, running, loop, session>>

-----------------------------------------------------------------------------
\* The lifespan is over; what the event loop has not run by now it may never run.
Exited == Over /\ UNCHANGED vars

Next ==
    \/ Start
    \/ \E l \in Loops : Turn(l)
    \/ \E l \in Loops : PassCommits(l)
    \/ \E l \in Loops : PassFails(l)
    \/ \E l \in Loops : Rollback(l)
    \/ \E l \in Loops : Close(l)
    \/ \E l \in Loops : Leave(l)
    \/ \E l \in Loops : Caught(l)
    \/ StartReturns
    \/ Shutdown
    \/ Timeout
    \/ Join
    \/ ClosePools
    \/ Exited

Spec == Init /\ [][Next]_vars

\* Until the lifespan is over the event loop runs every task that can go on, the
\* loops wake up, and the timeout strikes.  Nothing makes a pass or its rollback
\* end, nor the shutdown come; nothing more is run for certain once the lifespan
\* is over and the server leaves its event loop.
Goes(l) == ~Over /\ (Turn(l) \/ Leave(l) \/ Caught(l))

Closes(l) == ~Over /\ Close(l)

Fairness ==
    /\ WF_vars(Start) /\ WF_vars(StartReturns)
    /\ WF_vars(Timeout) /\ WF_vars(Join) /\ WF_vars(ClosePools)
    /\ \A l \in Loops : WF_vars(Goes(l)) /\ WF_vars(Closes(l))

FairSpec == Spec /\ Fairness

-----------------------------------------------------------------------------
(* Properties                                                               *)

\* While the application serves, nothing that goes wrong in a pass ends a loop
\* of its scheduler, nor the scheduler: neither an exception of the pass nor one
\* of the rollback that it makes necessary.
LoopsSurvive ==
    lifespan = "serving" =>
        /\ scheduler # "ended"
        /\ \A l \in Loops : loop[l] \notin {"unwinding", "ended", "cancelled"}

\* Once the lifespan closes the pools, no loop is at work, and none will wake
\* up and be, whatever the loops were doing when the shutdown came and whether
\* or not start() had run by then.  A session that is still being closed belongs
\* to a loop that the timeout has cut short.
QuietWhenClosing ==
    lifespan \in {"closing", "ended", "failed"} =>
        /\ ~running
        /\ \A l \in Loops : /\ loop[l] \in {"ended", "unwinding", "cancelled"}
                            /\ session[l] # "open"
                            /\ session[l] = "closing" => loop[l] # "ended"

\* A shutdown comes to its end, also when a pass never does.
ShutdownEnds == lifespan = "waiting" ~> Over
=============================================================================
