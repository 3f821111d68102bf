----------------------------- MODULE MCLifespan -----------------------------
(***************************************************************************)
(* Lifespan with the three loops of the scheduler.                          *)
(***************************************************************************)
EXTENDS Lifespan

CONSTANTS DeadlineLoop, FallbackLoop, RetryLoop

SchedulerLoops == {DeadlineLoop, FallbackLoop, RetryLoop}
=============================================================================
