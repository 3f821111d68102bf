--------------------------- MODULE MCRetryTiming ----------------------------
(***************************************************************************)
(* RetryTiming with the intervals of the scheduler (app/workers/scheduler). *)
(***************************************************************************)
EXTENDS RetryTiming

DefaultIntervals ==
    [l \in Loops |-> CASE l = DeadlineLoop -> 10
                      [] l = FallbackLoop -> 15
                      [] l = RetryLoop    -> 20]
=============================================================================
