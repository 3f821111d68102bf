----------------------------- MODULE RetryPolicy -----------------------------
(***************************************************************************)
(* The retry policies (app/domain/retry_policy.py).                        *)
(***************************************************************************)
EXTENDS Naturals

PRIMARY_RETRY_POLICY ==
    [max_retries |-> 3, initial_backoff |-> 5, max_backoff |-> 300]

FALLBACK_RETRY_POLICY ==
    [max_retries |-> 2, initial_backoff |-> 10, max_backoff |-> 600]

\* Mutant: one retry less.
ShouldRetryOneLess(policy, retry_count) == retry_count + 1 < policy.max_retries

\* should_retry
ShouldRetry(policy, retry_count) == retry_count < policy.max_retries

\* next_retry_at, less now, in seconds: the backoff doubles (backoff_multiplier
\* is 2) up to the cap, and the jitter comes on top of it.
Delays(policy, retry_count) ==
    LET backoff == policy.initial_backoff * 2 ^ retry_count
        delay == IF backoff <= policy.max_backoff THEN backoff ELSE policy.max_backoff
    IN  delay .. delay + (delay \div 10)
=============================================================================
