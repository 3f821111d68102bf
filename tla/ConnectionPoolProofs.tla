------------------------ MODULE ConnectionPoolProofs ------------------------
(***************************************************************************)
(* Theorems about the gateway on its connection pool, for every capacity   *)
(* of the pool and every number of silent channels.                         *)
(***************************************************************************)
EXTENDS ConnectionPool, TLAPS

LEMMA PoolStepIsStep == [PoolNext]_poolVars => [Next]_vars
<1> SUFFICES ASSUME [PoolNext]_poolVars PROVE [Next]_vars
  OBVIOUS
<1>1. ASSUME NEW c \in Creators, PooledCreate(c) \/ PooledInsert(c)
      PROVE  Next
  BY <1>1 DEF PooledCreate, PooledInsert, Next, Arrive
<1>2. ASSUME NEW s \in Requests, PooledRequest(s)
      PROVE  Next
  BY <1>2 DEF PooledRequest, Next, Arrive
<1>3. CASE PooledDeadlinePass \/ PooledFallbackPass \/ PooledRetryPass
  BY <1>3 DEF PooledDeadlinePass, PooledFallbackPass, PooledRetryPass, Next, Pass
<1>4. ASSUME NEW s \in Sessions, PooledHandle(s) \/ PooledCommit(s) \/ PooledError(s)
      PROVE  Next
  BY <1>4 DEF PooledHandle, PooledCommit, PooledError, Next
<1>5. CASE PooledCrash \/ \E m \in Messages : PooledElapse(m)
  BY <1>5 DEF PooledCrash, PooledElapse, Next
<1>6. CASE \/ \E s \in Requests : Reread(s) \/ Respond(s) \/ PoolTimeout(s)
           \/ \E s \in Sessions : FallSilent(s)
           \/ ReadBegins \/ ReadEnds
           \/ UNCHANGED poolVars
  BY <1>6 DEF Reread, Respond, PoolTimeout, FallSilent, ReadBegins, ReadEnds, poolVars
<1> QED BY <1>1, <1>2, <1>3, <1>4, <1>5, <1>6 DEF PoolNext

\* The pool, its timeouts and silent channels add no behaviour to the gateway:
\* what holds of Spec whatever is scheduled holds on every pool.
THEOREM PoolImplementsGateway == PoolSpec => Spec
<1>1. PoolInit => Init
  BY DEF PoolInit
<1> QED BY <1>1, PoolStepIsStep, PTL DEF PoolSpec, Spec
=============================================================================
