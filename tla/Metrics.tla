-------------------------------- MODULE Metrics --------------------------------
(***************************************************************************)
(* The reports on the gateway (app/observability/metrics.py, GET /metrics,  *)
(* GET /health/detailed and GET /admin/stats): each count in them is the    *)
(* answer to a SELECT of its own, and each SELECT sees what is committed     *)
(* when it runs.  The gateway goes on between them.                          *)
(***************************************************************************)
EXTENDS Gateway, Sequences, FiniteSetsExt

CONSTANTS
    Recent,            \* the messages created within the last 24 hours
    DeadLetterLimit    \* check_health warns beyond it (100)

\* Message ids are UUIDs.
ASSUME MetricsAssumption ==
    /\ IsFiniteSet(Messages)
    /\ Recent \subseteq Messages
    /\ DeadLetterLimit \in Nat

VARIABLE
    report             \* the one report of a behaviour: its endpoint, the
                       \* counts it has so far, and whether a SELECT failed

Endpoints == {"metrics", "stats", "health"}

MetricsTypeOK ==
    report \in [endpoint : Endpoints \cup {None}, counts : Seq(Nat), failed : BOOLEAN]

MetricsInit ==
    /\ Init
    /\ report = [endpoint |-> None, counts |-> <<>>, failed |-> FALSE]

-----------------------------------------------------------------------------
(* The queries                                                              *)

\* A SELECT counts, for a field of the answer, the messages in one of some
\* states, perhaps only the acknowledged or the recent ones of them.
InState(f, S) == [field |-> f, states |-> S, acknowledged |-> FALSE, recent |-> FALSE]
Acknowledged(f) == [InState(f, MessageStates) EXCEPT !.acknowledged = TRUE]
Last24h(f, S) == [InState(f, S) EXCEPT !.recent = TRUE]

Matches(q) ==
    {m \in Stored : /\ row[m].current_state \in q.states
                    /\ q.acknowledged => row[m].acknowledged_at # None
                    /\ q.recent => m \in Recent}

\* Mutant: the final states before the others.
StateOrderFinalFirst ==
    <<"ACKNOWLEDGED", "FALLBACK_DELIVERED", "FAILED", "DEAD_LETTER", "ESCALATION_DEFERRED",
      "FALLBACK_SENDING", "ESCALATION_PENDING", "SENT_TO_CHANNEL", "SENDING", "QUEUED",
      "PENDING">>

\* The order of the enumeration MessageState, in which "for state in
\* MessageState" counts
StateOrder ==
    <<"PENDING", "QUEUED", "SENDING", "SENT_TO_CHANNEL", "ACKNOWLEDGED",
      "ESCALATION_PENDING", "FALLBACK_SENDING", "FALLBACK_DELIVERED", "FAILED",
      "DEAD_LETTER", "ESCALATION_DEFERRED">>

\* get_message_stats, and the loop of collect: messages_by_state
CountsByState ==
    [i \in 1..Len(StateOrder) |-> InState(StateOrder[i], {StateOrder[i]})]

Totals ==
    <<Acknowledged("messages_acknowledged"), InState("messages_failed", {"FAILED"}),
      InState("messages_dead_letter", {"DEAD_LETTER"})>>

\* _calculate_24h_metrics
Deliveries24h ==
    <<Last24h("successful_deliveries_24h",
              {"SENT_TO_CHANNEL", "ACKNOWLEDGED", "FALLBACK_DELIVERED"}),
      Last24h("failed_deliveries_24h", {"FAILED", "DEAD_LETTER"})>>

\* Mutant: the totals of single states before the counts by state.
CollectQueriesTotalsFirst ==
    <<InState("total_messages", MessageStates)>> \o Totals \o CountsByState \o Deliveries24h
    \o <<Acknowledged("latencies")>>

\* MetricsCollector.collect; the last query is _calculate_ack_latency's.
CollectQueries ==
    <<InState("total_messages", MessageStates)>> \o CountsByState \o Totals \o Deliveries24h
    \o <<Acknowledged("latencies")>>

\* Mutant: deferred messages count as dead.
HealthQueriesDeferred ==
    <<InState("reachable", MessageStates), InState("messages_pending", {"PENDING"}),
      InState("messages_escalation_pending", {"ESCALATION_PENDING"}),
      InState("messages_dead_letter", {"DEAD_LETTER", "ESCALATION_DEFERRED"})>>

\* HealthChecker.check_health
HealthQueries ==
    <<InState("reachable", MessageStates), InState("messages_pending", {"PENDING"}),
      InState("messages_escalation_pending", {"ESCALATION_PENDING"}),
      InState("messages_dead_letter", {"DEAD_LETTER"})>>

Queries(endpoint) ==
    CASE endpoint = "metrics" -> CollectQueries
      [] endpoint = "stats"   -> CountsByState
      [] endpoint = "health"  -> HealthQueries
      [] OTHER                -> <<>>

-----------------------------------------------------------------------------
(* The report                                                               *)

Complete == report.endpoint # None /\ Len(report.counts) = Len(Queries(report.endpoint))

Ask(endpoint) ==
    /\ report.endpoint = None
    /\ report' = [report EXCEPT !.endpoint = endpoint]
    /\ UNCHANGED vars

\* The next SELECT
Count ==
    /\ report.endpoint # None
    /\ ~report.failed
    /\ ~Complete
    /\ LET q == Queries(report.endpoint)[Len(report.counts) + 1]
       IN  report' = [report EXCEPT !.counts = Append(@, Cardinality(Matches(q)))]
    /\ UNCHANGED vars

\* The database fails: /metrics and /admin/stats answer with an error, the
\* health check with what it has.
CountFails ==
    /\ report.endpoint # None
    /\ ~report.failed
    /\ ~Complete
    /\ report' = [report EXCEPT !.failed = TRUE]
    /\ UNCHANGED vars

MetricsNext ==
    \/ Next /\ UNCHANGED report
    \/ \E endpoint \in Endpoints : Ask(endpoint)
    \/ Count
    \/ CountFails

MetricsSpec == MetricsInit /\ [][MetricsNext]_<<vars, report>>

-----------------------------------------------------------------------------
(* The answers                                                              *)

Answered(endpoint) == report.endpoint = endpoint /\ Complete

\* A field of the answer
Field(f) ==
    LET queries == Queries(report.endpoint)
    IN  report.counts[CHOOSE i \in DOMAIN queries : queries[i].field = f]

messages_by_state == MapThenSumSet(Field, MessageStates)

is_healthy == ~report.failed /\ Field("messages_dead_letter") <= DeadLetterLimit

-----------------------------------------------------------------------------
(* Properties, of the scheduler left alone                                  *)

\* The counts of the final states, taken one after the other while messages
\* move, only grow: a message counted as failed or dead in messages_by_state
\* is in the total of its state, and a recent one in the rate of the last 24
\* hours.
FinalCountsGrow ==
    Answered("metrics") =>
        /\ Field("FAILED") <= Field("messages_failed")
        /\ Field("DEAD_LETTER") <= Field("messages_dead_letter")
        /\ Recent = Messages =>
              Field("messages_failed") + Field("messages_dead_letter")
                 <= Field("failed_deliveries_24h")

\* A message can slip through the counts by state only while its fallback is
\* retried: ESCALATION_DEFERRED, which is counted last, is the only state left
\* for one counted before.
MissedOnlyInRetry ==
    Answered("metrics") =>
        Field("total_messages") <=
            messages_by_state + Cardinality({m \in Messages : row[m].retry_count > 0})

\* A system reported unhealthy for its dead letters still is when the report
\* arrives.
UnhealthyIsStable ==
    Answered("health") /\ ~is_healthy =>
        Cardinality({m \in Messages : row[m].current_state = "DEAD_LETTER"}) > DeadLetterLimit

=============================================================================
