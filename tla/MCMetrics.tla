------------------------------ MODULE MCMetrics -------------------------------
(***************************************************************************)
(* Instances of Metrics for TLC.                                            *)
(***************************************************************************)
EXTENDS MCGateway, Metrics

AllRecent == Messages
=============================================================================
