-------------------------- MODULE MCMetricsIngestor --------------------------
(* A small instance of MetricsIngestor for TLC.                             *)
EXTENDS MetricsIngestor
=============================================================================
