--------------------------- MODULE MCLogsIngestor ---------------------------
(* Small instances of LogsIngestor for TLC.                                 *)
EXTENDS LogsIngestor, TLC

Symmetry == Permutations(Records)
=============================================================================
