--------------------------- MODULE MCLogsCollector ---------------------------
(* Small instances of LogsCollector for TLC.                                *)
EXTENDS LogsCollector

Config(attempts, budget, initial, max, jitter) ==
    [maxAttempts |-> attempts, maxRetryBudget |-> budget,
     initialBackoff |-> initial, maxBackoff |-> max, jitter |-> jitter]

\* The defaults; a budget below and one above the attempts of a page; a backoff that
\* doubles past the largest duration, and one that only its jitter takes there; a maximum
\* below the initial wait.  Jitter that is defaulted, kept and clamped.
MCConfigs == {Config(0, 0, 0, 0, 0), Config(3, 1, 2, 8, 50), Config(2, 3, 28, 31, 0),
              Config(4, 3, 9, 25, 0), Config(2, 0, 5, 2, 150)}
=============================================================================
