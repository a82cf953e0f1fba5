-------------------------------- MODULE Feed --------------------------------
(***************************************************************************)
(* What an ingestion loop promises to those behind it: batches of signals   *)
(* from its source reach the incident timeline one after the other, and     *)
(* each batch, as it is, reaches the sink before the next one is published. *)
(* The loop for logs promises this alone, the loop for metrics also that no *)
(* signal is published twice.                                               *)
(*                                                                         *)
(* LogsIngestor and MetricsIngestor implement this specification, and so do *)
(* the loops of Flow, which add what the process does around them.          *)
(***************************************************************************)
EXTENDS Integers

CONSTANTS Signals,     \* the signals of the source
          AtMostOnce   \* whether a signal is published once only

VARIABLES source,      \* the signals that may be published
          timeline,    \* how often each one was appended to the timeline
          sink,        \* how often each one reached the sink
          pending      \* the batch that is in the timeline and not yet in the sink

vars == <<source, timeline, sink, pending>>

Plus(f, S) == [s \in Signals |-> IF s \in S THEN f[s] + 1 ELSE f[s]]

Init ==
    /\ source = {} /\ pending = {}
    /\ timeline = [s \in Signals |-> 0]
    /\ sink = [s \in Signals |-> 0]

Appear(S) ==
    /\ source' = source \cup S
    /\ UNCHANGED <<timeline, sink, pending>>

Publish(B) ==
    /\ pending = {} /\ B # {}
    /\ AtMostOnce => \A s \in B : timeline[s] = 0
    /\ timeline' = Plus(timeline, B)
    /\ pending' = B
    /\ UNCHANGED <<source, sink>>

Forward ==
    /\ pending # {}
    /\ sink' = Plus(sink, pending)
    /\ pending' = {}
    /\ UNCHANGED <<source, timeline>>

Next ==
    \/ \E S \in SUBSET Signals : Appear(S)
    \/ \E B \in SUBSET source : Publish(B)
    \/ Forward

Spec == Init /\ [][Next]_vars
=============================================================================
