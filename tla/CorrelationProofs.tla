--------------------------- MODULE CorrelationProofs ---------------------------
(* The bounded signal store and the correlation query, for every bound, every *)
(* request and every interleaving of the ingestors with the two reads.       *)
EXTENDS Correlation, FiniteSetTheorems, SequenceTheorems, TLAPS

-----------------------------------------------------------------------------
(* The buffers.                                                             *)

\* What a buffer holds of the added signals of S.
Buffer(s, added, max, S) ==
    /\ s \in Seq(Stored(S, added)) /\ Len(s) <= max
    /\ \A i \in DOMAIN s : s[i].n = added - Len(s) + i
    /\ added <= max => Len(s) = added

\* A buffer after a batch was added to it.
Extended(s, added, max, batch) == Newest(s \o Numbered(batch, added), max)

\* What is old in t was in s.
NoneBack(t, s, added) ==
    \A i \in DOMAIN t : t[i].n <= added => \E j \in DOMAIN s : t[i] = s[j]

LEMMA StoredElement ==
    ASSUME NEW S, NEW added \in Nat, NEW x \in Stored(S, added)
    PROVE  x = [sig |-> x.sig, n |-> x.n] /\ x.sig \in S /\ x.n \in 1..added
BY DEF Stored

LEMMA StoredGrows ==
    ASSUME NEW S, NEW a \in Nat, NEW b \in Nat, a <= b
    PROVE  Stored(S, a) \subseteq Stored(S, b)
BY DEF Stored

LEMMA NumberedStored ==
    ASSUME NEW S, NEW batch \in Seq(S), NEW added \in Nat
    PROVE  /\ Numbered(batch, added) \in Seq(Stored(S, added + Len(batch)))
           /\ Len(Numbered(batch, added)) = Len(batch)
           /\ \A i \in 1..Len(batch) : Numbered(batch, added)[i].n = added + i
<1> DEFINE t == Numbered(batch, added)
<1>1. Len(batch) \in Nat /\ \A i \in 1..Len(batch) : batch[i] \in S
  BY ElementOfSeq, LenProperties
<1>2. \A i \in 1..Len(batch) : [sig |-> batch[i], n |-> added + i] \in Stored(S, added + Len(batch))
  <2> TAKE i \in 1..Len(batch)
  <2>1. batch[i] \in S /\ added + i \in 1..(added + Len(batch))
    BY <1>1
  <2> QED
    BY <2>1 DEF Stored
<1>3. t \in [1..Len(batch) -> Stored(S, added + Len(batch))]
  BY <1>2 DEF Numbered
<1>4. \A i \in 1..Len(batch) : t[i] = [sig |-> batch[i], n |-> added + i]
  BY DEF Numbered
<1>5. DOMAIN t = 1..Len(batch)
  BY DEF Numbered
<1> HIDE DEF t
<1>6. \A i \in 1..Len(batch) : t[i].n = added + i
  <2> TAKE i \in 1..Len(batch)
  <2>1. t[i] = [sig |-> batch[i], n |-> added + i] /\ added + i \in Int
    BY <1>1, <1>4
  <2> QED
    BY <2>1
<1>7. t \in Seq(Stored(S, added + Len(batch))) /\ Len(t) = Len(batch)
  BY <1>1, <1>3, <1>5
<1> QED
  BY <1>6, <1>7 DEF t

\* Newest keeps the end of a sequence.
LEMMA NewestEnd ==
    ASSUME NEW T, NEW s \in Seq(T), NEW max \in Nat \ {0}
    PROVE  /\ Newest(s, max) \in Seq(T)
           /\ Len(Newest(s, max)) = IF Len(s) > max THEN max ELSE Len(s)
           /\ \A i \in 1..Len(Newest(s, max)) :
                Newest(s, max)[i] = s[Len(s) - Len(Newest(s, max)) + i]
<1>1. CASE Len(s) > max
  <2> DEFINE m == Len(s) - max + 1
  <2>1. m \in Int /\ Len(s) \in Int /\ m \in 1..Len(s)
    BY <1>1, LenProperties
  <2>2. \A i \in m..Len(s) : s[i] \in T
    BY <2>1, ElementOfSeq
  <2>3. /\ SubSeq(s, m, Len(s)) \in Seq(T)
        /\ Len(SubSeq(s, m, Len(s))) = IF m <= Len(s) THEN Len(s) - m + 1 ELSE 0
        /\ \A i \in 1..(Len(s) - m + 1) : SubSeq(s, m, Len(s))[i] = s[m + i - 1]
    BY <2>1, <2>2, SubSeqProperties
  <2>4. Newest(s, max) = SubSeq(s, m, Len(s))
    BY <1>1 DEF Newest
  <2> HIDE DEF m
  <2>5. Len(Newest(s, max)) = max
    BY <1>1, <2>1, <2>3, <2>4 DEF m
  <2>6. \A i \in 1..max : Newest(s, max)[i] = s[Len(s) - max + i]
    <3> TAKE i \in 1..max
    <3>1. i \in 1..(Len(s) - m + 1) /\ m + i - 1 = Len(s) - max + i
      BY <2>1 DEF m
    <3> QED
      BY <3>1, <2>3, <2>4
  <2> QED
    BY <1>1, <2>3, <2>4, <2>5, <2>6
<1>2. CASE ~(Len(s) > max)
  <2>1. Newest(s, max) = s
    BY <1>2 DEF Newest
  <2>2. Len(s) \in Nat
    BY LenProperties
  <2>3. \A i \in 1..Len(s) : s[Len(s) - Len(s) + i] = s[i]
    BY <2>2
  <2> QED
    BY <1>2, <2>1, <2>2, <2>3
<1> QED
  BY <1>1, <1>2

\* An append keeps a buffer what it is, and brings nothing old back.
LEMMA AppendKeeps ==
    ASSUME NEW S, NEW s, NEW added \in Nat, NEW max \in Nat \ {0}, NEW batch \in Seq(S),
           Buffer(s, added, max, S)
    PROVE  /\ Buffer(Extended(s, added, max, batch), added + Len(batch), max, S)
           /\ NoneBack(Extended(s, added, max, batch), s, added)
<1> DEFINE b == Numbered(batch, added)
           all == added + Len(batch)
           c == s \o b
           t == Newest(c, max)
<1>1. Len(batch) \in Nat /\ all \in Nat /\ added <= all
  BY LenProperties
<1>2. s \in Seq(Stored(S, all)) /\ Len(s) \in Nat /\ DOMAIN s = 1..Len(s)
  BY <1>1, StoredGrows, SeqMonotonic, LenProperties DEF Buffer
<1>3. b \in Seq(Stored(S, all)) /\ Len(b) = Len(batch)
      /\ \A i \in 1..Len(batch) : b[i].n = added + i
  BY NumberedStored
<1> HIDE DEF b
<1>4. /\ c \in Seq(Stored(S, all)) /\ Len(c) = Len(s) + Len(batch)
      /\ \A i \in 1..(Len(s) + Len(batch)) : c[i] = IF i <= Len(s) THEN s[i] ELSE b[i - Len(s)]
  <2> DEFINE T == Stored(S, all)
  <2>1. s \in Seq(T) /\ b \in Seq(T)
    BY <1>2, <1>3
  <2> HIDE DEF T
  <2>2. /\ c \in Seq(T) /\ Len(c) = Len(s) + Len(b)
        /\ \A i \in 1..(Len(s) + Len(b)) : c[i] = IF i <= Len(s) THEN s[i] ELSE b[i - Len(s)]
    BY <2>1, ConcatProperties
  <2> QED
    BY <2>2, <1>3 DEF T
<1>5. \A i \in 1..Len(c) : c[i].n = all - Len(c) + i
  <2> TAKE i \in 1..Len(c)
  <2>1. CASE i <= Len(s)
    <3>1. c[i] = s[i] /\ i \in DOMAIN s
      BY <2>1, <1>1, <1>2, <1>4
    <3>2. s[i].n = added - Len(s) + i
      BY <3>1 DEF Buffer
    <3> QED
      BY <3>1, <3>2, <1>1, <1>2, <1>4
  <2>2. CASE ~(i <= Len(s))
    <3>1. c[i] = b[i - Len(s)] /\ i - Len(s) \in 1..Len(batch)
      BY <2>2, <1>1, <1>2, <1>4
    <3>2. b[i - Len(s)].n = added + (i - Len(s))
      BY <3>1, <1>3
    <3> QED
      BY <3>1, <3>2, <1>1, <1>2, <1>4
  <2> QED
    BY <2>1, <2>2
<1>6. /\ t \in Seq(Stored(S, all))
      /\ Len(t) = IF Len(c) > max THEN max ELSE Len(c)
      /\ \A i \in 1..Len(t) : t[i] = c[Len(c) - Len(t) + i]
  <2> HIDE DEF c
  <2> QED
    BY <1>4, NewestEnd
<1>7. DOMAIN t = 1..Len(t) /\ Len(t) \in Nat
  BY <1>6, LenProperties
<1>8. t = Extended(s, added, max, batch)
  BY DEF Extended, b
<1> HIDE DEF c, t
<1>9. \A i \in 1..Len(t) : Len(c) - Len(t) + i \in 1..Len(c) /\ t[i].n = all - Len(t) + i
  <2> TAKE i \in 1..Len(t)
  <2>1. Len(c) - Len(t) + i \in 1..Len(c)
    BY <1>1, <1>2, <1>4, <1>6, <1>7
  <2>2. t[i].n = all - Len(c) + (Len(c) - Len(t) + i)
    BY <2>1, <1>5, <1>6
  <2> QED
    BY <2>1, <2>2, <1>1, <1>2, <1>4, <1>7
<1>10. all <= max => Len(t) = all
  <2>1. added <= max => Len(s) = added
    BY DEF Buffer
  <2>2. added \in Nat /\ max \in Nat /\ Len(c) = Len(s) + Len(batch)
    BY <1>4
  <2>3. Len(t) = IF Len(c) > max THEN max ELSE Len(c)
    BY <1>6
  <2>4. CASE added <= max
    <3>1. Len(c) = all
      BY <2>1, <2>2, <2>4
    <3> QED
      BY <3>1, <2>2, <2>3, <1>1
  <2>5. CASE ~(added <= max)
    BY <2>2, <2>5, <1>1
  <2> QED
    BY <2>4, <2>5
<1>11. ASSUME NEW i \in DOMAIN t, t[i].n <= added
       PROVE  \E j \in DOMAIN s : t[i] = s[j]
  <2> DEFINE j == Len(c) - Len(t) + i
  <2>1. j \in 1..Len(c) /\ t[i] = c[j] /\ all - Len(t) + i <= added
    BY <1>6, <1>7, <1>9, <1>11
  <2>2. j <= Len(s)
    BY <2>1, <1>1, <1>2, <1>4, <1>7
  <2>3. c[j] = s[j] /\ j \in DOMAIN s
    BY <2>1, <2>2, <1>1, <1>2, <1>4
  <2> QED
    BY <2>1, <2>3
<1>12. Len(t) <= max
  BY <1>2, <1>1, <1>4, <1>6
<1>13. Buffer(t, all, max, S)
  BY <1>6, <1>7, <1>9, <1>10, <1>12 DEF Buffer
<1> QED
  BY <1>8, <1>11, <1>13 DEF NoneBack

-----------------------------------------------------------------------------
(* The inductive invariant.                                                 *)

\* What was in a buffer when the query began, and is still there after the query read
\* it, was read.
MetricsRead ==
    pc \in {"logs", "build", "answered"} =>
        \A i \in DOMAIN metrics :
            metrics[i].n <= before[1] /\ InRange(metrics[i].sig.ts) => metrics[i] \in qm
LogsRead ==
    pc \in {"build", "answered"} =>
        \A i \in DOMAIN logs :
            logs[i].n <= before[2] /\ InRange(LogTime(logs[i].sig)) => logs[i] \in ql

\* A number names one signal of a read.
Distinct(S) == \A x, y \in S : x.n = y.n => x = y
ReadInv ==
    /\ IsFiniteSet(qm) /\ Distinct(qm)
    /\ IsFiniteSet(ql) /\ Distinct(ql)

ResultInv == pc = "answered" => nodes = ResultNodes /\ edges = ResultEdges

IInv == TypeOK /\ NewestKept /\ MetricsRead /\ LogsRead /\ ReadInv /\ ResultInv

LEMMA Buffers ==
    ASSUME TypeOK, NewestKept
    PROVE  /\ Buffer(metrics, addedMetrics, MaxMetrics, Metrics)
           /\ Buffer(logs, addedLogs, MaxLogs, Logs)
           /\ addedMetrics \in Nat /\ addedLogs \in Nat
BY DEF TypeOK, NewestKept, Buffer

LEMMA InitInv == Init => IInv
<1> SUFFICES ASSUME Init
             PROVE  IInv
  OBVIOUS
<1>1. TypeOK
  <2>1. metrics \in Seq(Stored(Metrics, addedMetrics)) /\ Len(metrics) = 0
    BY EmptySeq DEF Init
  <2>2. logs \in Seq(Stored(Logs, addedLogs)) /\ Len(logs) = 0
    BY EmptySeq DEF Init
  <2> QED
    BY <2>1, <2>2, StoreAssumption DEF Init, TypeOK
<1>2. NewestKept
  BY DEF Init, NewestKept
<1>3. ReadInv
  BY FS_EmptySet DEF Init, ReadInv, Distinct
<1> QED
  BY <1>1, <1>2, <1>3 DEF Init, IInv, MetricsRead, LogsRead, ResultInv

\* An append of metrics.
LEMMA MetricsAdded ==
    ASSUME TypeOK, NewestKept, NEW batch \in Seq(Metrics), AddMetricPoints(batch)
    PROVE  /\ TypeOK' /\ NewestKept'
           /\ NoneBack(metrics', metrics, addedMetrics)
<1>1. /\ Buffer(metrics', addedMetrics + Len(batch), MaxMetrics, Metrics)
      /\ NoneBack(metrics', metrics, addedMetrics)
  <2>1. metrics' = Extended(metrics, addedMetrics, MaxMetrics, batch)
    BY DEF AddMetricPoints, Extended
  <2>2. Buffer(metrics, addedMetrics, MaxMetrics, Metrics) /\ addedMetrics \in Nat
        /\ MaxMetrics \in Nat \ {0}
    BY Buffers, StoreAssumption
  <2>3. /\ Buffer(Extended(metrics, addedMetrics, MaxMetrics, batch), addedMetrics + Len(batch), MaxMetrics, Metrics)
        /\ NoneBack(Extended(metrics, addedMetrics, MaxMetrics, batch), metrics, addedMetrics)
    BY <2>2, AppendKeeps
  <2> QED
    BY <2>1, <2>3
<1>2. /\ addedMetrics' = addedMetrics + Len(batch) /\ addedMetrics' \in 0..MaxAdded
      /\ addedMetrics <= addedMetrics' /\ addedMetrics \in Nat /\ addedMetrics' \in Nat
      /\ UNCHANGED <<logs, addedLogs, pc, q, qm, ql, before>>
  BY StoreAssumption, LenProperties DEF AddMetricPoints, TypeOK, queryVars
<1>3. qm' \subseteq Stored(Metrics, addedMetrics')
  BY <1>2, StoredGrows DEF TypeOK
<1>4. before' \in (0..addedMetrics') \X (0..addedLogs')
  BY <1>2 DEF TypeOK
<1>5. TypeOK'
  BY <1>1, <1>2, <1>3, <1>4 DEF TypeOK, Buffer
<1>6. NewestKept'
  BY <1>1, <1>2 DEF NewestKept, Buffer
<1> QED
  BY <1>1, <1>5, <1>6

\* An append of log records.
LEMMA LogsAdded ==
    ASSUME TypeOK, NewestKept, NEW batch \in Seq(Logs), AddLogRecords(batch)
    PROVE  /\ TypeOK' /\ NewestKept'
           /\ NoneBack(logs', logs, addedLogs)
<1>1. /\ Buffer(logs', addedLogs + Len(batch), MaxLogs, Logs)
      /\ NoneBack(logs', logs, addedLogs)
  <2>1. logs' = Extended(logs, addedLogs, MaxLogs, batch)
    BY DEF AddLogRecords, Extended
  <2>2. Buffer(logs, addedLogs, MaxLogs, Logs) /\ addedLogs \in Nat
        /\ MaxLogs \in Nat \ {0}
    BY Buffers, StoreAssumption
  <2>3. /\ Buffer(Extended(logs, addedLogs, MaxLogs, batch), addedLogs + Len(batch), MaxLogs, Logs)
        /\ NoneBack(Extended(logs, addedLogs, MaxLogs, batch), logs, addedLogs)
    BY <2>2, AppendKeeps
  <2> QED
    BY <2>1, <2>3
<1>2. /\ addedLogs' = addedLogs + Len(batch) /\ addedLogs' \in 0..MaxAdded
      /\ addedLogs <= addedLogs' /\ addedLogs \in Nat /\ addedLogs' \in Nat
      /\ UNCHANGED <<metrics, addedMetrics, pc, q, qm, ql, before>>
  BY StoreAssumption, LenProperties DEF AddLogRecords, TypeOK, queryVars
<1>3. ql' \subseteq Stored(Logs, addedLogs')
  BY <1>2, StoredGrows DEF TypeOK
<1>4. before' \in (0..addedMetrics') \X (0..addedLogs')
  BY <1>2 DEF TypeOK
<1>5. TypeOK'
  BY <1>1, <1>2, <1>3, <1>4 DEF TypeOK, Buffer
<1>6. NewestKept'
  BY <1>1, <1>2 DEF NewestKept, Buffer
<1> QED
  BY <1>1, <1>5, <1>6

\* What a read of a buffer gives.
LEMMA ReadBuffer ==
    ASSUME NEW S, NEW s, NEW added \in Nat, NEW max, Buffer(s, added, max, S),
           NEW R \in SUBSET {s[i] : i \in DOMAIN s}
    PROVE  IsFiniteSet(R) /\ Distinct(R) /\ R \subseteq Stored(S, added)
<1>1. DOMAIN s = 1..Len(s) /\ Len(s) \in Nat /\ \A i \in 1..Len(s) : s[i] \in Stored(S, added)
  BY LenProperties, ElementOfSeq DEF Buffer
<1> DEFINE E == {s[i] : i \in DOMAIN s}
           f == [i \in 1..Len(s) |-> s[i]]
<1>2. f \in Surjection(1..Len(s), E)
  BY <1>1 DEF Surjection
<1>3. IsFiniteSet(1..Len(s))
  BY <1>1, FS_Interval
<1>4. IsFiniteSet(E)
  BY <1>2, <1>3, FS_Surjection
<1>5. IsFiniteSet(R)
  BY <1>4, FS_Subset
<1>6. ASSUME NEW x \in R, NEW y \in R, x.n = y.n
      PROVE  x = y
  <2>1. PICK i \in DOMAIN s : x = s[i]
    OBVIOUS
  <2>2. PICK j \in DOMAIN s : y = s[j]
    OBVIOUS
  <2>3. added - Len(s) + i = added - Len(s) + j
    BY <1>6, <2>1, <2>2 DEF Buffer
  <2>4. i = j
    BY <2>3, <1>1
  <2> QED
    BY <2>1, <2>2, <2>4
<1> QED
  BY <1>1, <1>5, <1>6 DEF Distinct

-----------------------------------------------------------------------------
(* The steps.                                                               *)

\* What an append leaves of the old signals was read; the new ones came too late.
LEMMA MetricsReadKept ==
    ASSUME TypeOK, TypeOK', MetricsRead, NEW batch, AddMetricPoints(batch),
           NoneBack(metrics', metrics, addedMetrics)
    PROVE  MetricsRead'
<1>1. pc' = pc /\ q' = q /\ qm' = qm /\ before' = before
  BY DEF AddMetricPoints, queryVars
<1>2. SUFFICES ASSUME pc \in {"logs", "build", "answered"}, NEW i \in DOMAIN metrics',
                      metrics'[i].n <= before[1], InRange(metrics'[i].sig.ts)
               PROVE  metrics'[i] \in qm
  BY <1>1 DEF MetricsRead, InRange
<1>3. metrics'[i].n \in Nat
  <2>1. metrics'[i] \in Stored(Metrics, addedMetrics') /\ addedMetrics' \in Nat
    BY ElementOfSeq, LenProperties DEF TypeOK
  <2> QED
    BY <2>1, StoredElement
<1>4. before[1] \in Nat /\ addedMetrics \in Nat /\ before[1] <= addedMetrics
  BY DEF TypeOK
<1>5. PICK j \in DOMAIN metrics : metrics'[i] = metrics[j]
  BY <1>2, <1>3, <1>4 DEF NoneBack
<1> QED
  BY <1>2, <1>5 DEF MetricsRead

LEMMA LogsReadKept ==
    ASSUME TypeOK, TypeOK', LogsRead, NEW batch, AddLogRecords(batch),
           NoneBack(logs', logs, addedLogs)
    PROVE  LogsRead'
<1>1. pc' = pc /\ q' = q /\ ql' = ql /\ before' = before
  BY DEF AddLogRecords, queryVars
<1>2. SUFFICES ASSUME pc \in {"build", "answered"}, NEW i \in DOMAIN logs',
                      logs'[i].n <= before[2], InRange(LogTime(logs'[i].sig))
               PROVE  logs'[i] \in ql
  BY <1>1 DEF LogsRead, InRange, LogTime
<1>3. logs'[i].n \in Nat
  <2>1. logs'[i] \in Stored(Logs, addedLogs') /\ addedLogs' \in Nat
    BY ElementOfSeq, LenProperties DEF TypeOK
  <2> QED
    BY <2>1, StoredElement
<1>4. before[2] \in Nat /\ addedLogs \in Nat /\ before[2] <= addedLogs
  BY DEF TypeOK
<1>5. PICK j \in DOMAIN logs : logs'[i] = logs[j]
  BY <1>2, <1>3, <1>4 DEF NoneBack
<1> QED
  BY <1>2, <1>5 DEF LogsRead

\* The result speaks of what was read only.
LEMMA ResultStable ==
    ASSUME UNCHANGED <<q, qm, ql>>
    PROVE  ResultNodes' = ResultNodes /\ ResultEdges' = ResultEdges
BY DEF ResultNodes, ResultEdges, OfResource, GraphNodes, GraphEdges, AllowedEdges,
       Correlated, Skew, AskedSkew, Wrap

LEMMA ResultKept ==
    ASSUME ResultInv, UNCHANGED <<pc, q, qm, ql, nodes, edges>>
    PROVE  ResultInv'
BY ResultStable DEF ResultInv

LEMMA NextInv == IInv /\ [Next]_vars => IInv'
<1> SUFFICES ASSUME IInv, [Next]_vars
             PROVE  IInv'
  OBVIOUS
<1> USE DEF IInv
<1>1. ASSUME NEW batch \in Seq(Metrics), AddMetricPoints(batch)
      PROVE  IInv'
  <2>1. TypeOK' /\ NewestKept' /\ NoneBack(metrics', metrics, addedMetrics)
    BY <1>1, MetricsAdded
  <2>2. UNCHANGED <<logs, addedLogs, pc, q, qm, ql, nodes, edges, before>>
    BY <1>1 DEF AddMetricPoints, queryVars
  <2>3. MetricsRead'
    BY <1>1, <2>1, MetricsReadKept
  <2>4. LogsRead' /\ ReadInv'
    BY <2>2 DEF LogsRead, ReadInv, Distinct, InRange, LogTime
  <2> QED
    BY <2>1, <2>2, <2>3, <2>4, ResultKept
<1>2. ASSUME NEW batch \in Seq(Logs), AddLogRecords(batch)
      PROVE  IInv'
  <2>1. TypeOK' /\ NewestKept' /\ NoneBack(logs', logs, addedLogs)
    BY <1>2, LogsAdded
  <2>2. UNCHANGED <<metrics, addedMetrics, pc, q, qm, ql, nodes, edges, before>>
    BY <1>2 DEF AddLogRecords, queryVars
  <2>3. LogsRead'
    BY <1>2, <2>1, LogsReadKept
  <2>4. MetricsRead' /\ ReadInv'
    BY <2>2 DEF MetricsRead, ReadInv, Distinct, InRange
  <2> QED
    BY <2>1, <2>2, <2>3, <2>4, ResultKept
<1>3. CASE Reject \/ Begin
  <2>1. UNCHANGED <<storeVars, q, qm, ql, nodes, edges>> /\ pc' \in {"rejected", "metrics"}
    BY <1>3 DEF Reject, Begin
  <2>2. before' \in (0..addedMetrics) \X (0..addedLogs)
    BY <1>3 DEF Reject, Begin, TypeOK
  <2> QED
    BY <2>1, <2>2 DEF storeVars, TypeOK, NewestKept, MetricsRead, LogsRead, ReadInv, Distinct,
                      ResultInv
<1>4. CASE ReadMetrics
  <2>1. /\ UNCHANGED <<storeVars, q, ql, nodes, edges, before>>
        /\ pc' = "logs" /\ qm' = QueryMetricPoints
    BY <1>4 DEF ReadMetrics
  <2>2. QueryMetricPoints \in SUBSET {metrics[i] : i \in DOMAIN metrics}
    BY DEF QueryMetricPoints
  <2>3. IsFiniteSet(qm') /\ Distinct(qm') /\ qm' \subseteq Stored(Metrics, addedMetrics)
    BY <2>1, <2>2, Buffers, ReadBuffer
  <2>4. MetricsRead'
    BY <2>1 DEF MetricsRead, QueryMetricPoints, storeVars, InRange
  <2> QED
    BY <2>1, <2>3, <2>4 DEF storeVars, TypeOK, NewestKept, LogsRead, ReadInv, Distinct, ResultInv
<1>5. CASE ReadLogs
  <2>1. /\ UNCHANGED <<storeVars, q, qm, nodes, edges, before>>
        /\ pc = "logs" /\ pc' = "build" /\ ql' = QueryLogRecords
    BY <1>5 DEF ReadLogs
  <2>2. QueryLogRecords \in SUBSET {logs[i] : i \in DOMAIN logs}
    BY DEF QueryLogRecords
  <2>3. IsFiniteSet(ql') /\ Distinct(ql') /\ ql' \subseteq Stored(Logs, addedLogs)
    BY <2>1, <2>2, Buffers, ReadBuffer
  <2>4. MetricsRead' /\ LogsRead'
    BY <2>1 DEF MetricsRead, LogsRead, QueryLogRecords, storeVars, InRange, LogTime
  <2> QED
    BY <2>1, <2>3, <2>4 DEF storeVars, TypeOK, NewestKept, ReadInv, Distinct, ResultInv
<1>6. CASE Answer
  <2>1. /\ UNCHANGED <<storeVars, q, qm, ql, before>>
        /\ pc = "build" /\ pc' = "answered" /\ nodes' = ResultNodes /\ edges' = ResultEdges
    BY <1>6 DEF Answer
  <2>2. TypeOK' /\ NewestKept' /\ MetricsRead' /\ LogsRead' /\ ReadInv'
    BY <2>1 DEF storeVars, TypeOK, NewestKept, MetricsRead, LogsRead, ReadInv, Distinct,
                InRange, LogTime
  <2>3. ResultNodes' = ResultNodes /\ ResultEdges' = ResultEdges
    BY <2>1, ResultStable
  <2> QED
    BY <2>1, <2>2, <2>3 DEF ResultInv
<1>7. CASE UNCHANGED vars
  <2>1. UNCHANGED <<storeVars, pc, q, qm, ql, nodes, edges, before>>
    BY <1>7 DEF vars, queryVars
  <2>2. TypeOK' /\ NewestKept' /\ MetricsRead' /\ LogsRead' /\ ReadInv'
    BY <2>1 DEF storeVars, TypeOK, NewestKept, MetricsRead, LogsRead, ReadInv, Distinct,
                InRange, LogTime
  <2> QED
    BY <2>1, <2>2, ResultKept
<1>8. \A m, p \in Metrics : <<m>> \in Seq(Metrics) /\ <<m, p>> \in Seq(Metrics)
  OBVIOUS
<1>9. \A l, k \in Logs : <<l>> \in Seq(Logs) /\ <<l, k>> \in Seq(Logs)
  OBVIOUS
<1> QED
  BY <1>1, <1>2, <1>3, <1>4, <1>5, <1>6, <1>7, <1>8, <1>9 DEF Next

LEMMA InductiveInvariant == Spec => []IInv
BY InitInv, NextInv, PTL DEF Spec

-----------------------------------------------------------------------------
(* The store.                                                               *)

\* The buffers, the request and what was read have their types; no buffer outgrows its
\* bound.
THEOREM TypeCorrect == Spec => []TypeOK
BY InductiveInvariant, PTL DEF IInv

\* Each buffer holds the newest signals in order and without a gap, for all bounds and
\* batches (signals.InMemoryStore).
THEOREM BuffersKeepNewest == Spec => []NewestKept
BY InductiveInvariant, PTL DEF IInv

-----------------------------------------------------------------------------
(* The result of the query.                                                 *)

\* The tolerance is a number.
LEMMA SkewType == TypeOK => Skew \in Int
<1> SUFFICES ASSUME TypeOK
             PROVE  Skew \in Int
  OBVIOUS
<1>1. \A x \in Int : Wrap(x) \in Int
  <2> TAKE x \in Int
  <2>1. 2 * MaxInt + 2 \in Nat \ {0} /\ x + MaxInt + 1 \in Int /\ MaxInt \in Int
    BY StoreAssumption
  <2>2. (x + MaxInt + 1) % (2 * MaxInt + 2) \in Int
    BY <2>1
  <2> QED
    BY <2>1, <2>2 DEF Wrap
<1>2. q.skew # Absent => q.skew * Second \in Int
  BY StoreAssumption, QueryAssumption DEF TypeOK
<1> HIDE DEF Wrap
<1> QED
  BY <1>1, <1>2, StoreAssumption DEF Skew, AskedSkew

\* A pair that stayed in the store while the query ran is related in its result.
LEMMA PairsOfReads == IInv => PairsReported
<1> SUFFICES ASSUME IInv, pc = "answered", q.res = Absent, q.limitNodes = 0, q.limitEdges = 0,
                    NEW i \in DOMAIN metrics, NEW j \in DOMAIN logs,
                    metrics[i].n <= before[1], logs[j].n <= before[2],
                    InRange(metrics[i].sig.ts), InRange(LogTime(logs[j].sig)),
                    metrics[i].sig.res = logs[j].sig.res, logs[j].sig.ts # NoTime,
                    metrics[i].sig.ts - logs[j].sig.ts \in -Skew..Skew
             PROVE  <<Metric(metrics[i]), Log(logs[j]), "correlated_with">> \in edges
  BY DEF PairsReported
<1> DEFINE m == metrics[i]
           l == logs[j]
           e == <<Metric(m), Log(l), "correlated_with">>
<1>1. m \in qm /\ l \in ql
  BY DEF IInv, MetricsRead, LogsRead
<1>2. m.sig.ts \in Int /\ l.sig.ts \in Int
  <2>1. m \in Stored(Metrics, addedMetrics) /\ l \in Stored(Logs, addedLogs)
        /\ addedMetrics \in Nat /\ addedLogs \in Nat
    BY <1>1 DEF IInv, TypeOK
  <2>2. m.sig \in Metrics /\ l.sig \in Logs
    BY <2>1, StoredElement
  <2> QED
    BY <2>2, StoreAssumption
<1>3. Skew \in Int
  BY SkewType DEF IInv
<1>4. Correlated(m, l)
  BY <1>2, <1>3 DEF Correlated
<1>5. e \in GraphEdges
  <2>1. <<m, l>> \in {r \in qm \X ql : Correlated(r[1], r[2])}
    BY <1>1, <1>4
  <2> QED
    BY <2>1 DEF GraphEdges
<1>6. ResultNodes = GraphNodes
  BY DEF ResultNodes, OfResource
<1>7. /\ \E x \in GraphNodes : x.id = Metric(m)
      /\ \E x \in GraphNodes : x.id = Log(l)
  <2>1. [id |-> Metric(m), res |-> m.sig.res] \in GraphNodes
    BY <1>1 DEF GraphNodes
  <2>2. [id |-> Log(l), res |-> l.sig.res] \in GraphNodes
    BY <1>1 DEF GraphNodes
  <2> HIDE DEF m, l
  <2>3. \A a, b : [id |-> a, res |-> b].id = a
    OBVIOUS
  <2> QED
    BY <2>1, <2>2, <2>3
<1>8. e \in AllowedEdges(ResultNodes)
  BY <1>5, <1>6, <1>7 DEF AllowedEdges
<1>9. e \in ResultEdges
  BY <1>8 DEF ResultEdges
<1> QED
  BY <1>9 DEF IInv, ResultInv

\* The query misses no pair, whatever the ingestors append and the buffers let go of
\* between its two reads (correlation.Service.QueryGraph).
THEOREM PairsFound == Spec => []PairsReported
BY InductiveInvariant, PairsOfReads, PTL

-----------------------------------------------------------------------------
(* The limits.                                                              *)

\* Of a finite set in a strict total order, no more than n elements have fewer than n
\* elements before them.
LEMMA FirstBounded ==
    ASSUME NEW S, IsFiniteSet(S), NEW n \in Nat \ {0}, NEW R,
           \A x \in S : <<x, x>> \notin R,
           \A x, y \in S : x # y => <<x, y>> \in R \/ <<y, x>> \in R,
           \A x, y, z \in S : <<x, y>> \in R /\ <<y, z>> \in R => <<x, z>> \in R
    PROVE  LET F == {x \in S : Cardinality({y \in S : <<y, x>> \in R}) < n}
           IN  IsFiniteSet(F) /\ Cardinality(F) <= n
<1> DEFINE Below(x) == {y \in S : <<y, x>> \in R}
           F == {x \in S : Cardinality(Below(x)) < n}
           f == [x \in F |-> Cardinality(Below(x))]
<1>1. \A x \in S : IsFiniteSet(Below(x)) /\ Cardinality(Below(x)) \in Nat
  BY FS_Subset, FS_CardinalityType
<1>2. ASSUME NEW x \in S, NEW y \in S, <<x, y>> \in R
      PROVE  Cardinality(Below(x)) < Cardinality(Below(y))
  <2>1. Below(x) \in SUBSET Below(y)
    BY <1>2
  <2>2. x \in Below(y) /\ x \notin Below(x)
    BY <1>2
  <2>3. IsFiniteSet(Below(y)) /\ Cardinality(Below(x)) \in Nat /\ Cardinality(Below(y)) \in Nat
    BY <1>1
  <2> HIDE DEF Below
  <2>4. /\ Cardinality(Below(x)) <= Cardinality(Below(y))
        /\ Cardinality(Below(y)) = Cardinality(Below(x)) => Below(y) = Below(x)
    BY <2>1, <2>3, FS_Subset
  <2> QED
    BY <2>2, <2>3, <2>4
<1>3. \A x, y \in F : x # y => f[x] # f[y]
  <2> SUFFICES ASSUME NEW x \in F, NEW y \in F, x # y
               PROVE  Cardinality(Below(x)) # Cardinality(Below(y))
    OBVIOUS
  <2>1. x \in S /\ y \in S /\ (<<x, y>> \in R \/ <<y, x>> \in R)
    OBVIOUS
  <2>2. Cardinality(Below(x)) < Cardinality(Below(y)) \/ Cardinality(Below(y)) < Cardinality(Below(x))
    BY <2>1, <1>2
  <2>3. Cardinality(Below(x)) \in Nat /\ Cardinality(Below(y)) \in Nat
    BY <2>1, <1>1
  <2> HIDE DEF Below
  <2> QED
    BY <2>2, <2>3
<1>4. \A x \in F : Cardinality(Below(x)) \in 0..(n - 1)
  <2> TAKE x \in F
  <2>1. Cardinality(Below(x)) \in Nat /\ Cardinality(Below(x)) < n
    BY <1>1
  <2> HIDE DEF Below
  <2> QED
    BY <2>1
<1>5. f \in Injection(F, 0..(n - 1))
  <2>1. f \in [F -> 0..(n - 1)]
    BY <1>4
  <2> QED
    BY <2>1, <1>3 DEF Injection, IsInjective
<1>6. IsFiniteSet(0..(n - 1)) /\ Cardinality(0..(n - 1)) = n
  <2>1. 0 \in Int /\ n - 1 \in Int
    OBVIOUS
  <2>2. /\ IsFiniteSet(0..(n - 1))
        /\ Cardinality(0..(n - 1)) = IF 0 > n - 1 THEN 0 ELSE (n - 1) - 0 + 1
    BY <2>1, FS_Interval
  <2> QED
    BY <2>2
<1>7. IsFiniteSet(F) /\ Cardinality(F) <= n
  <2> HIDE DEF F, f
  <2>1. IsFiniteSet(F) /\ Cardinality(F) <= Cardinality(0..(n - 1))
    BY <1>5, <1>6, FS_Injection
  <2> QED
    BY <2>1, <1>6
<1> QED
  BY <1>7

\* The identifiers of the nodes.
Ids == Int \X Int \X Int

LEMMA BeforeOrder ==
    ASSUME NEW a \in Ids, NEW b \in Ids, NEW c \in Ids
    PROVE  /\ ~Before(a, a)
           /\ a # b => Before(a, b) \/ Before(b, a)
           /\ Before(a, b) /\ Before(b, c) => Before(a, c)
           /\ Before(a, b) => a # b
<1>1. /\ a[1] \in Int /\ a[2] \in Int /\ a[3] \in Int
      /\ b[1] \in Int /\ b[2] \in Int /\ b[3] \in Int
      /\ c[1] \in Int /\ c[2] \in Int /\ c[3] \in Int
  BY DEF Ids
<1>2. a = <<a[1], a[2], a[3]>> /\ b = <<b[1], b[2], b[3]>>
  BY DEF Ids
<1>3. ~Before(a, a)
  BY <1>1 DEF Before
<1>4. a # b => Before(a, b) \/ Before(b, a)
  BY <1>1, <1>2 DEF Before
<1>5. Before(a, b) /\ Before(b, c) => Before(a, c)
  BY <1>1 DEF Before
<1> QED
  BY <1>3, <1>4, <1>5

LEMMA FiniteImage ==
    ASSUME NEW S, IsFiniteSet(S), NEW f, DOMAIN f = S
    PROVE  IsFiniteSet({f[x] : x \in S})
<1> DEFINE T == {f[x] : x \in S}
           g == [x \in S |-> f[x]]
<1>1. g \in Surjection(S, T)
  BY DEF Surjection
<1> HIDE DEF T, g
<1>2. IsFiniteSet(T)
  BY <1>1, FS_Surjection
<1> QED
  BY <1>2 DEF T

\* The three kinds of nodes and of edges.
MetricNode(m) == [id |-> Metric(m), res |-> m.sig.res]
LogNode(l) == [id |-> Log(l), res |-> l.sig.res]
ResourceNode(s) == [id |-> Resource(s.sig.res), res |-> s.sig.res]

Kind(a, b) ==
    IF a[1] = 2 THEN "correlated_with"
    ELSE IF b[1] = 2 THEN "emits_metric" ELSE "emits_log"

\* The signals that were read are signals, each of its own number.
LEMMA SignalsRead ==
    ASSUME IInv
    PROVE  /\ IsFiniteSet(qm) /\ Distinct(qm) /\ IsFiniteSet(ql) /\ Distinct(ql)
           /\ \A m \in qm : m = [sig |-> m.sig, n |-> m.n] /\ m.sig \in Metrics /\ m.n \in Nat \ {0}
           /\ \A l \in ql : l = [sig |-> l.sig, n |-> l.n] /\ l.sig \in Logs /\ l.n \in Nat \ {0}
<1>1. qm \subseteq Stored(Metrics, addedMetrics) /\ addedMetrics \in Nat
  BY DEF IInv, TypeOK
<1>2. ql \subseteq Stored(Logs, addedLogs) /\ addedLogs \in Nat
  BY DEF IInv, TypeOK
<1>3. \A m \in qm : m = [sig |-> m.sig, n |-> m.n] /\ m.sig \in Metrics /\ m.n \in 1..addedMetrics
  BY <1>1, StoredElement
<1>4. \A l \in ql : l = [sig |-> l.sig, n |-> l.n] /\ l.sig \in Logs /\ l.n \in 1..addedLogs
  BY <1>2, StoredElement
<1> QED
  BY <1>1, <1>2, <1>3, <1>4 DEF IInv, ReadInv

LEMMA NodesFinite == IInv => IsFiniteSet(GraphNodes)
<1> SUFFICES ASSUME IInv
             PROVE  IsFiniteSet(GraphNodes)
  OBVIOUS
<1> DEFINE fr == [s \in qm \cup ql |-> ResourceNode(s)]
           fm == [m \in qm |-> MetricNode(m)]
           fl == [l \in ql |-> LogNode(l)]
           nr == {fr[s] : s \in qm \cup ql}
           nm == {fm[m] : m \in qm}
           nl == {fl[l] : l \in ql}
<1>1. IsFiniteSet(qm) /\ IsFiniteSet(ql)
  BY SignalsRead
<1>2. IsFiniteSet(qm \cup ql)
  BY <1>1, FS_Union
<1>3. DOMAIN fr = qm \cup ql /\ DOMAIN fm = qm /\ DOMAIN fl = ql
  OBVIOUS
<1>4. GraphNodes = nr \cup nm \cup nl
  BY DEF GraphNodes, ResourceNode, MetricNode, LogNode
<1> HIDE DEF fr, fm, fl
<1>5. IsFiniteSet(nr) /\ IsFiniteSet(nm) /\ IsFiniteSet(nl)
  BY <1>1, <1>2, <1>3, FiniteImage
<1> HIDE DEF nr, nm, nl
<1>6. IsFiniteSet(nr \cup nm)
  BY <1>5, FS_Union
<1>7. IsFiniteSet((nr \cup nm) \cup nl)
  BY <1>5, <1>6, FS_Union
<1> QED
  BY <1>4, <1>7

\* What the identifiers of the three kinds are.
LEMMA IdKinds ==
    ASSUME IInv
    PROVE  /\ \A s \in qm \cup ql : Resource(s.sig.res) \in Ids /\ Resource(s.sig.res)[1] = 3
           /\ \A m \in qm : Metric(m) \in Ids /\ Metric(m)[1] = 2
           /\ \A l \in ql : Log(l) \in Ids /\ Log(l)[1] = 1
<1>1. \A s \in qm \cup ql : Resource(s.sig.res) \in Ids /\ Resource(s.sig.res)[1] = 3
  <2> TAKE s \in qm \cup ql
  <2>1. s.sig.res \in Int
    BY SignalsRead, StoreAssumption
  <2> QED
    BY <2>1 DEF Resource, Ids
<1>2. \A m \in qm : Metric(m) \in Ids /\ Metric(m)[1] = 2
  <2> TAKE m \in qm
  <2>1. m.n \in Int
    BY SignalsRead
  <2> QED
    BY <2>1 DEF Metric, Ids
<1>3. \A l \in ql : Log(l) \in Ids /\ Log(l)[1] = 1
  <2> TAKE l \in ql
  <2>1. l.n \in Int /\ l.sig.id \in Int
    BY SignalsRead, StoreAssumption
  <2>2. <<1, l.sig.id, 0>> \in Ids /\ <<1, 0, l.n>> \in Ids
    BY <2>1 DEF Ids
  <2>3. Log(l) = <<1, l.sig.id, 0>> \/ Log(l) = <<1, 0, l.n>>
    BY DEF Log
  <2> QED
    BY <2>2, <2>3
<1> QED
  BY <1>1, <1>2, <1>3

\* The identifier of a node is one, and names it.
LEMMA NodeIdentity ==
    ASSUME IInv, NEW x \in GraphNodes, NEW y \in GraphNodes
    PROVE  /\ x.id \in Ids
           /\ x.id = y.id => x = y
<1> DEFINE Res(z) == \E s \in qm \cup ql : z = ResourceNode(s)
           Met(z) == \E m \in qm : z = MetricNode(m)
           Lg(z) == \E l \in ql : z = LogNode(l)
<1>1. \A z \in GraphNodes : Res(z) \/ Met(z) \/ Lg(z)
  BY DEF GraphNodes, ResourceNode, MetricNode, LogNode
<1>2. \A s \in qm \cup ql : s.sig.res \in Nat
  BY SignalsRead, StoreAssumption
<1>3. \A s \in qm \cup ql : /\ ResourceNode(s).id = <<3, s.sig.res, 0>>
                            /\ ResourceNode(s).res = s.sig.res
  BY DEF ResourceNode, Resource
<1>4. \A m \in qm : /\ MetricNode(m).id = <<2, m.n, 0>> /\ m.n \in Nat
  BY SignalsRead DEF MetricNode, Metric
<1>5. \A l \in ql : /\ l.sig \in Logs /\ l.n \in Nat \ {0} /\ l.sig.id \in Nat
                    /\ LogNode(l).id = IF l.sig.id # 0 THEN <<1, l.sig.id, 0>> ELSE <<1, 0, l.n>>
                    /\ LogNode(l).res = l.sig.res
  BY SignalsRead, StoreAssumption DEF LogNode, Log
<1>6. \A z \in GraphNodes : /\ z.id \in Ids
                            /\ Res(z) => z.id[1] = 3
                            /\ Met(z) => z.id[1] = 2
                            /\ Lg(z) => z.id[1] = 1
  <2> TAKE z \in GraphNodes
  <2>1. Res(z) => z.id \in Ids /\ z.id[1] = 3
    BY IdKinds DEF ResourceNode
  <2>2. Met(z) => z.id \in Ids /\ z.id[1] = 2
    BY IdKinds DEF MetricNode
  <2>3. Lg(z) => z.id \in Ids /\ z.id[1] = 1
    BY IdKinds DEF LogNode
  <2> QED
    BY <1>1, <2>1, <2>2, <2>3
<1>7. ASSUME x.id = y.id
      PROVE  x = y
  <2>1. CASE Res(x) /\ Res(y)
    <3>1. PICK s \in qm \cup ql : x = ResourceNode(s)
      BY <2>1
    <3>2. PICK t \in qm \cup ql : y = ResourceNode(t)
      BY <2>1
    <3>3. s.sig.res = t.sig.res
      BY <1>7, <3>1, <3>2, <1>3
    <3> QED
      BY <3>1, <3>2, <3>3 DEF ResourceNode
  <2>2. CASE Met(x) /\ Met(y)
    <3>1. PICK m \in qm : x = MetricNode(m)
      BY <2>2
    <3>2. PICK k \in qm : y = MetricNode(k)
      BY <2>2
    <3>3. m.n = k.n
      BY <1>7, <3>1, <3>2, <1>4
    <3>4. m = k
      BY <3>3, SignalsRead DEF Distinct
    <3> QED
      BY <3>1, <3>2, <3>4
  <2>3. CASE Lg(x) /\ Lg(y)
    <3>1. PICK l \in ql : x = LogNode(l)
      BY <2>3
    <3>2. PICK k \in ql : y = LogNode(k)
      BY <2>3
    <3>3. \/ l.sig.id # 0 /\ l.sig.id = k.sig.id
          \/ l.sig.id = 0 /\ k.sig.id = 0 /\ l.n = k.n
      <4>1. (IF l.sig.id # 0 THEN <<1, l.sig.id, 0>> ELSE <<1, 0, l.n>>)
              = (IF k.sig.id # 0 THEN <<1, k.sig.id, 0>> ELSE <<1, 0, k.n>>)
        BY <1>7, <3>1, <3>2, <1>5
      <4>2. l.n \in Nat \ {0} /\ k.n \in Nat \ {0} /\ l.sig.id \in Nat /\ k.sig.id \in Nat
        BY <1>5
      <4> QED
        BY <4>1, <4>2
    <3>4. CASE l.sig.id # 0 /\ l.sig.id = k.sig.id
      <4>1. l.sig = k.sig
        BY <3>4, <1>5, EventIdAssumption
      <4> QED
        BY <3>1, <3>2, <3>4, <4>1 DEF LogNode, Log
    <3>5. CASE l.sig.id = 0 /\ k.sig.id = 0 /\ l.n = k.n
      <4>1. l = k
        BY <3>5, SignalsRead DEF Distinct
      <4> QED
        BY <3>1, <3>2, <4>1
    <3> QED
      BY <3>3, <3>4, <3>5
  <2> QED
    BY <1>1, <1>6, <1>7, <2>1, <2>2, <2>3
<1> QED
  BY <1>6, <1>7

LEMMA EdgesFinite == IInv => IsFiniteSet(GraphEdges)
<1> SUFFICES ASSUME IInv
             PROVE  IsFiniteSet(GraphEdges)
  OBVIOUS
<1> DEFINE P == {r \in qm \X ql : Correlated(r[1], r[2])}
           fm == [m \in qm |-> <<Resource(m.sig.res), Metric(m), "emits_metric">>]
           fl == [l \in ql |-> <<Resource(l.sig.res), Log(l), "emits_log">>]
           fp == [p \in P |-> <<Metric(p[1]), Log(p[2]), "correlated_with">>]
           em == {fm[m] : m \in qm}
           el == {fl[l] : l \in ql}
           ep == {fp[p] : p \in P}
<1>1. IsFiniteSet(qm) /\ IsFiniteSet(ql)
  BY SignalsRead
<1>2. IsFiniteSet(P)
  <2>1. IsFiniteSet(qm \X ql)
    BY <1>1, FS_Product
  <2>2. P \in SUBSET (qm \X ql)
    OBVIOUS
  <2> HIDE DEF P
  <2> QED
    BY <2>1, <2>2, FS_Subset
<1>3. DOMAIN fm = qm /\ DOMAIN fl = ql /\ DOMAIN fp = P
  OBVIOUS
<1>4. GraphEdges = em \cup el \cup ep
  BY DEF GraphEdges
<1> HIDE DEF fm, fl, fp, P
<1>5. IsFiniteSet(em) /\ IsFiniteSet(el) /\ IsFiniteSet(ep)
  BY <1>1, <1>2, <1>3, FiniteImage
<1> HIDE DEF em, el, ep
<1>6. IsFiniteSet(em \cup el)
  BY <1>5, FS_Union
<1>7. IsFiniteSet((em \cup el) \cup ep)
  BY <1>5, <1>6, FS_Union
<1> QED
  BY <1>4, <1>7

\* The ends of an edge name it.
LEMMA EdgeShape ==
    ASSUME IInv, NEW e \in GraphEdges
    PROVE  e[1] \in Ids /\ e[2] \in Ids /\ e = <<e[1], e[2], Kind(e[1], e[2])>>
<1>1. CASE e \in {<<Resource(m.sig.res), Metric(m), "emits_metric">> : m \in qm}
  <2>1. PICK m \in qm : e = <<Resource(m.sig.res), Metric(m), "emits_metric">>
    BY <1>1
  <2> QED
    BY <2>1, IdKinds DEF Kind
<1>2. CASE e \in {<<Resource(l.sig.res), Log(l), "emits_log">> : l \in ql}
  <2>1. PICK l \in ql : e = <<Resource(l.sig.res), Log(l), "emits_log">>
    BY <1>2
  <2> QED
    BY <2>1, IdKinds DEF Kind
<1>3. CASE e \in {<<Metric(p[1]), Log(p[2]), "correlated_with">> :
                     p \in {r \in qm \X ql : Correlated(r[1], r[2])}}
  <2>1. PICK p \in qm \X ql : e = <<Metric(p[1]), Log(p[2]), "correlated_with">>
    BY <1>3
  <2>2. p[1] \in qm /\ p[2] \in ql
    OBVIOUS
  <2> QED
    BY <2>1, <2>2, IdKinds DEF Kind
<1> QED
  BY <1>1, <1>2, <1>3 DEF GraphEdges

\* The two ends order the edges.
LEMMA EdgeOrder ==
    ASSUME IInv, NEW d \in GraphEdges, NEW e \in GraphEdges, NEW f \in GraphEdges
    PROVE  /\ ~EdgeBefore(d, d)
           /\ d # e => EdgeBefore(d, e) \/ EdgeBefore(e, d)
           /\ EdgeBefore(d, e) /\ EdgeBefore(e, f) => EdgeBefore(d, f)
<1>1. /\ d[1] \in Ids /\ d[2] \in Ids /\ d = <<d[1], d[2], Kind(d[1], d[2])>>
      /\ e[1] \in Ids /\ e[2] \in Ids /\ e = <<e[1], e[2], Kind(e[1], e[2])>>
      /\ f[1] \in Ids /\ f[2] \in Ids /\ f = <<f[1], f[2], Kind(f[1], f[2])>>
  BY EdgeShape
<1>2. ~EdgeBefore(d, d)
  BY <1>1, BeforeOrder DEF EdgeBefore
<1>3. ASSUME d # e
      PROVE  EdgeBefore(d, e) \/ EdgeBefore(e, d)
  <2>1. d[1] # e[1] \/ d[2] # e[2]
    BY <1>1, <1>3
  <2> QED
    BY <2>1, <1>1, BeforeOrder DEF EdgeBefore
<1>4. ASSUME EdgeBefore(d, e), EdgeBefore(e, f)
      PROVE  EdgeBefore(d, f)
  BY <1>1, <1>4, BeforeOrder DEF EdgeBefore
<1> QED
  BY <1>2, <1>3, <1>4

LEMMA NodesLimited ==
    ASSUME IInv, q.limitNodes > 0
    PROVE  Cardinality(ResultNodes) <= q.limitNodes
<1> DEFINE S == OfResource
           n == q.limitNodes
           R == {p \in S \X S : Before(p[1].id, p[2].id)}
           F == {x \in S : Cardinality({y \in S : <<y, x>> \in R}) < n}
<1>1. S \in SUBSET GraphNodes
  BY DEF OfResource
<1>2. IsFiniteSet(S)
  BY <1>1, NodesFinite, FS_Subset
<1>3. n \in Nat \ {0}
  BY QueryAssumption DEF IInv, TypeOK
<1> HIDE DEF S
<1>4. \A x, y \in S : <<x, y>> \in R <=> Before(x.id, y.id)
  OBVIOUS
<1>5. /\ \A x \in S : <<x, x>> \notin R
      /\ \A x, y \in S : x # y => <<x, y>> \in R \/ <<y, x>> \in R
      /\ \A x, y, z \in S : <<x, y>> \in R /\ <<y, z>> \in R => <<x, z>> \in R
  <2> HIDE DEF R
  <2>1. \A x, y \in S : x.id \in Ids /\ (x.id = y.id => x = y)
    BY <1>1, NodeIdentity
  <2>2. \A x \in S : <<x, x>> \notin R
    BY <1>4, <2>1, BeforeOrder
  <2>3. \A x, y \in S : x # y => <<x, y>> \in R \/ <<y, x>> \in R
    BY <1>4, <2>1, BeforeOrder
  <2>4. \A x, y, z \in S : <<x, y>> \in R /\ <<y, z>> \in R => <<x, z>> \in R
    BY <1>4, <2>1, BeforeOrder
  <2> QED
    BY <2>2, <2>3, <2>4
<1>6. ResultNodes = F
  <2>1. \A x \in S : {y \in S : <<y, x>> \in R} = {y \in S : Before(y.id, x.id)}
    BY <1>4
  <2>2. ResultNodes = {x \in S : Cardinality({y \in S : Before(y.id, x.id)}) < n}
    BY DEF ResultNodes, S
  <2> QED
    BY <2>1, <2>2
<1> HIDE DEF R, n
<1>7. IsFiniteSet(F) /\ Cardinality(F) <= n
  BY <1>2, <1>3, <1>5, FirstBounded
<1> QED
  BY <1>6, <1>7 DEF n

LEMMA EdgesLimited ==
    ASSUME IInv, q.limitEdges > 0
    PROVE  Cardinality(ResultEdges) <= q.limitEdges
<1> DEFINE S == AllowedEdges(ResultNodes)
           n == q.limitEdges
           R == {p \in S \X S : EdgeBefore(p[1], p[2])}
           F == {e \in S : Cardinality({f \in S : <<f, e>> \in R}) < n}
<1>1. S \in SUBSET GraphEdges
  BY DEF AllowedEdges
<1>2. IsFiniteSet(S)
  BY <1>1, EdgesFinite, FS_Subset
<1>3. n \in Nat \ {0}
  BY QueryAssumption DEF IInv, TypeOK
<1> HIDE DEF S
<1>4. \A d, e \in S : <<d, e>> \in R <=> EdgeBefore(d, e)
  OBVIOUS
<1>5. /\ \A d \in S : <<d, d>> \notin R
      /\ \A d, e \in S : d # e => <<d, e>> \in R \/ <<e, d>> \in R
      /\ \A d, e, f \in S : <<d, e>> \in R /\ <<e, f>> \in R => <<d, f>> \in R
  <2> HIDE DEF R
  <2>1. \A d \in S : <<d, d>> \notin R
    BY <1>1, <1>4, EdgeOrder
  <2>2. \A d, e \in S : d # e => <<d, e>> \in R \/ <<e, d>> \in R
    BY <1>1, <1>4, EdgeOrder
  <2>3. \A d, e, f \in S : <<d, e>> \in R /\ <<e, f>> \in R => <<d, f>> \in R
    BY <1>1, <1>4, EdgeOrder
  <2> QED
    BY <2>1, <2>2, <2>3
<1>6. ResultEdges = F
  <2>1. \A e \in S : {f \in S : <<f, e>> \in R} = {f \in S : EdgeBefore(f, e)}
    BY <1>4
  <2>2. ResultEdges = {e \in S : Cardinality({f \in S : EdgeBefore(f, e)}) < n}
    BY DEF ResultEdges, S
  <2> QED
    BY <2>1, <2>2
<1> HIDE DEF R, n
<1>7. IsFiniteSet(F) /\ Cardinality(F) <= n
  BY <1>2, <1>3, <1>5, FirstBounded
<1> QED
  BY <1>6, <1>7 DEF n

LEMMA ClosedResult == IInv => ResultClosed
<1> SUFFICES ASSUME IInv, pc = "answered"
             PROVE  /\ \A e \in edges : {e[1], e[2]} \subseteq {x.id : x \in nodes}
                    /\ q.res # Absent => \A x \in nodes : x.res = q.res
                    /\ q.limitNodes > 0 => Cardinality(nodes) <= q.limitNodes
                    /\ q.limitEdges > 0 => Cardinality(edges) <= q.limitEdges
  BY DEF ResultClosed
<1>1. nodes = ResultNodes /\ edges = ResultEdges
  BY DEF IInv, ResultInv
<1>2. \A e \in edges : {e[1], e[2]} \subseteq {x.id : x \in nodes}
  <2> TAKE e \in edges
  <2>1. e \in AllowedEdges(nodes)
    BY <1>1 DEF ResultEdges
  <2>2. (\E x \in nodes : x.id = e[1]) /\ (\E x \in nodes : x.id = e[2])
    BY <2>1 DEF AllowedEdges
  <2> QED
    BY <2>2
<1>3. q.res # Absent => \A x \in nodes : x.res = q.res
  BY <1>1 DEF ResultNodes, OfResource
<1> QED
  BY <1>1, <1>2, <1>3, NodesLimited, EdgesLimited

\* No edge of a result dangles, and a result keeps to the filter and to the limits
\* (correlation.Service.QueryGraph).
THEOREM ResultsClosed == Spec => []ResultClosed
BY InductiveInvariant, ClosedResult, PTL
=============================================================================
