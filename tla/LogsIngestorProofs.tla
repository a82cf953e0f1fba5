------------------------- MODULE LogsIngestorProofs -------------------------
(* Type correctness, coverage and deduplication of LogsIngestor for every   *)
(* set of records, window, retention and bound on the clock corrections.    *)
EXTENDS LogsIngestor, TLAPS

-----------------------------------------------------------------------------
(* The inductive invariant.                                                 *)

\* The clock is close to its highest reading, and no watermark is ahead of that.
ClockInv ==
    /\ clock <= hi /\ hi <= clock + MaxBack
    /\ maxEnd <= hi
    /\ lastEnd <= maxEnd /\ maxEnd <= lastEnd + MaxBack
    /\ lastEnd = ZeroTime <=> maxEnd = ZeroTime

\* The window of the running poll joins the watermark or goes back by Window.
PollInv ==
    pc = "collecting" =>
        /\ end <= hi /\ maxEnd <= end + MaxBack
        /\ start = IF lastEnd = ZeroTime \/ ~(lastEnd < end) THEN end - Window ELSE lastEnd
        /\ \A r \in punctual : r \notin offered => end <= ts[r]

\* An identity is remembered from the end of the poll that delivered it, and one
\* that was delivered is forgotten only a retention after the record's timestamp.
SeenInv ==
    /\ \A r \in DOMAIN seenIDs : Delivered(r) /\ ts[r] <= seenIDs[r]
    /\ \A r \in Records :
          Delivered(r) => /\ r \in visible
                          /\ lastEnd # ZeroTime
                          /\ r \notin DOMAIN seenIDs => ts[r] + Retention < maxEnd

\* A batch holds a delivered record only after a window longer than the retention.
BatchInv ==
    pc = "publish" => \A r \in batch : timeline[r] > 0 => end - start > Retention

IInv == TypeOK /\ ClockInv /\ PollInv /\ SeenInv /\ BatchInv /\ PunctualRecordsCovered

-----------------------------------------------------------------------------
(* Lemmas.                                                                  *)

\* The retention is a duration, and a correction plus a window fit into it.
LEMMA RetentionBound == Retention \in Nat /\ MaxBack + Window <= Retention
BY ConfigAssumption, ClockAssumption DEF Retention

\* A poll returns a record that was delivered and is not remembered only when its
\* window is longer than the retention.
LEMMA RereadNeedsLongWindow ==
    ASSUME TypeOK, ClockInv, PollInv, SeenInv, pc = "collecting",
           NEW r \in InWindow(visible), Delivered(r), r \notin Remembered(end)
    PROVE  end - start > Retention
<1> USE RetentionBound, ConfigAssumption, ClockAssumption
<1>1. /\ start <= ts[r] /\ r \in Records /\ ts[r] \in Nat
      /\ start \in Int /\ end \in Nat /\ maxEnd \in Int /\ lastEnd \in Int
  BY DEF InWindow, TypeOK, ZeroTime
<1>2. lastEnd # ZeroTime
  BY <1>1 DEF SeenInv
<1>3. CASE r \in DOMAIN seenIDs
  <2>1. seenIDs[r] \in Nat /\ ts[r] <= seenIDs[r]
    BY <1>3 DEF TypeOK, SeenInv
  <2>2. seenIDs[r] < end - Retention
    BY <1>3 DEF Remembered
  <2> QED
    BY <1>1, <2>1, <2>2
<1>4. CASE r \notin DOMAIN seenIDs
  <2>1. ts[r] + Retention < maxEnd
    BY <1>1, <1>4 DEF SeenInv
  <2>2. CASE lastEnd < end
    <3>1. start = lastEnd /\ maxEnd <= lastEnd + MaxBack
      BY <1>2, <2>2 DEF PollInv, ClockInv
    <3> QED
      BY <1>1, <2>1, <3>1
  <2>3. CASE ~(lastEnd < end)
    <3>1. start = end - Window /\ maxEnd <= end + MaxBack
      BY <2>3 DEF PollInv
    <3> QED
      BY <1>1, <2>1, <3>1
  <2> QED
    BY <2>2, <2>3
<1> QED
  BY <1>3, <1>4

-----------------------------------------------------------------------------
(* Type correctness.                                                        *)

LEMMA InitTypeOK == Init => TypeOK
<1> SUFFICES ASSUME Init
             PROVE  TypeOK
  OBVIOUS
<1>1. DOMAIN seenIDs = {} /\ seenIDs \in [DOMAIN seenIDs -> Nat]
  BY DEF Init
<1>2. ts \in [Records -> Nat] /\ timeline \in [Records -> Nat] /\ sink \in [Records -> Nat]
  BY DEF Init
<1>3. /\ clock \in Nat /\ hi \in Nat /\ backs \in Nat /\ start \in Int /\ end \in Nat
      /\ lastEnd \in Nat \cup {ZeroTime} /\ maxEnd \in Nat \cup {ZeroTime}
      /\ coveredFrom \in Int
  BY DEF Init
<1>4. pc \in PCs /\ cancelled \in BOOLEAN
  BY DEF Init, PCs
<1>5. /\ visible \subseteq Records /\ punctual \subseteq visible
      /\ offered \subseteq visible /\ batch \subseteq visible
  BY DEF Init
<1> QED
  BY <1>1, <1>2, <1>3, <1>4, <1>5 DEF TypeOK

\* Counting the records of a batch keeps a count of every record.
LEMMA PlusType ==
    ASSUME NEW f \in [Records -> Nat], NEW S
    PROVE  /\ Plus(f, S) \in [Records -> Nat]
           /\ \A r \in Records : Plus(f, S)[r] = IF r \in S THEN f[r] + 1 ELSE f[r]
BY DEF Plus

LEMMA NextTypeOK == TypeOK /\ [Next]_vars => TypeOK'
<1> SUFFICES ASSUME TypeOK, [Next]_vars
             PROVE  TypeOK'
  OBVIOUS
<1> USE DEF TypeOK, PCs, ZeroTime, clockVars, sourceVars, pollVars, dedupVars, outVars
<1>1. CASE Tick
  BY <1>1 DEF Tick
<1>2. CASE StepBack
  BY <1>2 DEF StepBack
<1>3. ASSUME NEW r \in Records, NEW t \in 0..MaxTime, Appear(r, t)
      PROVE  TypeOK'
  BY <1>3 DEF Appear
<1>4. CASE Cancel
  BY <1>4 DEF Cancel
<1>5. CASE StartPoll
  BY <1>5, ConfigAssumption DEF StartPoll, WindowStart
<1>6. CASE CollectFail
  BY <1>6 DEF CollectFail, PollDone
<1>7. ASSUME NEW S \in Collected, CollectOK(S)
      PROVE  TypeOK'
  <2>1. S \subseteq visible /\ Remembered(end) \subseteq DOMAIN seenIDs
    BY DEF Collected, InWindow, Remembered
  <2>2. /\ DOMAIN seenIDs' = Remembered(end) \cup S
        /\ seenIDs' \in [DOMAIN seenIDs' -> Nat]
    BY <1>7, <2>1 DEF CollectOK
  <2>3. pc' \in PCs /\ batch' \subseteq visible /\ offered' \subseteq visible
    BY <1>7, <2>1 DEF CollectOK, PollDone
  <2>4. start' \in Int /\ end' \in Nat
    BY <1>7 DEF CollectOK, PollDone
  <2>5. lastEnd' \in Nat /\ maxEnd' \in Nat \cup {ZeroTime} /\ coveredFrom' \in Int
    BY <1>7 DEF CollectOK
  <2> QED
    BY <1>7, <2>1, <2>2, <2>3, <2>4, <2>5 DEF CollectOK
<1>8. CASE AddEvents
  BY <1>8, PlusType DEF AddEvents
<1>9. CASE AddLogRecords
  BY <1>9, PlusType DEF AddLogRecords, PollDone
<1>10. CASE Stop
  BY <1>10 DEF Stop
<1>11. CASE UNCHANGED vars
  BY <1>11 DEF vars
<1> QED
  BY <1>1, <1>2, <1>3, <1>4, <1>5, <1>6, <1>7, <1>8, <1>9, <1>10, <1>11
  DEF Next, Environment, Ingestor

\* Every variable of the ingestor keeps its type.
THEOREM TypeCorrect == Spec => []TypeOK
BY InitTypeOK, NextTypeOK, PTL DEF Spec

-----------------------------------------------------------------------------
(* The inductive invariant holds: initially, and after every step.          *)

LEMMA InitIInv == Init => IInv
<1> SUFFICES ASSUME Init
             PROVE  IInv
  OBVIOUS
<1>1. TypeOK
  BY InitTypeOK
<1>2. ClockInv
  BY ClockAssumption DEF Init, ClockInv, ZeroTime
<1>3. \A r \in Records : ~Delivered(r)
  <2>1. \A r \in Records : timeline[r] = 0
    BY DEF Init
  <2>2. pc # "publish"
    BY DEF Init
  <2>3. ASSUME NEW r \in Records, Delivered(r)
        PROVE  FALSE
    <3>1. timeline[r] > 0
      BY <2>2, <2>3 DEF Delivered
    <3>2. timeline[r] = 0
      BY <2>1
    <3> QED
      BY <3>1, <3>2
  <2> QED
    BY <2>3
<1>4. PollInv /\ SeenInv /\ BatchInv /\ PunctualRecordsCovered
  BY <1>3 DEF Init, PollInv, SeenInv, BatchInv, PunctualRecordsCovered
<1> QED
  BY <1>1, <1>2, <1>4 DEF IInv

\* A step that leaves the poll, the watermark and the outputs alone.
LEMMA EnvironmentIInv ==
    ASSUME IInv, Environment, TypeOK'
    PROVE  IInv'
<1> USE DEF IInv
<1>1. CASE Tick \/ StepBack
  <2>1. UNCHANGED <<sourceVars, pc, pollVars, dedupVars, outVars>> /\ hi <= hi'
    BY <1>1 DEF Tick, StepBack, TypeOK, clockVars
  <2>2. clock' <= hi' /\ hi' <= clock' + MaxBack
    BY <1>1, ClockAssumption DEF Tick, StepBack, TypeOK, ClockInv
  <2>3. ClockInv'
    BY <2>1, <2>2 DEF ClockInv, dedupVars, TypeOK, ZeroTime
  <2>4. PollInv'
    BY <2>1 DEF PollInv, dedupVars, pollVars, sourceVars, TypeOK
  <2>5. \A r \in Records : Delivered(r)' <=> Delivered(r)
    BY <2>1 DEF Delivered, outVars, pollVars
  <2>6. SeenInv'
    BY <2>1, <2>5 DEF SeenInv, dedupVars, sourceVars, TypeOK
  <2>7. BatchInv'
    BY <2>1 DEF BatchInv, outVars, pollVars
  <2>8. PunctualRecordsCovered'
    BY <2>1, <2>5 DEF PunctualRecordsCovered, dedupVars, sourceVars, TypeOK
  <2> QED
    BY <2>3, <2>4, <2>6, <2>7, <2>8
<1>2. ASSUME NEW r \in Records, NEW t \in 0..MaxTime, Appear(r, t)
      PROVE  IInv'
  <2>1. /\ r \notin visible /\ visible' = visible \cup {r}
        /\ \A q \in visible : ts'[q] = ts[q]
        /\ ts'[r] = t
        /\ \A q \in punctual' : q \in punctual \/ (q = r /\ hi <= t)
        /\ UNCHANGED <<clockVars, pc, cancelled, pollVars, dedupVars, outVars>>
    BY <1>2 DEF Appear, TypeOK
  <2>2. ClockInv'
    BY <2>1 DEF ClockInv, clockVars, dedupVars
  <2>3. PollInv'
    <3> UNCHANGED <<pc, start, end, offered, lastEnd, maxEnd, hi>>
      BY <2>1 DEF clockVars, pollVars, dedupVars
    <3>1. SUFFICES ASSUME pc = "collecting"
                   PROVE  \A q \in punctual' : q \notin offered => end <= ts'[q]
      BY DEF PollInv
    <3>2. end <= hi /\ end \in Nat /\ hi \in Nat /\ t \in Nat
      BY <3>1 DEF PollInv, TypeOK
    <3> QED
      BY <2>1, <3>1, <3>2 DEF PollInv, TypeOK
  <2>4. \A q \in Records : Delivered(q)' <=> Delivered(q)
    BY <2>1 DEF Delivered, outVars, pollVars
  <2>5. SeenInv'
    BY <2>1, <2>4 DEF SeenInv, dedupVars, TypeOK
  <2>6. BatchInv'
    BY <2>1 DEF BatchInv, outVars, pollVars
  <2>7. PunctualRecordsCovered'
    <3>1. lastEnd' = lastEnd /\ coveredFrom' = coveredFrom
      BY <2>1 DEF dedupVars
    <3>2. ASSUME NEW q \in punctual', lastEnd # ZeroTime, coveredFrom <= ts'[q], ts'[q] < lastEnd
          PROVE  Delivered(q)'
      <4>1. q # r
        BY <2>1, <3>2 DEF ClockInv, TypeOK, ZeroTime
      <4>2. q \in punctual /\ q \in visible /\ q \in Records
        BY <2>1, <4>1 DEF TypeOK
      <4> QED
        BY <2>1, <2>4, <3>2, <4>2 DEF PunctualRecordsCovered
    <3> QED
      BY <3>1, <3>2 DEF PunctualRecordsCovered
  <2> QED
    BY <2>2, <2>3, <2>5, <2>6, <2>7
<1>3. CASE Cancel
  <2>1. UNCHANGED <<clockVars, sourceVars, pc, pollVars, dedupVars, outVars>>
    BY <1>3 DEF Cancel
  <2>2. \A r \in Records : Delivered(r)' <=> Delivered(r)
    BY <2>1 DEF Delivered, outVars, pollVars
  <2>3. ClockInv' /\ PollInv' /\ BatchInv'
    BY <2>1 DEF ClockInv, PollInv, BatchInv, clockVars, sourceVars, pollVars, dedupVars, outVars
  <2>4. SeenInv' /\ PunctualRecordsCovered'
    BY <2>1, <2>2 DEF SeenInv, PunctualRecordsCovered, sourceVars, dedupVars, TypeOK
  <2> QED
    BY <2>3, <2>4
<1> QED
  BY <1>1, <1>2, <1>3 DEF Environment

\* A successful poll moves the watermark, forgets, and remembers its batch.
LEMMA CollectOKIInv ==
    ASSUME IInv, NEW S \in Collected, CollectOK(S), TypeOK'
    PROVE  IInv'
<1> DEFINE kept == Remembered(end)
           new == S \ kept
<1> USE DEF IInv
<1>1. /\ pc = "collecting" /\ lastEnd' = end
      /\ maxEnd' = IF end > maxEnd THEN end ELSE maxEnd
      /\ coveredFrom' = IF lastEnd = ZeroTime THEN start ELSE coveredFrom
      /\ seenIDs' = [r \in kept \cup new |-> IF r \in new THEN end ELSE seenIDs[r]]
      /\ UNCHANGED <<clockVars, sourceVars, outVars>>
  BY DEF CollectOK
<1>2. \/ new = {} /\ pc' = "idle"
      \/ pc' = "publish" /\ batch' = new /\ start' = start /\ end' = end
  BY DEF CollectOK, PollDone
<1>3. /\ S \subseteq InWindow(visible) /\ InWindow(offered) \subseteq S
      /\ S \subseteq Records /\ kept \subseteq DOMAIN seenIDs
      /\ \A r \in S : start <= ts[r] /\ ts[r] <= end
  BY DEF Collected, InWindow, TypeOK, Remembered
<1>4. /\ \A r \in Records : Delivered(r) <=> timeline[r] > 0
      /\ \A r \in Records : Delivered(r)' <=> timeline[r] > 0 \/ r \in new
  BY <1>1, <1>2 DEF Delivered, outVars
<1>5. end <= hi /\ maxEnd <= end + MaxBack
  BY <1>1 DEF PollInv
<1>6. end \in Nat /\ maxEnd \in Int /\ hi \in Nat /\ lastEnd \in Int /\ start \in Int
  BY DEF TypeOK, ZeroTime
<1>7. ClockInv'
  <2>1. clock' = clock /\ hi' = hi
    BY <1>1 DEF clockVars
  <2>2. maxEnd' <= hi /\ end <= maxEnd' /\ maxEnd' <= end + MaxBack
    BY <1>1, <1>5, <1>6, ClockAssumption DEF ClockInv
  <2>3. end # ZeroTime /\ maxEnd' # ZeroTime
    BY <1>1, <1>6 DEF ZeroTime
  <2> QED
    BY <1>1, <2>1, <2>2, <2>3 DEF ClockInv
<1>8. PollInv'
  BY <1>2 DEF PollInv
<1>9. SeenInv'
  <2>1. visible' = visible /\ ts' = ts /\ DOMAIN seenIDs' = kept \cup new
    BY <1>1 DEF sourceVars
  <2>2. ASSUME NEW r \in kept \cup new
        PROVE  Delivered(r)' /\ ts[r] <= seenIDs'[r]
    BY <1>1, <1>3, <1>4, <2>1, <2>2 DEF SeenInv, TypeOK
  <2>3. ASSUME NEW r \in Records, Delivered(r)'
        PROVE  r \in visible /\ lastEnd' # ZeroTime
    BY <1>1, <1>3, <1>4, <1>6, <2>3 DEF SeenInv, InWindow, ZeroTime
  <2>4. ASSUME NEW r \in Records, Delivered(r)', r \notin kept \cup new
        PROVE  ts[r] + Retention < maxEnd'
    <3>1. Delivered(r) /\ ts[r] \in Nat
      BY <1>4, <2>4 DEF TypeOK
    <3>2. CASE r \notin DOMAIN seenIDs
      BY <1>1, <1>6, <3>1, <3>2, RetentionBound DEF SeenInv
    <3>3. CASE r \in DOMAIN seenIDs
      <4>1. seenIDs[r] < end - Retention
        BY <2>4, <3>3 DEF Remembered
      <4>2. ts[r] <= seenIDs[r] /\ seenIDs[r] \in Nat
        BY <3>3 DEF SeenInv, TypeOK
      <4> QED
        BY <1>1, <1>6, <3>1, <4>1, <4>2, RetentionBound
    <3> QED
      BY <3>2, <3>3
  <2> QED
    BY <2>1, <2>2, <2>3, <2>4 DEF SeenInv
<1>10. BatchInv'
  <2>1. SUFFICES ASSUME pc' = "publish", NEW r \in new, timeline[r] > 0
                 PROVE  end - start > Retention
    BY <1>1, <1>2 DEF BatchInv, outVars
  <2>2. r \in InWindow(visible) /\ Delivered(r) /\ r \notin Remembered(end)
    BY <1>3, <1>4, <2>1
  <2> QED
    BY <1>1, <2>2, RereadNeedsLongWindow
<1>11. PunctualRecordsCovered'
  <2>1. punctual' = punctual /\ ts' = ts
    BY <1>1 DEF sourceVars
  <2>2. SUFFICES ASSUME NEW r \in punctual, coveredFrom' <= ts[r], ts[r] < end
                 PROVE  Delivered(r)'
    BY <1>1, <2>1 DEF PunctualRecordsCovered
  <2>3. r \in Records /\ ts[r] \in Nat
    BY DEF TypeOK
  <2>4. CASE lastEnd # ZeroTime /\ ts[r] < lastEnd
    <3>1. Delivered(r)
      BY <1>1, <2>2, <2>4 DEF PunctualRecordsCovered
    <3> QED
      BY <1>4, <2>3, <3>1
  <2>5. CASE ~(lastEnd # ZeroTime /\ ts[r] < lastEnd)
    <3>1. start <= ts[r]
      BY <1>1, <1>6, <2>2, <2>3, <2>5 DEF PollInv
    <3>2. r \in offered
      BY <1>1, <1>6, <2>2, <2>3 DEF PollInv
    <3>3. r \in S
      BY <1>3, <1>6, <2>2, <2>3, <3>1, <3>2 DEF InWindow
    <3>4. r \in kept => Delivered(r)
      BY <1>3 DEF SeenInv
    <3> QED
      BY <1>4, <2>3, <3>3, <3>4
  <2> QED
    BY <2>4, <2>5
<1> QED
  BY <1>7, <1>8, <1>9, <1>10, <1>11

\* The other steps of the goroutine.
LEMMA IngestorIInv ==
    ASSUME IInv, Ingestor, TypeOK'
    PROVE  IInv'
<1> USE DEF IInv
<1>1. CASE StartPoll
  <2>1. /\ pc' = "collecting" /\ end' = clock /\ offered' = visible
        /\ start' = IF lastEnd = ZeroTime \/ ~(lastEnd < clock) THEN clock - Window ELSE lastEnd
        /\ UNCHANGED <<clockVars, sourceVars, dedupVars, outVars>> /\ pc # "publish"
    BY <1>1 DEF StartPoll, WindowStart
  <2>2. \A r \in Records : Delivered(r)' <=> Delivered(r)
    BY <2>1 DEF Delivered, outVars
  <2>3. ClockInv'
    BY <2>1 DEF ClockInv, clockVars, dedupVars
  <2>4. PollInv'
    <3>1. /\ maxEnd' = maxEnd /\ lastEnd' = lastEnd /\ hi' = hi
          /\ punctual' = punctual /\ ts' = ts /\ punctual \subseteq visible
      BY <2>1 DEF clockVars, sourceVars, dedupVars, TypeOK
    <3>2. clock <= hi /\ maxEnd <= clock + MaxBack
      BY ClockAssumption DEF ClockInv, TypeOK, ZeroTime
    <3> QED
      BY <2>1, <3>1, <3>2 DEF PollInv
  <2>5. SeenInv' /\ PunctualRecordsCovered'
    BY <2>1, <2>2 DEF SeenInv, PunctualRecordsCovered, sourceVars, dedupVars, TypeOK
  <2>6. BatchInv'
    BY <2>1 DEF BatchInv
  <2> QED
    BY <2>3, <2>4, <2>5, <2>6
<1>2. CASE CollectFail \/ Stop
  <2>1. /\ pc # "publish" /\ pc' \in {"idle", "stopped"}
        /\ UNCHANGED <<clockVars, sourceVars, dedupVars, outVars>>
    BY <1>2 DEF CollectFail, Stop, PollDone
  <2>2. \A r \in Records : Delivered(r)' <=> Delivered(r)
    BY <2>1 DEF Delivered, outVars
  <2>3. ClockInv' /\ PollInv' /\ BatchInv'
    BY <2>1 DEF ClockInv, PollInv, BatchInv, clockVars, dedupVars
  <2>4. SeenInv' /\ PunctualRecordsCovered'
    BY <2>1, <2>2 DEF SeenInv, PunctualRecordsCovered, sourceVars, dedupVars, TypeOK
  <2> QED
    BY <2>3, <2>4
<1>3. ASSUME NEW S \in Collected, CollectOK(S)
      PROVE  IInv'
  BY <1>3, CollectOKIInv
<1>4. CASE AddEvents \/ AddLogRecords
  <2>1. /\ pc' \in {"sink", "idle"} /\ pc \in {"publish", "sink"}
        /\ UNCHANGED <<clockVars, sourceVars, dedupVars>>
    BY <1>4 DEF AddEvents, AddLogRecords, PollDone
  <2>2. \A r \in Records : Delivered(r)' <=> Delivered(r)
    <3>1. CASE AddEvents
      <4>1. \A r \in Records :
               /\ timeline[r] \in Nat
               /\ timeline'[r] = IF r \in batch THEN timeline[r] + 1 ELSE timeline[r]
        BY <3>1, PlusType DEF AddEvents, TypeOK
      <4>2. pc = "publish" /\ pc' = "sink"
        BY <3>1 DEF AddEvents
      <4> QED
        BY <4>1, <4>2 DEF Delivered
    <3>2. CASE AddLogRecords
      BY <3>2 DEF AddLogRecords, PollDone, Delivered
    <3> QED
      BY <1>4, <3>1, <3>2
  <2>3. ClockInv' /\ PollInv' /\ BatchInv'
    BY <2>1 DEF ClockInv, PollInv, BatchInv, clockVars, dedupVars
  <2>4. SeenInv' /\ PunctualRecordsCovered'
    BY <2>1, <2>2 DEF SeenInv, PunctualRecordsCovered, sourceVars, dedupVars, TypeOK
  <2> QED
    BY <2>3, <2>4
<1> QED
  BY <1>1, <1>2, <1>3, <1>4 DEF Ingestor

LEMMA NextIInv == IInv /\ [Next]_vars => IInv'
<1> SUFFICES ASSUME IInv, [Next]_vars
             PROVE  IInv'
  OBVIOUS
<1>1. TypeOK'
  BY NextTypeOK DEF IInv
<1>2. CASE UNCHANGED vars
  BY <1>2 DEF IInv, TypeOK, PCs, ClockInv, PollInv, SeenInv, BatchInv, Delivered,
              PunctualRecordsCovered, vars, clockVars, sourceVars, pollVars, dedupVars, outVars
<1> QED
  BY <1>1, <1>2, EnvironmentIInv, IngestorIInv DEF Next

THEOREM InductiveInvariant == Spec => []IInv
BY InitIInv, NextIInv, PTL DEF Spec

-----------------------------------------------------------------------------
(* The properties.                                                          *)

\* No record that was visible in time falls between two windows: failed polls
\* keep the watermark, and a stepped-back clock only makes windows overlap.
THEOREM Coverage == Spec => []PunctualRecordsCovered
<1>1. IInv => PunctualRecordsCovered
  BY DEF IInv
<1> QED
  BY <1>1, InductiveInvariant, PTL

\* Deduplication fails only across a window longer than the retention.
THEOREM NoEarlyDuplicate == Spec => NoDuplicateWithinRetention
<1>1. ASSUME IInv, [Next]_vars, NEW r \in Records, timeline[r] > 0, timeline'[r] > timeline[r]
      PROVE  end - start > Retention
  <2>1. timeline[r] \in Nat
    BY <1>1 DEF IInv, TypeOK
  <2>2. timeline' # timeline
    BY <1>1, <2>1
  <2>3. AddEvents
    BY <1>1, <2>2 DEF Next, Environment, Ingestor, Tick, StepBack, Appear, Cancel, StartPoll,
       CollectFail, CollectOK, AddLogRecords, Stop, vars, outVars
  <2>4. r \in batch /\ pc = "publish"
    BY <1>1, <2>1, <2>3, PlusType DEF AddEvents, IInv, TypeOK
  <2> QED
    BY <1>1, <2>4 DEF IInv, BatchInv
<1>2. IInv /\ [Next]_vars =>
        [\A r \in Records :
            timeline[r] > 0 /\ timeline'[r] > timeline[r] => end - start > Retention]_vars
  BY <1>1
<1> QED
  BY <1>2, InductiveInvariant, PTL DEF Spec, NoDuplicateWithinRetention

\* The sink is the timeline but for the batch between the two appends.
THEOREM SinkInStep == Spec => []SinkFollowsTimeline
<1>1. Init => SinkFollowsTimeline
  <2> SUFFICES ASSUME Init
               PROVE  SinkFollowsTimeline
    OBVIOUS
  <2>1. pc # "sink"
    BY DEF Init
  <2>2. \A r \in Records : timeline[r] = 0 /\ sink[r] = 0
    BY DEF Init
  <2> QED
    BY <2>1, <2>2 DEF SinkFollowsTimeline
<1>2. TypeOK /\ SinkFollowsTimeline /\ [Next]_vars => SinkFollowsTimeline'
  <2> SUFFICES ASSUME TypeOK, SinkFollowsTimeline, [Next]_vars
               PROVE  SinkFollowsTimeline'
    OBVIOUS
  <2>1. CASE AddEvents
    <3>1. /\ pc = "publish" /\ pc' = "sink" /\ batch' = batch /\ sink' = sink
          /\ \A r \in Records : timeline'[r] = IF r \in batch THEN timeline[r] + 1 ELSE timeline[r]
      BY <2>1, PlusType DEF AddEvents, pollVars, TypeOK
    <3> QED
      BY <3>1 DEF SinkFollowsTimeline
  <2>2. CASE AddLogRecords
    <3>1. /\ pc = "sink" /\ pc' = "idle" /\ timeline' = timeline
          /\ \A r \in Records : sink'[r] = IF r \in batch THEN sink[r] + 1 ELSE sink[r]
      BY <2>2, PlusType DEF AddLogRecords, PollDone, TypeOK
    <3> QED
      BY <3>1 DEF SinkFollowsTimeline
  <2>3. CASE StartPoll \/ CollectFail \/ (\E S \in Collected : CollectOK(S)) \/ Stop
    <3>1. pc # "sink" /\ pc' # "sink" /\ UNCHANGED outVars
      BY <2>3 DEF StartPoll, CollectFail, CollectOK, Stop, PollDone
    <3> QED
      BY <3>1 DEF SinkFollowsTimeline, outVars
  <2>4. CASE Environment \/ UNCHANGED vars
    <3>1. UNCHANGED <<pc, pollVars, outVars>>
      BY <2>4 DEF Environment, Tick, StepBack, Appear, Cancel, vars
    <3> QED
      BY <3>1 DEF SinkFollowsTimeline, pollVars, outVars
  <2> QED
    BY <2>1, <2>2, <2>3, <2>4 DEF Next, Ingestor
<1> QED
  BY <1>1, <1>2, TypeCorrect, PTL DEF Spec

\* What is remembered is never older than the retention, poll after poll.
THEOREM SeenBounded == Spec => []SeenWithinRetention
<1>1. Init => SeenWithinRetention
  BY DEF Init, SeenWithinRetention
<1>2. TypeOK /\ SeenWithinRetention /\ [Next]_vars => SeenWithinRetention'
  <2> SUFFICES ASSUME TypeOK, SeenWithinRetention, [Next]_vars
               PROVE  SeenWithinRetention'
    OBVIOUS
  <2>1. ASSUME NEW S \in Collected, CollectOK(S)
        PROVE  SeenWithinRetention'
    <3>1. /\ lastEnd' = end
          /\ seenIDs' = [r \in Remembered(end) \cup (S \ Remembered(end)) |->
                            IF r \in S \ Remembered(end) THEN end ELSE seenIDs[r]]
      BY <2>1 DEF CollectOK
    <3>2. \A r \in Remembered(end) : seenIDs[r] \in Nat /\ ~(seenIDs[r] < end - Retention)
      BY DEF Remembered, TypeOK
    <3>3. end \in Nat /\ end >= end - Retention
      BY RetentionBound DEF TypeOK
    <3>4. ASSUME NEW r \in DOMAIN seenIDs'
          PROVE  seenIDs'[r] >= end - Retention
      BY <3>1, <3>2, <3>3, RetentionBound
    <3> QED
      BY <3>1, <3>4 DEF SeenWithinRetention
  <2>2. CASE ~(\E S \in Collected : CollectOK(S))
    <3>1. UNCHANGED dedupVars
      BY <2>2 DEF Next, Environment, Ingestor, Tick, StepBack, Appear, Cancel, StartPoll,
         CollectFail, AddEvents, AddLogRecords, Stop, vars
    <3> QED
      BY <3>1 DEF SeenWithinRetention, dedupVars
  <2> QED
    BY <2>1, <2>2
<1> QED
  BY <1>1, <1>2, TypeCorrect, PTL DEF Spec

-----------------------------------------------------------------------------
(* The refinement.                                                          *)

\* A batch that is on its way to the timeline or to the sink is not empty.
BatchFull == pc \in {"publish", "sink"} => batch # {}

LEMMA BatchFullInv == Spec => []BatchFull
<1>1. Init => BatchFull
  BY DEF Init, BatchFull
<1>2. BatchFull /\ [Next]_vars => BatchFull'
  <2> SUFFICES ASSUME BatchFull, [Next]_vars
               PROVE  BatchFull'
    OBVIOUS
  <2>1. CASE \E S \in Collected : CollectOK(S)
    BY <2>1 DEF BatchFull, CollectOK, PollDone
  <2>2. CASE AddEvents
    BY <2>2 DEF BatchFull, AddEvents, pollVars
  <2>3. CASE Environment \/ UNCHANGED vars
    BY <2>3 DEF BatchFull, Environment, Tick, StepBack, Appear, Cancel, vars, pollVars
  <2>4. CASE StartPoll \/ CollectFail \/ AddLogRecords \/ Stop
    BY <2>4 DEF BatchFull, StartPoll, CollectFail, AddLogRecords, Stop, PollDone
  <2> QED
    BY <2>1, <2>2, <2>3, <2>4 DEF Next, Ingestor
<1> QED
  BY <1>1, <1>2, PTL DEF Spec

\* Every step of the loop is a step of the abstract feed, or none: AddEvents publishes
\* the batch, AddLogRecords forwards it, the rest is hidden.
LEMMA FeedStep ==
    ASSUME TypeOK, TypeOK', BatchFull, [Next]_vars
    PROVE  [AsFeed!Next]_AsFeed!vars
<1> DEFINE pending == IF pc = "sink" THEN batch ELSE {}
<1>1. ASSUME NEW r \in Records, NEW t \in 0..MaxTime, Appear(r, t)
      PROVE  AsFeed!Next
  BY <1>1 DEF Appear, pollVars, outVars, AsFeed!Next, AsFeed!Appear
<1>2. CASE AddEvents
  <2>1. /\ pending = {} /\ pending' = batch /\ batch # {} /\ batch \in SUBSET visible
        /\ visible' = visible /\ sink' = sink
    BY <1>2 DEF AddEvents, BatchFull, TypeOK, pollVars, sourceVars
  <2>2. timeline' = AsFeed!Plus(timeline, batch)
    BY <1>2 DEF AddEvents, Plus, AsFeed!Plus
  <2>3. AsFeed!Publish(batch)
    BY <2>1, <2>2 DEF AsFeed!Publish
  <2> QED
    BY <2>1, <2>3 DEF AsFeed!Next
<1>3. CASE AddLogRecords
  <2>1. /\ pending = batch /\ pending' = {} /\ batch # {}
        /\ visible' = visible /\ timeline' = timeline
    BY <1>3 DEF AddLogRecords, PollDone, BatchFull, sourceVars
  <2>2. sink' = AsFeed!Plus(sink, batch)
    BY <1>3 DEF AddLogRecords, Plus, AsFeed!Plus
  <2> QED
    BY <2>1, <2>2 DEF AsFeed!Next, AsFeed!Forward
<1>4. CASE Tick \/ StepBack \/ Cancel \/ UNCHANGED vars
  <2>1. UNCHANGED <<visible, timeline, sink, pc, batch>>
    BY <1>4 DEF Tick, StepBack, Cancel, vars, sourceVars, outVars, pollVars
  <2> QED
    BY <2>1 DEF AsFeed!vars
<1>5. CASE StartPoll \/ CollectFail \/ (\E S \in Collected : CollectOK(S)) \/ Stop
  <2>1. pc # "sink" /\ pc' # "sink" /\ UNCHANGED <<visible, timeline, sink>>
    BY <1>5 DEF StartPoll, CollectFail, CollectOK, PollDone, Stop, sourceVars, outVars
  <2> QED
    BY <2>1 DEF AsFeed!vars
<1> QED
  BY <1>1, <1>2, <1>3, <1>4, <1>5 DEF Next, Environment, Ingestor

\* The log loop implements the abstract feed.
THEOREM Refinement == Spec => ImplementsFeed
<1>1. Init => AsFeed!Init
  BY DEF Init, AsFeed!Init
<1>2. TypeOK /\ TypeOK' /\ BatchFull /\ [Next]_vars => [AsFeed!Next]_AsFeed!vars
  BY FeedStep
<1> QED
  BY <1>1, <1>2, TypeCorrect, BatchFullInv, PTL DEF Spec, ImplementsFeed, AsFeed!Spec

=============================================================================
