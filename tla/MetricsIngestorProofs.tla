------------------------ MODULE MetricsIngestorProofs ------------------------
(* Type correctness and deduplication of MetricsIngestor, and its tolerance  *)
(* of late points, for every window, retention, timeout and clock correction *)
(* that fit the assumptions.                                                 *)
EXTENDS MetricsIngestor, TLAPS

-----------------------------------------------------------------------------
(* The inductive invariant.                                                 *)

\* The clock is close to its highest reading, and so is the end of a running poll.
ClockInv ==
    /\ clock <= hi /\ hi <= clock + MaxBack
    /\ end <= hi /\ lastOK <= hi
    /\ pc = "collecting" => hi <= end + MaxBack + Timeout

\* A point is not stamped in the future of its appearance.
SourceInv ==
    /\ \A p \in visible : ts[p] <= since[p]
    /\ \A p \in followed : lastOK # Never
    /\ pc = "collecting" => \A p \in visible : p \notin offered => end <= since[p]

\* A reported point is remembered, or older than any window still to come.
SeenInv ==
    /\ \A p \in DOMAIN seenIDs : Reported(p) /\ ts[p] <= seenIDs[p] + MaxBack
    /\ \A p \in Points :
          Reported(p) => /\ p \in breaching
                         /\ p \notin DOMAIN seenIDs => ts[p] + Retention < hi + MaxBack

\* Only a point that was never appended is in a batch.
OnceInv ==
    \A p \in Points :
        /\ timeline[p] <= 1
        /\ pc = "publish" /\ p \in batch => timeline[p] = 0
        /\ sink[p] = IF pc = "sink" /\ p \in batch THEN timeline[p] - 1 ELSE timeline[p]

IInv == TypeOK /\ ClockInv /\ SourceInv /\ SeenInv /\ OnceInv /\ LateBreachReported

-----------------------------------------------------------------------------
(* Lemmas and type correctness.                                             *)

\* The retention holds a window, a request and two corrections of the clock.
LEMMA RetentionBound ==
    /\ Retention \in Nat /\ Window \in Nat /\ Timeout \in Nat /\ MaxBack \in Nat
    /\ 2 * MaxBack + Timeout + Window <= Retention
BY ConfigAssumption, ClockAssumption DEF Retention

LEMMA PlusType ==
    ASSUME NEW f \in [Points -> Nat], NEW S
    PROVE  /\ Plus(f, S) \in [Points -> Nat]
           /\ \A p \in Points : Plus(f, S)[p] = IF p \in S THEN f[p] + 1 ELSE f[p]
BY DEF Plus

LEMMA InitTypeOK == Init => TypeOK
<1> SUFFICES ASSUME Init
             PROVE  TypeOK
  OBVIOUS
<1>1. DOMAIN seenIDs = {} /\ seenIDs \in [DOMAIN seenIDs -> Nat]
  BY DEF Init
<1>2. /\ ts \in [Points -> Nat] /\ since \in [Points -> Nat]
      /\ timeline \in [Points -> Nat] /\ sink \in [Points -> Nat]
  BY DEF Init
<1>3. clock \in Nat /\ hi \in Nat /\ backs \in Nat /\ end \in Nat /\ lastOK \in Nat \cup {Never}
  BY DEF Init
<1>4. gap \in 0..(Window + 1)
  BY ConfigAssumption DEF Init
<1>5. pc \in PCs /\ cancelled \in BOOLEAN
  BY DEF Init, PCs
<1>6. /\ visible \subseteq Points /\ breaching \subseteq visible /\ followed \subseteq visible
      /\ offered \subseteq visible /\ batch \subseteq breaching
  BY DEF Init
<1> QED
  BY <1>1, <1>2, <1>3, <1>4, <1>5, <1>6 DEF TypeOK

LEMMA NextTypeOK == TypeOK /\ [Next]_vars => TypeOK'
<1> SUFFICES ASSUME TypeOK, [Next]_vars
             PROVE  TypeOK'
  OBVIOUS
<1> USE DEF TypeOK, PCs, Never, clockVars, sourceVars, outVars, history
<1>1. CASE Tick
  BY <1>1 DEF Tick
<1>2. CASE StepBack
  BY <1>2 DEF StepBack
<1>3. ASSUME NEW p \in Points, NEW t \in 0..MaxTime, Appear(p, t)
      PROVE  TypeOK'
  BY <1>3 DEF Appear
<1>4. CASE Cancel
  BY <1>4 DEF Cancel
<1>5. CASE StartPoll
  BY <1>5 DEF StartPoll
<1>6. CASE CollectFail
  BY <1>6 DEF CollectFail, PollDone
<1>7. ASSUME NEW S \in Collected, CollectOK(S)
      PROVE  TypeOK'
  <2>1. /\ S \subseteq visible /\ Emitted(S) \subseteq breaching
        /\ Remembered(clock) \subseteq DOMAIN seenIDs
    BY DEF Collected, InWindow, Remembered, Emitted
  <2>2. /\ DOMAIN seenIDs' = Remembered(clock) \cup (Emitted(S) \ Remembered(clock))
        /\ seenIDs' \in [DOMAIN seenIDs' -> Nat]
    BY <1>7, <2>1 DEF CollectOK
  <2>3. pc' \in PCs /\ batch' \subseteq breaching /\ offered' \subseteq visible
    BY <1>7, <2>1 DEF CollectOK, PollDone
  <2>4. lastOK' \in Nat \cup {Never} /\ gap' \in 0..(Window + 1)
    BY <1>7, ConfigAssumption DEF CollectOK, Longer
  <2> QED
    BY <1>7, <2>1, <2>2, <2>3, <2>4 DEF CollectOK
<1>8. CASE AddEvents
  BY <1>8, PlusType DEF AddEvents
<1>9. CASE AddMetricPoints
  BY <1>9, PlusType DEF AddMetricPoints, PollDone
<1>10. CASE Stop
  BY <1>10 DEF Stop
<1>11. CASE UNCHANGED vars
  BY <1>11 DEF vars
<1> QED
  BY <1>1, <1>2, <1>3, <1>4, <1>5, <1>6, <1>7, <1>8, <1>9, <1>10, <1>11
  DEF Next, Environment, Ingestor

\* Every variable of the ingestor keeps its type.
THEOREM TypeCorrect == Spec => []TypeOK
BY InitTypeOK, NextTypeOK, PTL DEF Spec

-----------------------------------------------------------------------------
(* The inductive invariant holds: initially, and after every step.          *)

LEMMA InitIInv == Init => IInv
<1> SUFFICES ASSUME Init
             PROVE  IInv
  OBVIOUS
<1>1. TypeOK
  BY InitTypeOK
<1>2. /\ clock = 0 /\ hi = 0 /\ end = 0 /\ pc = "first"
      /\ visible = {} /\ followed = {} /\ seenIDs = [p \in {} |-> 0]
      /\ \A p \in Points : timeline[p] = 0 /\ sink[p] = 0
  BY DEF Init
<1>3. ClockInv
  BY <1>2, ClockAssumption DEF Init, ClockInv, Never
<1>4. SourceInv /\ LateBreachReported
  BY <1>2 DEF SourceInv, LateBreachReported
<1>5. ASSUME NEW p \in Points, Reported(p)
      PROVE  FALSE
  <2>1. timeline[p] > 0
    BY <1>2, <1>5 DEF Reported
  <2>2. timeline[p] = 0
    BY <1>2
  <2> QED
    BY <2>1, <2>2
<1>6. SeenInv
  BY <1>2, <1>5 DEF SeenInv
<1>7. OnceInv
  <2>1. pc # "sink" /\ pc # "publish"
    BY <1>2
  <2>2. ASSUME NEW p \in Points
        PROVE  timeline[p] <= 1 /\ sink[p] = timeline[p]
    <3>1. timeline[p] = 0 /\ sink[p] = 0
      BY <1>2
    <3> QED
      BY <3>1
  <2> QED
    BY <2>1, <2>2 DEF OnceInv
<1> QED
  BY <1>1, <1>3, <1>4, <1>6, <1>7 DEF IInv

\* The clock, the source and the owner of the context leave the ingestor alone.
LEMMA EnvironmentIInv ==
    ASSUME IInv, Environment, TypeOK'
    PROVE  IInv'
<1> USE DEF IInv
<1>1. CASE Tick \/ StepBack
  <2>1. /\ UNCHANGED <<sourceVars, pc, end, offered, seenIDs, batch, outVars, history>>
        /\ hi <= hi'
    BY <1>1 DEF Tick, StepBack, TypeOK, clockVars
  <2>2. /\ clock' <= hi' /\ hi' <= clock' + MaxBack
        /\ pc = "collecting" => hi' <= end + MaxBack + Timeout
    BY <1>1, ClockAssumption, ConfigAssumption DEF Tick, StepBack, TypeOK, ClockInv
  <2>3. ClockInv'
    BY <2>1, <2>2 DEF ClockInv, TypeOK, history, Never
  <2>4. SourceInv'
    BY <2>1 DEF SourceInv, sourceVars, history
  <2>5. \A p \in Points : Reported(p)' <=> Reported(p)
    BY <2>1 DEF Reported, outVars
  <2>6. SeenInv'
    BY <2>1, <2>5, RetentionBound DEF SeenInv, sourceVars, TypeOK
  <2>7. OnceInv'
    BY <2>1 DEF OnceInv, outVars
  <2>8. LateBreachReported'
    BY <2>1, <2>5 DEF LateBreachReported, sourceVars, history, TypeOK
  <2> QED
    BY <2>3, <2>4, <2>6, <2>7, <2>8
<1>2. ASSUME NEW p \in Points, NEW t \in 0..MaxTime, t <= hi, Appear(p, t)
      PROVE  IInv'
  <2>1. /\ p \notin visible /\ visible' = visible \cup {p}
        /\ breaching' \in {breaching, breaching \cup {p}}
        /\ followed' = IF lastOK # Never THEN followed \cup {p} ELSE followed
        /\ \A q \in visible : ts'[q] = ts[q] /\ since'[q] = since[q]
        /\ ts'[p] = t /\ since'[p] = hi
        /\ UNCHANGED <<clockVars, pc, end, offered, seenIDs, batch, outVars, history>>
    BY <1>2 DEF Appear, TypeOK
  <2>2. ClockInv'
    BY <2>1 DEF ClockInv, clockVars, history
  <2>3. SourceInv'
    <3>1. lastOK' = lastOK
      BY <2>1 DEF history
    <3>2. \A q \in visible' : ts'[q] <= since'[q]
      BY <1>2, <2>1 DEF SourceInv, TypeOK
    <3>3. \A q \in followed' : lastOK # Never
      BY <2>1 DEF SourceInv
    <3>4. ASSUME pc = "collecting", NEW q \in visible', q \notin offered
          PROVE  end <= since'[q]
      BY <2>1, <3>4 DEF SourceInv, ClockInv, TypeOK
    <3> QED
      BY <2>1, <3>1, <3>2, <3>3, <3>4 DEF SourceInv
  <2>4. \A q \in Points : Reported(q)' <=> Reported(q)
    BY <2>1 DEF Reported, outVars
  <2>5. \A q \in Points : Reported(q) => q \in visible
    BY DEF TypeOK, SeenInv
  <2>6. SeenInv'
    BY <2>1, <2>4, <2>5 DEF SeenInv, clockVars, TypeOK
  <2>7. OnceInv'
    BY <2>1 DEF OnceInv, outVars
  <2>8. LateBreachReported'
    <3>1. lastOK' = lastOK /\ gap' = gap
      BY <2>1 DEF history
    <3>2. ASSUME NEW q \in followed' \cap breaching', since'[q] < lastOK,
                 since'[q] + gap <= ts'[q] + Window
          PROVE  Reported(q)'
      <4>1. q # p
        BY <2>1, <3>2 DEF ClockInv, TypeOK, Never
      <4> QED
        BY <2>1, <2>4, <3>2, <4>1 DEF LateBreachReported, TypeOK
    <3> QED
      BY <3>1, <3>2 DEF LateBreachReported
  <2> QED
    BY <2>2, <2>3, <2>6, <2>7, <2>8
<1>3. CASE Cancel
  <2>1. UNCHANGED <<clockVars, sourceVars, pc, end, offered, seenIDs, batch, outVars, history>>
    BY <1>3 DEF Cancel
  <2>2. \A p \in Points : Reported(p)' <=> Reported(p)
    BY <2>1 DEF Reported, outVars
  <2>3. ClockInv' /\ SourceInv' /\ OnceInv'
    BY <2>1 DEF ClockInv, SourceInv, OnceInv, clockVars, sourceVars, outVars, history
  <2>4. SeenInv' /\ LateBreachReported'
    BY <2>1, <2>2 DEF SeenInv, LateBreachReported, clockVars, sourceVars, history, TypeOK
  <2> QED
    BY <2>3, <2>4
<1> QED
  BY <1>1, <1>2, <1>3 DEF Environment

\* A successful poll: what it finds forgotten is out of its reach, and its batch
\* holds every late breach that the gap since the last success leaves in the window.
LEMMA CollectOKIInv ==
    ASSUME IInv, NEW S \in Collected, CollectOK(S), TypeOK'
    PROVE  IInv'
<1> DEFINE kept == Remembered(clock)
           new == Emitted(S) \ kept
<1> USE DEF IInv
<1>1. /\ pc = "collecting"
      /\ lastOK' = IF Complete(S) THEN end ELSE lastOK
      /\ gap' = IF lastOK = Never \/ ~Complete(S) THEN gap ELSE Longer(gap, end - lastOK)
      /\ seenIDs' = [p \in kept \cup new |-> IF p \in new THEN clock ELSE seenIDs[p]]
      /\ UNCHANGED <<clockVars, sourceVars, cancelled, end, outVars>>
  BY DEF CollectOK
<1>2. \/ new = {} /\ pc' = "idle"
      \/ pc' = "publish" /\ batch' = new
  BY DEF CollectOK, PollDone
<1>3. /\ S \subseteq InWindow(visible)
      /\ new \subseteq Points /\ new \subseteq breaching /\ kept \subseteq DOMAIN seenIDs
      /\ \A p \in S : end - Window <= ts[p] /\ ts[p] < end
  BY DEF Collected, InWindow, TypeOK, Remembered, Emitted
<1>4. /\ \A p \in Points : Reported(p) <=> timeline[p] > 0
      /\ \A p \in Points : Reported(p)' <=> timeline[p] > 0 \/ p \in new
  BY <1>1, <1>2 DEF Reported, outVars
<1>5. /\ end <= hi /\ hi <= end + MaxBack + Timeout
      /\ clock <= hi /\ hi <= clock + MaxBack
      /\ end \in Nat /\ hi \in Nat /\ clock \in Nat /\ lastOK \in Int /\ gap \in Nat
  BY <1>1, ConfigAssumption DEF ClockInv, TypeOK, Never
<1>6. \A p \in new : timeline[p] = 0
  <2>1. SUFFICES ASSUME NEW p \in new, Reported(p)
                 PROVE  FALSE
    BY <1>3, <1>4 DEF TypeOK
  <2>2. p \in Points /\ ts[p] \in Nat /\ end - Window <= ts[p] /\ ts[p] < end
    BY <1>3, <2>1 DEF TypeOK, Emitted
  <2>3. CASE p \notin DOMAIN seenIDs
    <3>1. ts[p] + Retention < hi + MaxBack
      BY <2>1, <2>2, <2>3 DEF SeenInv
    <3> QED
      BY <1>5, <2>2, <3>1, RetentionBound
  <2>4. CASE p \in DOMAIN seenIDs
    <3>1. seenIDs[p] < clock - Retention
      BY <2>1, <2>4 DEF Remembered
    <3>2. ts[p] <= seenIDs[p] + MaxBack /\ seenIDs[p] \in Nat
      BY <2>4 DEF SeenInv, TypeOK
    <3> QED
      BY <1>5, <2>2, <3>1, <3>2, RetentionBound
  <2> QED
    BY <2>3, <2>4
<1>7. ClockInv'
  BY <1>1, <1>2, <1>5 DEF ClockInv, clockVars
<1>8. SourceInv'
  <2>1. end # Never
    BY <1>5 DEF Never
  <2> QED
    BY <1>1, <1>2, <2>1 DEF SourceInv, sourceVars
<1>9. SeenInv'
  <2>1. UNCHANGED <<ts, breaching, hi>> /\ DOMAIN seenIDs' = kept \cup new
    BY <1>1 DEF sourceVars, clockVars
  <2>2. ASSUME NEW p \in kept
        PROVE  Reported(p)' /\ ts[p] <= seenIDs'[p] + MaxBack
    BY <1>1, <1>3, <1>4, <2>2 DEF SeenInv, TypeOK
  <2>3. ASSUME NEW p \in new
        PROVE  Reported(p)' /\ ts[p] <= seenIDs'[p] + MaxBack
    <3>1. p \in Points /\ ts[p] \in Nat /\ ts[p] < end
      BY <1>3, <2>3 DEF TypeOK, Emitted
    <3>2. seenIDs'[p] = clock
      BY <1>1, <2>3
    <3> QED
      BY <1>4, <1>5, <2>3, <3>1, <3>2, RetentionBound
  <2>4. ASSUME NEW p \in Points, Reported(p)'
        PROVE  p \in breaching
    BY <1>3, <1>4, <2>4 DEF SeenInv
  <2>5. ASSUME NEW p \in Points, Reported(p)', p \notin kept \cup new
        PROVE  ts[p] + Retention < hi + MaxBack
    <3>1. Reported(p) /\ ts[p] \in Nat
      BY <1>4, <2>5 DEF TypeOK
    <3>2. CASE p \notin DOMAIN seenIDs
      BY <3>1, <3>2 DEF SeenInv
    <3>3. CASE p \in DOMAIN seenIDs
      <4>1. seenIDs[p] < clock - Retention
        BY <2>5, <3>3 DEF Remembered
      <4>2. ts[p] <= seenIDs[p] + MaxBack /\ seenIDs[p] \in Nat
        BY <3>3 DEF SeenInv, TypeOK
      <4> QED
        BY <1>5, <3>1, <4>1, <4>2, RetentionBound
    <3> QED
      BY <3>2, <3>3
  <2> QED
    BY <2>1, <2>2, <2>3, <2>4, <2>5 DEF SeenInv
<1>10. OnceInv'
  BY <1>1, <1>2, <1>6 DEF OnceInv, outVars
<1>11. LateBreachReported'
  <2>1. UNCHANGED <<ts, since, breaching, followed>>
    BY <1>1 DEF sourceVars
  <2>2. SUFFICES ASSUME NEW p \in followed \cap breaching, since[p] < lastOK',
                        since[p] + gap' <= ts[p] + Window
                 PROVE  Reported(p)'
    BY <2>1 DEF LateBreachReported
  <2>3. /\ p \in Points /\ p \in visible /\ ts[p] \in Nat /\ since[p] \in Nat
        /\ ts[p] <= since[p] /\ lastOK # Never
    BY DEF TypeOK, SourceInv
  <2>4. CASE ~Complete(S)
    <3>1. lastOK' = lastOK /\ gap' = gap
      BY <1>1, <2>4
    <3>2. Reported(p)
      BY <2>2, <3>1 DEF LateBreachReported
    <3> QED
      BY <1>4, <2>3, <3>2
  <2>5. CASE Complete(S)
    <3>1. /\ lastOK' = end /\ gap' = Longer(gap, end - lastOK)
          /\ gap \in 0..(Window + 1) /\ Window \in Nat
      BY <1>1, <2>3, <2>5, ConfigAssumption DEF TypeOK
    <3>2. CASE since[p] < lastOK
      <4>1. gap <= gap' /\ gap' \in Int
        BY <1>5, <3>1 DEF Longer
      <4>2. since[p] + gap <= ts[p] + Window
        BY <1>5, <2>2, <2>3, <3>1, <4>1
      <4> QED
        BY <1>4, <2>3, <3>2, <4>2 DEF LateBreachReported
    <3>3. CASE lastOK <= since[p]
      <4>1. end - lastOK <= gap'
        BY <1>5, <2>2, <2>3, <3>1 DEF Longer
      <4>2. gap' \in Int
        BY <1>5, <3>1 DEF Longer
      <4>3. end - Window <= ts[p] /\ ts[p] < end
        BY <1>5, <2>2, <2>3, <3>1, <3>3, <4>1, <4>2
      <4>4. p \in offered
        BY <1>1, <1>5, <2>2, <2>3, <3>1 DEF SourceInv
      <4>5. p \in Emitted(S)
        BY <2>5, <4>3, <4>4 DEF Complete, Emitted, InWindow
      <4>6. p \in kept => Reported(p)
        BY <1>3 DEF SeenInv
      <4> QED
        BY <1>4, <2>3, <4>5, <4>6
    <3> QED
      BY <1>5, <2>3, <3>2, <3>3
  <2> QED
    BY <2>4, <2>5
<1> QED
  BY <1>7, <1>8, <1>9, <1>10, <1>11

\* The other steps of the goroutine.
LEMMA IngestorIInv ==
    ASSUME IInv, Ingestor, TypeOK'
    PROVE  IInv'
<1> USE DEF IInv
<1>1. CASE StartPoll
  <2>1. /\ pc # "publish" /\ pc # "sink" /\ pc' = "collecting"
        /\ end' = clock /\ offered' = visible
        /\ UNCHANGED <<clockVars, sourceVars, seenIDs, outVars, history>>
    BY <1>1 DEF StartPoll
  <2>2. \A p \in Points : Reported(p)' <=> Reported(p)
    BY <2>1 DEF Reported, outVars
  <2>3. ClockInv'
    BY <2>1, ClockAssumption, ConfigAssumption DEF ClockInv, clockVars, history, TypeOK
  <2>4. SourceInv' /\ OnceInv'
    BY <2>1 DEF SourceInv, OnceInv, sourceVars, outVars, history
  <2>5. SeenInv' /\ LateBreachReported'
    BY <2>1, <2>2 DEF SeenInv, LateBreachReported, clockVars, sourceVars, history, TypeOK
  <2> QED
    BY <2>3, <2>4, <2>5
<1>2. CASE CollectFail \/ Stop
  <2>1. /\ pc # "publish" /\ pc # "sink" /\ pc' \in {"idle", "stopped"}
        /\ UNCHANGED <<clockVars, sourceVars, end, seenIDs, outVars, history>>
    BY <1>2 DEF CollectFail, Stop, PollDone
  <2>2. \A p \in Points : Reported(p)' <=> Reported(p)
    BY <2>1 DEF Reported, outVars
  <2>3. ClockInv' /\ SourceInv' /\ OnceInv'
    BY <2>1 DEF ClockInv, SourceInv, OnceInv, clockVars, sourceVars, outVars, history
  <2>4. SeenInv' /\ LateBreachReported'
    BY <2>1, <2>2 DEF SeenInv, LateBreachReported, clockVars, sourceVars, history, TypeOK
  <2> QED
    BY <2>3, <2>4
<1>3. ASSUME NEW S \in Collected, CollectOK(S)
      PROVE  IInv'
  BY <1>3, CollectOKIInv
<1>4. CASE AddEvents
  <2>1. /\ pc = "publish" /\ pc' = "sink" /\ sink' = sink
        /\ UNCHANGED <<clockVars, sourceVars, end, offered, seenIDs, batch, history>>
        /\ \A p \in Points : timeline'[p] = IF p \in batch THEN timeline[p] + 1 ELSE timeline[p]
    BY <1>4, PlusType DEF AddEvents, TypeOK
  <2>2. \A p \in Points : Reported(p)' <=> Reported(p)
    BY <2>1 DEF Reported, TypeOK
  <2>3. ClockInv' /\ SourceInv'
    BY <2>1 DEF ClockInv, SourceInv, clockVars, sourceVars, history
  <2>4. OnceInv'
    BY <2>1 DEF OnceInv, TypeOK
  <2>5. SeenInv' /\ LateBreachReported'
    BY <2>1, <2>2 DEF SeenInv, LateBreachReported, clockVars, sourceVars, history, TypeOK
  <2> QED
    BY <2>3, <2>4, <2>5
<1>5. CASE AddMetricPoints
  <2>1. /\ pc = "sink" /\ pc' = "idle" /\ timeline' = timeline
        /\ UNCHANGED <<clockVars, sourceVars, end, seenIDs, history>>
        /\ \A p \in Points : sink'[p] = IF p \in batch THEN sink[p] + 1 ELSE sink[p]
    BY <1>5, PlusType DEF AddMetricPoints, PollDone, TypeOK
  <2>2. \A p \in Points : Reported(p)' <=> Reported(p)
    BY <2>1 DEF Reported
  <2>3. ClockInv' /\ SourceInv'
    BY <2>1 DEF ClockInv, SourceInv, clockVars, sourceVars, history
  <2>4. OnceInv'
    BY <2>1 DEF OnceInv, TypeOK
  <2>5. SeenInv' /\ LateBreachReported'
    BY <2>1, <2>2 DEF SeenInv, LateBreachReported, clockVars, sourceVars, history, TypeOK
  <2> QED
    BY <2>3, <2>4, <2>5
<1> QED
  BY <1>1, <1>2, <1>3, <1>4, <1>5 DEF Ingestor

LEMMA NextIInv == IInv /\ [Next]_vars => IInv'
<1> SUFFICES ASSUME IInv, [Next]_vars
             PROVE  IInv'
  OBVIOUS
<1>1. TypeOK'
  BY NextTypeOK DEF IInv
<1>2. CASE UNCHANGED vars
  BY <1>2 DEF IInv, TypeOK, PCs, ClockInv, SourceInv, SeenInv, OnceInv, LateBreachReported,
              Reported, vars, clockVars, sourceVars, outVars, history
<1> QED
  BY <1>1, <1>2, EnvironmentIInv, IngestorIInv DEF Next

THEOREM InductiveInvariant == Spec => []IInv
BY InitIInv, NextIInv, PTL DEF Spec

-----------------------------------------------------------------------------
(* The properties.                                                          *)

\* No breach is reported twice: the retention outlasts every window that could
\* still return it.
THEOREM BreachOnce == Spec => []NoDuplicateBreach
<1>1. ASSUME IInv, NEW p \in Points
      PROVE  timeline[p] <= 1 /\ sink[p] <= 1
  <2>1. timeline[p] \in Nat /\ timeline[p] <= 1 /\ sink[p] \in {timeline[p], timeline[p] - 1}
    BY <1>1 DEF IInv, OnceInv, TypeOK
  <2> QED
    BY <2>1
<1>2. IInv => NoDuplicateBreach
  BY <1>1 DEF NoDuplicateBreach
<1> QED
  BY <1>2, InductiveInvariant, PTL

\* A breach that became visible late is reported while its delay and the longest
\* gap between successful polls fit into the window.
THEOREM LateTolerated == Spec => []LateBreachReported
<1>1. IInv => LateBreachReported
  BY DEF IInv
<1> QED
  BY <1>1, InductiveInvariant, PTL

-----------------------------------------------------------------------------
(* The refinement.                                                          *)

\* A batch that is on its way to the timeline or to the sink is not empty.
BatchFull == pc \in {"publish", "sink"} => batch # {}

LEMMA BatchFullInv == Spec => []BatchFull
<1>1. Init => BatchFull
  BY DEF Init, BatchFull
<1>2. BatchFull /\ [Next]_vars => BatchFull'
  <2> SUFFICES ASSUME BatchFull, [Next]_vars
               PROVE  BatchFull'
    OBVIOUS
  <2>1. CASE \E S \in Collected : CollectOK(S)
    BY <2>1 DEF BatchFull, CollectOK, PollDone
  <2>2. CASE AddEvents
    BY <2>2 DEF BatchFull, AddEvents
  <2>3. CASE Environment \/ UNCHANGED vars
    BY <2>3 DEF BatchFull, Environment, Tick, StepBack, Appear, Cancel, vars
  <2>4. CASE StartPoll \/ CollectFail \/ AddMetricPoints \/ Stop
    BY <2>4 DEF BatchFull, StartPoll, CollectFail, AddMetricPoints, Stop, PollDone
  <2> QED
    BY <2>1, <2>2, <2>3, <2>4 DEF Next, Ingestor
<1> QED
  BY <1>1, <1>2, PTL DEF Spec

\* Every step of the loop is a step of the abstract feed, or none; that AddEvents
\* publishes nothing twice is OnceInv.
LEMMA FeedStep ==
    ASSUME IInv, IInv', BatchFull, [Next]_vars
    PROVE  [AsFeed!Next]_AsFeed!vars
<1> DEFINE pending == IF pc = "sink" THEN batch ELSE {}
<1> USE DEF IInv
<1>1. ASSUME NEW p \in Points, NEW t \in 0..MaxTime, Appear(p, t)
      PROVE  [AsFeed!Next]_AsFeed!vars
  <2>1. /\ breaching' = breaching \/ breaching' = breaching \cup {p}
        /\ UNCHANGED <<timeline, sink, pc, batch>>
    BY <1>1 DEF Appear, outVars
  <2> QED
    BY <2>1 DEF AsFeed!Next, AsFeed!Appear, AsFeed!vars
<1>2. CASE AddEvents
  <2>1. /\ pending = {} /\ pending' = batch /\ batch # {} /\ batch \in SUBSET breaching
        /\ breaching' = breaching /\ sink' = sink
    BY <1>2 DEF AddEvents, BatchFull, TypeOK, sourceVars
  <2>2. timeline' = AsFeed!Plus(timeline, batch)
    BY <1>2 DEF AddEvents, Plus, AsFeed!Plus
  <2>3. \A p \in batch : timeline[p] = 0
    BY <1>2 DEF AddEvents, OnceInv, TypeOK
  <2>4. AsFeed!Publish(batch)
    BY <2>1, <2>2, <2>3 DEF AsFeed!Publish
  <2> QED
    BY <2>1, <2>4 DEF AsFeed!Next
<1>3. CASE AddMetricPoints
  <2>1. /\ pending = batch /\ pending' = {} /\ batch # {}
        /\ breaching' = breaching /\ timeline' = timeline
    BY <1>3 DEF AddMetricPoints, PollDone, BatchFull, sourceVars
  <2>2. sink' = AsFeed!Plus(sink, batch)
    BY <1>3 DEF AddMetricPoints, Plus, AsFeed!Plus
  <2> QED
    BY <2>1, <2>2 DEF AsFeed!Next, AsFeed!Forward
<1>4. CASE Tick \/ StepBack \/ Cancel \/ UNCHANGED vars
  <2>1. UNCHANGED <<breaching, timeline, sink, pc, batch>>
    BY <1>4 DEF Tick, StepBack, Cancel, vars, sourceVars, outVars
  <2> QED
    BY <2>1 DEF AsFeed!vars
<1>5. CASE StartPoll \/ CollectFail \/ (\E S \in Collected : CollectOK(S)) \/ Stop
  <2>1. pc # "sink" /\ pc' # "sink" /\ UNCHANGED <<breaching, timeline, sink>>
    BY <1>5 DEF StartPoll, CollectFail, CollectOK, PollDone, Stop, sourceVars, outVars
  <2> QED
    BY <2>1 DEF AsFeed!vars
<1> QED
  BY <1>1, <1>2, <1>3, <1>4, <1>5 DEF Next, Environment, Ingestor

\* The metrics loop implements the abstract feed that publishes nothing twice.
THEOREM Refinement == Spec => ImplementsFeed
<1>1. Init => AsFeed!Init
  BY DEF Init, AsFeed!Init
<1>2. IInv /\ IInv' /\ BatchFull /\ [Next]_vars => [AsFeed!Next]_AsFeed!vars
  BY FeedStep
<1> QED
  BY <1>1, <1>2, InductiveInvariant, BatchFullInv, PTL DEF Spec, ImplementsFeed, AsFeed!Spec

=============================================================================
