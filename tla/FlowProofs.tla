------------------------------ MODULE FlowProofs ------------------------------
(* Type correctness of Flow, the order of its start, what an exit may lose,  *)
(* the clean exit, and that its loops implement the abstract feed, for every *)
(* set of settings and of signals and every bound.                           *)
EXTENDS Flow, TLAPS

-----------------------------------------------------------------------------
(* The inductive invariant.                                                 *)

AllOff == \A l \in Loops : loop[l] = "off"
Honoured == \A l \in Loops : loop[l] # "off" <=> l \in LoopsOf(cfg.mode)
Settled == {"tracing", "serve", "notify", "select", "shutdown", "draining", "deferred", "flush"}
Served == {"notify", "select", "shutdown", "draining", "deferred", "flush", "exited"}

\* The settings were accepted before anything is started, and the loops are started
\* one after the other.
StartInv ==
    /\ pc \notin {"validate", "exited"} => ValidIngestion /\ ValidArchive
    /\ pc \in {"validate", "credentials", "archive", "ingestion", "logs"} => AllOff
    /\ pc \in {"logs", "metrics"} => pc \in LoopsOf(cfg.mode)
    /\ pc = "metrics" =>
        /\ loop["metrics"] = "off"
        /\ loop["logs"] # "off" <=> "logs" \in LoopsOf(cfg.mode)
    /\ pc \in Settled => Honoured
    /\ server # "down" => pc \in Served
    /\ reason = "config" => pc = "exited"

\* Run waits for the requests under a signal and with the server closed.
ExitInv ==
    /\ pc \in {"shutdown", "draining"} => sigDone
    /\ pc = "draining" => server \notin {"starting", "listening"}
    /\ result = "ok" => pc \in {"deferred", "flush", "exited"}

\* Only the local archive is written to.
ArchiveInv == \A l \in Loops : loop[l] = "archive" => cfg.archive = "local"

IInv ==
    /\ TypeOK /\ StartInv /\ ExitInv /\ ArchiveInv
    /\ ConfigurationHonoured /\ LossBounded /\ CleanExit

LEMMA LoopsFact == Loops = {"logs", "metrics"} /\ "logs" \in Loops /\ "metrics" \in Loops
BY DEF Loops

-----------------------------------------------------------------------------
(* Counting.                                                                *)

LEMMA PlusType ==
    ASSUME NEW f \in Counts, NEW l \in Loops, NEW S
    PROVE  Plus(f, l, S) \in Counts
<1>1. [s \in Signals |-> IF s \in S THEN f[l][s] + 1 ELSE f[l][s]] \in [Signals -> Nat]
  BY DEF Counts
<1> QED
  BY <1>1 DEF Plus, Counts

LEMMA PlusValue ==
    ASSUME NEW f \in Counts, NEW l \in Loops, NEW S, NEW m \in Loops, NEW s \in Signals
    PROVE  Plus(f, l, S)[m][s] = IF m = l /\ s \in S THEN f[m][s] + 1 ELSE f[m][s]
BY DEF Plus, Counts

LEMMA PlusOther ==
    ASSUME NEW f \in Counts, NEW l \in Loops, NEW S, NEW m \in Loops, m # l
    PROVE  Plus(f, l, S)[m] = f[m]
BY DEF Plus, Counts

-----------------------------------------------------------------------------
(* What the actions have in common.                                         *)

\* The steps of main, of a signal and of the server leave the loops alone, but for
\* the one that starts a loop.
OutsideLoops ==
    \/ Main \/ Signal \/ Server \/ UNCHANGED vars

LEMMA OutsideLoopsFrame ==
    ASSUME OutsideLoops
    PROVE  UNCHANGED <<cfg, batch, timeline, store, archive, failed>>
<1>1. CASE Startup
  BY <1>1 DEF Startup, Validate, Credentials, BuildArchiveSink, StartIngestion, StartLogs,
              StartMetrics, Start, InitTracing, StartServer, NotifyContext, loopVars, outVars
<1>2. CASE Shutdown
  BY <1>2 DEF Shutdown, SelectServerErr, SelectSignal, BeginShutdown, ShutdownDone,
              ShutdownTimeout, StopNotify, Exit, loopVars, outVars
<1>3. CASE Signal \/ Server \/ UNCHANGED vars
  BY <1>3 DEF Signal, Server, Listening, ServerFails, RequestBegins, RequestEnds, vars,
              loopVars, outVars
<1> QED
  BY <1>1, <1>2, <1>3 DEF OutsideLoops, Main

LEMMA OutsideLoopsLoop ==
    ASSUME OutsideLoops, TypeOK, StartInv
    PROVE  \/ loop' = loop
           \/ \E l \in Loops : /\ pc = l /\ loop[l] = "off"
                               /\ loop' = [loop EXCEPT ![l] = "polling"]
<1>1. CASE Startup
  <2>1. CASE StartLogs \/ StartMetrics
    BY <2>1, LoopsFact DEF StartLogs, StartMetrics, Start, Fail, StartInv, AllOff
  <2>2. CASE Validate \/ Credentials \/ BuildArchiveSink
    BY <2>2 DEF Validate, Credentials, BuildArchiveSink, Fail
  <2>3. CASE StartIngestion
    BY <2>3 DEF StartIngestion, Fail
  <2>4. CASE InitTracing \/ StartServer \/ NotifyContext
    BY <2>4 DEF InitTracing, StartServer, NotifyContext, Fail, loopVars
  <2> QED
    BY <1>1, <2>1, <2>2, <2>3, <2>4 DEF Startup
<1>2. CASE Shutdown
  BY <1>2 DEF Shutdown, SelectServerErr, SelectSignal, BeginShutdown, ShutdownDone,
              ShutdownTimeout, StopNotify, Exit, loopVars
<1>3. CASE Signal \/ Server \/ UNCHANGED vars
  BY <1>3 DEF Signal, Server, Listening, ServerFails, RequestBegins, RequestEnds, vars, loopVars
<1> QED
  BY <1>1, <1>2, <1>3 DEF OutsideLoops, Main

-----------------------------------------------------------------------------
(* Type correctness.                                                        *)

LEMMA TypeInit == Init => TypeOK
<1> SUFFICES ASSUME Init PROVE TypeOK
  OBVIOUS
<1>1. timeline \in Counts
  BY DEF Init, Counts
<1> QED
  BY <1>1 DEF Init, TypeOK, Places, Reasons

\* The steps of main, of a signal and of the server.
LEMMA TypeOutside ==
    ASSUME TypeOK, StartInv, OutsideLoops
    PROVE  TypeOK'
<1>1. UNCHANGED <<cfg, batch, timeline, store, archive, failed>>
  BY OutsideLoopsFrame
<1>2. /\ loop' \in [Loops -> {"off", "polling", "publish", "store", "archive", "returned"}]
      /\ \A l \in Loops : batch'[l] # {} <=> loop'[l] \in {"publish", "store", "archive"}
  BY <1>1, OutsideLoopsLoop DEF TypeOK
<1>3. /\ pc' \in Places /\ reason' \in Reasons
      /\ result' \in {"none", "ok", "error", "killed"}
      /\ notified' \in BOOLEAN /\ sigDone' \in BOOLEAN /\ cancelled' \in BOOLEAN
      /\ server' \in {"down", "starting", "listening", "failed", "closed"}
      /\ serverErr' \in BOOLEAN /\ requests' \in Nat
  <2> USE DEF TypeOK, Places, Reasons, signalVars, serverVars
  <2>1. CASE Validate \/ Credentials \/ BuildArchiveSink
    BY <2>1 DEF Validate, Credentials, BuildArchiveSink, Fail, Continue
  <2>2. CASE StartIngestion
    <3>1. UNCHANGED <<notified, sigDone, cancelled, server, serverErr, requests>>
      BY <2>2 DEF StartIngestion
    <3>2. \/ \E to \in {"tracing", "logs", "metrics"} : Continue(to)
          \/ \E why \in {"config", "region"} : Fail(why)
      BY <2>2 DEF StartIngestion
    <3> QED
      BY <3>1, <3>2 DEF Fail, Continue
  <2>3. CASE StartLogs \/ StartMetrics
    <3>1. UNCHANGED <<signalVars, cancelled, serverVars>>
      BY <2>3 DEF StartLogs, StartMetrics, Start
    <3>2. pc' \in Places /\ reason' \in Reasons /\ result' \in {"none", "ok", "error", "killed"}
      BY <2>3 DEF StartLogs, StartMetrics, Start, Fail, Continue
    <3> QED
      BY <3>1, <3>2
  <2>4. CASE InitTracing
    <3>1. UNCHANGED <<notified, sigDone, cancelled, server, serverErr, requests>>
      BY <2>4 DEF InitTracing
    <3>2. Continue("serve") \/ Fail("tracing")
      BY <2>4 DEF InitTracing
    <3> QED
      BY <3>1, <3>2 DEF Fail, Continue
  <2>10. CASE StartServer \/ NotifyContext
    BY <2>10 DEF StartServer, NotifyContext
  <2>5. CASE SelectServerErr \/ SelectSignal \/ BeginShutdown
    BY <2>5 DEF SelectServerErr, SelectSignal, BeginShutdown
  <2>9. CASE ShutdownDone \/ ShutdownTimeout \/ StopNotify \/ Exit
    BY <2>9 DEF ShutdownDone, ShutdownTimeout, StopNotify, Exit
  <2>6. CASE Signal
    BY <2>6 DEF Signal
  <2>7. CASE Server
    <3>1. UNCHANGED <<pc, reason, result, notified, sigDone, cancelled>>
      BY <2>7 DEF Server, Listening, ServerFails, RequestBegins, RequestEnds
    <3>2. /\ server' \in {server, "listening", "failed"} /\ serverErr' \in {serverErr, TRUE}
          /\ requests' \in {requests, requests + 1} \/ (requests > 0 /\ requests' = requests - 1)
      <4>1. CASE Listening \/ ServerFails
        BY <4>1 DEF Listening, ServerFails
      <4>2. CASE RequestBegins \/ RequestEnds
        BY <4>2 DEF RequestBegins, RequestEnds
      <4> QED
        BY <2>7, <4>1, <4>2 DEF Server
    <3>3. requests' \in Nat
      BY <3>2
    <3>4. serverErr' \in BOOLEAN /\ server' \in {"down", "starting", "listening", "failed", "closed"}
      BY <3>2
    <3> QED
      BY <3>1, <3>3, <3>4
  <2>8. CASE UNCHANGED vars
    BY <2>8 DEF vars
  <2> QED
    BY <2>1, <2>2, <2>3, <2>4, <2>5, <2>6, <2>7, <2>8, <2>9, <2>10
       DEF OutsideLoops, Main, Startup, Shutdown
<1> QED
  BY <1>1, <1>2, <1>3 DEF TypeOK

\* The steps of a loop.
LEMMA TypeLoop ==
    ASSUME TypeOK, NEW l \in Loops, Loop(l)
    PROVE  TypeOK'
<1>1. UNCHANGED processVars
  BY DEF Loop, Poll, AddEvents, AddToStore, Put, Return, processVars
<1>2. /\ timeline' \in Counts /\ store' \in Counts /\ archive' \in Counts /\ failed' \in Counts
  <2>1. \A f \in Counts : \A S : Plus(f, l, S) \in Counts
    BY PlusType
  <2>2. CASE (\E B \in SUBSET Signals : Poll(l, B)) \/ Return(l)
    BY <2>2 DEF Poll, Return, TypeOK, outVars
  <2>3. CASE AddEvents(l) \/ AddToStore(l)
    BY <2>1, <2>3 DEF AddEvents, AddToStore, TypeOK
  <2>4. CASE \E s \in Signals : Put(l, s)
    BY <2>1, <2>4 DEF Put, TypeOK
  <2> QED
    BY <2>2, <2>3, <2>4 DEF Loop
<1>3. /\ loop' \in [Loops -> {"off", "polling", "publish", "store", "archive", "returned"}]
      /\ batch' \in [Loops -> SUBSET Signals]
      /\ \A m \in Loops : batch'[m] # {} <=> loop'[m] \in {"publish", "store", "archive"}
  <2>1. ASSUME NEW B \in SUBSET Signals, Poll(l, B) PROVE <1>3!:
    BY <2>1 DEF Poll, TypeOK
  <2>2. CASE AddEvents(l)
    BY <2>2 DEF AddEvents, TypeOK
  <2>3. CASE AddToStore(l)
    BY <2>3 DEF AddToStore, TypeOK
  <2>4. ASSUME NEW s \in Signals, Put(l, s) PROVE <1>3!:
    <3>1. batch' = [batch EXCEPT ![l] = @ \ {s}]
      BY <2>4 DEF Put
    <3>2. loop' = [loop EXCEPT ![l] = IF batch[l] \ {s} = {} THEN "polling" ELSE "archive"]
      BY <2>4, <3>1 DEF Put, TypeOK
    <3> QED
      BY <3>1, <3>2 DEF TypeOK
  <2>5. CASE Return(l)
    BY <2>5 DEF Return, TypeOK
  <2> QED
    BY <2>1, <2>2, <2>3, <2>4, <2>5 DEF Loop
<1> QED
  BY <1>1, <1>2, <1>3 DEF TypeOK, processVars, signalVars, serverVars

-----------------------------------------------------------------------------
(* The start.                                                               *)

LEMMA StartOutside ==
    ASSUME IInv, OutsideLoops, TypeOK'
    PROVE  StartInv' /\ ConfigurationHonoured'
<1> USE DEF IInv
<1>1. cfg' = cfg
  BY OutsideLoopsFrame
<1>2. ValidIngestion' = ValidIngestion /\ ValidArchive' = ValidArchive
  BY <1>1 DEF ValidIngestion, ValidArchive, HasTargets
<1> USE <1>1, <1>2, LoopsFact
    DEF StartInv, ConfigurationHonoured, AllOff, Honoured, Settled, Served
<1>3. CASE Validate
  BY <1>3 DEF Validate, Fail, Continue, serverVars
<1>4. CASE Credentials \/ BuildArchiveSink
  BY <1>4 DEF Credentials, BuildArchiveSink, Fail, Continue, serverVars, ValidArchive
<1>5. CASE StartIngestion
  <2>1. UNCHANGED <<loop, server>>
    BY <1>5 DEF StartIngestion, Fail, serverVars
  <2>2. LoopsOf(cfg.mode) = {} <=> cfg.mode = "disabled"
    BY <1>5 DEF StartIngestion, ValidIngestion, LoopsOf
  <2>3. LoopsOf(cfg.mode) \subseteq Loops
    BY DEF LoopsOf
  <2>4. CASE cfg.mode = "disabled"
    BY <1>5, <2>1, <2>2, <2>4 DEF StartIngestion, Continue
  <2>5. CASE cfg.mode # "disabled" /\ ~cfg.region
    BY <1>5, <2>1, <2>2, <2>5 DEF StartIngestion, Fail
  <2>6. CASE cfg.mode # "disabled" /\ cfg.region
    BY <1>5, <2>1, <2>2, <2>3, <2>6 DEF StartIngestion, Continue
  <2> QED
    BY <2>4, <2>5, <2>6
<1>6. CASE StartLogs
  BY <1>6 DEF StartLogs, Start, Fail, Continue, serverVars, ValidIngestion, LoopsOf, TypeOK
<1>7. CASE StartMetrics
  BY <1>7 DEF StartMetrics, Start, Fail, Continue, serverVars, ValidIngestion, LoopsOf, TypeOK
<1>8. CASE InitTracing
  BY <1>8 DEF InitTracing, Fail, Continue, serverVars
<1>9. CASE StartServer \/ NotifyContext
  BY <1>9 DEF StartServer, NotifyContext, loopVars, serverVars
<1>10. CASE Shutdown
  BY <1>10 DEF Shutdown, SelectServerErr, SelectSignal, BeginShutdown, ShutdownDone,
               ShutdownTimeout, StopNotify, Exit, loopVars, serverVars
<1>11. CASE Signal
  BY <1>11 DEF Signal, Alive, loopVars, serverVars
<1>12. CASE Server
  BY <1>12 DEF Server, Listening, ServerFails, RequestBegins, RequestEnds, loopVars
<1>13. CASE UNCHANGED vars
  BY <1>13 DEF vars, loopVars, serverVars
<1> QED
  BY <1>3, <1>4, <1>5, <1>6, <1>7, <1>8, <1>9, <1>10, <1>11, <1>12, <1>13
     DEF OutsideLoops, Main, Startup

\* A loop that runs goes on running until it returns.
LEMMA LoopFrame ==
    ASSUME TypeOK, NEW l \in Loops, Loop(l)
    PROVE  /\ UNCHANGED processVars
           /\ pc # "exited"
           /\ loop[l] # "off" /\ loop'[l] # "off"
           /\ \A m \in Loops \ {l} : loop'[m] = loop[m] /\ batch'[m] = batch[m]
<1>1. UNCHANGED processVars /\ pc # "exited" /\ loop[l] # "off"
  BY DEF Loop, Poll, AddEvents, AddToStore, Put, Return, processVars, Alive
<1>2. \E to \in {"polling", "publish", "store", "archive", "returned"} :
          loop' = [loop EXCEPT ![l] = to]
  BY DEF Loop, Poll, AddEvents, AddToStore, Put, Return, TypeOK
<1>3. batch' = batch \/ \E B : batch' = [batch EXCEPT ![l] = B]
  BY DEF Loop, Poll, AddEvents, AddToStore, Put, Return
<1> QED
  BY <1>1, <1>2, <1>3 DEF TypeOK

LEMMA StartLoop ==
    ASSUME IInv, NEW l \in Loops, Loop(l)
    PROVE  StartInv' /\ ConfigurationHonoured' /\ ExitInv' /\ CleanExit' /\ ArchiveInv'
<1> USE DEF IInv
<1>1. /\ UNCHANGED processVars
      /\ pc # "exited"
      /\ loop[l] # "off" /\ loop'[l] # "off"
      /\ \A m \in Loops \ {l} : loop'[m] = loop[m]
  BY LoopFrame
<1>2. UNCHANGED <<cfg, pc, reason, result, sigDone, server, requests>>
  BY <1>1 DEF processVars, signalVars, serverVars
<1>3. \A m \in Loops : loop'[m] = "off" <=> loop[m] = "off"
  BY <1>1
<1>4. ValidIngestion' = ValidIngestion /\ ValidArchive' = ValidArchive
  BY <1>2 DEF ValidIngestion, ValidArchive, HasTargets
<1>5. StartInv'
  BY <1>2, <1>3, <1>4, LoopsFact DEF StartInv, AllOff, Honoured, Settled, Served
<1>6. ConfigurationHonoured' /\ ExitInv' /\ CleanExit'
  BY <1>2, <1>3 DEF ConfigurationHonoured, ExitInv, CleanExit
<1>7. loop'[l] = "archive" => cfg.archive = "local"
  BY DEF Loop, Poll, AddEvents, AddToStore, Put, Return, TypeOK, ArchiveInv
<1> QED
  BY <1>1, <1>2, <1>5, <1>6, <1>7 DEF ArchiveInv

-----------------------------------------------------------------------------
(* The end.                                                                 *)

LEMMA ExitOutside ==
    ASSUME IInv, OutsideLoops
    PROVE  ExitInv' /\ CleanExit'
<1> USE DEF IInv, ExitInv, CleanExit
<1>1. CASE Startup
  <2>1. /\ result' = "ok" => result = "ok"
        /\ pc' \notin {"shutdown", "draining", "deferred", "flush"}
    BY <1>1 DEF Startup, Validate, Credentials, BuildArchiveSink, StartIngestion, StartLogs,
                StartMetrics, Start, InitTracing, StartServer, NotifyContext, Fail, Continue
  <2>2. pc \notin {"deferred", "flush", "exited"}
    BY <1>1 DEF Startup, Validate, Credentials, BuildArchiveSink, StartIngestion, StartLogs,
                StartMetrics, Start, InitTracing, StartServer, NotifyContext
  <2> QED
    BY <2>1, <2>2
<1>2. CASE SelectServerErr \/ SelectSignal \/ BeginShutdown
  BY <1>2 DEF SelectServerErr, SelectSignal, BeginShutdown, signalVars, serverVars, TypeOK
<1>3. CASE ShutdownDone \/ ShutdownTimeout \/ StopNotify \/ Exit
  BY <1>3 DEF ShutdownDone, ShutdownTimeout, StopNotify, Exit, signalVars, serverVars
<1>4. CASE Signal
  BY <1>4 DEF Signal, serverVars, TypeOK
<1>5. CASE Server
  <2>1. UNCHANGED <<pc, result, sigDone>>
    BY <1>5 DEF Server, Listening, ServerFails, RequestBegins, RequestEnds, signalVars
  <2>2. server \notin {"starting", "listening"} => server' = server
    BY <1>5 DEF Server, Listening, ServerFails, RequestBegins, RequestEnds
  <2>3. server \notin {"starting", "listening"} /\ requests = 0 => requests' = requests
    BY <1>5 DEF Server, Listening, ServerFails, RequestBegins, RequestEnds
  <2> QED
    BY <2>1, <2>2, <2>3
<1>6. CASE UNCHANGED vars
  BY <1>6 DEF vars, signalVars, serverVars
<1> QED
  BY <1>1, <1>2, <1>3, <1>4, <1>5, <1>6 DEF OutsideLoops, Main, Shutdown

LEMMA LossOutside ==
    ASSUME IInv, OutsideLoops
    PROVE  LossBounded' /\ ArchiveInv'
<1>1. UNCHANGED <<cfg, batch, timeline, store, archive, failed>>
  BY OutsideLoopsFrame
<1>2. \A l \in Loops : loop'[l] = loop[l] \/ (loop[l] = "off" /\ loop'[l] = "polling")
  BY OutsideLoopsLoop DEF IInv, TypeOK
<1>3. \A l \in Loops : \A s : \A place \in {"store", "archive"} :
          InBatch(l, s, place)' = InBatch(l, s, place)
  BY <1>1, <1>2 DEF InBatch
<1> QED
  BY <1>1, <1>2, <1>3 DEF IInv, LossBounded, ArchiveInv

Balanced(l, s) ==
    /\ timeline[l][s] = store[l][s] + InBatch(l, s, "store")
    /\ cfg.archive = "local" =>
           store[l][s] = archive[l][s] + failed[l][s] + InBatch(l, s, "archive")

LEMMA LossLoop ==
    ASSUME IInv, TypeOK', NEW l \in Loops, Loop(l)
    PROVE  LossBounded'
<1> USE DEF IInv
<1>1. cfg' = cfg
  BY LoopFrame DEF processVars
<1>2. SUFFICES ASSUME NEW m \in Loops, NEW s \in Signals PROVE Balanced(m, s)'
  BY DEF LossBounded, Balanced
<1>3. Balanced(m, s)
  BY DEF LossBounded, Balanced
<1>4. /\ timeline[m][s] \in Nat /\ store[m][s] \in Nat
      /\ archive[m][s] \in Nat /\ failed[m][s] \in Nat
  BY DEF TypeOK, Counts
<1>5. \A S : /\ Plus(timeline, l, S)[m][s] = IF m = l /\ s \in S THEN timeline[m][s] + 1
                                             ELSE timeline[m][s]
             /\ Plus(store, l, S)[m][s] = IF m = l /\ s \in S THEN store[m][s] + 1
                                          ELSE store[m][s]
             /\ Plus(archive, l, S)[m][s] = IF m = l /\ s \in S THEN archive[m][s] + 1
                                            ELSE archive[m][s]
             /\ Plus(failed, l, S)[m][s] = IF m = l /\ s \in S THEN failed[m][s] + 1
                                           ELSE failed[m][s]
  BY PlusValue DEF TypeOK
<1>6. ASSUME NEW B \in SUBSET Signals, Poll(l, B) PROVE Balanced(m, s)'
  BY <1>1, <1>3, <1>6 DEF Poll, Balanced, InBatch, outVars, TypeOK
<1>7. CASE AddEvents(l)
  BY <1>1, <1>3, <1>4, <1>5, <1>7 DEF AddEvents, Balanced, InBatch, TypeOK
<1>8. CASE AddToStore(l)
  BY <1>1, <1>3, <1>4, <1>5, <1>8 DEF AddToStore, Balanced, InBatch, TypeOK
<1>9. ASSUME NEW t \in Signals, Put(l, t) PROVE Balanced(m, s)'
  BY <1>1, <1>3, <1>4, <1>5, <1>9 DEF Put, Balanced, InBatch, TypeOK
<1>10. CASE Return(l)
  BY <1>1, <1>3, <1>10 DEF Return, Balanced, InBatch, outVars, TypeOK
<1> QED
  BY <1>6, <1>7, <1>8, <1>9, <1>10 DEF Loop

-----------------------------------------------------------------------------
(* The theorems.                                                            *)

\* What is true of the process at its start, and after every step it takes.
LEMMA InductiveInvariant == Spec => []IInv
<1>1. Init => IInv
  <2> SUFFICES ASSUME Init PROVE IInv
    OBVIOUS
  <2>1. TypeOK
    BY TypeInit
  <2>2. StartInv /\ ExitInv /\ ArchiveInv /\ ConfigurationHonoured /\ CleanExit
    BY DEF Init, StartInv, ExitInv, ArchiveInv, ConfigurationHonoured, CleanExit, AllOff,
           Settled, Served
  <2>3. LossBounded
    BY DEF Init, LossBounded, InBatch
  <2> QED
    BY <2>1, <2>2, <2>3 DEF IInv
<1>2. IInv /\ [Next]_vars => IInv'
  <2> SUFFICES ASSUME IInv, [Next]_vars PROVE IInv'
    OBVIOUS
  <2>1. CASE OutsideLoops
    <3>1. TypeOK'
      BY <2>1, TypeOutside DEF IInv
    <3> QED
      BY <2>1, <3>1, StartOutside, ExitOutside, LossOutside DEF IInv
  <2>2. ASSUME NEW l \in Loops, Loop(l) PROVE IInv'
    <3>1. TypeOK'
      BY <2>2, TypeLoop DEF IInv
    <3> QED
      BY <2>2, <3>1, StartLoop, LossLoop DEF IInv
  <2> QED
    BY <2>1, <2>2 DEF Next, OutsideLoops
<1> QED
  BY <1>1, <1>2, PTL DEF Spec

\* Every variable keeps its type.
THEOREM TypeCorrect == Spec => []TypeOK
BY InductiveInvariant, PTL DEF IInv

\* Settings are refused before a loop starts, and the loops of the mode run where the
\* server does.
THEOREM Configuration == Spec => []ConfigurationHonoured
BY InductiveInvariant, PTL DEF IInv

\* Wherever the process ends, it loses no more than one batch of each loop.
THEOREM Loss == Spec => []LossBounded
BY InductiveInvariant, PTL DEF IInv

\* No request is cut off by an exit without an error.
THEOREM Clean == Spec => []CleanExit
BY InductiveInvariant, PTL DEF IInv

-----------------------------------------------------------------------------
(* The refinement.                                                          *)

FeedPlus(count, S) == [s \in Signals |-> IF s \in S THEN count[s] + 1 ELSE count[s]]

\* The steps of the abstract feed, seen by the loop l.
Unseen(l) == UNCHANGED <<Found(l), timeline[l], store[l], Pending(l)>>
Appears(l) == /\ Found(l)' = Found(l) \cup batch'[l] /\ batch'[l] \subseteq Signals
              /\ UNCHANGED <<timeline[l], store[l], Pending(l)>>
Publishes(l) == /\ Pending(l) = {} /\ batch[l] # {} /\ batch[l] \subseteq Found(l)
                /\ timeline'[l] = FeedPlus(timeline[l], batch[l])
                /\ Pending(l)' = batch[l]
                /\ UNCHANGED <<Found(l), store[l]>>
Forwards(l) == /\ Pending(l) # {} /\ Pending(l)' = {}
               /\ store'[l] = FeedPlus(store[l], Pending(l))
               /\ UNCHANGED <<Found(l), timeline[l]>>
FeedStep(l) == Unseen(l) \/ Appears(l) \/ Publishes(l) \/ Forwards(l)

\* A signal that is past the timeline was found.
LEMMA BatchFound ==
    ASSUME IInv, NEW l \in Loops, NEW s \in batch[l], loop[l] \in {"store", "archive"}
    PROVE  timeline[l][s] > 0
<1>1. s \in Signals
  BY DEF IInv, TypeOK
<1>2. Balanced(l, s)
  BY <1>1 DEF IInv, LossBounded, Balanced
<1>3. /\ timeline[l][s] \in Nat /\ store[l][s] \in Nat
      /\ archive[l][s] \in Nat /\ failed[l][s] \in Nat
  BY <1>1 DEF IInv, TypeOK, Counts
<1>4. CASE loop[l] = "store"
  BY <1>2, <1>3, <1>4 DEF Balanced, InBatch
<1>5. CASE loop[l] = "archive"
  BY <1>2, <1>3, <1>5 DEF Balanced, InBatch, IInv, ArchiveInv
<1> QED
  BY <1>4, <1>5

LEMMA FeedOutside ==
    ASSUME IInv, OutsideLoops, NEW l \in Loops
    PROVE  FeedStep(l)
<1>1. UNCHANGED <<batch, timeline, store>>
  BY OutsideLoopsFrame
<1>2. loop'[l] = "store" <=> loop[l] = "store"
  BY OutsideLoopsLoop DEF IInv, TypeOK
<1> QED
  BY <1>1, <1>2 DEF FeedStep, Unseen, Found, Pending

LEMMA FeedOther ==
    ASSUME IInv, NEW l \in Loops, NEW m \in Loops, m # l, Loop(m)
    PROVE  FeedStep(l)
<1>1. loop'[l] = loop[l] /\ batch'[l] = batch[l]
  BY LoopFrame DEF IInv
<1>2. timeline'[l] = timeline[l] /\ store'[l] = store[l]
  <2>1. \A S : Plus(timeline, m, S)[l] = timeline[l] /\ Plus(store, m, S)[l] = store[l]
    BY PlusOther DEF IInv, TypeOK
  <2> QED
    BY <2>1 DEF Loop, Poll, AddEvents, AddToStore, Put, Return, outVars
<1> QED
  BY <1>1, <1>2 DEF FeedStep, Unseen, Found, Pending

LEMMA FeedLoop ==
    ASSUME IInv, NEW l \in Loops, Loop(l)
    PROVE  FeedStep(l)
<1> USE DEF IInv, TypeOK
<1>1. ASSUME NEW B \in SUBSET Signals, Poll(l, B) PROVE FeedStep(l)
  <2>1. /\ batch[l] = {} /\ batch'[l] = B
        /\ loop[l] = "polling" /\ loop'[l] = "publish"
        /\ UNCHANGED <<timeline, store>>
    BY <1>1 DEF Poll, outVars
  <2> QED
    BY <2>1 DEF FeedStep, Appears, Found, Pending
<1>2. CASE AddEvents(l)
  <2>1. /\ batch' = batch /\ store' = store /\ batch[l] # {} /\ batch[l] \subseteq Signals
        /\ loop[l] = "publish" /\ loop'[l] = "store"
        /\ timeline[l] \in [Signals -> Nat]
    BY <1>2 DEF AddEvents, Counts
  <2>2. timeline'[l] = FeedPlus(timeline[l], batch[l])
    BY <1>2 DEF AddEvents, Plus, FeedPlus, Counts
  <2>3. Found(l)' = Found(l)
    BY <2>1, <2>2 DEF Found, FeedPlus
  <2> QED
    BY <2>1, <2>2, <2>3 DEF FeedStep, Publishes, Found, Pending
<1>3. CASE AddToStore(l)
  <2>1. /\ timeline' = timeline /\ batch[l] # {}
        /\ loop[l] = "store" /\ loop'[l] # "store"
        /\ batch'[l] = batch[l] \/ batch'[l] = {}
    BY <1>3 DEF AddToStore
  <2>2. store'[l] = FeedPlus(store[l], batch[l])
    BY <1>3 DEF AddToStore, Plus, FeedPlus, Counts
  <2>3. \A s \in batch[l] : s \in Signals /\ timeline[l][s] > 0
    BY <2>1, BatchFound
  <2>4. Found(l)' = Found(l)
    BY <2>1, <2>3 DEF Found
  <2> QED
    BY <2>1, <2>2, <2>4 DEF FeedStep, Forwards, Pending
<1>4. ASSUME NEW s \in Signals, Put(l, s) PROVE FeedStep(l)
  <2>1. /\ UNCHANGED <<timeline, store>>
        /\ loop[l] = "archive" /\ loop'[l] # "store" /\ batch'[l] \subseteq batch[l]
    BY <1>4 DEF Put
  <2>2. \A t \in batch[l] : t \in Signals /\ timeline[l][t] > 0
    BY <2>1, BatchFound
  <2>3. Found(l)' = Found(l)
    BY <2>1, <2>2 DEF Found
  <2> QED
    BY <2>1, <2>3 DEF FeedStep, Unseen, Pending
<1>5. CASE Return(l)
  BY <1>5 DEF Return, outVars, FeedStep, Unseen, Found, Pending
<1> QED
  BY <1>1, <1>2, <1>3, <1>4, <1>5 DEF Loop

LEMMA FeedNext ==
    ASSUME IInv, [Next]_vars, NEW l \in Loops
    PROVE  FeedStep(l)
BY FeedOutside, FeedOther, FeedLoop DEF Next, OutsideLoops

LEMMA LogsFeedStep ==
    ASSUME IInv, [Next]_vars
    PROVE  [LogsFeed!Next]_LogsFeed!vars
<1>1. FeedStep("logs")
  BY FeedNext, LoopsFact
<1>2. CASE Unseen("logs")
  BY <1>2 DEF Unseen, LogsFeed!vars
<1>3. CASE Appears("logs")
  BY <1>3 DEF Appears, LogsFeed!Next, LogsFeed!Appear
<1>4. CASE Publishes("logs")
  BY <1>4 DEF Publishes, FeedPlus, LogsFeed!Next, LogsFeed!Publish, LogsFeed!Plus
<1>5. CASE Forwards("logs")
  BY <1>5 DEF Forwards, FeedPlus, LogsFeed!Next, LogsFeed!Forward, LogsFeed!Plus
<1> QED
  BY <1>1, <1>2, <1>3, <1>4, <1>5 DEF FeedStep

LEMMA MetricsFeedStep ==
    ASSUME IInv, [Next]_vars
    PROVE  [MetricsFeed!Next]_MetricsFeed!vars
<1>1. FeedStep("metrics")
  BY FeedNext, LoopsFact
<1>2. CASE Unseen("metrics")
  BY <1>2 DEF Unseen, MetricsFeed!vars
<1>3. CASE Appears("metrics")
  BY <1>3 DEF Appears, MetricsFeed!Next, MetricsFeed!Appear
<1>4. CASE Publishes("metrics")
  BY <1>4 DEF Publishes, FeedPlus, MetricsFeed!Next, MetricsFeed!Publish, MetricsFeed!Plus
<1>5. CASE Forwards("metrics")
  BY <1>5 DEF Forwards, FeedPlus, MetricsFeed!Next, MetricsFeed!Forward, MetricsFeed!Plus
<1> QED
  BY <1>1, <1>2, <1>3, <1>4, <1>5 DEF FeedStep

\* Each of the loops of the process implements the abstract feed, whenever it is
\* started, cancelled or cut off.
THEOREM Refinement == Spec => LoopsImplementFeed
<1>1. Init => LogsFeed!Init /\ MetricsFeed!Init
  BY LoopsFact DEF Init, LogsFeed!Init, MetricsFeed!Init, Found, Pending
<1>2. IInv /\ [Next]_vars => [LogsFeed!Next]_LogsFeed!vars /\ [MetricsFeed!Next]_MetricsFeed!vars
  BY LogsFeedStep, MetricsFeedStep
<1> QED
  BY <1>1, <1>2, InductiveInvariant, PTL
     DEF Spec, LoopsImplementFeed, LogsFeed!Spec, MetricsFeed!Spec
=============================================================================
