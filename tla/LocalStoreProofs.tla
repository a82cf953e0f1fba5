-------------------------- MODULE LocalStoreProofs --------------------------
(* Retention against the Puts of the sink, for every set of keys and every   *)
(* number of crashes.                                                        *)
EXTENDS LocalStore, TLAPS

-----------------------------------------------------------------------------
(* The inductive invariant.                                                  *)

\* A Put that no sweep overlaps works on files that nobody else touches.
PutAlone ==
    wpc # "idle" =>
        /\ acked[wkey] = None
        /\ spc # "idle" => wkey \in overlapped
        /\ wkey \notin overlapped =>
              /\ data[wkey] # None
              /\ wpc \in {"written", "stamped", "meta"} => data[wkey] = puts
              /\ mtime[wkey] <= clock
              /\ wpc \in {"stamped", "meta"} => mtime[wkey] <= wat /\ wat <= clock
              /\ wpc = "meta" => meta[wkey] # None

\* The last Put of k returned nil and no sweep overlapped it.
Settled(k) == k \in Keys \ overlapped /\ acked[k] # None

\* A settled object is whole, or a sweep that found it too old has taken the data.
Whole ==
    \A k \in Keys : Settled(k) =>
        /\ mtime[k] <= acked[k]
        /\ \/ data[k] \in Nat /\ meta[k] = acked[k]
           \/ data[k] = None /\ mtime[k] < cutoff

\* What List reports of a settled object is a time of its Put, that of its data or the one
\* it is known under, and it misses none.
Listing ==
    spc = "list" =>
        \A k \in Keys : Settled(k) /\ data[k] # None =>
            /\ infos[k] \in {None, mtime[k], acked[k]}
            /\ k \in prefix => k \in unread \/ infos[k] # None

\* A settled object that is a candidate has old data, and one that is too old is a candidate
\* as long as it is there.
Deleting ==
    /\ spc \in {"delete", "deleteMeta"} =>
          \A k \in Keys : Settled(k) =>
              /\ k \in candidates => mtime[k] < cutoff
              /\ k \in prefix /\ data[k] # None /\ acked[k] < cutoff => k \in candidates
    /\ spc = "deleteMeta" /\ Settled(target) => data[target] = None

\* The cutoff follows the clock.
CutoffBound == cutoff <= clock - MaxAge

\* Metadata is alone only while a Delete is between its two removals or was cut there.
Paired ==
    \A k \in Keys \ (overlapped \cup broken) :
        \/ wpc # "idle" /\ wkey = k
        \/ spc = "deleteMeta" /\ target = k
        \/ data[k] = None => meta[k] = None

IInv == TypeOK /\ PutAlone /\ Whole /\ Listing /\ Deleting /\ CutoffBound /\ Paired

-----------------------------------------------------------------------------
(* Type correctness.                                                         *)

LEMMA InitType == Init => TypeOK
<1> SUFFICES ASSUME Init
             PROVE  TypeOK
  OBVIOUS
<1>1. cutoff \in Int
  BY StoreAssumption DEF Init
<1>2. /\ data \in [Keys -> Nat \cup {None, Torn}] /\ meta \in [Keys -> Nat \cup {None, Torn}]
      /\ mtime \in [Keys -> Nat] /\ infos \in [Keys -> Times] /\ acked \in [Keys -> Times]
  BY DEF Init, Times
<1> QED
  BY <1>1, <1>2 DEF Init, TypeOK

\* What the steps that end a sweep have in common.
LEMMA EndSweepType ==
    ASSUME TypeOK, EndSweep
    PROVE  /\ spc' = "idle" /\ prefix' = {} /\ dry' \in BOOLEAN /\ unread' = {}
           /\ candidates' = {} /\ infos' \in [Keys -> Times] /\ cutoff' \in Int
           /\ \A k \in Keys : infos'[k] = None
BY DEF TypeOK, EndSweep, Times

LEMMA PutType == TypeOK /\ Put => TypeOK'
<1> SUFFICES ASSUME TypeOK, Put
             PROVE  TypeOK'
  OBVIOUS
<1> USE DEF TypeOK, Times
<1>1. ASSUME NEW k \in Keys, PutOpenData(k)
      PROVE  TypeOK'
  BY <1>1 DEF PutOpenData, sweepVars
<1>2. CASE PutWriteData
  <2>1. data' \in [Keys -> Nat \cup {None, Torn}] /\ mtime' \in [Keys -> Nat]
    BY <1>2 DEF PutWriteData
  <2> QED
    BY <1>2, <2>1 DEF PutWriteData, sweepVars, history
<1>3. CASE PutStamp \/ PutOpenMeta
  BY <1>3 DEF PutStamp, PutOpenMeta, fileVars, sweepVars, history
<1>4. CASE PutWriteMeta
  <2>1. meta' \in [Keys -> Nat \cup {None, Torn}] /\ acked' \in [Keys -> Times]
    BY <1>4 DEF PutWriteMeta
  <2> QED
    BY <1>4, <2>1 DEF PutWriteMeta, sweepVars
<1>5. CASE PutFails
  BY <1>5 DEF PutFails, sweepVars, fileVars, history
<1> QED
  BY <1>1, <1>2, <1>3, <1>4, <1>5 DEF Put

LEMMA RetentionType == TypeOK /\ ApplyRetention => TypeOK'
<1> SUFFICES ASSUME TypeOK, ApplyRetention
             PROVE  TypeOK'
  OBVIOUS
<1> USE DEF TypeOK, Times
<1>1. ASSUME NEW P \in Prefixes, NEW isDry \in BOOLEAN, BeginRetention(P, isDry)
      PROVE  TypeOK'
  <2>1. P \subseteq Keys
    BY StoreAssumption
  <2>2. overlapped' \subseteq Keys
    BY <1>1 DEF BeginRetention
  <2> QED
    BY <1>1, <2>1, <2>2 DEF BeginRetention, fileVars, putVars
<1>2. ASSUME NEW k \in Keys, ListOne(k)
      PROVE  TypeOK'
  <2>1. (IF data[k] = None THEN {None} ELSE CreatedAt(k)) \subseteq Nat \cup {None}
    BY DEF CreatedAt
  <2>2. infos' \in [Keys -> Times] /\ \A j \in Keys : infos'[j] # None => j \in prefix
    BY <1>2, <2>1 DEF ListOne
  <2> QED
    BY <1>2, <2>2 DEF ListOne, fileVars, putVars, history
<1>3. CASE Select
  <2>1. /\ clock' = clock /\ UNCHANGED <<fileVars, putVars, unread, target, crashes, history>>
        /\ unread = {} /\ spc = "list"
        /\ infos' \in [Keys -> Times] /\ \A k \in Keys : infos'[k] = None
    BY <1>3 DEF Select
  <2>2. CASE dry
    BY <1>3, <2>1, <2>2 DEF Select, fileVars, putVars, history
  <2>3. CASE ~dry
    <3>1. cutoff' \in Int
      BY <1>3, <2>3, StoreAssumption DEF Select
    <3>2. candidates' \subseteq prefix /\ prefix' = prefix /\ dry' = dry /\ spc' = "delete"
      BY <1>3, <2>3 DEF Select, Expired
    <3> QED
      BY <2>1, <3>1, <3>2 DEF fileVars, putVars, history
  <2> QED
    BY <2>2, <2>3
<1>4. ASSUME NEW k \in Keys, DeleteData(k)
      PROVE  TypeOK'
  BY <1>4 DEF DeleteData, putVars, history
<1>5. CASE DeleteMeta
  <2>1. meta' \in [Keys -> Nat \cup {None, Torn}]
    BY <1>5 DEF DeleteMeta
  <2> QED
    BY <1>5, <2>1 DEF DeleteMeta, putVars, history
<1>6. CASE RetentionDone
  BY <1>6, EndSweepType DEF RetentionDone, fileVars, putVars, history
<1>7. CASE RetentionFails
  <2>1. broken' \subseteq Keys
    BY <1>7 DEF RetentionFails
  <2> QED
    BY <1>7, <2>1, EndSweepType DEF RetentionFails, fileVars, putVars
<1> QED
  BY <1>1, <1>2, <1>3, <1>4, <1>5, <1>6, <1>7 DEF ApplyRetention

LEMMA NextType == TypeOK /\ [Next]_vars => TypeOK'
<1> SUFFICES ASSUME TypeOK, [Next]_vars
             PROVE  TypeOK'
  OBVIOUS
<1>1. CASE Tick
  BY <1>1 DEF Tick, TypeOK, Times, fileVars, putVars, sweepVars, history
<1>2. CASE Crash
  <2>1. broken' \subseteq Keys
    BY <1>2 DEF Crash, TypeOK
  <2> QED
    BY <1>2, <2>1, EndSweepType DEF Crash, TypeOK, Times, fileVars
<1>3. CASE UNCHANGED vars
  BY <1>3 DEF vars, TypeOK, Times, fileVars, putVars, sweepVars, history
<1> QED
  BY <1>1, <1>2, <1>3, PutType, RetentionType DEF Next

\* Files, processes and bookkeeping keep their types.
THEOREM TypeCorrect == Spec => []TypeOK
BY InitType, NextType, PTL DEF Spec

-----------------------------------------------------------------------------
(* The invariant is inductive.                                               *)

LEMMA InitIInv == Init => IInv
<1> SUFFICES ASSUME Init
             PROVE  IInv
  OBVIOUS
<1>1. TypeOK
  BY InitType
<1>2. CutoffBound
  BY StoreAssumption DEF Init, CutoffBound
<1>3. PutAlone /\ Whole /\ Listing /\ Deleting /\ Paired
  BY DEF Init, PutAlone, Whole, Listing, Deleting, Paired, Settled
<1> QED
  BY <1>1, <1>2, <1>3 DEF IInv

\* A Put unsettles its object and settles it again when it returns nil.
LEMMA PutIInv ==
    ASSUME IInv, Put, TypeOK'
    PROVE  IInv'
<1> USE DEF IInv
<1>1. CutoffBound'
  BY DEF Put, PutOpenData, PutWriteData, PutStamp, PutOpenMeta, PutWriteMeta, PutFails,
         sweepVars, CutoffBound
<1>2. ASSUME NEW k \in Keys, PutOpenData(k)
      PROVE  PutAlone' /\ Whole' /\ Listing' /\ Deleting' /\ Paired'
  <2>1. PutAlone'
    BY <1>2, StoreAssumption DEF PutOpenData, PutAlone, TypeOK, sweepVars
  <2>2. acked'[k] = None /\ \A j \in Keys : Settled(j)' => j # k /\ Settled(j)
    BY <1>2 DEF PutOpenData, Settled, TypeOK
  <2>3. \A j \in Keys : j # k =>
            data'[j] = data[j] /\ mtime'[j] = mtime[j] /\ acked'[j] = acked[j]
    BY <1>2 DEF PutOpenData, TypeOK
  <2>4. Whole'
    BY <1>2, <2>2, <2>3 DEF PutOpenData, Whole, sweepVars
  <2>5. Listing'
    BY <1>2, <2>2, <2>3 DEF PutOpenData, Listing, sweepVars
  <2>6. Deleting'
    BY <1>2, <2>2, <2>3 DEF PutOpenData, Deleting, sweepVars, TypeOK
  <2>7. Paired'
    BY <1>2, <2>3 DEF PutOpenData, Paired, sweepVars
  <2> QED
    BY <2>1, <2>4, <2>5, <2>6, <2>7
<1>3. ASSUME PutWriteData \/ PutStamp \/ PutOpenMeta
      PROVE  PutAlone' /\ Whole' /\ Listing' /\ Deleting' /\ Paired'
  <2>1. /\ UNCHANGED <<sweepVars, acked, overlapped, broken>>
        /\ wpc # "idle" /\ wpc' # "idle" /\ wkey' = wkey /\ wkey \in Keys
    BY <1>3 DEF PutWriteData, PutStamp, PutOpenMeta, history, TypeOK
  <2>2. \A j \in Keys : j # wkey =>
            data'[j] = data[j] /\ mtime'[j] = mtime[j] /\ meta'[j] = meta[j]
    BY <1>3 DEF PutWriteData, PutStamp, PutOpenMeta, fileVars, TypeOK
  <2>3. PutAlone'
    <3>1. CASE PutWriteData
      <4>1. /\ wpc' = "written" /\ puts \in Nat /\ puts # None /\ puts' = puts
            /\ data'[wkey] = IF data[wkey] = None THEN None ELSE puts
            /\ mtime'[wkey] = clock /\ clock' = clock /\ clock \in Nat
        BY <2>1, <3>1, StoreAssumption DEF PutWriteData, TypeOK
      <4> QED
        BY <2>1, <4>1 DEF PutAlone, sweepVars
    <3>2. CASE PutStamp
      <4>1. wpc' = "stamped" /\ wat' = clock /\ clock' = clock /\ clock \in Nat
        BY <3>2 DEF PutStamp, TypeOK
      <4> QED
        BY <2>1, <3>2, <4>1 DEF PutStamp, PutAlone, sweepVars, fileVars
    <3>3. CASE PutOpenMeta
      BY <2>1, <3>3, StoreAssumption DEF PutOpenMeta, PutAlone, TypeOK, sweepVars
    <3> QED
      BY <1>3, <3>1, <3>2, <3>3
  <2>4. \A j \in Keys : Settled(j)' => j # wkey /\ Settled(j)
    BY <2>1 DEF Settled, PutAlone
  <2>5. Whole' /\ Listing'
    BY <2>1, <2>2, <2>4 DEF Whole, Listing, sweepVars
  <2>6. Deleting'
    BY <2>1, <2>2, <2>4 DEF Deleting, sweepVars, TypeOK
  <2>7. Paired'
    BY <2>1, <2>2 DEF Paired, sweepVars
  <2> QED
    BY <2>3, <2>5, <2>6, <2>7
<1>4. CASE PutWriteMeta
  <2>1. /\ UNCHANGED <<sweepVars, data, mtime, overlapped, broken>>
        /\ wpc = "meta" /\ wpc' = "idle" /\ wkey \in Keys /\ wat \in Nat
        /\ acked'[wkey] = wat
    BY <1>4 DEF PutWriteMeta, TypeOK
  <2>2. \A j \in Keys : j # wkey => meta'[j] = meta[j] /\ acked'[j] = acked[j]
    BY <1>4 DEF PutWriteMeta, TypeOK
  <2>3. wkey \notin overlapped =>
          /\ spc = "idle" /\ data[wkey] \in Nat /\ meta'[wkey] = wat /\ acked'[wkey] = wat
          /\ mtime[wkey] <= wat
    BY <1>4, <2>1 DEF PutWriteMeta, PutAlone, TypeOK
  <2>4. \A j \in Keys : Settled(j)' => IF j = wkey THEN wkey \notin overlapped ELSE Settled(j)
    BY <2>1, <2>2 DEF Settled
  <2>5. PutAlone'
    BY <2>1 DEF PutAlone
  <2>6. Whole'
    BY <2>1, <2>2, <2>3, <2>4 DEF Whole, sweepVars
  <2>7. Listing'
    BY <2>1, <2>2, <2>3, <2>4 DEF Listing, sweepVars
  <2>8. Deleting'
    BY <2>1, <2>2, <2>3, <2>4 DEF Deleting, sweepVars, TypeOK
  <2>9. Paired'
    <3>1. wkey \notin overlapped => data[wkey] # None
      BY <2>1 DEF PutAlone
    <3> QED
      BY <2>1, <2>2, <3>1 DEF Paired, sweepVars
  <2> QED
    BY <1>1, <2>5, <2>6, <2>7, <2>8, <2>9
<1>5. CASE PutFails
  <2>1. /\ UNCHANGED <<sweepVars, fileVars, acked, overlapped, broken>>
        /\ wpc # "idle" /\ wpc' = "idle" /\ wkey \in Keys
    BY <1>5 DEF PutFails, history, TypeOK
  <2>2. \A j \in Keys : Settled(j)' <=> Settled(j)
    BY <2>1 DEF Settled
  <2>3. PutAlone' /\ Whole' /\ Listing'
    BY <2>1, <2>2 DEF PutAlone, Whole, Listing, sweepVars, fileVars
  <2>4. Deleting'
    BY <2>1, <2>2 DEF Deleting, sweepVars, fileVars, TypeOK
  <2>5. Paired'
    <3>1. wkey \notin overlapped => data[wkey] # None
      BY <2>1 DEF PutAlone
    <3> QED
      BY <2>1, <3>1 DEF Paired, sweepVars, fileVars
  <2> QED
    BY <1>1, <2>3, <2>4, <2>5
<1> QED
  BY <1>1, <1>2, <1>3, <1>4, <1>5 DEF Put

\* The end of a sweep, also one that fails or crashes.
LEMMA EndIInv ==
    ASSUME IInv, TypeOK', EndSweep, UNCHANGED <<clock, fileVars, acked, overlapped>>,
           broken \subseteq broken', UNCHANGED putVars \/ wpc' = "idle",
           spc = "deleteMeta" => target \in broken'
    PROVE  IInv'
<1> USE DEF IInv
<1>1. \A j \in Keys : Settled(j)' <=> Settled(j)
  BY DEF Settled
<1>2. PutAlone'
  BY DEF EndSweep, PutAlone, fileVars, putVars
<1>3. Whole' /\ CutoffBound'
  BY <1>1 DEF EndSweep, Whole, CutoffBound, fileVars
<1>4. Listing' /\ Deleting'
  BY DEF EndSweep, Listing, Deleting
<1>5. Paired'
  <2>1. wpc # "idle" /\ wkey \notin overlapped => data[wkey] # None
    BY DEF PutAlone
  <2> QED
    BY <2>1 DEF EndSweep, Paired, fileVars, putVars
<1> QED
  BY <1>2, <1>3, <1>4, <1>5

\* A sweep lists a settled object with a time of its Put and takes it when that is before
\* the cutoff.
LEMMA RetentionIInv ==
    ASSUME IInv, ApplyRetention, TypeOK'
    PROVE  IInv'
<1> USE DEF IInv
<1>1. ASSUME NEW P \in Prefixes, NEW isDry \in BOOLEAN, BeginRetention(P, isDry)
      PROVE  IInv'
  <2>1. /\ spc = "idle" /\ spc' = "list" /\ prefix' = P /\ cutoff' = cutoff /\ clock' = clock
        /\ unread' = P /\ infos' = infos /\ P \subseteq Keys
        /\ UNCHANGED <<fileVars, putVars, acked, broken>>
    BY <1>1, StoreAssumption DEF BeginRetention
  <2>2. overlapped \subseteq overlapped' /\ (wpc # "idle" => wkey \in overlapped')
    BY <1>1 DEF BeginRetention
  <2>3. \A j \in Keys : Settled(j)' => Settled(j)
    BY <2>1, <2>2 DEF Settled
  <2>4. \A j \in Keys : infos[j] = None
    BY <2>1 DEF TypeOK
  <2>5. PutAlone'
    BY <2>1, <2>2 DEF PutAlone, putVars, fileVars
  <2>6. Whole' /\ CutoffBound' /\ Listing' /\ Deleting'
    BY <2>1, <2>3, <2>4 DEF Whole, CutoffBound, Listing, Deleting, fileVars
  <2>7. Paired'
    BY <2>1, <2>2 DEF Paired, fileVars, putVars
  <2> QED
    BY <2>5, <2>6, <2>7
<1>2. ASSUME NEW k \in Keys, ListOne(k)
      PROVE  IInv'
  <2>1. /\ spc = "list" /\ UNCHANGED <<clock, fileVars, putVars, spc, prefix, candidates, target,
                                       cutoff, history>>
        /\ unread' = unread \ {k}
        /\ infos'[k] \in (IF data[k] = None THEN {None} ELSE CreatedAt(k))
        /\ \A j \in Keys : j # k => infos'[j] = infos[j]
    BY <1>2 DEF ListOne, TypeOK
  <2>2. \A j \in Keys : Settled(j)' <=> Settled(j)
    BY <2>1 DEF Settled, history
  <2>3. Settled(k) /\ data[k] # None =>
            infos'[k] \in {mtime[k], acked[k]} /\ infos'[k] # None
    BY <2>1, StoreAssumption DEF Whole, CreatedAt, Settled, TypeOK, Times
  <2>4. Listing'
    BY <2>1, <2>2, <2>3 DEF Listing, fileVars, history
  <2>5. PutAlone' /\ Whole' /\ CutoffBound' /\ Deleting' /\ Paired'
    BY <2>1, <2>2 DEF PutAlone, Whole, CutoffBound, Deleting, Paired, fileVars, putVars, history
  <2> QED
    BY <2>4, <2>5
<1>3. CASE Select
  <2>1. /\ spc = "list" /\ unread = {}
        /\ UNCHANGED <<clock, fileVars, putVars, target, history>>
    BY <1>3 DEF Select
  <2>2. \A j \in Keys : Settled(j)' <=> Settled(j)
    BY <2>1 DEF Settled, history
  <2>3. CASE dry
    <3>1. spc' = "idle" /\ cutoff' = cutoff
      BY <1>3, <2>3 DEF Select
    <3> QED
      BY <2>1, <2>2, <3>1 DEF PutAlone, Whole, Listing, Deleting, CutoffBound, Paired,
                              fileVars, putVars, history
  <2>4. CASE ~dry
    <3>1. /\ spc' = "delete" /\ cutoff' = clock - MaxAge /\ prefix' = prefix
          /\ candidates' = {k \in Keys : Expired(infos[k], cutoff')}
      BY <1>3, <2>4 DEF Select
    <3>2. cutoff \in Int /\ cutoff' \in Int /\ cutoff <= cutoff'
      BY <2>1, <3>1 DEF CutoffBound, TypeOK
    <3>3. ASSUME NEW k \in Keys, Settled(k)
          PROVE  /\ mtime[k] <= acked[k]
                 /\ \/ data[k] \in Nat /\ meta[k] = acked[k]
                    \/ data[k] = None /\ mtime[k] < cutoff'
                 /\ k \in candidates' => mtime[k] < cutoff'
                 /\ k \in prefix /\ data[k] # None /\ acked[k] < cutoff' => k \in candidates'
      <4>1. acked[k] \in Nat /\ mtime[k] \in Nat /\ mtime[k] <= acked[k]
        BY <3>3 DEF Settled, TypeOK, Times, Whole
      <4>2. k \in candidates' <=> infos[k] # None /\ infos[k] < cutoff'
        BY <3>1 DEF Expired
      <4>3. CASE data[k] = None
        <5>1. mtime[k] < cutoff
          BY <3>3, <4>3, StoreAssumption DEF Whole
        <5>2. mtime[k] < cutoff'
          BY <3>2, <4>1, <5>1
        <5> QED
          BY <4>1, <4>3, <5>2
      <4>4. CASE data[k] # None
        <5>1. infos[k] \in {None, mtime[k], acked[k]} /\ (k \in prefix => infos[k] # None)
          BY <2>1, <3>3, <4>4 DEF Listing
        <5>2. data[k] \in Nat /\ meta[k] = acked[k]
          BY <3>3, <4>4 DEF Whole
        <5>3. infos[k] # None /\ infos[k] < cutoff' => mtime[k] < cutoff'
          BY <3>2, <4>1, <5>1
        <5>4. k \in prefix /\ acked[k] < cutoff' => infos[k] # None /\ infos[k] < cutoff'
          BY <3>2, <4>1, <5>1
        <5> QED
          BY <4>1, <4>2, <5>2, <5>3, <5>4
      <4> QED
        BY <4>3, <4>4
    <3>4. Whole'
      BY <2>1, <2>2, <3>3 DEF Whole, fileVars, history
    <3>5. Deleting'
      BY <2>1, <2>2, <3>1, <3>3 DEF Deleting, fileVars, history
    <3>6. CutoffBound'
      BY <2>1, <3>1, <3>2, StoreAssumption DEF CutoffBound, TypeOK
    <3>7. PutAlone' /\ Listing' /\ Paired'
      BY <2>1, <3>1 DEF PutAlone, Listing, Paired, fileVars, putVars, history
    <3> QED
      BY <3>4, <3>5, <3>6, <3>7
  <2> QED
    BY <2>3, <2>4
<1>4. ASSUME NEW k \in Keys, DeleteData(k)
      PROVE  IInv'
  <2>1. /\ spc = "delete" /\ spc' = "deleteMeta" /\ target' = k /\ k \in candidates
        /\ UNCHANGED <<clock, meta, mtime, putVars, prefix, candidates, cutoff, history>>
        /\ data'[k] = None /\ \A j \in Keys : j # k => data'[j] = data[j]
    BY <1>4 DEF DeleteData, TypeOK
  <2>2. \A j \in Keys : Settled(j)' <=> Settled(j)
    BY <2>1 DEF Settled, history
  <2>3. Settled(k) => mtime[k] < cutoff
    BY <2>1 DEF Deleting
  <2>4. PutAlone'
    BY <2>1 DEF PutAlone, putVars, history
  <2>5. Whole' /\ CutoffBound'
    BY <2>1, <2>2, <2>3 DEF Whole, CutoffBound, history
  <2>6. Listing' /\ Deleting'
    BY <2>1, <2>2 DEF Listing, Deleting, history
  <2>7. Paired'
    BY <2>1 DEF Paired, putVars, history
  <2> QED
    BY <2>4, <2>5, <2>6, <2>7
<1>5. CASE DeleteMeta
  <2>1. /\ spc = "deleteMeta" /\ spc' = "delete" /\ target \in candidates /\ target \in Keys
        /\ candidates' = candidates \ {target}
        /\ UNCHANGED <<clock, data, mtime, putVars, prefix, cutoff, history>>
        /\ meta'[target] = None /\ \A j \in Keys : j # target => meta'[j] = meta[j]
    BY <1>5 DEF DeleteMeta, TypeOK
  <2>2. \A j \in Keys : Settled(j)' <=> Settled(j)
    BY <2>1 DEF Settled, history
  <2>3. Settled(target) => data[target] = None
    BY <2>1 DEF Deleting
  <2>4. PutAlone'
    BY <2>1 DEF PutAlone, putVars, history
  <2>5. Whole' /\ CutoffBound'
    BY <2>1, <2>2, <2>3, StoreAssumption DEF Whole, CutoffBound, history
  <2>6. Listing' /\ Deleting'
    BY <2>1, <2>2, <2>3 DEF Listing, Deleting, history
  <2>7. Paired'
    BY <2>1 DEF Paired, putVars, history
  <2> QED
    BY <2>4, <2>5, <2>6, <2>7
<1>6. CASE RetentionDone
  BY <1>6, EndIInv DEF RetentionDone, putVars, history
<1>7. CASE RetentionFails
  BY <1>7, EndIInv DEF RetentionFails, putVars
<1> QED
  BY <1>1, <1>2, <1>3, <1>4, <1>5, <1>6, <1>7 DEF ApplyRetention

LEMMA NextIInv == IInv /\ [Next]_vars => IInv'
<1> SUFFICES ASSUME IInv, [Next]_vars
             PROVE  IInv'
  OBVIOUS
<1>1. TypeOK'
  BY NextType DEF IInv
<1>2. CASE Tick \/ UNCHANGED vars
  <2>1. /\ UNCHANGED <<fileVars, putVars, sweepVars, history>>
        /\ clock \in Nat /\ clock' \in Nat /\ clock <= clock'
    BY <1>1, <1>2 DEF Tick, vars, IInv, TypeOK
  <2>2. \A j \in Keys : Settled(j)' <=> Settled(j)
    BY <2>1 DEF Settled, history
  <2>3. CutoffBound'
    <3>1. cutoff' = cutoff /\ cutoff \in Int /\ cutoff <= clock - MaxAge /\ MaxAge \in Nat
      BY <2>1, StoreAssumption DEF CutoffBound, IInv, TypeOK, sweepVars
    <3>2. clock \in Int /\ clock' \in Int /\ clock <= clock'
      BY <2>1
    <3>3. \A a, b, c, m \in Int : a <= b - m /\ b <= c => a <= c - m
      OBVIOUS
    <3>4. MaxAge \in Int
      BY <3>1
    <3>5. cutoff <= clock' - MaxAge
      BY <3>1, <3>2, <3>3, <3>4
    <3> QED
      BY <3>1, <3>5 DEF CutoffBound
  <2>4. PutAlone' /\ Paired'
    <3>1. wpc # "idle" => mtime[wkey] \in Nat /\ wat \in Nat
      BY DEF IInv, TypeOK
    <3>2. wpc # "idle" =>
            /\ mtime[wkey] <= clock => mtime[wkey] <= clock'
            /\ wat <= clock => wat <= clock'
      BY <2>1, <3>1
    <3>3. PutAlone'
      BY <2>1, <3>2 DEF IInv, PutAlone, fileVars, putVars, sweepVars, history
    <3> QED
      BY <2>1, <3>3 DEF IInv, Paired, fileVars, putVars, sweepVars, history
  <2>5. Whole' /\ Listing'
    BY <2>1, <2>2 DEF IInv, Whole, Listing, fileVars, sweepVars, history
  <2>6. Deleting'
    <3>1. Settled(target)' <=> Settled(target)
      BY <2>1 DEF Settled, history, sweepVars
    <3> QED
      BY <2>1, <2>2, <3>1 DEF IInv, Deleting, fileVars, sweepVars, history
  <2> QED
    BY <1>1, <2>3, <2>4, <2>5, <2>6 DEF IInv
<1>3. CASE Crash
  BY <1>1, <1>3, EndIInv DEF Crash
<1> QED
  BY <1>1, <1>2, <1>3, PutIInv, RetentionIInv DEF Next

\* The invariant is inductive.
THEOREM InductiveInvariant == Spec => []IInv
BY InitIInv, NextIInv, PTL DEF Spec

-----------------------------------------------------------------------------
(* What it is for.                                                           *)

\* The object of the last Put of k is there, and so is its metadata.
Intact(k) == data[k] \notin {None, Torn} /\ meta[k] = acked[k]

\* What was put and acknowledged stays until its data is older than the retention, through
\* failed Puts of other keys, failed sweeps and crashes; nothing is said of an object whose
\* Put a sweep overlapped.
FreshKept ==
    \A k \in Keys \ overlapped :
        acked[k] # None /\ ~Intact(k) => mtime[k] < cutoff

\* Retention takes no acknowledged object before its time.
THEOREM RetentionKeepsFresh == Spec => []FreshKept
<1>1. IInv => FreshKept
  <2> SUFFICES ASSUME IInv, NEW k \in Keys \ overlapped, acked[k] # None, ~Intact(k)
               PROVE  mtime[k] < cutoff
    BY DEF FreshKept
  <2> QED
    BY StoreAssumption DEF IInv, Whole, Settled, Intact
<1> QED
  BY InductiveInvariant, <1>1, PTL

\* A sweep that comes to its end leaves nothing that is too old.
THEOREM RetentionComplete == Spec => []SweepComplete
<1>1. IInv => SweepComplete
  BY DEF IInv, TypeOK, Deleting, Settled, SweepComplete
<1> QED
  BY InductiveInvariant, <1>1, PTL

\* Files of metadata are left alone only where a Delete was cut between its two removals,
\* or a sweep overlapped a Put: a Put that fails or crashes anywhere leaves none.
THEOREM MetadataPaired == Spec => []NoOrphans
<1>1. IInv => NoOrphans
  BY DEF IInv, Paired, NoOrphans
<1> QED
  BY InductiveInvariant, <1>1, PTL

-----------------------------------------------------------------------------
(* The files as a store of objects.                                          *)

\* A step that no object notices.
LEMMA KeptRefines ==
    ASSUME UNCHANGED <<clock, puts>>, \A j \in Keys : Object(j)' = Object(j)
    PROVE  UNCHANGED OS!vars
BY DEF OS!vars

\* A step that one object notices.
LEMMA OneRefines ==
    ASSUME NEW k \in Keys, UNCHANGED <<clock, puts>>,
           \A j \in Keys \ {k} : Object(j)' = Object(j),
           \/ /\ OS!IsWritten(Object(k))
              /\ Object(k)' \in {OS!Written(Object(k).put, clock), Torn}
                     \cup {OS!Stored(Object(k).put, Object(k).since, t) :
                               t \in Object(k).since..clock}
           \/ /\ OS!IsStored(Object(k)) /\ Object(k).since < clock - MaxAge
              /\ Object(k)' = None
           \/ Object(k) = Torn /\ Object(k)' = None
    PROVE  OS!Next
<1> DEFINE objects == [j \in Keys |-> Object(j)]
<1>1. objects' = [objects EXCEPT ![k] = Object(k)'] /\ objects[k] = Object(k)
  OBVIOUS
<1> HIDE DEF objects
<1> QED
  BY <1>1 DEF OS!Next, OS!Write, OS!Acknowledge, OS!Doubt, OS!Expire, OS!Discard, OS!Becomes,
              objects

\* A Put that is cut short leaves its object in doubt, unless a sweep has done so.
LEMMA CutShortRefines ==
    ASSUME IInv, wpc' = "idle",
           UNCHANGED <<clock, fileVars, puts, acked, overlapped>>
    PROVE  [OS!Next]_OS!vars
<1>1. \A j \in Keys : j \in overlapped \/ wpc = "idle" \/ j # wkey => Object(j)' = Object(j)
  BY DEF Object, fileVars
<1>2. CASE wpc # "idle" /\ wkey \notin overlapped
  <2>1. PICK k \in Keys : k = wkey
    BY <1>2 DEF IInv, TypeOK
  <2>2. puts \in Nat /\ mtime[k] \in Nat
    BY DEF IInv, TypeOK
  <2>3. OS!IsWritten(Object(k))
    BY <1>2, <2>1, <2>2 DEF Object, OS!IsWritten
  <2>4. data[k] # None /\ acked[k] = None
    BY <1>2, <2>1 DEF IInv, PutAlone
  <2>5. Object(k)' = Torn
    BY <1>2, <2>1, <2>4 DEF Object, fileVars
  <2>6. \A j \in Keys \ {k} : Object(j)' = Object(j)
    BY <1>1, <2>1
  <2>7. OS!Next
    BY <2>3, <2>5, <2>6, OneRefines
  <2> QED
    BY <2>7
<1>3. CASE wpc = "idle" \/ wkey \in overlapped
  <2>1. \A j \in Keys : Object(j)' = Object(j)
    BY <1>1, <1>3
  <2>2. UNCHANGED OS!vars
    BY <2>1, KeptRefines
  <2> QED
    BY <2>2
<1> QED
  BY <1>2, <1>3

LEMMA PutRefines ==
    ASSUME IInv, Put
    PROVE  [OS!Next]_OS!vars
<1> USE DEF IInv
<1>1. ASSUME NEW k \in Keys, PutOpenData(k)
      PROVE  OS!Next
  <2>1. \A j \in Keys \ {k} : Object(j)' = Object(j)
    BY <1>1 DEF PutOpenData, Object, TypeOK
  <2>2. Object(k)' \in {OS!Written(puts', clock), Torn}
    BY <1>1 DEF PutOpenData, Object, TypeOK, OS!Written
  <2>3. [j \in Keys |-> Object(j)]' = [[j \in Keys |-> Object(j)] EXCEPT ![k] = Object(k)']
    BY <2>1
  <2>4. OS!Begin(k)
    BY <1>1, <2>2, <2>3 DEF PutOpenData, OS!Begin
  <2> QED
    BY <2>4 DEF OS!Next
<1>2. ASSUME PutWriteData \/ PutStamp \/ PutOpenMeta \/ PutWriteMeta
      PROVE  [OS!Next]_OS!vars
  <2>1. /\ UNCHANGED <<clock, puts, overlapped>> /\ wpc # "idle"
        /\ wkey \in Keys /\ puts \in Nat /\ mtime[wkey] \in Nat
    BY <1>2 DEF PutWriteData, PutStamp, PutOpenMeta, PutWriteMeta, history, TypeOK
  <2>2. \A j \in Keys : j \in overlapped \/ j # wkey => Object(j)' = Object(j)
    BY <1>2 DEF PutWriteData, PutStamp, PutOpenMeta, PutWriteMeta, history, fileVars, Object,
                TypeOK
  <2>3. CASE wkey \notin overlapped
    <3>1. PICK k \in Keys : k = wkey
      BY <2>1
    <3>2. Object(k) = OS!Written(puts, mtime[k])
      BY <2>1, <3>1, <2>3 DEF Object, OS!Written
    <3>3. OS!IsWritten(Object(k))
      BY <2>1, <3>1, <3>2 DEF OS!IsWritten, OS!Written
    <3>4. Object(k).put = puts /\ Object(k).since = mtime[k]
      BY <3>2 DEF OS!Written
    <3>5. \A j \in Keys \ {k} : Object(j)' = Object(j)
      BY <2>2, <3>1
    <3>6. CASE PutWriteData
      <4>1. Object(k)' = OS!Written(puts, clock)
        BY <2>1, <3>1, <2>3, <3>6 DEF PutWriteData, history, Object, OS!Written, TypeOK
      <4>2. OS!Next
        BY <2>1, <3>1, <3>3, <3>4, <3>5, <4>1, OneRefines
      <4> QED
        BY <4>2
    <3>7. CASE PutStamp \/ PutOpenMeta
      <4>1. Object(k)' = Object(k)
        BY <2>1, <3>1, <2>3, <3>7 DEF PutStamp, PutOpenMeta, history, fileVars, Object
      <4>2. \A j \in Keys : Object(j)' = Object(j)
        BY <3>5, <4>1
      <4>3. UNCHANGED OS!vars
        BY <2>1, <3>1, <4>2, KeptRefines
      <4> QED
        BY <4>3
    <3>8. CASE PutWriteMeta
      <4>1. /\ data[k] = puts /\ meta[k] # None /\ wat # None /\ puts # None
            /\ wat \in mtime[k]..clock
        BY <2>1, <3>1, <2>3, <3>8, StoreAssumption DEF PutWriteMeta, PutAlone, TypeOK
      <4>2. /\ wpc' = "idle" /\ k \notin overlapped' /\ data'[k] = puts
            /\ meta'[k] = wat /\ acked'[k] = wat /\ mtime'[k] = mtime[k]
        BY <2>1, <3>1, <2>3, <3>8, <4>1 DEF PutWriteMeta, TypeOK
      <4>3. Object(k)' = OS!Stored(puts, mtime[k], wat)
        BY <3>1, <4>1, <4>2 DEF Object, OS!Stored
      <4>4. Object(k)' \in {OS!Stored(Object(k).put, Object(k).since, t) :
                               t \in Object(k).since..clock}
        BY <3>4, <4>1, <4>3
      <4>5. OS!Next
        BY <2>1, <3>1, <3>3, <3>5, <4>4, OneRefines
      <4> QED
        BY <4>5
    <3> QED
      BY <1>2, <3>6, <3>7, <3>8
  <2>4. CASE wkey \in overlapped
    <3>1. \A j \in Keys : Object(j)' = Object(j)
      BY <2>2, <2>4
    <3>2. UNCHANGED OS!vars
      BY <2>1, <3>1, KeptRefines
    <3> QED
      BY <3>2
  <2> QED
    BY <2>3, <2>4
<1>3. CASE PutFails
  BY <1>3, CutShortRefines DEF PutFails, history
<1> QED
  BY <1>1, <1>2, <1>3 DEF Put

LEMMA RetentionRefines ==
    ASSUME IInv, ApplyRetention
    PROVE  [OS!Next]_OS!vars
<1> USE DEF IInv
<1>1. ASSUME NEW P \in Prefixes, NEW isDry \in BOOLEAN, BeginRetention(P, isDry)
      PROVE  [OS!Next]_OS!vars
  <2>1. /\ UNCHANGED <<clock, data, meta, mtime, wpc, wkey, puts, acked>>
        /\ overlapped' = IF wpc # "idle" THEN overlapped \cup {wkey} ELSE overlapped
    BY <1>1 DEF BeginRetention, fileVars, putVars
  <2>2. \A j \in Keys : j \in overlapped \/ wpc = "idle" \/ j # wkey => Object(j)' = Object(j)
    BY <2>1 DEF Object
  <2>3. CASE wpc # "idle" /\ wkey \notin overlapped
    <3>1. PICK k \in Keys : k = wkey
      BY <2>3 DEF TypeOK
    <3>2. puts \in Nat /\ mtime[k] \in Nat
      BY DEF TypeOK
    <3>3. OS!IsWritten(Object(k))
      BY <2>3, <3>1, <3>2 DEF Object, OS!IsWritten
    <3>4. Object(k)' = Torn
      BY <2>1, <2>3, <3>1 DEF Object
    <3>5. \A j \in Keys \ {k} : Object(j)' = Object(j)
      BY <2>2, <3>1
    <3>6. OS!Next
      BY <2>1, <3>3, <3>4, <3>5, OneRefines
    <3> QED
      BY <3>6
  <2>4. CASE wpc = "idle" \/ wkey \in overlapped
    <3>1. \A j \in Keys : Object(j)' = Object(j)
      BY <2>2, <2>4
    <3>2. UNCHANGED OS!vars
      BY <2>1, <3>1, KeptRefines
    <3> QED
      BY <3>2
  <2> QED
    BY <2>3, <2>4
<1>2. ASSUME NEW k \in Keys, DeleteData(k)
      PROVE  [OS!Next]_OS!vars
  <2>1. /\ spc = "delete" /\ k \in candidates
        /\ UNCHANGED <<clock, meta, mtime, wpc, wkey, puts, acked, overlapped>>
        /\ data'[k] = None /\ \A j \in Keys \ {k} : data'[j] = data[j]
    BY <1>2 DEF DeleteData, putVars, history, TypeOK
  <2>2. \A j \in Keys \ {k} : Object(j)' = Object(j)
    BY <2>1 DEF Object
  <2>3. CASE k \in overlapped \/ data[k] = None
    <3>1. Object(k)' = Object(k)
      BY <2>1, <2>3 DEF Object
    <3> QED
      BY <2>1, <2>2, <3>1, KeptRefines
  <2>4. CASE k \notin overlapped /\ data[k] # None
    <3>1. ~(wpc # "idle" /\ wkey = k)
      BY <2>1, <2>4 DEF PutAlone
    <3>2. Object(k)' = None
      BY <2>1, <2>4, <3>1 DEF Object
    <3>3. CASE acked[k] = None
      <4>1. Object(k) = Torn
        BY <2>4, <3>1, <3>3 DEF Object
      <4> QED
        BY <2>1, <2>2, <3>2, <4>1, OneRefines
    <3>4. CASE acked[k] # None
      <4>1. Settled(k)
        BY <2>4, <3>4 DEF Settled
      <4>2. data[k] \in Nat /\ meta[k] = acked[k] /\ acked[k] \in Nat
        BY <2>4, <4>1 DEF Whole, Settled, TypeOK, Times
      <4>3. mtime[k] < cutoff /\ mtime[k] \in Nat
        BY <2>1, <4>1 DEF Deleting, TypeOK
      <4>4. mtime[k] < clock - MaxAge
        <5>1. cutoff \in Int /\ clock \in Int /\ MaxAge \in Int /\ cutoff <= clock - MaxAge
          BY StoreAssumption DEF CutoffBound, TypeOK
        <5> QED
          BY <4>3, <5>1
      <4>5. Object(k) = [state |-> "stored", put |-> data[k], since |-> mtime[k], at |-> meta[k]]
        BY <2>4, <3>1, <3>4 DEF Object
      <4>6. OS!IsStored(Object(k)) /\ Object(k).since < clock - MaxAge
        BY <4>2, <4>3, <4>4, <4>5 DEF OS!IsStored
      <4> QED
        BY <2>1, <2>2, <3>2, <4>6, OneRefines
    <3> QED
      BY <3>3, <3>4
  <2> QED
    BY <2>3, <2>4
<1>3. CASE DeleteMeta
  <2>1. PICK k \in Keys : k = target
    BY <1>3 DEF DeleteMeta, TypeOK
  <2>2. /\ UNCHANGED <<clock, data, mtime, wpc, wkey, puts, acked, overlapped>>
        /\ spc = "deleteMeta" /\ \A j \in Keys \ {k} : meta'[j] = meta[j]
    BY <1>3, <2>1 DEF DeleteMeta, putVars, history, TypeOK
  <2>3. k \notin overlapped /\ acked[k] # None => data[k] = None
    BY <2>1, <2>2 DEF Deleting, Settled
  <2>4. Object(k)' = Object(k) /\ \A j \in Keys \ {k} : Object(j)' = Object(j)
    BY <2>2, <2>3 DEF Object
  <2>5. \A j \in Keys : Object(j)' = Object(j)
    BY <2>4
  <2>6. UNCHANGED OS!vars
    BY <2>2, <2>5, KeptRefines
  <2> QED
    BY <2>6
<1>4. ASSUME (\E k \in Keys : ListOne(k)) \/ Select \/ RetentionDone \/ RetentionFails
      PROVE  [OS!Next]_OS!vars
  <2>1. UNCHANGED <<clock, data, meta, mtime, wpc, wkey, puts, acked, overlapped>>
    BY <1>4 DEF ListOne, Select, RetentionDone, RetentionFails, fileVars, putVars, history
  <2>2. \A j \in Keys : Object(j)' = Object(j)
    BY <2>1 DEF Object
  <2> QED
    BY <2>1, <2>2, KeptRefines
<1> QED
  BY <1>1, <1>2, <1>3, <1>4 DEF ApplyRetention

\* The files implement a store whose objects come and go at once, for every set of
\* keys, whatever fails and however often the process crashes.
THEOREM Refinement == Spec => ImplementsObjectStore
<1>1. Init => OS!Init
  <2> SUFFICES ASSUME Init
               PROVE  OS!Init
    OBVIOUS
  <2>1. \A k \in Keys : Object(k) = None
    BY DEF Init, Object
  <2> QED
    BY <2>1 DEF Init, OS!Init
<1>2. IInv /\ [Next]_vars => [OS!Next]_OS!vars
  <2> SUFFICES ASSUME IInv, [Next]_vars
               PROVE  [OS!Next]_OS!vars
    OBVIOUS
  <2>1. CASE Tick \/ UNCHANGED vars
    <3>1. UNCHANGED <<data, meta, mtime, wpc, wkey, puts, acked, overlapped>>
      BY <2>1 DEF Tick, vars, fileVars, putVars, history
    <3>2. \A j \in Keys : Object(j)' = Object(j)
      BY <3>1 DEF Object
    <3>3. CASE clock' = clock
      BY <3>1, <3>2, <3>3, KeptRefines
    <3>4. CASE clock' = clock + 1
      BY <3>1, <3>2, <3>4 DEF OS!Next, OS!Tick
    <3> QED
      BY <2>1, <3>3, <3>4 DEF Tick, vars
  <2>2. CASE Crash
    BY <2>2, CutShortRefines DEF Crash
  <2> QED
    BY <2>1, <2>2, PutRefines, RetentionRefines DEF Next
<1> QED
  BY <1>1, <1>2, InductiveInvariant, PTL DEF Spec, OS!Spec, ImplementsObjectStore
=============================================================================
