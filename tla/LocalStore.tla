----------------------------- MODULE LocalStore -----------------------------
(***************************************************************************)
(* The telemetry archive: the sink of internal/telemetry/archive/sink.go    *)
(* puts every new signal into the LocalStore of                             *)
(* internal/telemetry/storage/local.go, two files for each object.  Nothing *)
(* locks the files, and the process may crash between any two steps.        *)
(*                                                                         *)
(* The program itself only puts.  The store's other operations,             *)
(* ApplyRetention and the Delete it calls, have no caller in it yet; here a *)
(* caller of its own calls ApplyRetention, one sweep after the other, at    *)
(* any time.                                                                *)
(***************************************************************************)
EXTENDS Integers

CONSTANTS Keys,        \* the keys of the objects
          Prefixes,    \* the sets of keys that a RetentionPolicy.Prefix selects
          MaxAge,      \* RetentionPolicy.MaxAge; without one ApplyRetention returns at once
          None,        \* no file; also the zero time.Time
          Torn,        \* a file that was opened with O_TRUNC and not written
          MaxTime,     \* bound: the clock stops there
          MaxPuts,     \* bound: how many Puts begin
          MaxCrashes   \* bound: how often the process crashes

ASSUME StoreAssumption ==
    /\ Prefixes \subseteq SUBSET Keys
    /\ MaxAge \in Nat \ {0}
    /\ None \notin Int /\ Torn \notin Int /\ None # Torn
    /\ MaxTime \in Nat /\ MaxPuts \in Nat /\ MaxCrashes \in Nat

VARIABLES
    clock,             \* what now() returns
    data, meta,        \* the files: which Put wrote the data; created_at
    mtime,             \* the modification time of the data file
    wpc, wkey, wat,    \* the sink: where its Put is, the key, CreatedAt once it is read
    puts,              \* how many Puts have begun; the number of the last one
    spc,               \* ApplyRetention: where it is
    prefix, dry,       \* its policy
    unread,            \* the keys whose place List has not come to
    infos,             \* ObjectInfo.CreatedAt of those it has
    candidates,        \* the objects that are still to be deleted
    target,            \* the key of the Delete that is under way
    cutoff,            \* history: the cutoff of the last ApplyRetention, dry runs left out
    crashes,           \* how often the process has crashed
    acked,             \* history: CreatedAt of the last Put of a key, once it returned nil
    overlapped,        \* history: keys whose last Put overlapped an ApplyRetention
    broken             \* history: keys whose Delete was cut between its two removals

fileVars == <<data, meta, mtime>>
putVars == <<wpc, wkey, wat, puts>>
sweepVars == <<spc, prefix, dry, unread, infos, candidates, target, cutoff>>
history == <<acked, overlapped, broken>>
vars == <<clock, fileVars, putVars, sweepVars, crashes, history>>

Init ==
    /\ clock = 0
    /\ data = [k \in Keys |-> None] /\ meta = [k \in Keys |-> None]
    /\ mtime = [k \in Keys |-> 0]
    /\ wpc = "idle" /\ wkey = None /\ wat = 0 /\ puts = 0
    /\ spc = "idle" /\ prefix = {} /\ dry = FALSE
    /\ unread = {} /\ infos = [k \in Keys |-> None]
    /\ candidates = {} /\ target = None /\ cutoff = -MaxAge
    /\ crashes = 0
    /\ acked = [k \in Keys |-> None]
    /\ overlapped = {} /\ broken = {}

Tick ==
    /\ clock < MaxTime
    /\ clock' = clock + 1
    /\ UNCHANGED <<fileVars, putVars, sweepVars, crashes, history>>

-----------------------------------------------------------------------------
(* Put, as the sink calls it for one signal after the other.  The key of a  *)
(* signal is that of its earlier copy.                                      *)

\* os.WriteFile opens the data file with O_TRUNC.
PutOpenData(k) ==
    /\ wpc = "idle" /\ puts < MaxPuts
    /\ wpc' = "data" /\ wkey' = k /\ puts' = puts + 1
    /\ data' = [data EXCEPT ![k] = Torn]
    /\ mtime' = [mtime EXCEPT ![k] = clock]
    /\ acked' = [acked EXCEPT ![k] = None]
    /\ overlapped' = IF spc # "idle" THEN overlapped \cup {k} ELSE overlapped \ {k}
    /\ broken' = broken \ {k}
    /\ UNCHANGED <<clock, meta, wat, sweepVars, crashes>>

\* What was opened is written, also when a sweep has removed the file by now.
PutWriteData ==
    /\ wpc = "data"
    /\ wpc' = "written"
    /\ data' = [data EXCEPT ![wkey] = IF data[wkey] = None THEN None ELSE puts]
    /\ mtime' = [mtime EXCEPT ![wkey] = clock]
    /\ UNCHANGED <<clock, meta, wkey, wat, puts, sweepVars, crashes, history>>

\* CreatedAt is read from the clock.
PutStamp ==
    /\ wpc = "written"
    /\ wpc' = "stamped"
    /\ wat' = clock
    /\ UNCHANGED <<clock, fileVars, wkey, puts, sweepVars, crashes, history>>

PutOpenMeta ==
    /\ wpc = "stamped"
    /\ wpc' = "meta"
    /\ meta' = [meta EXCEPT ![wkey] = Torn]
    /\ UNCHANGED <<clock, data, mtime, wkey, wat, puts, sweepVars, crashes, history>>

\* Mutant of PutWriteMeta: the error of the second write is not looked at.
PutWriteMetaUnchecked ==
    /\ wpc = "meta"
    /\ wpc' = "idle" /\ wkey' = None /\ wat' = 0
    /\ meta' \in {meta, [meta EXCEPT ![wkey] = IF meta[wkey] = None THEN None ELSE wat]}
    /\ acked' = [acked EXCEPT ![wkey] = wat]
    /\ UNCHANGED <<clock, data, mtime, puts, sweepVars, crashes, overlapped, broken>>

\* Put returns nil.
PutWriteMeta ==
    /\ wpc = "meta"
    /\ wpc' = "idle" /\ wkey' = None /\ wat' = 0
    /\ meta' = [meta EXCEPT ![wkey] = IF meta[wkey] = None THEN None ELSE wat]
    /\ acked' = [acked EXCEPT ![wkey] = wat]
    /\ UNCHANGED <<clock, data, mtime, puts, sweepVars, crashes, overlapped, broken>>

\* A file cannot be written; the sink logs the error and takes the next signal.
PutFails ==
    /\ wpc # "idle"
    /\ wpc' = "idle" /\ wkey' = None /\ wat' = 0
    /\ UNCHANGED <<clock, fileVars, puts, sweepVars, crashes, history>>

-----------------------------------------------------------------------------
(* ApplyRetention.                                                          *)

\* What readMetadata may return of a data file: the modification time whenever the
\* metadata cannot be read, zero when it cannot be parsed.
CreatedAt(k) ==
    {mtime[k]} \cup (IF meta[k] = None THEN {} ELSE {IF meta[k] = Torn THEN None ELSE meta[k]})

\* List begins its walk.
BeginRetention(P, isDry) ==
    /\ spc = "idle"
    /\ spc' = "list" /\ prefix' = P /\ dry' = isDry
    /\ unread' = P
    /\ overlapped' = IF wpc # "idle" THEN overlapped \cup {wkey} ELSE overlapped
    /\ UNCHANGED <<clock, fileVars, putVars, infos, candidates, target, cutoff, crashes, acked,
                   broken>>

\* The walk comes to the place of k; a file of metadata alone is not an object.  What is
\* put before the walk is there may be listed, what is put after it is not.
ListOne(k) ==
    /\ spc = "list" /\ k \in unread
    /\ unread' = unread \ {k}
    /\ \E t \in (IF data[k] = None THEN {None} ELSE CreatedAt(k)) :
           infos' = [infos EXCEPT ![k] = t]
    /\ UNCHANGED <<clock, fileVars, putVars, spc, prefix, dry, candidates, target, cutoff,
                   crashes, history>>

\* An object whose time is not known is kept.
Expired(t, limit) == t # None /\ t < limit

\* The cutoff is taken after the walk; a dry run ends with the report.
Select ==
    /\ spc = "list" /\ unread = {}
    /\ infos' = [k \in Keys |-> None]
    /\ \/ /\ dry
          /\ spc' = "idle" /\ prefix' = {} /\ dry' = FALSE
          /\ UNCHANGED <<candidates, cutoff>>
       \/ /\ ~dry
          /\ spc' = "delete"
          /\ cutoff' = clock - MaxAge
          /\ candidates' = {k \in Keys : Expired(infos[k], cutoff')}
          /\ UNCHANGED <<prefix, dry>>
    /\ UNCHANGED <<clock, fileVars, putVars, unread, target, crashes, history>>

\* Mutant of DeleteData: the candidate is crossed off at once.
DeleteDataCrossOff(k) ==
    /\ spc = "delete" /\ k \in candidates
    /\ spc' = "deleteMeta" /\ target' = k
    /\ candidates' = candidates \ {k}
    /\ data' = [data EXCEPT ![k] = None]
    /\ UNCHANGED <<clock, meta, mtime, putVars, prefix, dry, unread, infos, cutoff, crashes,
                   history>>

DeleteData(k) ==
    /\ spc = "delete" /\ k \in candidates
    /\ spc' = "deleteMeta" /\ target' = k
    /\ data' = [data EXCEPT ![k] = None]
    /\ UNCHANGED <<clock, meta, mtime, putVars, prefix, dry, unread, infos, candidates, cutoff,
                   crashes, history>>

\* Mutants of DeleteMeta: the metadata stays; the first candidate is the last.
DeleteMetaSkipped ==
    /\ spc = "deleteMeta"
    /\ spc' = "delete" /\ target' = None
    /\ candidates' = candidates \ {target}
    /\ UNCHANGED <<clock, fileVars, putVars, prefix, dry, unread, infos, cutoff, crashes, history>>

DeleteMetaAndStop ==
    /\ spc = "deleteMeta"
    /\ spc' = "delete" /\ target' = None
    /\ candidates' = {}
    /\ meta' = [meta EXCEPT ![target] = None]
    /\ UNCHANGED <<clock, data, mtime, putVars, prefix, dry, unread, infos, cutoff, crashes,
                   history>>

DeleteMeta ==
    /\ spc = "deleteMeta"
    /\ spc' = "delete" /\ target' = None
    /\ candidates' = candidates \ {target}
    /\ meta' = [meta EXCEPT ![target] = None]
    /\ UNCHANGED <<clock, data, mtime, putVars, prefix, dry, unread, infos, cutoff, crashes,
                   history>>

EndSweep ==
    /\ spc' = "idle" /\ prefix' = {} /\ dry' = FALSE
    /\ unread' = {} /\ infos' = [k \in Keys |-> None]
    /\ candidates' = {} /\ target' = None
    /\ UNCHANGED cutoff

\* The candidates are returned.
RetentionDone ==
    /\ spc = "delete" /\ candidates = {}
    /\ EndSweep
    /\ UNCHANGED <<clock, fileVars, putVars, crashes, history>>

\* The walk or a removal fails, and what is left of the candidates stays.
RetentionFails ==
    /\ spc # "idle"
    /\ EndSweep
    /\ broken' = IF spc = "deleteMeta" THEN broken \cup {target} ELSE broken
    /\ UNCHANGED <<clock, fileVars, putVars, crashes, acked, overlapped>>

-----------------------------------------------------------------------------
(* The process crashes and is started again: the files are as they were.    *)

Crash ==
    /\ crashes < MaxCrashes
    /\ crashes' = crashes + 1
    /\ wpc' = "idle" /\ wkey' = None /\ wat' = 0
    /\ EndSweep
    /\ broken' = IF spc = "deleteMeta" THEN broken \cup {target} ELSE broken
    /\ UNCHANGED <<clock, fileVars, puts, acked, overlapped>>

Put ==
    \/ \E k \in Keys : PutOpenData(k)
    \/ PutWriteData
    \/ PutStamp
    \/ PutOpenMeta
    \/ PutWriteMeta
    \/ PutFails

ApplyRetention ==
    \/ \E P \in Prefixes, isDry \in BOOLEAN : BeginRetention(P, isDry)
    \/ \E k \in Keys : ListOne(k)
    \/ Select
    \/ \E k \in Keys : DeleteData(k)
    \/ DeleteMeta
    \/ RetentionDone
    \/ RetentionFails

Next == Tick \/ Put \/ ApplyRetention \/ Crash

Spec == Init /\ [][Next]_vars

-----------------------------------------------------------------------------
(* Properties.                                                              *)

Times == Nat \cup {None}

\* Every variable has its type; a Delete under way is that of a candidate, and a
\* sweep concerns itself with its prefix only.
TypeOK ==
    /\ clock \in Nat /\ puts \in Nat /\ crashes \in Nat
    /\ data \in [Keys -> Nat \cup {None, Torn}]
    /\ meta \in [Keys -> Nat \cup {None, Torn}]
    /\ mtime \in [Keys -> Nat]
    /\ wpc \in {"idle", "data", "written", "stamped", "meta"} /\ wat \in Nat
    /\ wpc # "idle" => wkey \in Keys
    /\ spc \in {"idle", "list", "delete", "deleteMeta"}
    /\ prefix \subseteq Keys /\ dry \in BOOLEAN
    /\ unread \subseteq prefix /\ candidates \subseteq prefix
    /\ infos \in [Keys -> Times] /\ \A k \in Keys : infos[k] # None => k \in prefix
    /\ spc = "idle" => prefix = {}
    /\ spc \in {"idle", "list"} => candidates = {}
    /\ spc = "deleteMeta" => target \in candidates
    /\ cutoff \in Int
    /\ acked \in [Keys -> Times]
    /\ overlapped \subseteq Keys /\ broken \subseteq Keys

\* A sweep that deletes comes to the end only when every object of its prefix that
\* was acknowledged before it and is older than the cutoff is gone, whatever earlier
\* sweeps left behind.
SweepComplete ==
    spc = "delete" /\ candidates = {} =>
        \A k \in prefix \ overlapped :
            acked[k] # None /\ acked[k] < cutoff => data[k] = None

\* Metadata without an object, which no List shows and no sweep ever deletes, is left by
\* no Put, wherever it fails or the process crashes in it, and by no sweep that ends;
\* only by a Delete that is cut between its two removals, and by a sweep beside a Put.
NoOrphans ==
    wpc = "idle" /\ spc = "idle" =>
        \A k \in Keys \ (overlapped \cup broken) : data[k] = None => meta[k] = None

\* What the files say of the object of k.  It goes with its data file; nothing is sure
\* where a sweep overlapped the last Put, or that Put was cut short.
Object(k) ==
    IF k \in overlapped THEN Torn
    ELSE IF wpc # "idle" /\ wkey = k
         THEN [state |-> "written", put |-> puts, since |-> mtime[k]]
    ELSE IF data[k] = None THEN None
    ELSE IF acked[k] = None THEN Torn
    ELSE [state |-> "stored", put |-> data[k], since |-> mtime[k], at |-> meta[k]]

\* The files are a store of objects: one whose Put returned nil and met no sweep holds
\* what was put, under a time of that Put, until its data is too old, and then it goes at
\* once and for good, although each of these takes several steps and the process may crash
\* in between.  So no such object is lost before its time, through failed Puts of other
\* keys, failed sweeps and crashes.
OS == INSTANCE ObjectStore WITH
        Unsure <- Torn, object <- [k \in Keys |-> Object(k)]
ImplementsObjectStore == OS!Spec
=============================================================================
