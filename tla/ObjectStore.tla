---------------------------- MODULE ObjectStore ----------------------------
(***************************************************************************)
(* What a store of objects promises to the archive, behind the interface of *)
(* internal/telemetry/storage/store.go: a Put that returns nil has stored   *)
(* what it was given under a time of its own, and the object stays as it is *)
(* until the next Put of its key or until its data is older than the        *)
(* retention; then it goes as a whole and does not come back.               *)
(*                                                                         *)
(* Nothing is promised of a Put that was cut short or met a sweep: what it  *)
(* left may be anything, until it is gone or the key is put anew.           *)
(*                                                                         *)
(* LocalStore implements this specification.                                *)
(***************************************************************************)
EXTENDS Integers

CONSTANTS Keys,    \* the keys of the objects
          MaxAge,  \* the retention
          None,    \* there is no object
          Unsure   \* there may be one

VARIABLES clock,   \* the time
          puts,    \* how many Puts have begun; the number of the last one
          object   \* the object of each key

vars == <<clock, puts, object>>

\* The object of a Put that is under way, with the number of the Put and the time of its
\* data, and of one that returned nil, with the time it is known under.
Written(n, since) == [state |-> "written", put |-> n, since |-> since]
Stored(n, since, at) == [state |-> "stored", put |-> n, since |-> since, at |-> at]

IsWritten(o) == o \in [state : {"written"}, put : Nat, since : Nat]
IsStored(o) == o \in [state : {"stored"}, put : Nat, since : Nat, at : Nat]

Init ==
    /\ clock = 0 /\ puts = 0
    /\ object = [k \in Keys |-> None]

Tick ==
    /\ clock' = clock + 1
    /\ UNCHANGED <<puts, object>>

Begin(k) ==
    /\ puts' = puts + 1
    /\ \E o \in {Written(puts', clock), Unsure} : object' = [object EXCEPT ![k] = o]
    /\ UNCHANGED clock

Becomes(k, o) ==
    /\ object' = [object EXCEPT ![k] = o]
    /\ UNCHANGED <<clock, puts>>

\* The data is written,
Write(k) == IsWritten(object[k]) /\ Becomes(k, Written(object[k].put, clock))

\* and Put returns; the time of the object is one between the two.
Acknowledge(k) ==
    /\ IsWritten(object[k])
    /\ \E at \in object[k].since..clock :
           Becomes(k, Stored(object[k].put, object[k].since, at))

\* The Put is cut short, or a sweep begins beside it.
Doubt(k) == IsWritten(object[k]) /\ Becomes(k, Unsure)

Expire(k) == IsStored(object[k]) /\ object[k].since < clock - MaxAge /\ Becomes(k, None)

Discard(k) == object[k] = Unsure /\ Becomes(k, None)

Next ==
    \/ Tick
    \/ \E k \in Keys :
        Begin(k) \/ Write(k) \/ Acknowledge(k) \/ Doubt(k) \/ Expire(k) \/ Discard(k)

Spec == Init /\ [][Next]_vars
=============================================================================
