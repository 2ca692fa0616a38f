------------------------------ MODULE Storage ------------------------------
(***************************************************************************)
(* InMemoryStorage of core/src/storage/in_memory_storage.cpp: the event     *)
(* log, a blob per predictor, and a key-value table.  Each call holds its   *)
(* lock.                                                                   *)
(***************************************************************************)
EXTENDS Integers, Sequences

VARIABLES events, blobs, kv     \* events_, predictor_blobs_, kv_

storageVars == <<events, blobs, kv>>
Empty == [x \in {} |-> x]
Set(f, x, v) == [y \in DOMAIN f \cup {x} |-> IF y = x THEN v ELSE f[y]]

Init == events = << >> /\ blobs = Empty /\ kv = Empty

AppendEvent(ev) ==
  /\ events' = Append(events, ev)
  /\ UNCHANGED <<blobs, kv>>

(* Mutant: the oldest events are loaded. *)
LoadOldest(limit) ==
  SubSeq(events, 1, IF limit <= Len(events) THEN limit ELSE Len(events))

LoadEvents(limit) ==
  LET n == IF limit <= Len(events) THEN limit ELSE Len(events)
  IN  SubSeq(events, Len(events) - n + 1, Len(events))

SavePredictorState(name, blob) ==
  /\ blobs' = Set(blobs, name, blob)
  /\ UNCHANGED <<events, kv>>

(* load_predictor_state() and load_kv() of a name that is not there is      *)
(* ErrorCode::NotFound.                                                    *)
HasPredictorState(name) == name \in DOMAIN blobs

SaveKV(key, value) ==
  /\ kv' = Set(kv, key, value)
  /\ UNCHANGED <<events, blobs>>

Reset == events' = << >> /\ blobs' = Empty /\ kv' = Empty
=============================================================================
