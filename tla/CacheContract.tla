--------------------------- MODULE CacheContract ---------------------------
(***************************************************************************)
(* What AdaptiveCache (adaptive_cache.hpp) promises its callers, whatever  *)
(* the policy: a lossy map.  A value read is the value last put under that *)
(* key; only put() of a new key and resize() may lose other entries, the   *)
(* first at most one of them, the second no more than it must; hints and   *)
(* reads lose nothing.  A put entry is kept, unless the cache has no room  *)
(* at all (capacity 0).                                                    *)
(***************************************************************************)
EXTENDS Naturals, FiniteSets

CONSTANTS Keys, Values, Capacities

VARIABLES contents,     \* the stored value of each key that is present
          capacity

cvars == <<contents, capacity>>

Present == DOMAIN contents
Only(f, kept) == [x \in kept |-> f[x]]

Init ==
  /\ contents = [x \in {} |-> x]
  /\ capacity \in Capacities

Overwrite(k, v) ==
  /\ k \in Present
  /\ contents' = [contents EXCEPT ![k] = v]
  /\ UNCHANGED capacity

(* insert k, giving up at most one other entry *)
Insert(k, v) ==
  /\ k \notin Present
  /\ \E lost \in SUBSET Present :
        /\ Cardinality(lost) <= 1
        /\ contents' = [x \in (Present \ lost) \cup {k} |->
                           IF x = k THEN v ELSE contents[x]]
  /\ UNCHANGED capacity

(* capacity 0: the new entry may be the one that is given up *)
Refuse(k) ==
  /\ capacity = 0
  /\ k \notin Present
  /\ UNCHANGED cvars

Put(k, v) == Overwrite(k, v) \/ Insert(k, v) \/ Refuse(k)

(* get() and hints: what they reorder inside is not seen. *)
Read == UNCHANGED cvars

Erase(k) ==
  /\ contents' = Only(contents, Present \ {k})
  /\ UNCHANGED capacity

Resize(c) ==
  /\ capacity' = c
  /\ \E kept \in SUBSET Present :
        /\ \/ kept = Present /\ Cardinality(kept) <= c
           \/ Cardinality(kept) = c
        /\ contents' = Only(contents, kept)

Clear ==
  /\ contents' = [x \in {} |-> x]
  /\ UNCHANGED capacity

Next ==
  \/ \E k \in Keys :
        \/ Erase(k)
        \/ \E v \in Values : Put(k, v)
  \/ \E c \in Capacities : Resize(c)
  \/ Clear

Spec == Init /\ [][Next]_cvars
=============================================================================
