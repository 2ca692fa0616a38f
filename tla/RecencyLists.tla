---------------------------- MODULE RecencyLists ----------------------------
(***************************************************************************)
(* The recency list that the list-based policies of caches.cpp keep: a     *)
(* std::list of entries, most recently used first, with an unordered_map   *)
(* from a key to its node.  The list is modelled by the sequence of its    *)
(* keys and the map by the position of a key in it, so a key -> node map   *)
(* is well defined exactly as long as no key occurs twice (NoRepeats).     *)
(***************************************************************************)
EXTENDS Integers, Sequences, FiniteSets, SequencesExt

(* map_.find(k) != map_.end() *)
Holds(list, k) == Contains(list, k)

(* list_.erase(map_[k]); map_.erase(k): a no-op when k is not there.       *)
Unlink(list, k) == RemoveFirst(list, k)

(* list_.push_front(k); map_[k] = list_.begin()                            *)
PushFront(list, k) == Cons(k, list)

(* list_.splice(list_.begin(), list_, map_[k])                             *)
Touch(list, k) == PushFront(Unlink(list, k), k)

(* list_.pop_back() and the erase of its key from the map                  *)
DropTail(list) == Front(list)

(* No key has two nodes. *)
NoRepeats(list) == \A i, j \in 1..Len(list) : list[i] = list[j] => i = j

(* j is more recent than k. *)
Before(list, j, k) ==
  \E p, q \in 1..Len(list) : p < q /\ list[p] = j /\ list[q] = k
=============================================================================
