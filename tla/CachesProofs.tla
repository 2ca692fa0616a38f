---------------------------- MODULE CachesProofs ---------------------------
(***************************************************************************)
(* Proofs about the caches make_cache() builds for "lfu" and for "lru", for *)
(* any keys, values and capacities.                                        *)
(*                                                                         *)
(* LFUCache: each call does one of three things to the entries: it touches  *)
(* one, keeps some, or keeps some and inserts one.  All three keep the      *)
(* stamps apart, and so leave evict_victim() no choice.                    *)
(*                                                                         *)
(* Two LRU caches under the same calls: every call touches a key of both    *)
(* lists, unlinks one, or cuts off tails, and each of these keeps the order *)
(* of the smaller list a part of the order of the larger one.  The facts     *)
(* about one LRU cache are those of LRUCacheProofs, of each of the two.     *)
(***************************************************************************)
EXTENDS Caches, CollectionProofs

Entries ==
  /\ store \in [DOMAIN store -> Items]
  /\ DOMAIN store \subseteq Keys
  /\ \A k \in DOMAIN store : store[k].ts \in 1..tick
  /\ tick \in 0..MaxTick
  /\ IsFiniteSet(DOMAIN store)

(* No two entries carry the same stamp. *)
Apart == \A j, k \in DOMAIN store : store[j].ts = store[k].ts => j = k

StatRecords ==
  [hits : 0..(StatMod-1), misses : 0..(StatMod-1), evictions : 0..(StatMod-1)]

IInv ==
  /\ Entries /\ Apart /\ WithinCapacity
  /\ capacity \in Capacities /\ stats \in StatRecords

-----------------------------------------------------------------------------
LEMMA CountedType ==
  ASSUME LFUAssumption, stats \in StatRecords, NEW n \in Nat,
         NEW field \in {"hits", "misses", "evictions"}
  PROVE  Counted(field, n) \in StatRecords
<1>1. \A x \in Nat : x % StatMod \in 0..(StatMod-1)
  BY DEF LFUAssumption
<1>2. stats[field] + n \in Nat
  BY DEF StatRecords, LFUAssumption
<1>3. (stats[field] + n) % StatMod \in 0..(StatMod-1)
  BY <1>1, <1>2
<1> QED
  BY <1>3 DEF Counted, StatRecords

LEMMA UsedItem ==
  ASSUME NEW item \in Items, tick \in Nat
  PROVE  /\ Used(item) \in Items
         /\ Used(item).ts = tick + 1 /\ Used(item).value = item.value
<1>1. item.freq + 1 \in Nat \ {0} /\ tick + 1 \in Nat /\ item.value \in Values
  BY DEF Items
<1> QED
  BY <1>1 DEF Used, Items

(* get() and put() of a key that is present. *)
LEMMA TouchKeeps ==
  ASSUME Entries, Apart, NEW k \in DOMAIN store, NEW item \in Items,
         item.ts = tick + 1, tick' = tick + 1, tick < MaxTick, MaxTick \in Nat,
         store' = [store EXCEPT ![k] = item]
  PROVE  Entries' /\ Apart' /\ DOMAIN store' = DOMAIN store
<1>1. DOMAIN store' = DOMAIN store
  OBVIOUS
<1>2. \A j \in DOMAIN store : store'[j] = IF j = k THEN item ELSE store[j]
  OBVIOUS
<1>3. store' \in [DOMAIN store -> Items]
  BY DEF Entries
<1>4. \A j \in DOMAIN store : store'[j].ts \in 1..tick'
  BY <1>2 DEF Entries
<1>5. Entries'
  BY <1>1, <1>3, <1>4 DEF Entries
<1>6. \A j \in DOMAIN store : store[j].ts < tick + 1
  BY DEF Entries
<1>7. Apart'
  BY <1>1, <1>2, <1>6 DEF Apart, Entries
<1> QED
  BY <1>1, <1>5, <1>7

(* erase() and resize(). *)
LEMMA OnlyKeeps ==
  ASSUME Entries, Apart, NEW kept \in SUBSET DOMAIN store,
         store' = Only(kept), tick' = tick
  PROVE  Entries' /\ Apart' /\ DOMAIN store' = kept
<1>1. DOMAIN store' = kept /\ \A j \in kept : store'[j] = store[j]
  BY DEF Only
<1>2. IsFiniteSet(kept)
  BY FS_Subset DEF Entries
<1>3. store' \in [kept -> Items]
  BY DEF Only, Entries
<1>4. \A j \in kept : store'[j].ts \in 1..tick'
  BY <1>1 DEF Entries
<1>5. Entries'
  BY <1>1, <1>2, <1>3, <1>4 DEF Entries
<1>6. Apart'
  BY <1>1 DEF Apart
<1> QED
  BY <1>1, <1>5, <1>6

(* put() of a new key. *)
LEMMA InsertKeeps ==
  ASSUME Entries, Apart, NEW kept \in SUBSET DOMAIN store,
         NEW k \in Keys \ DOMAIN store, NEW item \in Items, item.ts = tick + 1,
         tick' = tick + 1, tick < MaxTick, MaxTick \in Nat,
         store' = [x \in kept \cup {k} |-> IF x = k THEN item ELSE store[x]]
  PROVE  Entries' /\ Apart' /\ DOMAIN store' = kept \cup {k}
<1>1. /\ DOMAIN store' = kept \cup {k}
      /\ \A j \in kept \cup {k} : store'[j] = IF j = k THEN item ELSE store[j]
  OBVIOUS
<1>2. IsFiniteSet(kept \cup {k})
  <2>1. IsFiniteSet(kept)
    BY FS_Subset DEF Entries
  <2> QED
    BY <2>1, FS_AddElement
<1>3. \A j \in kept : store[j] \in Items /\ store[j].ts \in 1..tick
  BY DEF Entries
<1>4. store' \in [kept \cup {k} -> Items]
  BY <1>3
<1>5. \A j \in kept \cup {k} : store'[j].ts \in 1..tick'
  BY <1>1, <1>3 DEF Entries
<1>6. Entries'
  BY <1>1, <1>2, <1>4, <1>5 DEF Entries
<1>7. Apart'
  BY <1>1, <1>3 DEF Apart, Entries
<1> QED
  BY <1>1, <1>6, <1>7

(* A set of survivors, and that there are no two. *)
LEMMA SurvivorsSize ==
  ASSUME Entries, NEW n, NEW kept \in Survivors(n)
  PROVE  /\ kept \in SUBSET DOMAIN store /\ IsFiniteSet(kept)
         /\ Cardinality(kept) = Cardinality(DOMAIN store) - n
         /\ Cardinality(kept) \in Nat /\ Cardinality(DOMAIN store) \in Nat
<1>1. kept \in SUBSET DOMAIN store /\ Cardinality(kept) = Cardinality(DOMAIN store) - n
  BY DEF Survivors
<1>2. IsFiniteSet(kept)
  BY <1>1, FS_Subset DEF Entries
<1> QED
  BY <1>1, <1>2, FS_CardinalityType DEF Entries

LEMMA SurvivorsUnique ==
  ASSUME Entries, Apart, NEW n, NEW kept \in Survivors(n), NEW other \in Survivors(n)
  PROVE  kept = other
<1>1. \A A, B : A \in Survivors(n) /\ B \in Survivors(n) => A \subseteq B
  <2> SUFFICES ASSUME NEW A \in Survivors(n), NEW B \in Survivors(n),
                      NEW a \in A, a \notin B
               PROVE  FALSE
    OBVIOUS
  <2>1. /\ A \in SUBSET DOMAIN store /\ IsFiniteSet(A)
        /\ B \in SUBSET DOMAIN store /\ IsFiniteSet(B)
        /\ Cardinality(A) = Cardinality(B)
    BY SurvivorsSize
  <2>2. PICK b \in B : b \notin A
    <3>1. CASE B \subseteq A
      <4>1. A = B
        BY <2>1, <3>1, FS_Subset
      <4> QED
        BY <4>1
    <3> QED
      BY <3>1
  <2>3. ~Colder(a, b) /\ ~Colder(b, a)
    BY <2>1, <2>2 DEF Survivors
  <2>4. /\ store[a].freq \in Nat /\ store[b].freq \in Nat
        /\ store[a].ts \in Nat /\ store[b].ts \in Nat
    BY <2>1, <2>2 DEF Entries, Items
  <2>5. store[a].freq = store[b].freq
    BY <2>3, <2>4 DEF Colder
  <2>6. store[a].ts = store[b].ts
    BY <2>3, <2>4, <2>5 DEF Colder
  <2> QED
    BY <2>1, <2>2, <2>6 DEF Apart
<1> QED
  BY <1>1


(* The scan of evict_victim() finds a victim among any entries.             *)
LEMMA ColdestExists ==
  ASSUME Entries, NEW kept \in SUBSET DOMAIN store, kept # {}
  PROVE  \E c \in kept : \A k \in kept : ~Colder(k, c)
<1> DEFINE F == {T \in SUBSET kept : T # {} => \E c \in T : \A k \in T : ~Colder(k, c)}
<1>1. {} \in F
  OBVIOUS
<1>2. ASSUME NEW T \in SUBSET kept, NEW x \in kept, T \in F, x \notin T
      PROVE  T \cup {x} \in F
  <2>1. \A k \in kept : store[k].freq \in Nat /\ store[k].ts \in Nat
    BY DEF Entries, Items
  <2>2. \A j, k, l \in kept : Colder(j, k) /\ Colder(k, l) => Colder(j, l)
    BY <2>1 DEF Colder
  <2>3. \A k \in kept : ~Colder(k, k)
    BY <2>1 DEF Colder
  <2>4. CASE T = {}
    BY <2>3, <2>4
  <2>5. CASE T # {}
    <3>1. PICK c \in T : \A k \in T : ~Colder(k, c)
      BY <1>2, <2>5
    <3>2. CASE Colder(x, c)
      BY <1>2, <2>2, <2>3, <3>1, <3>2
    <3>3. CASE ~Colder(x, c)
      BY <1>2, <3>1, <3>3
    <3> QED
      BY <3>2, <3>3
  <2> QED
    BY <2>4, <2>5
<1>3. IsFiniteSet(kept)
  BY FS_Subset DEF Entries
<1> HIDE DEF F
<1>4. SUBSET kept \subseteq F
  BY <1>1, <1>2, <1>3, FiniteInductionOnSet
<1> QED
  BY <1>4 DEF F

(* One victim more, as long as there is an entry. *)
LEMMA OneVictimMore ==
  ASSUME Entries, NEW n \in Nat, n < Cardinality(DOMAIN store), Survivors(n) # {}
  PROVE  Survivors(n + 1) # {}
<1>1. PICK kept \in Survivors(n) : TRUE
  OBVIOUS
<1>2. /\ kept \in SUBSET DOMAIN store /\ IsFiniteSet(kept)
      /\ Cardinality(kept) = Cardinality(DOMAIN store) - n
      /\ Cardinality(kept) \in Nat /\ Cardinality(DOMAIN store) \in Nat
  BY SurvivorsSize
<1>3. kept # {}
  BY <1>2, FS_EmptySet
<1>4. PICK c \in kept : \A k \in kept : ~Colder(k, c)
  BY <1>2, <1>3, ColdestExists
<1>5. Cardinality(kept \ {c}) = Cardinality(DOMAIN store) - (n + 1)
  <2>1. Cardinality(kept \ {c}) = Cardinality(kept) - 1
    BY <1>2, <1>4, FS_RemoveElement
  <2> QED
    BY <1>2, <2>1
<1>6. \A j \in DOMAIN store \ kept, k \in kept : ~Colder(k, j)
  BY DEF Survivors
<1>7. kept \ {c} \in Survivors(n + 1)
  BY <1>2, <1>4, <1>5, <1>6 DEF Survivors
<1> QED
  BY <1>7

LEMMA SurvivorsExist ==
  ASSUME Entries, NEW n \in 0..Cardinality(DOMAIN store)
  PROVE  Survivors(n) # {}
<1> DEFINE N == {i \in Nat : i <= Cardinality(DOMAIN store) => Survivors(i) # {}}
<1>1. Cardinality(DOMAIN store) \in Nat
  BY FS_CardinalityType DEF Entries
<1>2. 0 \in N
  <2>1. DOMAIN store \in Survivors(0)
    BY <1>1 DEF Survivors
  <2> QED
    BY <2>1
<1>3. \A i \in N \cap Nat : i + 1 \in N
  BY <1>1, OneVictimMore
<1> HIDE DEF N
<1>4. Nat \subseteq N
  BY <1>2, <1>3, NatInductionOnSet
<1> QED
  BY <1>1, <1>4 DEF N

-----------------------------------------------------------------------------
LEMMA InitIInv == ASSUME LFUAssumption PROVE Init => IInv
<1> SUFFICES ASSUME Init PROVE IInv
  OBVIOUS
<1>1. DOMAIN store = {}
  BY DEF Init, NoItems
<1>2. Entries /\ Apart
  BY <1>1, FS_EmptySet DEF Init, NoItems, Entries, Apart, LFUAssumption
<1>3. WithinCapacity
  BY <1>1, FS_EmptySet DEF Init, WithinCapacity, LFUAssumption
<1>4. stats \in StatRecords
  BY DEF Init, NoStats, StatRecords, LFUAssumption
<1> QED
  BY <1>2, <1>3, <1>4 DEF Init, IInv

LEMMA GetKeeps ==
  ASSUME LFUAssumption, IInv, NEW k \in Keys, Get(k) PROVE IInv'
<1> USE DEF LFUAssumption
<1>1. CASE k \notin DOMAIN store
  <2>1. stats' = Counted("misses", 1) /\ UNCHANGED <<store, tick, capacity>>
    BY <1>1 DEF Get
  <2>2. stats' \in StatRecords
    BY <2>1, CountedType DEF IInv
  <2> QED
    BY <2>1, <2>2 DEF IInv, Entries, Apart, WithinCapacity
<1>2. CASE k \in DOMAIN store
  <2>1. /\ tick < MaxTick /\ tick' = tick + 1 /\ capacity' = capacity
        /\ store' = [store EXCEPT ![k] = Used(store[k])]
        /\ stats' = Counted("hits", 1)
    BY <1>2 DEF Get
  <2>2. Used(store[k]) \in Items /\ Used(store[k]).ts = tick + 1
    BY <1>2, UsedItem DEF IInv, Entries
  <2>3. Entries' /\ Apart' /\ DOMAIN store' = DOMAIN store
    BY <1>2, <2>1, <2>2, TouchKeeps DEF IInv
  <2>4. stats' \in StatRecords
    BY <2>1, CountedType DEF IInv
  <2> QED
    BY <2>1, <2>3, <2>4 DEF IInv, WithinCapacity
<1> QED
  BY <1>1, <1>2

(* What put() makes of a new key. *)
LEMMA PutInserts ==
  ASSUME LFUAssumption, IInv, NEW k \in Keys, NEW v \in Values, Put(k, v),
         k \notin DOMAIN store
  PROVE  \E kept \in SUBSET DOMAIN store :
            /\ Cardinality(DOMAIN store \ kept) <= 1
            /\ store' = [x \in kept \cup {k} |->
                           IF x = k THEN [value |-> v, freq |-> 1, ts |-> tick + 1]
                                    ELSE store[x]]
            /\ IInv'
<1> USE DEF LFUAssumption
<1> DEFINE n == Cardinality(DOMAIN store)
           item == [value |-> v, freq |-> 1, ts |-> tick + 1]
<1>1. /\ tick < MaxTick /\ tick' = tick + 1 /\ capacity' = capacity
      /\ stats' = Counted("evictions", Room(n))
  BY DEF Put
<1>2. PICK kept \in Survivors(Room(n)) :
        store' = [x \in kept \cup {k} |-> IF x = k THEN item ELSE store[x]]
  BY DEF Put
<1>3. Entries /\ Apart /\ capacity \in Nat /\ stats \in StatRecords
  BY DEF IInv
<1>4. /\ kept \in SUBSET DOMAIN store /\ IsFiniteSet(kept)
      /\ Cardinality(kept) = n - Room(n) /\ n \in Nat
  BY <1>3, SurvivorsSize
<1>5. Room(n) \in {0, 1}
  BY DEF Room
<1>6. item \in Items /\ item.ts = tick + 1
  BY <1>3 DEF Items, Entries
<1>7. Entries' /\ Apart' /\ DOMAIN store' = kept \cup {k}
  BY <1>1, <1>2, <1>3, <1>4, <1>6, InsertKeeps
<1>8. Cardinality(DOMAIN store') = n - Room(n) + 1
  BY <1>4, <1>7, FS_AddElement
<1>9. n <= IF capacity = 0 THEN 1 ELSE capacity
  BY DEF IInv, WithinCapacity
<1>10. n - Room(n) + 1 <= IF capacity = 0 THEN 1 ELSE capacity
  BY <1>3, <1>4, <1>9 DEF Room
<1>11. WithinCapacity'
  BY <1>1, <1>8, <1>10 DEF WithinCapacity
<1>12. stats' \in StatRecords
  BY <1>1, <1>3, <1>5, CountedType
<1>13. IInv'
  BY <1>1, <1>7, <1>11, <1>12 DEF IInv
<1>14. Cardinality(DOMAIN store \ kept) <= 1
  <2>1. /\ IsFiniteSet(DOMAIN store)
        /\ DOMAIN store \cap kept = kept
    BY <1>3, <1>4 DEF Entries
  <2>2. Cardinality(DOMAIN store \ kept) = n - Cardinality(kept)
    BY <2>1, FS_Difference
  <2> QED
    BY <1>4, <1>5, <2>2
<1> QED
  BY <1>2, <1>4, <1>13, <1>14

LEMMA PutKeeps ==
  ASSUME LFUAssumption, IInv, NEW k \in Keys, NEW v \in Values, Put(k, v) PROVE IInv'
<1> USE DEF LFUAssumption
<1>1. CASE k \notin DOMAIN store
  BY <1>1, PutInserts
<1>2. CASE k \in DOMAIN store
  <2> DEFINE item == Used([store[k] EXCEPT !.value = v])
  <2>1. /\ tick < MaxTick /\ tick' = tick + 1 /\ UNCHANGED <<capacity, stats>>
        /\ store' = [store EXCEPT ![k] = item]
    BY <1>2 DEF Put
  <2>2. item \in Items /\ item.ts = tick + 1
    <3>1. store[k] \in Items /\ tick \in Nat
      BY <1>2 DEF IInv, Entries
    <3>2. [store[k] EXCEPT !.value = v] \in Items
      BY <3>1 DEF Items
    <3> QED
      BY <3>1, <3>2, UsedItem
  <2>3. Entries' /\ Apart' /\ DOMAIN store' = DOMAIN store
    BY <1>2, <2>1, <2>2, TouchKeeps DEF IInv
  <2> QED
    BY <2>1, <2>3 DEF IInv, WithinCapacity
<1> QED
  BY <1>1, <1>2

LEMMA EraseKeeps ==
  ASSUME LFUAssumption, IInv, NEW k \in Keys, Erase(k) PROVE IInv'
<1> USE DEF LFUAssumption
<1> DEFINE kept == DOMAIN store \ {k}
<1>1. store' = Only(kept) /\ UNCHANGED <<capacity, tick, stats>>
  BY DEF Erase
<1>2. Entries' /\ Apart' /\ DOMAIN store' = kept
  BY <1>1, OnlyKeeps DEF IInv
<1>3. Cardinality(kept) <= Cardinality(DOMAIN store)
  BY FS_Subset DEF IInv, Entries
<1>4. Cardinality(kept) \in Nat /\ Cardinality(DOMAIN store) \in Nat
  <2>1. IsFiniteSet(kept) /\ IsFiniteSet(DOMAIN store)
    BY <1>2 DEF IInv, Entries
  <2> QED
    BY <2>1, FS_CardinalityType
<1>5. WithinCapacity'
  <2>1. Cardinality(DOMAIN store) <= IF capacity = 0 THEN 1 ELSE capacity
    BY DEF IInv, WithinCapacity
  <2>2. capacity \in Nat
    BY DEF IInv
  <2>3. DOMAIN store' = kept /\ capacity' = capacity
    BY <1>1, <1>2
  <2> HIDE DEF kept
  <2>4. Cardinality(kept) <= IF capacity = 0 THEN 1 ELSE capacity
    BY <1>3, <1>4, <2>1, <2>2
  <2> QED
    BY <2>3, <2>4 DEF WithinCapacity
<1> QED
  BY <1>1, <1>2, <1>5 DEF IInv

(* What resize() leaves. *)
LEMMA ResizeLeaves ==
  ASSUME LFUAssumption, IInv, NEW c \in Capacities, Resize(c)
  PROVE  \E kept \in SUBSET DOMAIN store :
            /\ \/ kept = DOMAIN store /\ Cardinality(kept) <= c
               \/ Cardinality(kept) = c
            /\ store' = Only(kept)
            /\ IInv'
<1> USE DEF LFUAssumption
<1> DEFINE n == Cardinality(DOMAIN store)
<1>1. capacity' = c /\ tick' = tick /\ stats' = Counted("evictions", Excess(c))
  BY DEF Resize
<1>2. PICK kept \in Survivors(Excess(c)) : store' = Only(kept)
  BY DEF Resize
<1>3. /\ kept \in SUBSET DOMAIN store
      /\ Cardinality(kept) = n - Excess(c) /\ n \in Nat
  BY <1>2, SurvivorsSize DEF IInv
<1>4. Excess(c) = IF n > c THEN n - c ELSE 0
  BY DEF Excess
<1>5. Excess(c) \in Nat /\ Cardinality(kept) <= c
  BY <1>3, <1>4
<1>6. Entries' /\ Apart' /\ DOMAIN store' = kept
  BY <1>1, <1>2, <1>3, OnlyKeeps DEF IInv
<1>7. WithinCapacity'
  BY <1>1, <1>3, <1>5, <1>6 DEF WithinCapacity
<1>8. stats' \in StatRecords
  BY <1>1, <1>5, CountedType DEF IInv
<1>9. IInv'
  BY <1>1, <1>6, <1>7, <1>8 DEF IInv
<1>10. \/ kept = DOMAIN store /\ Cardinality(kept) <= c
       \/ Cardinality(kept) = c
  <2>1. CASE n > c
    BY <1>3, <1>4, <2>1
  <2>2. CASE ~(n > c)
    <3>1. Cardinality(kept) = n
      BY <1>3, <1>4, <2>2
    <3>2. kept = DOMAIN store
      BY <1>3, <3>1, FS_Subset DEF IInv, Entries
    <3> QED
      BY <1>5, <3>2
  <2> QED
    BY <2>1, <2>2
<1> QED
  BY <1>2, <1>3, <1>9, <1>10

LEMMA ClearKeeps ==
  ASSUME LFUAssumption, IInv, Clear PROVE IInv'
<1>1. DOMAIN store' = {}
  BY DEF Clear, NoItems
<1>2. Entries' /\ Apart'
  BY <1>1, FS_EmptySet DEF Clear, NoItems, Entries, Apart, LFUAssumption
<1>3. WithinCapacity'
  BY <1>1, FS_EmptySet DEF Clear, IInv, WithinCapacity, LFUAssumption
<1>4. stats' \in StatRecords
  BY DEF Clear, NoStats, StatRecords, LFUAssumption
<1> QED
  BY <1>2, <1>3, <1>4 DEF Clear, IInv

LEMMA NextIInv == ASSUME LFUAssumption PROVE IInv /\ [Next]_vars => IInv'
<1> SUFFICES ASSUME IInv, [Next]_vars PROVE IInv'
  OBVIOUS
<1>1. ASSUME NEW k \in Keys, Get(k) PROVE IInv'
  BY <1>1, GetKeeps
<1>2. ASSUME NEW k \in Keys, Erase(k) PROVE IInv'
  BY <1>2, EraseKeeps
<1>3. ASSUME NEW k \in Keys, NEW v \in Values, Put(k, v) PROVE IInv'
  BY <1>3, PutKeeps
<1>4. ASSUME NEW c \in Capacities, Resize(c) PROVE IInv'
  BY <1>4, ResizeLeaves
<1>5. CASE Clear
  BY <1>5, ClearKeeps
<1>6. CASE UNCHANGED vars
  BY <1>6 DEF vars, IInv, Entries, Apart, WithinCapacity
<1> QED
  BY <1>1, <1>2, <1>3, <1>4, <1>5, <1>6 DEF Next

LEMMA Invariance == ASSUME LFUAssumption PROVE Spec => []IInv
<1>1. Init => IInv
  BY InitIInv
<1>2. IInv /\ [Next]_vars => IInv'
  BY NextIInv
<1> QED
  BY <1>1, <1>2, PTL DEF Spec

(* Every entry is well formed, and no stamp is one that tick_ has yet to    *)
(* give out.                                                               *)
THEOREM TypeCorrect == ASSUME LFUAssumption PROVE Spec => []TypeOK
<1>1. IInv => TypeOK
  BY DEF IInv, Entries, StatRecords, TypeOK
<1>2. Spec => []IInv
  BY Invariance
<1> QED
  BY <1>1, <1>2, PTL

(* LFUCache never holds more than its capacity (at capacity 0, than one).   *)
THEOREM StaysWithinCapacity == ASSUME LFUAssumption PROVE Spec => []WithinCapacity
<1>1. IInv => WithinCapacity
  BY DEF IInv
<1>2. Spec => []IInv
  BY Invariance
<1> QED
  BY <1>1, <1>2, PTL

(* Whatever the order of the unordered_map, evict_victim() has exactly one   *)
(* way to take n victims.                                                  *)
THEOREM EvictionHasOneVictim == ASSUME LFUAssumption PROVE Spec => []OneVictim
<1>1. IInv => OneVictim
  <2> SUFFICES ASSUME IInv, NEW n \in 0..Cardinality(DOMAIN store)
               PROVE  Cardinality(Survivors(n)) = 1
    BY DEF OneVictim
  <2>1. PICK kept : kept \in Survivors(n)
    BY SurvivorsExist DEF IInv
  <2>2. \A other \in Survivors(n) : other = kept
    BY <2>1, SurvivorsUnique DEF IInv
  <2>3. Survivors(n) = {kept}
    BY <2>1, <2>2
  <2> QED
    BY <2>3, FS_Singleton
<1>2. Spec => []IInv
  BY Invariance
<1> QED
  BY <1>1, <1>2, PTL
-----------------------------------------------------------------------------
(* The entries as AdaptiveCache shows them. *)
Contents == [k \in DOMAIN store |-> store[k].value]

LEMMA SameCardinality == \A S : Contract!Cardinality(S) = Cardinality(S)
  BY DEF Contract!Cardinality, Cardinality

LEMMA GetReads ==
  ASSUME LFUAssumption, IInv, NEW k \in Keys, Get(k) PROVE Contract!Read
<1>1. Contents' = Contents
  <2>1. CASE k \notin DOMAIN store
    BY <2>1 DEF Get, Contents
  <2>2. CASE k \in DOMAIN store
    <3>1. store' = [store EXCEPT ![k] = Used(store[k])]
      BY <2>2 DEF Get
    <3>2. Used(store[k]).value = store[k].value
      BY DEF Used
    <3>3. /\ DOMAIN store' = DOMAIN store
          /\ \A j \in DOMAIN store : store'[j].value = store[j].value
      BY <3>1, <3>2
    <3> QED
      BY <3>3 DEF Contents
  <2> QED
    BY <2>1, <2>2
<1> QED
  BY <1>1 DEF Get, Contents, Contract!Read, Contract!cvars

LEMMA PutPuts ==
  ASSUME LFUAssumption, IInv, NEW k \in Keys, NEW v \in Values, Put(k, v)
  PROVE  Contract!Put(k, v)
<1>1. CASE k \in DOMAIN store
  <2> DEFINE item == Used([store[k] EXCEPT !.value = v])
  <2>1. store' = [store EXCEPT ![k] = item] /\ capacity' = capacity
    BY <1>1 DEF Put
  <2>2. store[k] \in Items
    BY <1>1 DEF IInv, Entries
  <2>3. item.value = v
    BY <2>2 DEF Used, Items
  <2> HIDE DEF item
  <2>4. Contents' = [Contents EXCEPT ![k] = v]
    BY <1>1, <2>1, <2>3 DEF Contents
  <2> QED
    BY <1>1, <2>1, <2>4
       DEF Contents, Contract!Put, Contract!Overwrite, Contract!Present
<1>2. CASE k \notin DOMAIN store
  <2> DEFINE item == [value |-> v, freq |-> 1, ts |-> tick + 1]
  <2>1. PICK kept \in SUBSET DOMAIN store :
          /\ Cardinality(DOMAIN store \ kept) <= 1
          /\ store' = [x \in kept \cup {k} |-> IF x = k THEN item ELSE store[x]]
    BY <1>2, PutInserts
  <2>2. capacity' = capacity
    BY DEF Put
  <2> DEFINE lost == DOMAIN store \ kept
  <2>3. (DOMAIN store \ lost) \cup {k} = kept \cup {k} /\ lost \in SUBSET DOMAIN store
    OBVIOUS
  <2>4. Contents' = [x \in (DOMAIN store \ lost) \cup {k} |->
                       IF x = k THEN v ELSE Contents[x]]
    BY <1>2, <2>1, <2>3 DEF Contents
  <2>5. DOMAIN Contents = DOMAIN store
    BY DEF Contents
  <2> HIDE DEF lost
  <2>6. Contract!Insert(k, v)
    BY <1>2, <2>1, <2>2, <2>3, <2>4, <2>5, SameCardinality
       DEF Contents, Contract!Insert, Contract!Present, lost
  <2> QED
    BY <2>6 DEF Contract!Put
<1> QED
  BY <1>1, <1>2

LEMMA EraseErases ==
  ASSUME NEW k \in Keys, Erase(k) PROVE Contract!Erase(k)
  BY DEF Erase, Only, Contract!Erase, Contract!Only, Contract!Present

LEMMA ResizeResizes ==
  ASSUME LFUAssumption, IInv, NEW c \in Capacities, Resize(c)
  PROVE  Contract!Resize(c)
<1>1. PICK kept \in SUBSET DOMAIN store :
        /\ \/ kept = DOMAIN store /\ Cardinality(kept) <= c
           \/ Cardinality(kept) = c
        /\ store' = Only(kept)
  BY ResizeLeaves
<1>2. capacity' = c
  BY DEF Resize
<1>3. Contents' = [x \in kept |-> Contents[x]]
  BY <1>1 DEF Contents, Only
<1>4. DOMAIN Contents = DOMAIN store
  BY DEF Contents
<1> QED
  BY <1>1, <1>2, <1>3, <1>4, SameCardinality
     DEF Contents, Contract!Resize, Contract!Only, Contract!Present

LEMMA ClearClears == Clear => Contract!Clear
<1> SUFFICES ASSUME Clear PROVE Contract!Clear
  OBVIOUS
<1>1. DOMAIN store' = {} /\ capacity' = capacity
  BY DEF Clear, NoItems
<1>2. [k \in DOMAIN store' |-> store'[k].value] = [x \in {} |-> x]
  BY <1>1
<1> QED
  BY <1>1, <1>2 DEF Contract!Clear

(* LFUCache implements AdaptiveCache, call by call: it is the lossy map of   *)
(* CacheContract, for any keys, values and capacities.                     *)
THEOREM ImplementsTheContract == ASSUME LFUAssumption PROVE Spec => ImplementsContract
<1> DEFINE Step ==
      /\ \A k \in Keys :
            /\ Get(k) => Contract!Read
            /\ Erase(k) => Contract!Erase(k)
            /\ \A v \in Values : Put(k, v) => Contract!Put(k, v)
      /\ \A c \in Capacities : Resize(c) => Contract!Resize(c)
      /\ Clear => Contract!Clear
<1>1. Init => Contract!Init
  <2> SUFFICES ASSUME Init PROVE Contract!Init
    OBVIOUS
  <2>1. [k \in DOMAIN store |-> store[k].value] = [x \in {} |-> x]
    BY DEF Init, NoItems
  <2> QED
    BY <2>1 DEF Init, Contract!Init
<1>2. IInv => Step
  BY GetReads, EraseErases, PutPuts, ResizeResizes, ClearClears
<1>3. Spec => []IInv
  BY Invariance
<1> QED
  BY <1>1, <1>2, <1>3, PTL DEF Spec, ImplementsContract
-----------------------------------------------------------------------------
(* Two LRU lists under the same calls.  The larger has all keys of the       *)
(* smaller, and those in the same order of recency.                         *)
Agree(s, l) ==
  /\ ToSet(s) \subseteq ToSet(l)
  /\ \A x, y : Before(s, x, y) => Before(l, x, y)

(* What evict_if_over() leaves of a list.                                   *)
First(l, c) == SubSeq(l, 1, IF Len(l) > c THEN c ELSE Len(l))

LEMMA FirstProperties ==
  ASSUME NEW S, NEW l \in Seq(S), NoRepeats(l), NEW c \in Nat
  PROVE  /\ First(l, c) \in Seq(S) /\ NoRepeats(First(l, c))
         /\ Len(First(l, c)) = IF Len(l) > c THEN c ELSE Len(l)
         /\ \A i \in 1..Len(First(l, c)) : First(l, c)[i] = l[i]
         /\ ToSet(First(l, c)) \subseteq ToSet(l)
         /\ Len(l) <= c => First(l, c) = l
<1>. DEFINE n == IF Len(l) > c THEN c ELSE Len(l)
<1>1. Len(l) \in Nat /\ n \in 0..Len(l) /\ (Len(l) <= c => n = Len(l))
  BY LenProperties
<1>2. \A i \in 1..n : l[i] \in S
  BY <1>1, ElementOfSeq
<1>3. First(l, c) = SubSeq(l, 1, n)
  BY DEF First
<1>. HIDE DEF n
<1>4. /\ First(l, c) \in Seq(S) /\ NoRepeats(First(l, c)) /\ Len(First(l, c)) = n
      /\ ToSet(First(l, c)) \subseteq ToSet(l)
  BY <1>1, <1>3, PrefixProperties
<1>5. \A i \in 1..n : First(l, c)[i] = l[i]
  BY <1>1, <1>2, <1>3, SubSeqProperties
<1>6. ASSUME Len(l) <= c PROVE First(l, c) = l
  <2>. PICK f \in Seq(S) : f = First(l, c)
    BY <1>4
  <2>1. Len(f) = Len(l) /\ \A i \in 1..Len(l) : f[i] = l[i]
    BY <1>1, <1>4, <1>5, <1>6
  <2>. QED BY <2>1, SeqEqual
<1>. QED BY <1>4, <1>5, <1>6 DEF n

LEMMA TouchAgree ==
  ASSUME NEW S, NEW s \in Seq(S), NEW l \in Seq(S), NoRepeats(s), NoRepeats(l),
         Agree(s, l), NEW k \in S
  PROVE  /\ Agree(Touch(s, k), Touch(l, k))
         /\ k \notin ToSet(s) => Agree(s, Touch(l, k))
<1>1. /\ ToSet(Touch(s, k)) = ToSet(s) \cup {k}
      /\ ToSet(Touch(l, k)) = ToSet(l) \cup {k}
  BY TouchProperties
<1>2. ASSUME NEW x, NEW y, Before(Touch(s, k), x, y)
      PROVE  Before(Touch(l, k), x, y)
  <2>1. \/ x = k /\ y \in ToSet(s) \ {k}
        \/ Before(s, x, y) /\ x # k /\ y # k
    BY <1>2, TouchOrder
  <2>2. \/ x = k /\ y \in ToSet(l) \ {k}
        \/ Before(l, x, y) /\ x # k /\ y # k
    BY <2>1 DEF Agree
  <2>. QED BY <2>2, TouchOrder
<1>3. ASSUME k \notin ToSet(s), NEW x, NEW y, Before(s, x, y)
      PROVE  Before(Touch(l, k), x, y)
  <2>1. x # k /\ y # k
    BY <1>3, BeforeKeys
  <2>2. Before(l, x, y)
    BY <1>3 DEF Agree
  <2>. QED BY <2>1, <2>2, TouchOrder
<1>. QED BY <1>1, <1>2, <1>3 DEF Agree

LEMMA UnlinkAgree ==
  ASSUME NEW S, NEW s \in Seq(S), NEW l \in Seq(S), NoRepeats(s), NoRepeats(l),
         Agree(s, l), NEW k
  PROVE  Agree(Unlink(s, k), Unlink(l, k))
<1>1. /\ ToSet(Unlink(s, k)) = ToSet(s) \ {k}
      /\ ToSet(Unlink(l, k)) = ToSet(l) \ {k}
  BY UnlinkProperties
<1>2. ASSUME NEW x, NEW y, Before(Unlink(s, k), x, y)
      PROVE  Before(Unlink(l, k), x, y)
  <2>1. Before(s, x, y) /\ x # k /\ y # k
    BY <1>2, UnlinkKeepsOrder
  <2>2. Before(l, x, y)
    BY <2>1 DEF Agree
  <2>. QED BY <2>1, <2>2, UnlinkKeepsOrder
<1>. QED BY <1>1, <1>2 DEF Agree

(* Eviction.  If the larger list loses its tail, the smaller is over its     *)
(* capacity too, and that tail is no key that it keeps: in the smaller list  *)
(* another key would follow, and so in the larger.                          *)
LEMMA EvictAgree ==
  ASSUME NEW S, NEW s \in Seq(S), NEW l \in Seq(S), NoRepeats(s), NoRepeats(l),
         Agree(s, l), NEW c \in Nat, NEW d \in Nat,
         c <= d, Len(l) <= d + 1, Len(l) - Len(s) <= d - c
  PROVE  /\ Agree(First(s, c), First(l, d))
         /\ Len(First(l, d)) - Len(First(s, c)) <= d - c
<1>1. Len(s) \in Nat /\ Len(l) \in Nat
  BY LenProperties
<1>2. PICK f \in Seq(S) :
        /\ f = First(s, c) /\ NoRepeats(f) /\ Len(f) = IF Len(s) > c THEN c ELSE Len(s)
        /\ \A i \in 1..Len(f) : f[i] = s[i]
        /\ ToSet(f) \subseteq ToSet(s)
  BY FirstProperties
<1>3. PICK g \in Seq(S) :
        /\ g = First(l, d) /\ NoRepeats(g) /\ Len(g) = IF Len(l) > d THEN d ELSE Len(l)
        /\ \A i \in 1..Len(g) : g[i] = l[i]
        /\ Len(l) <= d => g = l
  BY FirstProperties
<1>4. Len(g) - Len(f) <= d - c
  BY <1>1, <1>2, <1>3
<1>5. ASSUME NEW x, NEW y, Before(f, x, y) PROVE Before(l, x, y)
  <2>1. PICK p \in 1..Len(f), q \in 1..Len(f) : p < q /\ f[p] = x /\ f[q] = y
    BY <1>5 DEF Before
  <2>2. p \in 1..Len(s) /\ q \in 1..Len(s) /\ s[p] = x /\ s[q] = y
    BY <1>1, <1>2, <2>1
  <2>3. Before(s, x, y)
    BY <2>1, <2>2 DEF Before
  <2>. QED BY <2>3 DEF Agree
<1>6. CASE Len(l) <= d
  BY <1>2, <1>3, <1>4, <1>5, <1>6 DEF Agree
<1>7. CASE Len(l) > d
  <2>1. Len(l) = d + 1 /\ Len(g) = d /\ Len(s) > c /\ Len(f) = c
    BY <1>1, <1>2, <1>3, <1>7
  <2>. DEFINE z == l[Len(l)]
  <2>2. \A y : ~Before(l, z, y)
    BY NothingAfterTail
  <2>. HIDE DEF z
  <2>3. ASSUME z \in ToSet(f) PROVE FALSE
    <3>1. PICK i \in 1..Len(f) : f[i] = z
      BY <1>2, <2>3, KeysOfList
    <3>2. i \in 1..Len(s) /\ i + 1 \in 1..Len(s) /\ i < i + 1 /\ s[i] = z
      BY <1>1, <1>2, <2>1, <3>1
    <3>3. Before(s, z, s[i + 1])
      BY <3>2 DEF Before
    <3>. QED BY <2>2, <3>3 DEF Agree
  <2>4. \A i \in 1..Len(l) : l[i] # z => i \in 1..Len(g) /\ g[i] = l[i]
    BY <1>1, <1>3, <2>1 DEF z
  <2>5. ASSUME NEW x \in ToSet(f) PROVE x \in ToSet(g)
    <3>1. x \in ToSet(l) /\ x # z
      BY <1>2, <2>3, <2>5 DEF Agree
    <3>2. PICK i \in 1..Len(l) : l[i] = x
      BY <3>1, KeysOfList
    <3>. QED BY <2>4, <3>1, <3>2, KeysOfList
  <2>6. ASSUME NEW x, NEW y, Before(f, x, y) PROVE Before(g, x, y)
    <3>1. Before(l, x, y) /\ x # z /\ y # z
      BY <1>5, <2>3, <2>6, BeforeKeys
    <3>2. PICK p \in 1..Len(l), q \in 1..Len(l) : p < q /\ l[p] = x /\ l[q] = y
      BY <3>1 DEF Before
    <3>. QED BY <2>4, <3>1, <3>2 DEF Before
  <2>. QED BY <1>2, <1>3, <1>4, <2>5, <2>6 DEF Agree
<1>. QED BY <1>1, <1>6, <1>7
-----------------------------------------------------------------------------
(* The proofs about one LRUCache hold for each of the two.                  *)
SP == INSTANCE LRUCacheProofs
      WITH nodes <- smallNodes, map <- smallMap,
           capacity <- smallCapacity, stats <- smallStats
LP == INSTANCE LRUCacheProofs
      WITH nodes <- largeNodes, map <- largeMap,
           capacity <- largeCapacity, stats <- largeStats

(* The invariant of one LRU cache.                                          *)
IsLru(list, index, c) ==
  /\ list \in Seq(Keys) /\ NoRepeats(list)
  /\ index \in [DOMAIN index -> Values]
  /\ ToSet(list) = DOMAIN index
  /\ c \in Capacities /\ Len(list) <= c

(* The smaller cache.                                                       *)
LEMMA SmallLists ==
  ASSUME NEW s, NEW k
  PROVE  /\ Lru!Small!Touch(s, k) = Touch(s, k)
         /\ Lru!Small!Unlink(s, k) = Unlink(s, k)
         /\ Lru!Small!PushFront(s, k) = PushFront(s, k)
         /\ SP!Touch(s, k) = Touch(s, k)
         /\ SP!Unlink(s, k) = Unlink(s, k)
         /\ SP!PushFront(s, k) = PushFront(s, k)
<1>1. Lru!Small!PushFront(s, k) = PushFront(s, k) /\ SP!PushFront(s, k) = PushFront(s, k)
  BY DEF Lru!Small!PushFront, Lru!Small!Cons, SP!PushFront, SP!Cons, PushFront, Cons
<1>2. ASSUME NEW u
      PROVE  /\ Lru!Small!PushFront(u, k) = PushFront(u, k)
             /\ SP!PushFront(u, k) = PushFront(u, k)
  BY DEF Lru!Small!PushFront, Lru!Small!Cons, SP!PushFront, SP!Cons, PushFront, Cons
<1>3. Lru!Small!Unlink(s, k) = Unlink(s, k)
  BY DEF Lru!Small!Unlink, Lru!Small!RemoveFirst, Lru!Small!RemoveAt,
         Lru!Small!SelectInSeq, Lru!Small!Min,
         Unlink, RemoveFirst, RemoveAt, SelectInSeq, Min
<1>4. SP!Unlink(s, k) = Unlink(s, k)
  BY DEF SP!Unlink, SP!RemoveFirst, SP!RemoveAt, SP!SelectInSeq, SP!Min,
         Unlink, RemoveFirst, RemoveAt, SelectInSeq, Min
<1>. QED BY <1>1, <1>2, <1>3, <1>4 DEF Touch, Lru!Small!Touch, SP!Touch

LEMMA SmallSteps ==
  /\ Lru!Small!Init => SP!Init
  /\ \A k : Lru!Small!Get(k) => SP!Get(k)
  /\ \A k, v : Lru!Small!Put(k, v) => SP!Put(k, v)
  /\ \A k : Lru!Small!Erase(k) => SP!Erase(k)
  /\ \A c : Lru!Small!Resize(c) => SP!Resize(c)
  /\ Lru!Small!Clear => SP!Clear
<1>1. Lru!Small!Init => SP!Init
  BY DEF Lru!Small!Init, SP!Init, Lru!Small!NoStats, SP!NoStats
<1>2. ASSUME NEW k, Lru!Small!Get(k) PROVE SP!Get(k)
  BY <1>2, SmallLists DEF Lru!Small!Get, SP!Get, Lru!Small!Counted, SP!Counted
<1>3. ASSUME NEW l, NEW m, NEW c, Lru!Small!EvictIfOver(l, m, c)
      PROVE  SP!EvictIfOver(l, m, c)
  BY <1>3 DEF Lru!Small!EvictIfOver, SP!EvictIfOver, Lru!Small!Kept, SP!Kept,
          Lru!Small!Overflow, SP!Overflow, Lru!Small!Dropped, SP!Dropped,
          Lru!Small!ToSet, SP!ToSet, Lru!Small!Counted, SP!Counted
<1>4. ASSUME NEW k, NEW v, Lru!Small!Put(k, v) PROVE SP!Put(k, v)
  BY <1>3, <1>4, SmallLists DEF Lru!Small!Put, SP!Put
<1>5. ASSUME NEW k, Lru!Small!Erase(k) PROVE SP!Erase(k)
  BY <1>5, SmallLists DEF Lru!Small!Erase, SP!Erase
<1>6. ASSUME NEW c, Lru!Small!Resize(c) PROVE SP!Resize(c)
  BY <1>3, <1>6 DEF Lru!Small!Resize, SP!Resize
<1>7. Lru!Small!Clear => SP!Clear
  BY DEF Lru!Small!Clear, SP!Clear, Lru!Small!NoStats, SP!NoStats
<1>. QED BY <1>1, <1>2, <1>4, <1>5, <1>6, <1>7

LEMMA SmallInvariant ==
  /\ SP!IInv <=> IsLru(smallNodes, smallMap, smallCapacity)
  /\ (SP!IInv)' <=> IsLru(smallNodes', smallMap', smallCapacity')
BY DEF SP!IInv, SP!NoRepeats, SP!ToSet, NoRepeats, ToSet, IsLru

(* A step of the smaller cache keeps it an LRU cache, and does this to it.   *)
SmallGot(k) ==
  /\ smallNodes' = IF k \in ToSet(smallNodes) THEN Touch(smallNodes, k) ELSE smallNodes
  /\ UNCHANGED <<smallMap, smallCapacity>>
SmallHasPut(k, v) ==
  /\ smallNodes' = First(Touch(smallNodes, k), smallCapacity)
  /\ \A x \in DOMAIN smallMap' : smallMap'[x] = IF x = k THEN v ELSE smallMap[x]
  /\ UNCHANGED smallCapacity
SmallErased(k) ==
  /\ smallNodes' = Unlink(smallNodes, k)
  /\ \A x \in DOMAIN smallMap' : smallMap'[x] = smallMap[x]
  /\ UNCHANGED smallCapacity
SmallResized(c) ==
  /\ smallNodes' = First(smallNodes, c)
  /\ \A x \in DOMAIN smallMap' : smallMap'[x] = smallMap[x]
  /\ smallCapacity' = c
SmallCleared == smallNodes' = << >> /\ UNCHANGED smallCapacity
SmallIsLru == IsLru(smallNodes, smallMap, smallCapacity)

LEMMA SmallDoes ==
  ASSUME SP!LRUAssumption, SmallIsLru
  PROVE  /\ \A k \in Keys : Lru!Small!Get(k) => SmallGot(k) /\ SmallIsLru'
         /\ \A k \in Keys, v \in Values :
              Lru!Small!Put(k, v) => SmallHasPut(k, v) /\ SmallIsLru'
         /\ \A k \in Keys : Lru!Small!Erase(k) => SmallErased(k) /\ SmallIsLru'
         /\ \A c \in Capacities : Lru!Small!Resize(c) => SmallResized(c) /\ SmallIsLru'
         /\ Lru!Small!Clear => SmallCleared /\ SmallIsLru'
<1>0. (SP!IInv)' <=> SmallIsLru'
  BY SmallInvariant DEF SmallIsLru, IsLru
<1>1. SP!IInv
  BY SmallInvariant DEF SmallIsLru
<1>2. /\ smallNodes \in Seq(Keys) /\ NoRepeats(smallNodes)
      /\ ToSet(smallNodes) = DOMAIN smallMap
      /\ smallCapacity \in Nat /\ Capacities \subseteq Nat
      /\ Len(smallNodes) <= smallCapacity
  BY DEF SmallIsLru, IsLru, SP!LRUAssumption
<1>3. ASSUME NEW l \in Seq(Keys), NEW c \in Nat
      PROVE  Lru!Small!Kept(l, c) = First(l, c)
  <2>1. Len(l) \in Nat /\ Len(l) - 0 = Len(l) /\ Len(l) - (Len(l) - c) = c
    BY <1>3, LenProperties
  <2>. QED BY <2>1 DEF Lru!Small!Kept, Lru!Small!Overflow, First
<1>4. ASSUME NEW k \in Keys, Lru!Small!Get(k)
      PROVE  SmallGot(k) /\ SmallIsLru'
  <2>1. SP!Get(k)
    BY <1>4, SmallSteps
  <2>2. (SP!IInv)'
    BY <1>1, <2>1, SP!GetKeeps
  <2>. QED BY <1>0, <1>2, <1>4, <2>2, SmallLists DEF Lru!Small!Get, SmallGot
<1>5. ASSUME NEW k \in Keys, NEW v \in Values, Lru!Small!Put(k, v)
      PROVE  SmallHasPut(k, v) /\ SmallIsLru'
  <2>1. SP!Put(k, v)
    BY <1>5, SmallSteps
  <2>2. (SP!IInv)'
    BY <1>1, <2>1, SP!PutKeeps
  <2>3. /\ Touch(smallNodes, k) \in Seq(Keys)
        /\ NoRepeats(Touch(smallNodes, k))
        /\ Len(Touch(smallNodes, k)) =
             IF k \in ToSet(smallNodes) THEN Len(smallNodes) ELSE Len(smallNodes) + 1
    BY <1>2, TouchProperties
  <2>4. UNCHANGED smallCapacity
    BY <1>5 DEF Lru!Small!Put
  <2>5. CASE k \in DOMAIN smallMap
    <3>1. smallNodes' = Touch(smallNodes, k) /\ smallMap' = [smallMap EXCEPT ![k] = v]
      BY <1>5, <2>5, SmallLists DEF Lru!Small!Put
    <3>2. First(Touch(smallNodes, k), smallCapacity) = Touch(smallNodes, k)
      BY <1>2, <2>3, <2>5, FirstProperties
    <3>. QED BY <1>0, <2>2, <2>4, <3>1, <3>2 DEF SmallHasPut
  <2>6. CASE k \notin DOMAIN smallMap
    <3>1. Lru!Small!EvictIfOver(PushFront(smallNodes, k),
            [x \in DOMAIN smallMap \cup {k} |-> IF x = k THEN v ELSE smallMap[x]],
            smallCapacity)
      BY <1>5, <2>6, SmallLists DEF Lru!Small!Put
    <3>2. PushFront(smallNodes, k) = Touch(smallNodes, k)
      BY <1>2, <2>6, KeysOfList, UnlinkAbsent DEF Touch
    <3>3. smallNodes' = First(Touch(smallNodes, k), smallCapacity)
      BY <1>2, <1>3, <2>3, <3>1, <3>2 DEF Lru!Small!EvictIfOver
    <3>4. \A x \in DOMAIN smallMap' :
            smallMap'[x] = IF x = k THEN v ELSE smallMap[x]
      BY <3>1 DEF Lru!Small!EvictIfOver
    <3>. QED BY <1>0, <2>2, <2>4, <3>3, <3>4 DEF SmallHasPut
  <2>. QED BY <2>5, <2>6
<1>6. ASSUME NEW k \in Keys, Lru!Small!Erase(k)
      PROVE  SmallErased(k) /\ SmallIsLru'
  <2>1. SP!Erase(k)
    BY <1>6, SmallSteps
  <2>2. (SP!IInv)'
    BY <1>1, <2>1, SP!EraseKeeps
  <2>3. k \notin DOMAIN smallMap => Unlink(smallNodes, k) = smallNodes
    BY <1>2, KeysOfList, UnlinkAbsent
  <2>. QED BY <1>0, <1>6, <2>2, <2>3, SmallLists DEF Lru!Small!Erase, SmallErased
<1>7. ASSUME NEW c \in Capacities, Lru!Small!Resize(c)
      PROVE  SmallResized(c) /\ SmallIsLru'
  <2>1. SP!Resize(c)
    BY <1>7, SmallSteps
  <2>2. (SP!IInv)'
    BY <1>1, <2>1, SP!ResizeLeaves
  <2>3. Lru!Small!EvictIfOver(smallNodes, smallMap, c) /\ smallCapacity' = c
    BY <1>7 DEF Lru!Small!Resize
  <2>4. smallNodes' = First(smallNodes, c)
    BY <1>2, <1>3, <2>3 DEF Lru!Small!EvictIfOver
  <2>. QED BY <1>0, <2>2, <2>3, <2>4 DEF Lru!Small!EvictIfOver, SmallResized
<1>8. ASSUME Lru!Small!Clear
      PROVE  SmallCleared /\ SmallIsLru'
  <2>1. SP!Clear
    BY <1>8, SmallSteps
  <2>2. (SP!IInv)'
    BY <1>1, <2>1, SP!ClearKeeps
  <2>. QED BY <1>0, <1>8, <2>2 DEF Lru!Small!Clear, SmallCleared
<1>. QED BY <1>4, <1>5, <1>6, <1>7, <1>8

-----------------------------------------------------------------------------
(* The larger cache, in the same way.                                       *)
LEMMA LargeLists ==
  ASSUME NEW s, NEW k
  PROVE  /\ Lru!Large!Touch(s, k) = Touch(s, k)
         /\ Lru!Large!Unlink(s, k) = Unlink(s, k)
         /\ Lru!Large!PushFront(s, k) = PushFront(s, k)
         /\ LP!Touch(s, k) = Touch(s, k)
         /\ LP!Unlink(s, k) = Unlink(s, k)
         /\ LP!PushFront(s, k) = PushFront(s, k)
<1>1. Lru!Large!PushFront(s, k) = PushFront(s, k) /\ LP!PushFront(s, k) = PushFront(s, k)
  BY DEF Lru!Large!PushFront, Lru!Large!Cons, LP!PushFront, LP!Cons, PushFront, Cons
<1>2. ASSUME NEW u
      PROVE  /\ Lru!Large!PushFront(u, k) = PushFront(u, k)
             /\ LP!PushFront(u, k) = PushFront(u, k)
  BY DEF Lru!Large!PushFront, Lru!Large!Cons, LP!PushFront, LP!Cons, PushFront, Cons
<1>3. Lru!Large!Unlink(s, k) = Unlink(s, k)
  BY DEF Lru!Large!Unlink, Lru!Large!RemoveFirst, Lru!Large!RemoveAt,
         Lru!Large!SelectInSeq, Lru!Large!Min,
         Unlink, RemoveFirst, RemoveAt, SelectInSeq, Min
<1>4. LP!Unlink(s, k) = Unlink(s, k)
  BY DEF LP!Unlink, LP!RemoveFirst, LP!RemoveAt, LP!SelectInSeq, LP!Min,
         Unlink, RemoveFirst, RemoveAt, SelectInSeq, Min
<1>. QED BY <1>1, <1>2, <1>3, <1>4 DEF Touch, Lru!Large!Touch, LP!Touch

LEMMA LargeSteps ==
  /\ Lru!Large!Init => LP!Init
  /\ \A k : Lru!Large!Get(k) => LP!Get(k)
  /\ \A k, v : Lru!Large!Put(k, v) => LP!Put(k, v)
  /\ \A k : Lru!Large!Erase(k) => LP!Erase(k)
  /\ \A c : Lru!Large!Resize(c) => LP!Resize(c)
  /\ Lru!Large!Clear => LP!Clear
<1>1. Lru!Large!Init => LP!Init
  BY DEF Lru!Large!Init, LP!Init, Lru!Large!NoStats, LP!NoStats
<1>2. ASSUME NEW k, Lru!Large!Get(k) PROVE LP!Get(k)
  BY <1>2, LargeLists DEF Lru!Large!Get, LP!Get, Lru!Large!Counted, LP!Counted
<1>3. ASSUME NEW l, NEW m, NEW c, Lru!Large!EvictIfOver(l, m, c)
      PROVE  LP!EvictIfOver(l, m, c)
  BY <1>3 DEF Lru!Large!EvictIfOver, LP!EvictIfOver, Lru!Large!Kept, LP!Kept,
          Lru!Large!Overflow, LP!Overflow, Lru!Large!Dropped, LP!Dropped,
          Lru!Large!ToSet, LP!ToSet, Lru!Large!Counted, LP!Counted
<1>4. ASSUME NEW k, NEW v, Lru!Large!Put(k, v) PROVE LP!Put(k, v)
  BY <1>3, <1>4, LargeLists DEF Lru!Large!Put, LP!Put
<1>5. ASSUME NEW k, Lru!Large!Erase(k) PROVE LP!Erase(k)
  BY <1>5, LargeLists DEF Lru!Large!Erase, LP!Erase
<1>6. ASSUME NEW c, Lru!Large!Resize(c) PROVE LP!Resize(c)
  BY <1>3, <1>6 DEF Lru!Large!Resize, LP!Resize
<1>7. Lru!Large!Clear => LP!Clear
  BY DEF Lru!Large!Clear, LP!Clear, Lru!Large!NoStats, LP!NoStats
<1>. QED BY <1>1, <1>2, <1>4, <1>5, <1>6, <1>7

LEMMA LargeInvariant ==
  /\ LP!IInv <=> IsLru(largeNodes, largeMap, largeCapacity)
  /\ (LP!IInv)' <=> IsLru(largeNodes', largeMap', largeCapacity')
BY DEF LP!IInv, LP!NoRepeats, LP!ToSet, NoRepeats, ToSet, IsLru

(* A step of the larger cache keeps it an LRU cache, and does this to it.   *)
LargeGot(k) ==
  /\ largeNodes' = IF k \in ToSet(largeNodes) THEN Touch(largeNodes, k) ELSE largeNodes
  /\ UNCHANGED <<largeMap, largeCapacity>>
LargeHasPut(k, v) ==
  /\ largeNodes' = First(Touch(largeNodes, k), largeCapacity)
  /\ \A x \in DOMAIN largeMap' : largeMap'[x] = IF x = k THEN v ELSE largeMap[x]
  /\ UNCHANGED largeCapacity
LargeErased(k) ==
  /\ largeNodes' = Unlink(largeNodes, k)
  /\ \A x \in DOMAIN largeMap' : largeMap'[x] = largeMap[x]
  /\ UNCHANGED largeCapacity
LargeResized(c) ==
  /\ largeNodes' = First(largeNodes, c)
  /\ \A x \in DOMAIN largeMap' : largeMap'[x] = largeMap[x]
  /\ largeCapacity' = c
LargeCleared == largeNodes' = << >> /\ UNCHANGED largeCapacity
LargeIsLru == IsLru(largeNodes, largeMap, largeCapacity)

LEMMA LargeDoes ==
  ASSUME LP!LRUAssumption, LargeIsLru
  PROVE  /\ \A k \in Keys : Lru!Large!Get(k) => LargeGot(k) /\ LargeIsLru'
         /\ \A k \in Keys, v \in Values :
              Lru!Large!Put(k, v) => LargeHasPut(k, v) /\ LargeIsLru'
         /\ \A k \in Keys : Lru!Large!Erase(k) => LargeErased(k) /\ LargeIsLru'
         /\ \A c \in Capacities : Lru!Large!Resize(c) => LargeResized(c) /\ LargeIsLru'
         /\ Lru!Large!Clear => LargeCleared /\ LargeIsLru'
<1>0. (LP!IInv)' <=> LargeIsLru'
  BY LargeInvariant DEF LargeIsLru, IsLru
<1>1. LP!IInv
  BY LargeInvariant DEF LargeIsLru
<1>2. /\ largeNodes \in Seq(Keys) /\ NoRepeats(largeNodes)
      /\ ToSet(largeNodes) = DOMAIN largeMap
      /\ largeCapacity \in Nat /\ Capacities \subseteq Nat
      /\ Len(largeNodes) <= largeCapacity
  BY DEF LargeIsLru, IsLru, LP!LRUAssumption
<1>3. ASSUME NEW l \in Seq(Keys), NEW c \in Nat
      PROVE  Lru!Large!Kept(l, c) = First(l, c)
  <2>1. Len(l) \in Nat /\ Len(l) - 0 = Len(l) /\ Len(l) - (Len(l) - c) = c
    BY <1>3, LenProperties
  <2>. QED BY <2>1 DEF Lru!Large!Kept, Lru!Large!Overflow, First
<1>4. ASSUME NEW k \in Keys, Lru!Large!Get(k)
      PROVE  LargeGot(k) /\ LargeIsLru'
  <2>1. LP!Get(k)
    BY <1>4, LargeSteps
  <2>2. (LP!IInv)'
    BY <1>1, <2>1, LP!GetKeeps
  <2>. QED BY <1>0, <1>2, <1>4, <2>2, LargeLists DEF Lru!Large!Get, LargeGot
<1>5. ASSUME NEW k \in Keys, NEW v \in Values, Lru!Large!Put(k, v)
      PROVE  LargeHasPut(k, v) /\ LargeIsLru'
  <2>1. LP!Put(k, v)
    BY <1>5, LargeSteps
  <2>2. (LP!IInv)'
    BY <1>1, <2>1, LP!PutKeeps
  <2>3. /\ Touch(largeNodes, k) \in Seq(Keys)
        /\ NoRepeats(Touch(largeNodes, k))
        /\ Len(Touch(largeNodes, k)) =
             IF k \in ToSet(largeNodes) THEN Len(largeNodes) ELSE Len(largeNodes) + 1
    BY <1>2, TouchProperties
  <2>4. UNCHANGED largeCapacity
    BY <1>5 DEF Lru!Large!Put
  <2>5. CASE k \in DOMAIN largeMap
    <3>1. largeNodes' = Touch(largeNodes, k) /\ largeMap' = [largeMap EXCEPT ![k] = v]
      BY <1>5, <2>5, LargeLists DEF Lru!Large!Put
    <3>2. First(Touch(largeNodes, k), largeCapacity) = Touch(largeNodes, k)
      BY <1>2, <2>3, <2>5, FirstProperties
    <3>. QED BY <1>0, <2>2, <2>4, <3>1, <3>2 DEF LargeHasPut
  <2>6. CASE k \notin DOMAIN largeMap
    <3>1. Lru!Large!EvictIfOver(PushFront(largeNodes, k),
            [x \in DOMAIN largeMap \cup {k} |-> IF x = k THEN v ELSE largeMap[x]],
            largeCapacity)
      BY <1>5, <2>6, LargeLists DEF Lru!Large!Put
    <3>2. PushFront(largeNodes, k) = Touch(largeNodes, k)
      BY <1>2, <2>6, KeysOfList, UnlinkAbsent DEF Touch
    <3>3. largeNodes' = First(Touch(largeNodes, k), largeCapacity)
      BY <1>2, <1>3, <2>3, <3>1, <3>2 DEF Lru!Large!EvictIfOver
    <3>4. \A x \in DOMAIN largeMap' :
            largeMap'[x] = IF x = k THEN v ELSE largeMap[x]
      BY <3>1 DEF Lru!Large!EvictIfOver
    <3>. QED BY <1>0, <2>2, <2>4, <3>3, <3>4 DEF LargeHasPut
  <2>. QED BY <2>5, <2>6
<1>6. ASSUME NEW k \in Keys, Lru!Large!Erase(k)
      PROVE  LargeErased(k) /\ LargeIsLru'
  <2>1. LP!Erase(k)
    BY <1>6, LargeSteps
  <2>2. (LP!IInv)'
    BY <1>1, <2>1, LP!EraseKeeps
  <2>3. k \notin DOMAIN largeMap => Unlink(largeNodes, k) = largeNodes
    BY <1>2, KeysOfList, UnlinkAbsent
  <2>. QED BY <1>0, <1>6, <2>2, <2>3, LargeLists DEF Lru!Large!Erase, LargeErased
<1>7. ASSUME NEW c \in Capacities, Lru!Large!Resize(c)
      PROVE  LargeResized(c) /\ LargeIsLru'
  <2>1. LP!Resize(c)
    BY <1>7, LargeSteps
  <2>2. (LP!IInv)'
    BY <1>1, <2>1, LP!ResizeLeaves
  <2>3. Lru!Large!EvictIfOver(largeNodes, largeMap, c) /\ largeCapacity' = c
    BY <1>7 DEF Lru!Large!Resize
  <2>4. largeNodes' = First(largeNodes, c)
    BY <1>2, <1>3, <2>3 DEF Lru!Large!EvictIfOver
  <2>. QED BY <1>0, <2>2, <2>3, <2>4 DEF Lru!Large!EvictIfOver, LargeResized
<1>8. ASSUME Lru!Large!Clear
      PROVE  LargeCleared /\ LargeIsLru'
  <2>1. LP!Clear
    BY <1>8, LargeSteps
  <2>2. (LP!IInv)'
    BY <1>1, <2>1, LP!ClearKeeps
  <2>. QED BY <1>0, <1>8, <2>2 DEF Lru!Large!Clear, LargeCleared
<1>. QED BY <1>4, <1>5, <1>6, <1>7, <1>8

-----------------------------------------------------------------------------
(* Both together.  The larger cache has at most as many entries more as it   *)
(* has room for more: so it evicts only when the smaller one is full too.   *)
PairInv ==
  /\ SmallIsLru /\ LargeIsLru
  /\ smallCapacity <= largeCapacity
  /\ Len(largeNodes) - Len(smallNodes) <= largeCapacity - smallCapacity
  /\ Agree(smallNodes, largeNodes)
  /\ \A k \in DOMAIN smallMap : smallMap[k] = largeMap[k]

LEMMA LruAssumptions ==
  /\ SP!LRUAssumption /\ LP!LRUAssumption
  /\ Capacities \subseteq Nat
BY CachesAssumption
   DEF Lru!Small!LRUAssumption, SP!LRUAssumption, LP!LRUAssumption

LEMMA PairFacts ==
  ASSUME PairInv
  PROVE  /\ smallNodes \in Seq(Keys) /\ NoRepeats(smallNodes)
         /\ largeNodes \in Seq(Keys) /\ NoRepeats(largeNodes)
         /\ Len(smallNodes) \in Nat /\ Len(largeNodes) \in Nat
         /\ smallCapacity \in Nat /\ largeCapacity \in Nat
         /\ Len(largeNodes) <= largeCapacity
         /\ ToSet(smallNodes) = DOMAIN smallMap
         /\ ToSet(largeNodes) = DOMAIN largeMap
         /\ ToSet(smallNodes) \subseteq ToSet(largeNodes)
         /\ Agree(smallNodes, largeNodes)
BY LruAssumptions, LenProperties
   DEF PairInv, SmallIsLru, LargeIsLru, IsLru, Agree

LEMMA PairInit == Lru!Init => PairInv
<1>. SUFFICES ASSUME Lru!Init PROVE PairInv
  OBVIOUS
<1>1. SP!Init /\ LP!Init /\ smallCapacity <= largeCapacity
  BY SmallSteps, LargeSteps DEF Lru!Init
<1>2. SP!IInv /\ LP!IInv
  BY <1>1, LruAssumptions, SP!InitIInv, LP!InitIInv
<1>3. SmallIsLru /\ LargeIsLru
  BY <1>2, SmallInvariant, LargeInvariant DEF SmallIsLru, LargeIsLru
<1>4. smallNodes = << >> /\ largeNodes = << >> /\ DOMAIN smallMap = {}
  BY <1>1 DEF SP!Init, LP!Init
<1>5. Agree(<< >>, << >>)
  BY DEF Agree
<1>6. 0 <= largeCapacity - smallCapacity
  BY <1>1, <1>3, LruAssumptions DEF SmallIsLru, LargeIsLru, IsLru
<1>. QED BY <1>1, <1>3, <1>4, <1>5, <1>6 DEF PairInv

LEMMA PairGet ==
  ASSUME PairInv, NEW k \in Keys, Lru!Small!Get(k), Lru!Large!Get(k)
  PROVE  PairInv'
<1>1. /\ SmallGot(k) /\ SmallIsLru' /\ LargeGot(k) /\ LargeIsLru'
  BY LruAssumptions, SmallDoes, LargeDoes DEF PairInv
<1>2. /\ UNCHANGED <<smallMap, smallCapacity, largeMap, largeCapacity>>
      /\ \A x \in DOMAIN smallMap : smallMap[x] = largeMap[x]
      /\ smallCapacity <= largeCapacity
      /\ Len(largeNodes) - Len(smallNodes) <= largeCapacity - smallCapacity
  BY <1>1 DEF SmallGot, LargeGot, PairInv
<1>3. /\ k \in ToSet(smallNodes) => Len(Touch(smallNodes, k)) = Len(smallNodes)
      /\ k \in ToSet(largeNodes) => Len(Touch(largeNodes, k)) = Len(largeNodes)
      /\ Agree(Touch(smallNodes, k), Touch(largeNodes, k))
      /\ k \notin ToSet(smallNodes) => Agree(smallNodes, Touch(largeNodes, k))
  BY PairFacts, TouchProperties, TouchAgree
<1>4. Len(smallNodes') = Len(smallNodes) /\ Len(largeNodes') = Len(largeNodes)
  BY <1>1, <1>3 DEF SmallGot, LargeGot
<1>5. Agree(smallNodes', largeNodes')
  BY <1>1, <1>3, PairFacts DEF SmallGot, LargeGot
<1>. QED BY <1>1, <1>2, <1>4, <1>5 DEF PairInv

LEMMA PairPut ==
  ASSUME PairInv, NEW k \in Keys, NEW v \in Values,
         Lru!Small!Put(k, v), Lru!Large!Put(k, v)
  PROVE  PairInv'
<1>1. /\ SmallHasPut(k, v) /\ SmallIsLru' /\ LargeHasPut(k, v) /\ LargeIsLru'
  BY LruAssumptions, SmallDoes, LargeDoes DEF PairInv
<1>2. PICK s, l : s = Touch(smallNodes, k) /\ l = Touch(largeNodes, k)
  OBVIOUS
<1>3. /\ s \in Seq(Keys) /\ NoRepeats(s) /\ l \in Seq(Keys) /\ NoRepeats(l)
      /\ Len(s) = IF k \in ToSet(smallNodes) THEN Len(smallNodes) ELSE Len(smallNodes) + 1
      /\ Len(l) = IF k \in ToSet(largeNodes) THEN Len(largeNodes) ELSE Len(largeNodes) + 1
      /\ Agree(s, l)
  BY <1>2, PairFacts, TouchProperties, TouchAgree
<1>4. /\ smallCapacity <= largeCapacity
      /\ Len(largeNodes) - Len(smallNodes) <= largeCapacity - smallCapacity
      /\ \A x \in DOMAIN smallMap : smallMap[x] = largeMap[x]
  BY DEF PairInv
<1>5. Len(l) <= largeCapacity + 1 /\ Len(l) - Len(s) <= largeCapacity - smallCapacity
  <2>1. /\ Len(smallNodes) \in Nat /\ Len(largeNodes) \in Nat
        /\ smallCapacity \in Nat /\ largeCapacity \in Nat
        /\ Len(largeNodes) <= largeCapacity
        /\ k \in ToSet(smallNodes) => k \in ToSet(largeNodes)
    BY PairFacts
  <2>2. \/ Len(l) = Len(largeNodes) /\ Len(s) = Len(smallNodes)
        \/ Len(l) = Len(largeNodes) /\ Len(s) = Len(smallNodes) + 1
        \/ Len(l) = Len(largeNodes) + 1 /\ Len(s) = Len(smallNodes) + 1
    BY <1>3, <2>1
  <2>. QED BY <1>4, <2>1, <2>2
<1>6. /\ Agree(First(s, smallCapacity), First(l, largeCapacity))
      /\ Len(First(l, largeCapacity)) - Len(First(s, smallCapacity))
           <= largeCapacity - smallCapacity
  BY <1>3, <1>4, <1>5, PairFacts, EvictAgree
<1>7. /\ smallNodes' = First(s, smallCapacity) /\ UNCHANGED smallCapacity
      /\ largeNodes' = First(l, largeCapacity) /\ UNCHANGED largeCapacity
  BY <1>1, <1>2 DEF SmallHasPut, LargeHasPut
<1>8. /\ ToSet(smallNodes') = DOMAIN smallMap' /\ ToSet(largeNodes') = DOMAIN largeMap'
      /\ ToSet(smallNodes') \subseteq ToSet(s)
      /\ ToSet(s) = ToSet(smallNodes) \cup {k}
  <2>1. /\ ToSet(smallNodes') = DOMAIN smallMap'
        /\ ToSet(largeNodes') = DOMAIN largeMap'
    BY <1>1 DEF SmallIsLru, LargeIsLru, IsLru
  <2>2. ToSet(First(s, smallCapacity)) \subseteq ToSet(s)
    BY <1>3, PairFacts, FirstProperties
  <2>3. ToSet(s) = ToSet(smallNodes) \cup {k}
    BY <1>2, PairFacts, TouchProperties
  <2>. QED BY <1>7, <2>1, <2>2, <2>3
<1>9. ASSUME NEW x \in DOMAIN smallMap' PROVE smallMap'[x] = largeMap'[x]
  <2>1. x \in DOMAIN largeMap'
    BY <1>6, <1>7, <1>8, <1>9 DEF Agree
  <2>2. smallMap'[x] = IF x = k THEN v ELSE smallMap[x]
    BY <1>1, <1>9 DEF SmallHasPut
  <2>3. largeMap'[x] = IF x = k THEN v ELSE largeMap[x]
    BY <1>1, <2>1 DEF LargeHasPut
  <2>4. x = k \/ x \in DOMAIN smallMap
    BY <1>8, <1>9, PairFacts
  <2>. QED BY <1>4, <2>2, <2>3, <2>4
<1>. QED BY <1>1, <1>4, <1>6, <1>7, <1>9 DEF PairInv

(* erase(), resize() and clear() leave parts of both lists, and no values    *)
(* change.                                                                 *)
LEMMA PairLosing ==
  ASSUME PairInv, SmallIsLru', LargeIsLru', Agree(smallNodes', largeNodes'),
         ToSet(smallNodes') \subseteq ToSet(smallNodes),
         \A x \in DOMAIN smallMap' : smallMap'[x] = smallMap[x],
         \A x \in DOMAIN largeMap' : largeMap'[x] = largeMap[x]
  PROVE  \A x \in DOMAIN smallMap' : smallMap'[x] = largeMap'[x]
<1>1. /\ DOMAIN smallMap' = ToSet(smallNodes') /\ DOMAIN largeMap' = ToSet(largeNodes')
  BY DEF SmallIsLru, LargeIsLru, IsLru
<1>2. /\ DOMAIN smallMap' \subseteq DOMAIN smallMap
      /\ DOMAIN smallMap' \subseteq DOMAIN largeMap'
  BY <1>1, PairFacts DEF Agree
<1>. QED BY <1>2 DEF PairInv

LEMMA PairErase ==
  ASSUME PairInv, NEW k \in Keys, Lru!Small!Erase(k), Lru!Large!Erase(k)
  PROVE  PairInv'
<1>1. /\ SmallErased(k) /\ SmallIsLru' /\ LargeErased(k) /\ LargeIsLru'
  BY LruAssumptions, SmallDoes, LargeDoes DEF PairInv
<1>2. /\ smallNodes' = Unlink(smallNodes, k) /\ largeNodes' = Unlink(largeNodes, k)
      /\ UNCHANGED <<smallCapacity, largeCapacity>>
      /\ \A x \in DOMAIN smallMap' : smallMap'[x] = smallMap[x]
      /\ \A x \in DOMAIN largeMap' : largeMap'[x] = largeMap[x]
  BY <1>1 DEF SmallErased, LargeErased
<1>3. /\ ToSet(Unlink(smallNodes, k)) = ToSet(smallNodes) \ {k}
      /\ Len(Unlink(smallNodes, k)) =
           IF k \in ToSet(smallNodes) THEN Len(smallNodes) - 1 ELSE Len(smallNodes)
      /\ Len(Unlink(largeNodes, k)) =
           IF k \in ToSet(largeNodes) THEN Len(largeNodes) - 1 ELSE Len(largeNodes)
      /\ Agree(Unlink(smallNodes, k), Unlink(largeNodes, k))
  BY PairFacts, UnlinkProperties, UnlinkAgree
<1>4. /\ smallCapacity <= largeCapacity
      /\ Len(largeNodes) - Len(smallNodes) <= largeCapacity - smallCapacity
  BY DEF PairInv
<1>5. Len(largeNodes') - Len(smallNodes') <= largeCapacity - smallCapacity
  <2>1. /\ Len(smallNodes) \in Nat /\ Len(largeNodes) \in Nat
        /\ smallCapacity \in Nat /\ largeCapacity \in Nat
        /\ k \in ToSet(smallNodes) => k \in ToSet(largeNodes)
    BY PairFacts
  <2>2. PICK m, n : m = Len(smallNodes') /\ n = Len(largeNodes')
    OBVIOUS
  <2>3. \/ n = Len(largeNodes) /\ m = Len(smallNodes)
        \/ n = Len(largeNodes) - 1 /\ m = Len(smallNodes)
        \/ n = Len(largeNodes) - 1 /\ m = Len(smallNodes) - 1
    BY <1>2, <1>3, <2>1, <2>2
  <2>4. n - m <= largeCapacity - smallCapacity
    BY <1>4, <2>1, <2>3
  <2>. QED BY <2>2, <2>4
<1>6. \A x \in DOMAIN smallMap' : smallMap'[x] = largeMap'[x]
  BY <1>1, <1>2, <1>3, PairLosing
<1>. QED BY <1>1, <1>2, <1>3, <1>4, <1>5, <1>6 DEF PairInv

LEMMA PairResize ==
  ASSUME PairInv, NEW c \in Capacities, NEW d \in Capacities, c <= d,
         (c <= smallCapacity /\ largeCapacity <= d) \/ largeNodes = << >>,
         Lru!Small!Resize(c), Lru!Large!Resize(d)
  PROVE  PairInv'
<1>1. /\ SmallResized(c) /\ SmallIsLru' /\ LargeResized(d) /\ LargeIsLru'
  BY LruAssumptions, SmallDoes, LargeDoes DEF PairInv
<1>2. /\ smallNodes' = First(smallNodes, c) /\ largeNodes' = First(largeNodes, d)
      /\ smallCapacity' = c /\ largeCapacity' = d
      /\ \A x \in DOMAIN smallMap' : smallMap'[x] = smallMap[x]
      /\ \A x \in DOMAIN largeMap' : largeMap'[x] = largeMap[x]
  BY <1>1 DEF SmallResized, LargeResized
<1>3. c \in Nat /\ d \in Nat
  BY LruAssumptions
<1>4. Len(largeNodes) <= d + 1 /\ Len(largeNodes) - Len(smallNodes) <= d - c
  <2>1. CASE c <= smallCapacity /\ largeCapacity <= d
    <3>1. Len(largeNodes) - Len(smallNodes) <= largeCapacity - smallCapacity
      BY DEF PairInv
    <3>. QED BY <1>3, <2>1, <3>1, PairFacts
  <2>2. CASE largeNodes = << >>
    <3>1. Len(largeNodes) = 0
      BY <2>2
    <3>. QED BY <1>3, <3>1, PairFacts
  <2>. QED BY <2>1, <2>2
<1>5. /\ Agree(First(smallNodes, c), First(largeNodes, d))
      /\ Len(First(largeNodes, d)) - Len(First(smallNodes, c)) <= d - c
  BY <1>3, <1>4, PairFacts, EvictAgree
<1>6. ToSet(First(smallNodes, c)) \subseteq ToSet(smallNodes)
  BY <1>3, PairFacts, FirstProperties
<1>7. \A x \in DOMAIN smallMap' : smallMap'[x] = largeMap'[x]
  BY <1>1, <1>2, <1>5, <1>6, PairLosing
<1>. QED BY <1>1, <1>2, <1>5, <1>7 DEF PairInv

LEMMA PairClear ==
  ASSUME PairInv, Lru!Small!Clear, Lru!Large!Clear PROVE PairInv'
<1>1. SmallCleared /\ SmallIsLru' /\ LargeCleared /\ LargeIsLru'
  BY LruAssumptions, SmallDoes, LargeDoes DEF PairInv
<1>2. /\ smallNodes' = << >> /\ largeNodes' = << >>
      /\ UNCHANGED <<smallCapacity, largeCapacity>>
  BY <1>1 DEF SmallCleared, LargeCleared
<1>3. ToSet(<< >>) = {} /\ Len(<< >>) = 0 /\ Agree(<< >>, << >>)
  BY DEF Agree, ToSet
<1>4. DOMAIN smallMap' = {}
  BY <1>1, <1>2, <1>3 DEF SmallIsLru, IsLru
<1>5. smallCapacity <= largeCapacity
  BY DEF PairInv
<1>. QED BY <1>1, <1>2, <1>3, <1>4, <1>5, PairFacts DEF PairInv

LEMMA PairStep == PairInv /\ [Lru!Next]_lruVars => PairInv'
<1>. SUFFICES ASSUME PairInv, [Lru!Next]_lruVars PROVE PairInv'
  OBVIOUS
<1>1. CASE UNCHANGED lruVars
  BY <1>1 DEF lruVars, PairInv, SmallIsLru, LargeIsLru, IsLru
<1>2. CASE Lru!Next
  BY <1>2, PairGet, PairErase, PairPut, PairResize, PairClear DEF Lru!Next
<1>. QED BY <1>1, <1>2

LEMMA PairInvariance == CachesSpec => []PairInv
<1>1. CachesInit => PairInv
  BY PairInit DEF CachesInit
<1>2. PairInv /\ [CachesNext]_<<vars, lruVars>> => PairInv'
  <2>1. [CachesNext]_<<vars, lruVars>> => [Lru!Next]_lruVars
    BY DEF CachesNext
  <2>. QED BY <2>1, PairStep
<1>. QED BY <1>1, <1>2, PTL DEF CachesSpec

(* Of two LRU caches under the same calls, the larger holds all that the     *)
(* smaller one does, with the same values: every hit of the smaller cache is *)
(* a hit of the larger.                                                    *)
THEOREM LargerHoldsMore == CachesSpec => []Inclusion
<1>1. PairInv => Inclusion
  BY PairFacts DEF PairInv, Inclusion, Lru!Inclusion, Lru!Before, Agree, Before
<1>. QED BY <1>1, PairInvariance, PTL

(* list_ and map_ of both stay one index of one list, within the capacity.   *)
THEOREM BothStayIndexed == CachesSpec => []BothIndexed
<1>1. PairInv => BothIndexed
  BY DEF PairInv, SmallIsLru, LargeIsLru, IsLru, BothIndexed, Lru!BothIndexed,
         Lru!Small!Indexed, Lru!Large!Indexed, Lru!Small!NoRepeats, Lru!Large!NoRepeats,
         Lru!Small!ToSet, Lru!Large!ToSet, NoRepeats, ToSet
<1>. QED BY <1>1, PairInvariance, PTL
-----------------------------------------------------------------------------
(* Each of the two is the lossy map that AdaptiveCache promises.            *)
LEMMA SmallHonours ==
  ASSUME PairInv
  PROVE  /\ \A k \in Keys :
              /\ Lru!Small!Get(k) => Lru!Small!Contract!Read
              /\ Lru!Small!Erase(k) => Lru!Small!Contract!Erase(k)
              /\ \A v \in Values : Lru!Small!Put(k, v) => Lru!Small!Contract!Put(k, v)
         /\ \A c \in Capacities : Lru!Small!Resize(c) => Lru!Small!Contract!Resize(c)
         /\ Lru!Small!Clear => Lru!Small!Contract!Clear
<1>1. SP!IInv
  BY SmallInvariant DEF PairInv, SmallIsLru
<1>2. \A S : SP!Contract!Cardinality(S) = Lru!Small!Contract!Cardinality(S)
  BY DEF SP!Contract!Cardinality, Lru!Small!Contract!Cardinality
<1>3. ASSUME NEW k \in Keys, Lru!Small!Get(k) PROVE Lru!Small!Contract!Read
  BY <1>3 DEF Lru!Small!Get, Lru!Small!Contract!Read, Lru!Small!Contract!cvars
<1>4. ASSUME NEW k \in Keys, Lru!Small!Erase(k) PROVE Lru!Small!Contract!Erase(k)
  BY <1>4 DEF Lru!Small!Erase, Lru!Small!Contract!Erase, Lru!Small!Contract!Only,
              Lru!Small!Contract!Present
<1>5. ASSUME NEW k \in Keys, NEW v \in Values, Lru!Small!Put(k, v)
      PROVE  Lru!Small!Contract!Put(k, v)
  <2>1. SP!Put(k, v)
    BY <1>5, SmallSteps
  <2>2. SP!Contract!Put(k, v)
    BY <1>1, <2>1, LruAssumptions, SP!PutPuts
  <2>. QED BY <1>2, <2>2
         DEF SP!Contract!Put, SP!Contract!Overwrite, SP!Contract!Insert,
             SP!Contract!Refuse, SP!Contract!Present, SP!Contract!cvars,
             Lru!Small!Contract!Put, Lru!Small!Contract!Overwrite,
             Lru!Small!Contract!Insert, Lru!Small!Contract!Refuse,
             Lru!Small!Contract!Present, Lru!Small!Contract!cvars
<1>6. ASSUME NEW c \in Capacities, Lru!Small!Resize(c)
      PROVE  Lru!Small!Contract!Resize(c)
  <2>1. SP!Resize(c)
    BY <1>6, SmallSteps
  <2>2. SP!Contract!Resize(c)
    BY <1>1, <2>1, LruAssumptions, SP!ResizeResizes
  <2>. QED BY <1>2, <2>2
         DEF SP!Contract!Resize, SP!Contract!Only, SP!Contract!Present,
             Lru!Small!Contract!Resize, Lru!Small!Contract!Only,
             Lru!Small!Contract!Present
<1>7. ASSUME Lru!Small!Clear PROVE Lru!Small!Contract!Clear
  BY <1>7 DEF Lru!Small!Clear, Lru!Small!Contract!Clear
<1>. QED BY <1>3, <1>4, <1>5, <1>6, <1>7

LEMMA SmallImplements == CachesSpec => Lru!Small!ImplementsContract
<1>. DEFINE Step ==
       /\ \A k \in Keys :
            /\ Lru!Small!Get(k) => Lru!Small!Contract!Read
            /\ Lru!Small!Erase(k) => Lru!Small!Contract!Erase(k)
            /\ \A v \in Values : Lru!Small!Put(k, v) => Lru!Small!Contract!Put(k, v)
       /\ \A c \in Capacities : Lru!Small!Resize(c) => Lru!Small!Contract!Resize(c)
       /\ Lru!Small!Clear => Lru!Small!Contract!Clear
<1>1. CachesInit => Lru!Small!Contract!Init
  BY DEF CachesInit, Lru!Init, Lru!Small!Init, Lru!Small!Contract!Init
<1>2. PairInv => Step
  BY SmallHonours
<1>. QED BY <1>1, <1>2, PairInvariance, PTL DEF CachesSpec, Lru!Small!ImplementsContract

LEMMA LargeHonours ==
  ASSUME PairInv
  PROVE  /\ \A k \in Keys :
              /\ Lru!Large!Get(k) => Lru!Large!Contract!Read
              /\ Lru!Large!Erase(k) => Lru!Large!Contract!Erase(k)
              /\ \A v \in Values : Lru!Large!Put(k, v) => Lru!Large!Contract!Put(k, v)
         /\ \A c \in Capacities : Lru!Large!Resize(c) => Lru!Large!Contract!Resize(c)
         /\ Lru!Large!Clear => Lru!Large!Contract!Clear
<1>1. LP!IInv
  BY LargeInvariant DEF PairInv, LargeIsLru
<1>2. \A S : LP!Contract!Cardinality(S) = Lru!Large!Contract!Cardinality(S)
  BY DEF LP!Contract!Cardinality, Lru!Large!Contract!Cardinality
<1>3. ASSUME NEW k \in Keys, Lru!Large!Get(k) PROVE Lru!Large!Contract!Read
  BY <1>3 DEF Lru!Large!Get, Lru!Large!Contract!Read, Lru!Large!Contract!cvars
<1>4. ASSUME NEW k \in Keys, Lru!Large!Erase(k) PROVE Lru!Large!Contract!Erase(k)
  BY <1>4 DEF Lru!Large!Erase, Lru!Large!Contract!Erase, Lru!Large!Contract!Only,
              Lru!Large!Contract!Present
<1>5. ASSUME NEW k \in Keys, NEW v \in Values, Lru!Large!Put(k, v)
      PROVE  Lru!Large!Contract!Put(k, v)
  <2>1. LP!Put(k, v)
    BY <1>5, LargeSteps
  <2>2. LP!Contract!Put(k, v)
    BY <1>1, <2>1, LruAssumptions, LP!PutPuts
  <2>. QED BY <1>2, <2>2
         DEF LP!Contract!Put, LP!Contract!Overwrite, LP!Contract!Insert,
             LP!Contract!Refuse, LP!Contract!Present, LP!Contract!cvars,
             Lru!Large!Contract!Put, Lru!Large!Contract!Overwrite,
             Lru!Large!Contract!Insert, Lru!Large!Contract!Refuse,
             Lru!Large!Contract!Present, Lru!Large!Contract!cvars
<1>6. ASSUME NEW c \in Capacities, Lru!Large!Resize(c)
      PROVE  Lru!Large!Contract!Resize(c)
  <2>1. LP!Resize(c)
    BY <1>6, LargeSteps
  <2>2. LP!Contract!Resize(c)
    BY <1>1, <2>1, LruAssumptions, LP!ResizeResizes
  <2>. QED BY <1>2, <2>2
         DEF LP!Contract!Resize, LP!Contract!Only, LP!Contract!Present,
             Lru!Large!Contract!Resize, Lru!Large!Contract!Only,
             Lru!Large!Contract!Present
<1>7. ASSUME Lru!Large!Clear PROVE Lru!Large!Contract!Clear
  BY <1>7 DEF Lru!Large!Clear, Lru!Large!Contract!Clear
<1>. QED BY <1>3, <1>4, <1>5, <1>6, <1>7

LEMMA LargeImplements == CachesSpec => Lru!Large!ImplementsContract
<1>. DEFINE Step ==
       /\ \A k \in Keys :
            /\ Lru!Large!Get(k) => Lru!Large!Contract!Read
            /\ Lru!Large!Erase(k) => Lru!Large!Contract!Erase(k)
            /\ \A v \in Values : Lru!Large!Put(k, v) => Lru!Large!Contract!Put(k, v)
       /\ \A c \in Capacities : Lru!Large!Resize(c) => Lru!Large!Contract!Resize(c)
       /\ Lru!Large!Clear => Lru!Large!Contract!Clear
<1>1. CachesInit => Lru!Large!Contract!Init
  BY DEF CachesInit, Lru!Init, Lru!Large!Init, Lru!Large!Contract!Init
<1>2. PairInv => Step
  BY LargeHonours
<1>. QED BY <1>1, <1>2, PairInvariance, PTL DEF CachesSpec, Lru!Large!ImplementsContract

(* All of what make_cache() builds for "lru" and "lfu" is the lossy map that  *)
(* AdaptiveCache promises, call by call.                                   *)
THEOREM CachesHonourContract == CachesSpec => CachesImplementContract
<1>1. CachesSpec => Spec
  <2>1. CachesInit => Init
    BY DEF CachesInit
  <2>2. [CachesNext]_<<vars, lruVars>> => [Next]_vars
    BY DEF CachesNext
  <2>. QED BY <2>1, <2>2, PTL DEF CachesSpec, Spec
<1>2. Spec => ImplementsContract
  BY CachesAssumption, ImplementsTheContract
<1>. QED BY <1>1, <1>2, SmallImplements, LargeImplements, PTL DEF CachesImplementContract
=============================================================================
