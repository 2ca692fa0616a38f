--------------------------- MODULE LRUCacheProofs ---------------------------
(***************************************************************************)
(* Proofs about LRUCache, for any keys, values and capacities: list_ and    *)
(* map_ stay one index of one list within the capacity, and the cache is    *)
(* the lossy map that AdaptiveCache promises.                              *)
(***************************************************************************)
EXTENDS LRUCache, CollectionProofs, FiniteSetTheorems

IInv ==
  /\ nodes \in Seq(Keys)
  /\ NoRepeats(nodes)
  /\ map \in [DOMAIN map -> Values]
  /\ ToSet(nodes) = DOMAIN map
  /\ capacity \in Capacities
  /\ Len(nodes) <= capacity

(* put() of a new key: the index gains the key, and loses one entry at most; *)
(* the new one only if there is no room for any.                           *)
Loses(k, v) ==
  \E lost \in SUBSET (DOMAIN map \cup {k}) :
     /\ Cardinality(lost) <= 1
     /\ k \in lost => capacity = 0 /\ DOMAIN map = {} /\ lost = {k}
     /\ map' = [x \in (DOMAIN map \cup {k}) \ lost |-> IF x = k THEN v ELSE map[x]]

(* resize(): what is kept of the index.                                    *)
Keeps(c) ==
  \E kept \in SUBSET DOMAIN map :
     /\ \/ kept = DOMAIN map /\ Cardinality(kept) <= c
        \/ Cardinality(kept) = c
     /\ map' = [x \in kept |-> map[x]]

-----------------------------------------------------------------------------
(* evict_if_over() on a list of different keys. *)
LEMMA EvictionKeeps ==
  ASSUME NEW S, NEW l \in Seq(S), NoRepeats(l), NEW c \in Nat
  PROVE  /\ Kept(l, c) \in Seq(S) /\ NoRepeats(Kept(l, c))
         /\ Len(Kept(l, c)) = IF Len(l) > c THEN c ELSE Len(l)
         /\ Dropped(l, c) \subseteq ToSet(l)
         /\ ToSet(Kept(l, c)) = ToSet(l) \ Dropped(l, c)
         /\ \A x : x \in Dropped(l, c) <=>
              \E i \in (Len(Kept(l, c)) + 1)..Len(l) : l[i] = x
<1> DEFINE n == IF Len(l) > c THEN c ELSE Len(l)
           u == SubSeq(l, 1, n)
           d == SubSeq(l, n + 1, Len(l))
<1>1. Len(l) \in Nat /\ n \in 0..Len(l)
  BY LenProperties
<1>2. Len(l) - Overflow(l, c) = n
  BY <1>1 DEF Overflow
<1>3. Kept(l, c) = u /\ Dropped(l, c) = ToSet(d)
  BY <1>2 DEF Kept, Dropped
<1>4. \A i \in 1..Len(l) : l[i] \in S
  BY ElementOfSeq
<1>5. u \in Seq(S) /\ NoRepeats(u) /\ Len(u) = n
  BY <1>1, PrefixProperties
<1>6. \A i \in 1..n : u[i] = l[i]
  BY <1>1, <1>4, SubSeqProperties
<1>7. /\ d \in Seq(S) /\ Len(d) = Len(l) - n
      /\ \A i \in 1..(Len(l) - n) : d[i] = l[n + i]
  <2>1. n + 1 \in Int /\ Len(l) \in Int /\ \A i \in (n + 1)..Len(l) : l[i] \in S
    BY <1>1, <1>4
  <2> HIDE DEF n
  <2>2. /\ d \in Seq(S)
        /\ Len(d) = IF n + 1 <= Len(l) THEN Len(l) - (n + 1) + 1 ELSE 0
        /\ \A i \in 1..(Len(l) - (n + 1) + 1) : d[i] = l[n + 1 + i - 1]
    BY <2>1, SubSeqProperties
  <2>3. Len(d) = Len(l) - n
    BY <1>1, <2>2
  <2>4. \A i \in 1..(Len(l) - n) : d[i] = l[n + i]
    <3> SUFFICES ASSUME NEW i \in 1..(Len(l) - n) PROVE d[i] = l[n + i]
      OBVIOUS
    <3>1. i \in 1..(Len(l) - (n + 1) + 1) /\ n + 1 + i - 1 = n + i
      BY <1>1
    <3> QED
      BY <2>2, <3>1
  <2> QED
    BY <2>2, <2>3, <2>4
<1> HIDE DEF n, u, d
<1>8. \A x : x \in ToSet(d) <=> \E i \in (n + 1)..Len(l) : l[i] = x
  <2>1. ASSUME NEW x \in ToSet(d) PROVE \E i \in (n + 1)..Len(l) : l[i] = x
    <3>1. PICK j \in 1..Len(d) : d[j] = x
      BY <1>7, KeysOfList
    <3>2. n + j \in (n + 1)..Len(l) /\ l[n + j] = x
      BY <1>1, <1>7, <3>1
    <3> QED
      BY <3>2
  <2>2. ASSUME NEW i \in (n + 1)..Len(l) PROVE l[i] \in ToSet(d)
    <3>1. i - n \in 1..Len(d) /\ d[i - n] = l[n + (i - n)]
      BY <1>1, <1>7
    <3>2. d[i - n] = l[i]
      BY <1>1, <3>1
    <3> QED
      BY <1>7, <3>1, <3>2, KeysOfList
  <2> QED
    BY <2>1, <2>2
<1>9. \A x : x \in ToSet(u) <=> \E i \in 1..n : l[i] = x
  <2>1. \A x : x \in ToSet(u) <=> \E i \in 1..Len(u) : u[i] = x
    BY <1>5, KeysOfList
  <2> QED
    BY <1>5, <1>6, <2>1
<1>10. \A x : x \in ToSet(l) <=> \E i \in 1..Len(l) : l[i] = x
  BY KeysOfList
<1>11. ToSet(d) \subseteq ToSet(l)
  BY <1>1, <1>8, <1>10
<1>12. ToSet(u) = ToSet(l) \ ToSet(d)
  <2>1. ASSUME NEW x \in ToSet(u) PROVE x \in ToSet(l) /\ x \notin ToSet(d)
    <3>1. PICK i \in 1..n : l[i] = x
      BY <1>9
    <3>2. i \in 1..Len(l)
      BY <1>1
    <3>3. \A j \in (n + 1)..Len(l) : l[j] # l[i]
      BY <1>1, <3>2 DEF NoRepeats
    <3> QED
      BY <1>8, <1>10, <3>1, <3>2, <3>3
  <2>2. ASSUME NEW x \in ToSet(l), x \notin ToSet(d) PROVE x \in ToSet(u)
    <3>1. PICK i \in 1..Len(l) : l[i] = x
      BY <1>10
    <3>2. i \in 1..n
      BY <1>1, <1>8, <2>2, <3>1
    <3> QED
      BY <1>9, <3>1, <3>2
  <2> QED
    BY <2>1, <2>2
<1>13. n = IF Len(l) > c THEN c ELSE Len(l)
  BY DEF n
<1> QED
  BY <1>3, <1>5, <1>8, <1>11, <1>12, <1>13

(* What put() of a new key leaves of list and index.                        *)
LEMMA PutInserts ==
  ASSUME LRUAssumption, IInv, NEW k \in Keys, NEW v \in Values, Put(k, v),
         k \notin DOMAIN map
  PROVE  IInv' /\ Loses(k, v)
<1> DEFINE l == PushFront(nodes, k)
           m == [x \in DOMAIN map \cup {k} |-> IF x = k THEN v ELSE map[x]]
           lost == Dropped(l, capacity)
<1>1. /\ nodes' = Kept(l, capacity)
      /\ map' = [x \in DOMAIN m \ lost |-> m[x]]
      /\ capacity' = capacity
  BY DEF Put, EvictIfOver
<1>2. /\ l \in Seq(Keys) /\ NoRepeats(l)
      /\ ToSet(l) = DOMAIN map \cup {k} /\ Len(l) = Len(nodes) + 1
  BY PushFrontProperties DEF IInv
<1>3. capacity \in Nat /\ Len(nodes) \in Nat /\ Len(nodes) <= capacity
  BY LenProperties DEF IInv, LRUAssumption
<1>4. l[1] = k
  BY DEF PushFront, Cons
<1> HIDE DEF l
<1>5. /\ Kept(l, capacity) \in Seq(Keys) /\ NoRepeats(Kept(l, capacity))
      /\ Len(Kept(l, capacity)) = IF Len(l) > capacity THEN capacity ELSE Len(l)
      /\ lost \subseteq ToSet(l)
      /\ ToSet(Kept(l, capacity)) = ToSet(l) \ lost
      /\ \A x : x \in lost <=>
           \E i \in (Len(Kept(l, capacity)) + 1)..Len(l) : l[i] = x
  BY <1>2, <1>3, EvictionKeeps
<1> HIDE DEF lost
<1>6. DOMAIN map' = (DOMAIN map \cup {k}) \ lost
  BY <1>1
<1>7. map' = [x \in (DOMAIN map \cup {k}) \ lost |-> IF x = k THEN v ELSE map[x]]
  BY <1>1
<1>8. IInv'
  <2>1. map' \in [DOMAIN map' -> Values]
    <3>1. map \in [DOMAIN map -> Values]
      BY DEF IInv
    <3> QED
      BY <1>6, <1>7, <3>1
  <2> QED
    BY <1>1, <1>2, <1>3, <1>5, <1>6, <2>1 DEF IInv
<1>9. lost \subseteq {l[Len(l)]}
  <2>1. \A i \in (Len(Kept(l, capacity)) + 1)..Len(l) : i = Len(l)
    BY <1>2, <1>3, <1>5
  <2> QED
    BY <1>5, <2>1
<1>10. Cardinality(lost) <= 1
  <2>1. IsFiniteSet({l[Len(l)]}) /\ Cardinality({l[Len(l)]}) = 1
    BY FS_Singleton
  <2> QED
    BY <1>9, <2>1, FS_Subset
<1>11. ASSUME k \in lost PROVE capacity = 0 /\ DOMAIN map = {} /\ lost = {k}
  <2>1. PICK i \in (Len(Kept(l, capacity)) + 1)..Len(l) : l[i] = k
    BY <1>5, <1>11
  <2>2. Len(l) \in Nat /\ 1 \in 1..Len(l) /\ i \in 1..Len(l)
    BY <1>2, <1>3, <1>5
  <2>3. i = 1
    BY <1>2, <1>4, <2>1, <2>2 DEF NoRepeats
  <2>4. Len(Kept(l, capacity)) = 0
    BY <1>2, <1>3, <1>5, <2>1, <2>3
  <2>5. capacity = 0 /\ Len(nodes) = 0
    BY <1>2, <1>3, <1>5, <2>4
  <2>6. DOMAIN map = {}
    <3>1. nodes \in Seq(Keys) /\ ToSet(nodes) = DOMAIN map
      BY DEF IInv
    <3>2. \A x : x \in ToSet(nodes) <=> \E j \in 1..Len(nodes) : nodes[j] = x
      BY <3>1, KeysOfList
    <3>3. 1..Len(nodes) = {}
      BY <2>5
    <3> QED
      BY <3>1, <3>2, <3>3, Zenon
  <2> QED
    BY <1>2, <1>5, <1>11, <2>5, <2>6
<1>12. lost \in SUBSET (DOMAIN map \cup {k})
  BY <1>2, <1>5
<1> QED
  BY <1>7, <1>8, <1>10, <1>11, <1>12 DEF Loses

(* What resize() leaves of list and index.                                  *)
LEMMA ResizeLeaves ==
  ASSUME LRUAssumption, IInv, NEW c \in Capacities, Resize(c)
  PROVE  IInv' /\ Keeps(c)
<1> DEFINE kept == DOMAIN map \ Dropped(nodes, c)
<1>1. /\ nodes' = Kept(nodes, c)
      /\ map' = [x \in kept |-> map[x]]
      /\ capacity' = c
  BY DEF Resize, EvictIfOver
<1>2. c \in Nat /\ nodes \in Seq(Keys) /\ NoRepeats(nodes) /\ ToSet(nodes) = DOMAIN map
  BY DEF LRUAssumption, IInv
<1>3. /\ Kept(nodes, c) \in Seq(Keys) /\ NoRepeats(Kept(nodes, c))
      /\ Len(Kept(nodes, c)) = IF Len(nodes) > c THEN c ELSE Len(nodes)
      /\ ToSet(Kept(nodes, c)) = kept
  BY <1>2, EvictionKeeps
<1>4. Len(nodes) \in Nat
  BY <1>2, LenProperties
<1>5. IInv'
  <2>1. DOMAIN map' = kept
    BY <1>1
  <2>2. map' \in [DOMAIN map' -> Values]
    <3>1. map \in [DOMAIN map -> Values]
      BY DEF IInv
    <3> QED
      BY <1>1, <2>1, <3>1
  <2> QED
    BY <1>1, <1>2, <1>3, <1>4, <2>1, <2>2 DEF IInv
<1>6. Cardinality(kept) = Len(Kept(nodes, c))
  BY <1>3, KeysCounted
<1>7. CASE Len(nodes) > c
  <2>1. Cardinality(kept) = c
    BY <1>3, <1>6, <1>7
  <2> QED
    BY <1>1, <1>5, <2>1 DEF Keeps
<1>8. CASE ~(Len(nodes) > c)
  <2>1. Len(Kept(nodes, c)) = Len(nodes)
    BY <1>3, <1>8
  <2>2. \A x : x \notin Dropped(nodes, c)
    <3>1. \A x : x \in Dropped(nodes, c) <=>
            \E i \in (Len(Kept(nodes, c)) + 1)..Len(nodes) : nodes[i] = x
      BY <1>2, EvictionKeeps
    <3> QED
      BY <1>4, <2>1, <3>1
  <2>3. kept = DOMAIN map
    BY <2>2
  <2>4. Cardinality(kept) <= c
    BY <1>2, <1>4, <1>6, <1>8, <2>1
  <2> QED
    BY <1>1, <1>5, <2>3, <2>4 DEF Keeps
<1> QED
  BY <1>7, <1>8

-----------------------------------------------------------------------------
LEMMA InitIInv == ASSUME LRUAssumption, Init PROVE IInv
<1>1. NoRepeats(<< >>) /\ ToSet(<< >>) = {}
  BY DEF NoRepeats, ToSet
<1> QED
  BY <1>1 DEF Init, IInv, LRUAssumption

LEMMA GetKeeps ==
  ASSUME LRUAssumption, IInv, NEW k \in Keys, Get(k) PROVE IInv'
<1>1. CASE k \in DOMAIN map
  <2>1. nodes' = Touch(nodes, k) /\ UNCHANGED <<map, capacity>>
    BY <1>1 DEF Get
  <2>2. /\ Touch(nodes, k) \in Seq(Keys) /\ NoRepeats(Touch(nodes, k))
        /\ ToSet(Touch(nodes, k)) = ToSet(nodes) \cup {k}
        /\ Len(Touch(nodes, k)) = IF k \in ToSet(nodes) THEN Len(nodes) ELSE Len(nodes) + 1
    BY TouchProperties DEF IInv
  <2>3. k \in ToSet(nodes) /\ ToSet(nodes) \cup {k} = ToSet(nodes)
    BY <1>1 DEF IInv
  <2> QED
    BY <2>1, <2>2, <2>3 DEF IInv
<1>2. CASE k \notin DOMAIN map
  BY <1>2 DEF Get, IInv
<1> QED
  BY <1>1, <1>2

LEMMA PutKeeps ==
  ASSUME LRUAssumption, IInv, NEW k \in Keys, NEW v \in Values, Put(k, v) PROVE IInv'
<1>1. CASE k \in DOMAIN map
  <2>1. /\ nodes' = Touch(nodes, k) /\ capacity' = capacity
        /\ map' = [map EXCEPT ![k] = v]
    BY <1>1 DEF Put
  <2>2. DOMAIN map' = DOMAIN map /\ map' \in [DOMAIN map -> Values]
    BY <2>1 DEF IInv
  <2>3. /\ Touch(nodes, k) \in Seq(Keys) /\ NoRepeats(Touch(nodes, k))
        /\ ToSet(Touch(nodes, k)) = ToSet(nodes) \cup {k}
        /\ Len(Touch(nodes, k)) = IF k \in ToSet(nodes) THEN Len(nodes) ELSE Len(nodes) + 1
    BY TouchProperties DEF IInv
  <2>4. k \in ToSet(nodes) /\ ToSet(nodes) \cup {k} = ToSet(nodes)
    BY <1>1 DEF IInv
  <2> QED
    BY <2>1, <2>2, <2>3, <2>4 DEF IInv
<1>2. CASE k \notin DOMAIN map
  BY <1>2, PutInserts
<1> QED
  BY <1>1, <1>2

LEMMA EraseKeeps ==
  ASSUME LRUAssumption, IInv, NEW k \in Keys, Erase(k) PROVE IInv'
<1>1. /\ DOMAIN map' = DOMAIN map \ {k} /\ capacity' = capacity
      /\ map' \in [DOMAIN map' -> Values]
  BY DEF Erase, IInv
<1>2. nodes \in Seq(Keys) /\ Len(nodes) \in Nat /\ capacity \in Nat
  BY LenProperties DEF IInv, LRUAssumption
<1>3. CASE k \in DOMAIN map
  <2>1. nodes' = Unlink(nodes, k)
    BY <1>3 DEF Erase
  <2> QED
    BY <1>1, <1>2, <1>3, <2>1, UnlinkProperties DEF IInv
<1>4. CASE k \notin DOMAIN map
  <2>1. nodes' = nodes /\ DOMAIN map \ {k} = DOMAIN map
    BY <1>4 DEF Erase
  <2> QED
    BY <1>1, <2>1 DEF IInv
<1> QED
  BY <1>3, <1>4

LEMMA ClearKeeps == ASSUME LRUAssumption, IInv, Clear PROVE IInv'
<1>1. NoRepeats(<< >>) /\ ToSet(<< >>) = {}
  BY DEF NoRepeats, ToSet
<1>2. /\ nodes' = << >> /\ DOMAIN map' = {} /\ capacity' = capacity
      /\ map' \in [DOMAIN map' -> Values]
  BY DEF Clear
<1>3. << >> \in Seq(Keys) /\ Len(<< >>) = 0
  OBVIOUS
<1>4. capacity \in Nat
  BY DEF IInv, LRUAssumption
<1> QED
  BY <1>1, <1>2, <1>3, <1>4 DEF IInv

LEMMA Invariance == ASSUME LRUAssumption PROVE Spec => []IInv
<1>1. Init => IInv
  BY InitIInv
<1>2. IInv /\ [Next]_vars => IInv'
  <2> SUFFICES ASSUME IInv, [Next]_vars PROVE IInv'
    OBVIOUS
  <2>1. ASSUME NEW k \in Keys, Get(k) PROVE IInv'
    BY <2>1, GetKeeps
  <2>2. ASSUME NEW k \in Keys, Erase(k) PROVE IInv'
    BY <2>2, EraseKeeps
  <2>3. ASSUME NEW k \in Keys, NEW v \in Values, Put(k, v) PROVE IInv'
    BY <2>3, PutKeeps
  <2>4. ASSUME NEW c \in Capacities, Resize(c) PROVE IInv'
    BY <2>4, ResizeLeaves
  <2>5. CASE Clear
    BY <2>5, ClearKeeps
  <2>6. CASE UNCHANGED vars
    BY <2>6 DEF vars, IInv
  <2> QED
    BY <2>1, <2>2, <2>3, <2>4, <2>5, <2>6 DEF Next
<1> QED
  BY <1>1, <1>2, PTL DEF Spec

(* list_ and map_ of LRUCache stay one index of one list, within the        *)
(* capacity, whatever the calls.                                           *)
THEOREM ListAndIndexAgree == ASSUME LRUAssumption PROVE Spec => []Indexed
<1>1. IInv => Indexed
  BY DEF IInv, Indexed
<1>2. Spec => []IInv
  BY Invariance
<1> QED
  BY <1>1, <1>2, PTL

-----------------------------------------------------------------------------
LEMMA SameCardinality == \A S : Contract!Cardinality(S) = Cardinality(S)
  BY DEF Contract!Cardinality, Cardinality

LEMMA PutPuts ==
  ASSUME LRUAssumption, IInv, NEW k \in Keys, NEW v \in Values, Put(k, v)
  PROVE  Contract!Put(k, v)
<1>1. CASE k \in DOMAIN map
  BY <1>1 DEF Put, Contract!Put, Contract!Overwrite, Contract!Present
<1>2. CASE k \notin DOMAIN map
  <2>1. PICK lost \in SUBSET (DOMAIN map \cup {k}) :
          /\ Cardinality(lost) <= 1
          /\ k \in lost => capacity = 0 /\ DOMAIN map = {} /\ lost = {k}
          /\ map' = [x \in (DOMAIN map \cup {k}) \ lost |->
                       IF x = k THEN v ELSE map[x]]
    <3>1. Loses(k, v)
      BY <1>2, PutInserts
    <3> QED
      BY <3>1 DEF Loses
  <2>2. capacity' = capacity
    BY DEF Put
  <2>3. CASE k \in lost
    <3>1. DOMAIN map = {} /\ (DOMAIN map \cup {k}) \ lost = {}
      BY <2>1, <2>3
    <3>2. capacity = 0
      BY <2>1, <2>3
    <3>3. map' = [x \in {} |-> IF x = k THEN v ELSE map[x]]
      BY <2>1, <3>1
    <3>4. map \in [DOMAIN map -> Values]
      BY DEF IInv
    <3>5. map' = map
      BY <3>1, <3>3, <3>4
    <3> QED
      BY <1>2, <2>2, <3>2, <3>5
         DEF Contract!Put, Contract!Refuse, Contract!Present, Contract!cvars
  <2>4. CASE k \notin lost
    <3>1. (DOMAIN map \cup {k}) \ lost = (DOMAIN map \ lost) \cup {k}
      BY <2>4
    <3>2. map' = [x \in (DOMAIN map \ lost) \cup {k} |-> IF x = k THEN v ELSE map[x]]
      BY <2>1, <3>1
    <3>3. lost \in SUBSET DOMAIN map
      BY <2>1, <2>4
    <3>4. Contract!Insert(k, v)
      BY <1>2, <2>1, <2>2, <3>2, <3>3, SameCardinality
         DEF Contract!Insert, Contract!Present
    <3> QED
      BY <3>4 DEF Contract!Put
  <2> QED
    BY <2>3, <2>4
<1> QED
  BY <1>1, <1>2

LEMMA ResizeResizes ==
  ASSUME LRUAssumption, IInv, NEW c \in Capacities, Resize(c)
  PROVE  Contract!Resize(c)
<1>1. PICK kept \in SUBSET DOMAIN map :
        /\ \/ kept = DOMAIN map /\ Cardinality(kept) <= c
           \/ Cardinality(kept) = c
        /\ map' = [x \in kept |-> map[x]]
  <2>1. Keeps(c)
    BY ResizeLeaves
  <2> QED
    BY <2>1 DEF Keeps
<1>2. capacity' = c
  BY DEF Resize
<1> QED
  BY <1>1, <1>2, SameCardinality DEF Contract!Resize, Contract!Only, Contract!Present

(* LRUCache implements AdaptiveCache, call by call: it is the lossy map of   *)
(* CacheContract, for any keys, values and capacities.                     *)
THEOREM ImplementsTheContract == ASSUME LRUAssumption PROVE Spec => ImplementsContract
<1> DEFINE Step ==
      /\ \A k \in Keys :
            /\ Get(k) => Contract!Read
            /\ Erase(k) => Contract!Erase(k)
            /\ \A v \in Values : Put(k, v) => Contract!Put(k, v)
      /\ \A c \in Capacities : Resize(c) => Contract!Resize(c)
      /\ Clear => Contract!Clear
<1>1. Init => Contract!Init
  BY DEF Init, Contract!Init
<1>2. IInv => Step
  <2>1. \A k \in Keys : Get(k) => Contract!Read
    BY DEF Get, Contract!Read, Contract!cvars
  <2>2. \A k \in Keys : Erase(k) => Contract!Erase(k)
    BY DEF Erase, Contract!Erase, Contract!Only, Contract!Present
  <2>3. Clear => Contract!Clear
    BY DEF Clear, Contract!Clear
  <2> QED
    BY <2>1, <2>2, <2>3, PutPuts, ResizeResizes
<1>3. Spec => []IInv
  BY Invariance
<1> QED
  BY <1>1, <1>2, <1>3, PTL DEF Spec, ImplementsContract
=============================================================================
