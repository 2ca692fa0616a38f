--------------------------- MODULE ARCCacheProofs ---------------------------
(***************************************************************************)
(* ARCCache for any keys, values, capacities and hint lists.               *)
(***************************************************************************)
EXTENDS ARCCache, CollectionProofs, FiniteSetTheorems, TLAPS

(* The ghost lists are finite: only then do their sizes mean anything.     *)
FiniteGhosts(l) == IsFiniteSet(l.b1) /\ IsFiniteSet(l.b2)

(* What every operation on the lists needs and gives back.                 *)
Sound(l) ==
  /\ l \in ListRecords
  /\ Disjoint(l)
  /\ FiniteGhosts(l)

Known(l) == Resident(l) \cup l.b1 \cup l.b2

LEMMA SizesAreNat ==
  ASSUME NEW l, Sound(l)
  PROVE  /\ Len(l.t1) \in Nat /\ Len(l.t2) \in Nat
         /\ Cardinality(l.b1) \in Nat /\ Cardinality(l.b2) \in Nat
         /\ l.t1 \in Seq(Keys) /\ l.t2 \in Seq(Keys)
         /\ l.b1 \subseteq Keys /\ l.b2 \subseteq Keys
         /\ (l.t1 = << >> <=> Len(l.t1) = 0)
         /\ (l.t2 = << >> <=> Len(l.t2) = 0)
         /\ (l.b1 = {} <=> Cardinality(l.b1) = 0)
         /\ (l.b2 = {} <=> Cardinality(l.b2) = 0)
<1>1. l.t1 \in Seq(Keys) /\ l.t2 \in Seq(Keys)
  BY DEF Sound, ListRecords
<1>. QED
  BY <1>1, FS_CardinalityType, FS_EmptySet, LenProperties, EmptySeq
  DEF Sound, ListRecords, FiniteGhosts

(* A hit keeps the resident keys and the ghosts; t1_ can only get shorter. *)
LEMMA PromoteProperties ==
  ASSUME NEW l, Sound(l), NEW k \in Keys, k \in Resident(l)
  PROVE  LET r == Promote(l, k)
         IN  /\ Sound(r)
             /\ Resident(r) = Resident(l)
             /\ Size(r) = Size(l)
             /\ Len(r.t1) <= Len(l.t1)
             /\ r.b1 = l.b1 /\ r.b2 = l.b2
<1>0. /\ l.t1 \in Seq(Keys) /\ l.t2 \in Seq(Keys)
      /\ NoRepeats(l.t1) /\ NoRepeats(l.t2)
      /\ Len(l.t1) \in Nat /\ Len(l.t2) \in Nat
  BY SizesAreNat DEF Sound, Disjoint
<1>1. CASE Holds(l.t1, k)
  <2>1. k \in T1(l) /\ k \notin T2(l)
    BY <1>0, <1>1, KeysOfList DEF T1, T2, Sound, Disjoint
  <2>2. PICK a : a = Unlink(l.t1, k)
    OBVIOUS
  <2>3. /\ a \in Seq(Keys) /\ NoRepeats(a) /\ ToSet(a) = T1(l) \ {k}
        /\ Len(a) = Len(l.t1) - 1
    BY <1>0, <2>1, <2>2, UnlinkProperties DEF T1
  <2>4. PICK b : b = PushFront(l.t2, k)
    OBVIOUS
  <2>5. /\ b \in Seq(Keys) /\ NoRepeats(b) /\ ToSet(b) = T2(l) \cup {k}
        /\ Len(b) = Len(l.t2) + 1
    BY <1>0, <2>1, <2>4, PushFrontProperties DEF T2
  <2>6. Promote(l, k) = [l EXCEPT !.t1 = a, !.t2 = b]
    BY <1>1, <2>2, <2>4 DEF Promote
  <2>7. PICK r : r = Promote(l, k)
    OBVIOUS
  <2>8. /\ r \in ListRecords
        /\ r.t1 = a /\ r.t2 = b /\ r.b1 = l.b1 /\ r.b2 = l.b2
    BY <2>3, <2>5, <2>6, <2>7 DEF Sound, ListRecords
  <2>9. T1(r) = T1(l) \ {k} /\ T2(r) = T2(l) \cup {k}
    BY <2>3, <2>5, <2>8 DEF T1, T2
  <2>10. Resident(r) = Resident(l)
    BY <2>1, <2>9 DEF Resident
  <2>11. Sound(r)
    BY <2>1, <2>3, <2>5, <2>8, <2>9, <2>10 DEF Sound, Disjoint, FiniteGhosts
  <2>12. Size(r) = Size(l) /\ Len(r.t1) <= Len(l.t1)
    <3>1. Len(r.t1) = Len(l.t1) - 1 /\ Len(r.t2) = Len(l.t2) + 1
      BY <2>3, <2>5, <2>8
    <3>2. PICK m, n \in Nat : m = Len(l.t1) /\ n = Len(l.t2)
      BY <1>0
    <3>3. Size(r) = (m - 1) + (n + 1) /\ Size(l) = m + n
      BY <3>1, <3>2, Zenon DEF Size
    <3>4. Size(r) = Size(l)
      <4>1. (m - 1) + (n + 1) = m + n
        OBVIOUS
      <4>. QED BY <3>3, <4>1
    <3>5. Len(r.t1) <= Len(l.t1)
      BY <3>1, <3>2
    <3>. QED BY <3>4, <3>5
  <2>. QED BY <2>7, <2>8, <2>10, <2>11, <2>12
<1>2. CASE ~Holds(l.t1, k)
  <2>1. k \notin T1(l) /\ k \in T2(l)
    BY <1>0, <1>2, KeysOfList DEF T1, T2, Resident
  <2>2. PICK b : b = Touch(l.t2, k)
    OBVIOUS
  <2>3. /\ b \in Seq(Keys) /\ NoRepeats(b) /\ ToSet(b) = T2(l)
        /\ Len(b) = Len(l.t2)
    <3>1. /\ b \in Seq(Keys) /\ NoRepeats(b) /\ ToSet(b) = ToSet(l.t2) \cup {k}
          /\ Len(b) = IF k \in ToSet(l.t2) THEN Len(l.t2) ELSE Len(l.t2) + 1
      <4>1. Touch(l.t2, k) \in Seq(Keys) /\ NoRepeats(Touch(l.t2, k))
        BY <1>0, TouchProperties
      <4>2. ToSet(Touch(l.t2, k)) = ToSet(l.t2) \cup {k}
        BY <1>0, TouchProperties
      <4>3. Len(Touch(l.t2, k)) = IF k \in ToSet(l.t2) THEN Len(l.t2) ELSE Len(l.t2) + 1
        BY <1>0, TouchProperties
      <4>. QED BY <2>2, <4>1, <4>2, <4>3
    <3>. QED BY <2>1, <3>1 DEF T2
  <2>4. PICK r : r = Promote(l, k)
    OBVIOUS
  <2>5. r = [l EXCEPT !.t2 = b]
    BY <1>2, <2>2, <2>4 DEF Promote
  <2>6. /\ r \in ListRecords
        /\ r.t1 = l.t1 /\ r.t2 = b /\ r.b1 = l.b1 /\ r.b2 = l.b2
    BY <2>3, <2>5 DEF Sound, ListRecords
  <2>7. T1(r) = T1(l) /\ T2(r) = T2(l)
    BY <2>3, <2>6 DEF T1, T2
  <2>8. Resident(r) = Resident(l)
    BY <2>7 DEF Resident
  <2>9. Sound(r)
    BY <2>3, <2>6, <2>7, <2>8 DEF Sound, Disjoint, FiniteGhosts
  <2>10. Size(r) = Size(l) /\ Len(r.t1) <= Len(l.t1)
    <3>1. Len(r.t1) = Len(l.t1) /\ Len(r.t2) = Len(l.t2)
      BY <2>3, <2>6
    <3>. QED BY <1>0, <3>1 DEF Size
  <2>. QED BY <2>4, <2>6, <2>8, <2>9, <2>10
<1>. QED BY <1>1, <1>2

(* r is l after replace(): a tail of t1_ went to its ghosts, or a tail of   *)
(* t2_ did, or there was nothing to demote.                                *)
Demotion(l, r, target, inB2) ==
  \/ /\ DemotesT1(l, target, inB2)
     /\ Len(r.t1) = Len(l.t1) - 1
     /\ Len(r.t2) = Len(l.t2)
     /\ Cardinality(r.b1) = Cardinality(l.b1) + 1
     /\ Cardinality(r.b2) = Cardinality(l.b2)
  \/ /\ ~DemotesT1(l, target, inB2)
     /\ Len(l.t2) # 0
     /\ Len(r.t1) = Len(l.t1)
     /\ Len(r.t2) = Len(l.t2) - 1
     /\ Cardinality(r.b1) = Cardinality(l.b1)
     /\ Cardinality(r.b2) = Cardinality(l.b2) + 1
  \/ /\ ~DemotesT1(l, target, inB2)
     /\ Len(l.t2) = 0
     /\ Len(r.t1) = Len(l.t1)
     /\ Len(r.t2) = Len(l.t2)
     /\ Cardinality(r.b1) = Cardinality(l.b1)
     /\ Cardinality(r.b2) = Cardinality(l.b2)

(* replace() demotes one tail to the ghosts of its list, or finds nothing  *)
(* to demote; either way the same keys are known.                          *)
LEMMA ReplaceProperties ==
  ASSUME NEW l, Sound(l), NEW target, NEW inB2
  PROVE  LET r == Replace(l, target, inB2)
         IN  /\ Sound(r)
             /\ Known(r) = Known(l)
             /\ Resident(r) \subseteq Resident(l)
             /\ l.b1 \subseteq r.b1 /\ l.b2 \subseteq r.b2
             /\ Demotion(l, r, target, inB2)
<1>0. /\ l.t1 \in Seq(Keys) /\ l.t2 \in Seq(Keys)
      /\ l.b1 \in SUBSET Keys /\ l.b2 \in SUBSET Keys
      /\ NoRepeats(l.t1) /\ NoRepeats(l.t2)
      /\ IsFiniteSet(l.b1) /\ IsFiniteSet(l.b2)
      /\ (l.t2 = << >> <=> Len(l.t2) = 0)
  BY SizesAreNat DEF Sound, Disjoint, FiniteGhosts
<1>1. CASE DemotesT1(l, target, inB2)
  <2>1. PICK a : a = DropTail(l.t1)
    OBVIOUS
  <2>2. PICK x : x = Last(l.t1)
    OBVIOUS
  <2>3. /\ a \in Seq(Keys) /\ NoRepeats(a) /\ ToSet(a) = T1(l) \ {x}
        /\ x \in T1(l) /\ Len(a) = Len(l.t1) - 1
    BY <1>0, <1>1, <2>1, <2>2, DropTailProperties DEF T1, DemotesT1
  <2>4. x \in Keys /\ x \notin T2(l) \cup l.b1 \cup l.b2
    BY <1>0, <2>3, KeysOfList DEF T1, T2, Resident, Sound, Disjoint
  <2>5. PICK r : r = Replace(l, target, inB2)
    OBVIOUS
  <2>6. r = [l EXCEPT !.t1 = a, !.b1 = l.b1 \cup {x}]
    BY <1>1, <2>1, <2>2, <2>5 DEF Replace
  <2>7. /\ r \in ListRecords
        /\ r.t1 = a /\ r.t2 = l.t2 /\ r.b1 = l.b1 \cup {x} /\ r.b2 = l.b2
    BY <1>0, <2>3, <2>4, <2>6 DEF Sound, ListRecords
  <2>8. T1(r) = T1(l) \ {x} /\ T2(r) = T2(l)
    BY <2>3, <2>7 DEF T1, T2
  <2>9. /\ Known(r) = Known(l) /\ Resident(r) \subseteq Resident(l)
    BY <2>3, <2>7, <2>8 DEF Known, Resident
  <2>10. /\ IsFiniteSet(r.b1) /\ IsFiniteSet(r.b2)
         /\ Cardinality(r.b1) = Cardinality(l.b1) + 1
    BY <1>0, <2>4, <2>7, FS_AddElement
  <2>11. Sound(r)
    BY <1>0, <2>3, <2>4, <2>7, <2>8, <2>10 DEF Sound, Disjoint, FiniteGhosts, Resident
  <2>12. /\ Len(r.t1) = Len(l.t1) - 1 /\ Len(r.t2) = Len(l.t2)
         /\ Cardinality(r.b2) = Cardinality(l.b2)
         /\ l.b1 \subseteq r.b1 /\ l.b2 \subseteq r.b2
    BY <2>3, <2>7
  <2>. QED BY <1>1, <2>5, <2>7, <2>9, <2>10, <2>11, <2>12 DEF Demotion
<1>2. CASE ~DemotesT1(l, target, inB2) /\ l.t2 # << >>
  <2>1. PICK a : a = DropTail(l.t2)
    OBVIOUS
  <2>2. PICK x : x = Last(l.t2)
    OBVIOUS
  <2>3. /\ a \in Seq(Keys) /\ NoRepeats(a) /\ ToSet(a) = T2(l) \ {x}
        /\ x \in T2(l) /\ Len(a) = Len(l.t2) - 1
    BY <1>0, <1>2, <2>1, <2>2, DropTailProperties DEF T2
  <2>4. x \in Keys /\ x \notin T1(l) \cup l.b1 \cup l.b2
    BY <1>0, <2>3, KeysOfList DEF T1, T2, Resident, Sound, Disjoint
  <2>5. PICK r : r = Replace(l, target, inB2)
    OBVIOUS
  <2>6. r = [l EXCEPT !.t2 = a, !.b2 = l.b2 \cup {x}]
    BY <1>2, <2>1, <2>2, <2>5 DEF Replace
  <2>7. /\ r \in ListRecords
        /\ r.t1 = l.t1 /\ r.t2 = a /\ r.b1 = l.b1 /\ r.b2 = l.b2 \cup {x}
    BY <1>0, <2>3, <2>4, <2>6 DEF Sound, ListRecords
  <2>8. T1(r) = T1(l) /\ T2(r) = T2(l) \ {x}
    BY <2>3, <2>7 DEF T1, T2
  <2>9. /\ Known(r) = Known(l) /\ Resident(r) \subseteq Resident(l)
    BY <2>3, <2>7, <2>8 DEF Known, Resident
  <2>10. /\ IsFiniteSet(r.b1) /\ IsFiniteSet(r.b2)
         /\ Cardinality(r.b2) = Cardinality(l.b2) + 1
    BY <1>0, <2>4, <2>7, FS_AddElement
  <2>11. Sound(r)
    BY <1>0, <2>3, <2>4, <2>7, <2>8, <2>10 DEF Sound, Disjoint, FiniteGhosts, Resident
  <2>12. /\ Len(r.t1) = Len(l.t1) /\ Len(r.t2) = Len(l.t2) - 1
         /\ Cardinality(r.b1) = Cardinality(l.b1)
         /\ l.b1 \subseteq r.b1 /\ l.b2 \subseteq r.b2
    BY <2>3, <2>7
  <2>. QED BY <1>0, <1>2, <2>5, <2>7, <2>9, <2>10, <2>11, <2>12 DEF Demotion
<1>3. CASE ~DemotesT1(l, target, inB2) /\ l.t2 = << >>
  <2>1. Replace(l, target, inB2) = l
    BY <1>3 DEF Replace
  <2>. QED BY <1>0, <1>3, <2>1 DEF Demotion
<1>. QED BY <1>1, <1>2, <1>3

(* Forgetting ghosts. *)
LEMMA ForgetB1Properties ==
  ASSUME NEW l, Sound(l), NEW b, b \subseteq l.b1
  PROVE  LET r == [l EXCEPT !.b1 = b]
         IN  /\ Sound(r)
             /\ Resident(r) = Resident(l)
             /\ r.t1 = l.t1 /\ r.t2 = l.t2 /\ r.b1 = b /\ r.b2 = l.b2
<1>1. PICK r : r = [l EXCEPT !.b1 = b]
  OBVIOUS
<1>2. /\ r \in ListRecords
      /\ r.t1 = l.t1 /\ r.t2 = l.t2 /\ r.b1 = b /\ r.b2 = l.b2
  BY <1>1 DEF Sound, ListRecords
<1>3. IsFiniteSet(r.b1) /\ IsFiniteSet(r.b2)
  BY <1>2, FS_Subset DEF Sound, FiniteGhosts
<1>4. Sound(r) /\ Resident(r) = Resident(l)
  BY <1>2, <1>3 DEF Sound, Disjoint, FiniteGhosts, Resident, T1, T2
<1>. QED BY <1>1, <1>2, <1>4

LEMMA ForgetB2Properties ==
  ASSUME NEW l, Sound(l), NEW b, b \subseteq l.b2
  PROVE  LET r == [l EXCEPT !.b2 = b]
         IN  /\ Sound(r)
             /\ Resident(r) = Resident(l)
             /\ r.t1 = l.t1 /\ r.t2 = l.t2 /\ r.b1 = l.b1 /\ r.b2 = b
<1>1. PICK r : r = [l EXCEPT !.b2 = b]
  OBVIOUS
<1>2. /\ r \in ListRecords
      /\ r.t1 = l.t1 /\ r.t2 = l.t2 /\ r.b1 = l.b1 /\ r.b2 = b
  BY <1>1 DEF Sound, ListRecords
<1>3. IsFiniteSet(r.b1) /\ IsFiniteSet(r.b2)
  BY <1>2, FS_Subset DEF Sound, FiniteGhosts
<1>4. Sound(r) /\ Resident(r) = Resident(l)
  BY <1>2, <1>3 DEF Sound, Disjoint, FiniteGhosts, Resident, T1, T2
<1>. QED BY <1>1, <1>2, <1>4

(* A fresh key enters t1_. *)
LEMMA AdmitProperties ==
  ASSUME NEW l, Sound(l), NEW k \in Keys, k \notin Known(l)
  PROVE  LET r == [l EXCEPT !.t1 = PushFront(@, k)]
         IN  /\ Sound(r)
             /\ Resident(r) = Resident(l) \cup {k}
             /\ Len(r.t1) = Len(l.t1) + 1
             /\ r.t2 = l.t2 /\ r.b1 = l.b1 /\ r.b2 = l.b2
<1>0. /\ l.t1 \in Seq(Keys) /\ NoRepeats(l.t1) /\ k \notin ToSet(l.t1)
  BY SizesAreNat DEF Sound, Disjoint, Known, Resident, T1
<1>1. PICK a : a = PushFront(l.t1, k)
  OBVIOUS
<1>2. /\ a \in Seq(Keys) /\ NoRepeats(a) /\ ToSet(a) = T1(l) \cup {k}
      /\ Len(a) = Len(l.t1) + 1
  BY <1>0, <1>1, PushFrontProperties DEF T1
<1>3. PICK r : r = [l EXCEPT !.t1 = a]
  OBVIOUS
<1>4. /\ r \in ListRecords
      /\ r.t1 = a /\ r.t2 = l.t2 /\ r.b1 = l.b1 /\ r.b2 = l.b2
  BY <1>2, <1>3 DEF Sound, ListRecords
<1>5. T1(r) = T1(l) \cup {k} /\ T2(r) = T2(l)
  BY <1>2, <1>4 DEF T1, T2
<1>6. Sound(r) /\ Resident(r) = Resident(l) \cup {k}
  BY <1>2, <1>4, <1>5 DEF Sound, Disjoint, FiniteGhosts, Known, Resident
<1>7. Len(r.t1) = Len(l.t1) + 1
  BY <1>2, <1>4
<1>. QED BY <1>1, <1>3, <1>4, <1>6, <1>7

(* A ghost comes back to life at the front of t2_. *)
LEMMA ReviveB1Properties ==
  ASSUME NEW l, Sound(l), NEW k \in l.b1
  PROVE  LET r == [l EXCEPT !.b1 = @ \ {k}, !.t2 = PushFront(@, k)]
         IN  /\ Sound(r)
             /\ Resident(r) = Resident(l) \cup {k}
             /\ Len(r.t2) = Len(l.t2) + 1
             /\ Cardinality(r.b1) = Cardinality(l.b1) - 1
             /\ r.t1 = l.t1 /\ r.b2 = l.b2
<1>0. /\ l.t2 \in Seq(Keys) /\ NoRepeats(l.t2) /\ k \notin ToSet(l.t2)
      /\ k \in Keys /\ l.b1 \in SUBSET Keys /\ IsFiniteSet(l.b1)
  BY SizesAreNat DEF Sound, Disjoint, Resident, T2, FiniteGhosts
<1>1. PICK a : a = PushFront(l.t2, k)
  OBVIOUS
<1>2. /\ a \in Seq(Keys) /\ NoRepeats(a) /\ ToSet(a) = T2(l) \cup {k}
      /\ Len(a) = Len(l.t2) + 1
  BY <1>0, <1>1, PushFrontProperties DEF T2
<1>3. PICK r : r = [l EXCEPT !.b1 = @ \ {k}, !.t2 = a]
  OBVIOUS
<1>4. /\ r \in ListRecords
      /\ r.t1 = l.t1 /\ r.t2 = a /\ r.b1 = l.b1 \ {k} /\ r.b2 = l.b2
  BY <1>0, <1>2, <1>3 DEF Sound, ListRecords
<1>5. T1(r) = T1(l) /\ T2(r) = T2(l) \cup {k}
  BY <1>2, <1>4 DEF T1, T2
<1>6. IsFiniteSet(r.b1) /\ Cardinality(r.b1) = Cardinality(l.b1) - 1
  BY <1>0, <1>4, FS_RemoveElement
<1>7. Sound(r) /\ Resident(r) = Resident(l) \cup {k}
  BY <1>0, <1>2, <1>4, <1>5, <1>6 DEF Sound, Disjoint, FiniteGhosts, Resident
<1>8. Len(r.t2) = Len(l.t2) + 1
  BY <1>2, <1>4
<1>. QED BY <1>1, <1>3, <1>4, <1>6, <1>7, <1>8

LEMMA ReviveB2Properties ==
  ASSUME NEW l, Sound(l), NEW k \in l.b2
  PROVE  LET r == [l EXCEPT !.b2 = @ \ {k}, !.t2 = PushFront(@, k)]
         IN  /\ Sound(r)
             /\ Resident(r) = Resident(l) \cup {k}
             /\ Len(r.t2) = Len(l.t2) + 1
             /\ Cardinality(r.b2) = Cardinality(l.b2) - 1
             /\ r.t1 = l.t1 /\ r.b1 = l.b1
<1>0. /\ l.t2 \in Seq(Keys) /\ NoRepeats(l.t2) /\ k \notin ToSet(l.t2)
      /\ k \in Keys /\ l.b2 \in SUBSET Keys /\ IsFiniteSet(l.b2)
  BY SizesAreNat DEF Sound, Disjoint, Resident, T2, FiniteGhosts
<1>1. PICK a : a = PushFront(l.t2, k)
  OBVIOUS
<1>2. /\ a \in Seq(Keys) /\ NoRepeats(a) /\ ToSet(a) = T2(l) \cup {k}
      /\ Len(a) = Len(l.t2) + 1
  BY <1>0, <1>1, PushFrontProperties DEF T2
<1>3. PICK r : r = [l EXCEPT !.b2 = @ \ {k}, !.t2 = a]
  OBVIOUS
<1>4. /\ r \in ListRecords
      /\ r.t1 = l.t1 /\ r.t2 = a /\ r.b1 = l.b1 /\ r.b2 = l.b2 \ {k}
  BY <1>0, <1>2, <1>3 DEF Sound, ListRecords
<1>5. T1(r) = T1(l) /\ T2(r) = T2(l) \cup {k}
  BY <1>2, <1>4 DEF T1, T2
<1>6. IsFiniteSet(r.b2) /\ Cardinality(r.b2) = Cardinality(l.b2) - 1
  BY <1>0, <1>4, FS_RemoveElement
<1>7. Sound(r) /\ Resident(r) = Resident(l) \cup {k}
  BY <1>0, <1>2, <1>4, <1>5, <1>6 DEF Sound, Disjoint, FiniteGhosts, Resident
<1>8. Len(r.t2) = Len(l.t2) + 1
  BY <1>2, <1>4
<1>. QED BY <1>1, <1>3, <1>4, <1>6, <1>7, <1>8

(* Lists that only lost nodes and ghosts are sound. *)
LEMMA ShorterIsSound ==
  ASSUME NEW l, Sound(l), NEW r \in ListRecords,
         NoRepeats(r.t1), NoRepeats(r.t2),
         T1(r) \subseteq T1(l), T2(r) \subseteq T2(l),
         r.b1 \subseteq l.b1, r.b2 \subseteq l.b2
  PROVE  Sound(r) /\ Resident(r) \subseteq Resident(l)
<1>1. IsFiniteSet(r.b1) /\ IsFiniteSet(r.b2)
  BY FS_Subset DEF Sound, FiniteGhosts
<1>. QED BY <1>1 DEF Sound, Disjoint, FiniteGhosts, Resident

(* clear() *)
LEMMA NoEntriesSound == Sound(NoEntries) /\ Resident(NoEntries) = {} /\ Size(NoEntries) = 0
<1>1. NoEntries \in ListRecords
  BY DEF NoEntries, ListRecords
<1>2. /\ ToSet(NoEntries.t1) = {} /\ ToSet(NoEntries.t2) = {}
      /\ NoEntries.b1 = {} /\ NoEntries.b2 = {}
      /\ Len(NoEntries.t1) = 0 /\ Len(NoEntries.t2) = 0
  BY DEF NoEntries, ToSet
<1>3. NoRepeats(NoEntries.t1) /\ NoRepeats(NoEntries.t2)
  BY DEF NoEntries, NoRepeats
<1>. QED BY <1>1, <1>2, <1>3, FS_EmptySet
         DEF Sound, Disjoint, FiniteGhosts, Resident, T1, T2, Size

(* erase() *)
LEMMA ErasedSound ==
  ASSUME NEW l, Sound(l), NEW k \in Keys
  PROVE  LET r == [t1 |-> Unlink(l.t1, k),
                   t2 |-> IF Holds(l.t1, k) THEN l.t2 ELSE Unlink(l.t2, k),
                   b1 |-> l.b1 \ {k},
                   b2 |-> l.b2 \ {k}]
         IN  /\ Sound(r)
             /\ Resident(r) \subseteq Resident(l)
             /\ Len(r.t1) <= Len(l.t1) /\ Len(r.t2) <= Len(l.t2)
             /\ Cardinality(r.b1) <= Cardinality(l.b1)
             /\ Cardinality(r.b2) <= Cardinality(l.b2)
<1>0. /\ l.t1 \in Seq(Keys) /\ l.t2 \in Seq(Keys)
      /\ NoRepeats(l.t1) /\ NoRepeats(l.t2)
      /\ Len(l.t1) \in Nat /\ Len(l.t2) \in Nat
      /\ l.b1 \subseteq Keys /\ l.b2 \subseteq Keys
  BY SizesAreNat DEF Sound, Disjoint
<1>1. PICK a : a = Unlink(l.t1, k)
  OBVIOUS
<1>2. /\ a \in Seq(Keys) /\ NoRepeats(a) /\ ToSet(a) \subseteq ToSet(l.t1)
      /\ Len(a) <= Len(l.t1)
  <2>1. /\ a \in Seq(Keys) /\ NoRepeats(a) /\ ToSet(a) = ToSet(l.t1) \ {k}
        /\ Len(a) = IF k \in ToSet(l.t1) THEN Len(l.t1) - 1 ELSE Len(l.t1)
    BY <1>0, <1>1, UnlinkProperties
  <2>. QED BY <1>0, <2>1
<1>3. PICK b : b = IF Holds(l.t1, k) THEN l.t2 ELSE Unlink(l.t2, k)
  OBVIOUS
<1>4. /\ b \in Seq(Keys) /\ NoRepeats(b) /\ ToSet(b) \subseteq ToSet(l.t2)
      /\ Len(b) <= Len(l.t2)
  <2>1. PICK c : c = Unlink(l.t2, k)
    OBVIOUS
  <2>2. /\ c \in Seq(Keys) /\ NoRepeats(c) /\ ToSet(c) = ToSet(l.t2) \ {k}
        /\ Len(c) = IF k \in ToSet(l.t2) THEN Len(l.t2) - 1 ELSE Len(l.t2)
    BY <1>0, <2>1, UnlinkProperties
  <2>3. Len(c) <= Len(l.t2)
    BY <1>0, <2>2
  <2>. QED BY <1>0, <1>3, <2>1, <2>2, <2>3
<1>5. PICK r : r = [t1 |-> a, t2 |-> b, b1 |-> l.b1 \ {k}, b2 |-> l.b2 \ {k}]
  OBVIOUS
<1>6. /\ r \in ListRecords
      /\ r.t1 = a /\ r.t2 = b /\ r.b1 = l.b1 \ {k} /\ r.b2 = l.b2 \ {k}
  BY <1>0, <1>2, <1>4, <1>5 DEF ListRecords
<1>7. Sound(r) /\ Resident(r) \subseteq Resident(l)
  BY <1>2, <1>4, <1>6, ShorterIsSound DEF T1, T2
<1>8. /\ Cardinality(r.b1) <= Cardinality(l.b1)
      /\ Cardinality(r.b2) <= Cardinality(l.b2)
  BY <1>6, FS_Subset DEF Sound, FiniteGhosts
<1>9. Len(r.t1) <= Len(l.t1) /\ Len(r.t2) <= Len(l.t2)
  BY <1>2, <1>4, <1>6
<1>. QED BY <1>1, <1>3, <1>5, <1>7, <1>8, <1>9

(* resize() *)
LEMMA TrimmedSound ==
  ASSUME NEW l, Sound(l), NEW m \in 0..Len(l.t1), NEW n \in 0..Len(l.t2)
  PROVE  LET r == Trimmed(l, m, n)
         IN  /\ Sound(r)
             /\ Resident(r) \subseteq Resident(l)
             /\ Len(r.t1) = m /\ Len(r.t2) = n
<1>0. /\ l.t1 \in Seq(Keys) /\ l.t2 \in Seq(Keys)
      /\ NoRepeats(l.t1) /\ NoRepeats(l.t2)
  BY SizesAreNat DEF Sound, Disjoint
<1>1. PICK a : a = SubSeq(l.t1, 1, m)
  OBVIOUS
<1>2. a \in Seq(Keys) /\ NoRepeats(a) /\ ToSet(a) \subseteq ToSet(l.t1) /\ Len(a) = m
  BY <1>0, <1>1, PrefixProperties
<1>3. PICK b : b = SubSeq(l.t2, 1, n)
  OBVIOUS
<1>4. b \in Seq(Keys) /\ NoRepeats(b) /\ ToSet(b) \subseteq ToSet(l.t2) /\ Len(b) = n
  BY <1>0, <1>3, PrefixProperties
<1>5. PICK r : r = [l EXCEPT !.t1 = a, !.t2 = b]
  OBVIOUS
<1>6. /\ r \in ListRecords
      /\ r.t1 = a /\ r.t2 = b /\ r.b1 = l.b1 /\ r.b2 = l.b2
  BY <1>2, <1>4, <1>5 DEF Sound, ListRecords
<1>7. Sound(r) /\ Resident(r) \subseteq Resident(l)
  BY <1>2, <1>4, <1>6, ShorterIsSound DEF T1, T2
<1>. QED BY <1>1, <1>2, <1>3, <1>4, <1>5, <1>6, <1>7 DEF Trimmed

-----------------------------------------------------------------------------
(* What each branch of put() does to the lists.                            *)

GrowsBy(k) ==
  /\ Sound(lists')
  /\ k \in Resident(lists')
  /\ Resident(lists') \subseteq Resident(lists) \cup {k}

LEMMA GhostB1Step ==
  ASSUME Sound(lists), NEW k \in Keys, NEW v, PutGhostB1(k, v)
  PROVE  /\ GrowsBy(k)
         /\ lists.b1 # {}
         /\ \E r : /\ Demotion(lists, r, p', FALSE)
                   /\ Len(lists'.t1) = Len(r.t1)
                   /\ Len(lists'.t2) = Len(r.t2) + 1
                   /\ Cardinality(lists'.b1) = Cardinality(r.b1) - 1
                   /\ Cardinality(lists'.b2) = Cardinality(r.b2)
<1>1. PICK r : r = Replace(lists, p', FALSE)
  OBVIOUS
<1>2. /\ Sound(r) /\ Resident(r) \subseteq Resident(lists) /\ lists.b1 \subseteq r.b1
      /\ Demotion(lists, r, p', FALSE)
  BY <1>1, ReplaceProperties
<1>3. k \in lists.b1 /\ lists' = [r EXCEPT !.b1 = @ \ {k}, !.t2 = PushFront(@, k)]
  BY <1>1 DEF PutGhostB1, Settle
<1>4. /\ Sound(lists')
      /\ Resident(lists') = Resident(r) \cup {k}
      /\ Len(lists'.t2) = Len(r.t2) + 1
      /\ Cardinality(lists'.b1) = Cardinality(r.b1) - 1
      /\ lists'.t1 = r.t1 /\ lists'.b2 = r.b2
  BY <1>2, <1>3, ReviveB1Properties
<1>5. GrowsBy(k)
  BY <1>2, <1>4 DEF GrowsBy
<1>. QED BY <1>2, <1>3, <1>4, <1>5

LEMMA GhostB2Step ==
  ASSUME Sound(lists), NEW k \in Keys, NEW v, PutGhostB2(k, v)
  PROVE  /\ GrowsBy(k)
         /\ lists.b2 # {}
         /\ \E r : /\ Demotion(lists, r, p', TRUE)
                   /\ Len(lists'.t1) = Len(r.t1)
                   /\ Len(lists'.t2) = Len(r.t2) + 1
                   /\ Cardinality(lists'.b1) = Cardinality(r.b1)
                   /\ Cardinality(lists'.b2) = Cardinality(r.b2) - 1
<1>1. PICK r : r = Replace(lists, p', TRUE)
  OBVIOUS
<1>2. /\ Sound(r) /\ Resident(r) \subseteq Resident(lists) /\ lists.b2 \subseteq r.b2
      /\ Demotion(lists, r, p', TRUE)
  BY <1>1, ReplaceProperties
<1>3. k \in lists.b2 /\ lists' = [r EXCEPT !.b2 = @ \ {k}, !.t2 = PushFront(@, k)]
  BY <1>1 DEF PutGhostB2, Settle
<1>4. /\ Sound(lists')
      /\ Resident(lists') = Resident(r) \cup {k}
      /\ Len(lists'.t2) = Len(r.t2) + 1
      /\ Cardinality(lists'.b2) = Cardinality(r.b2) - 1
      /\ lists'.t1 = r.t1 /\ lists'.b1 = r.b1
  BY <1>2, <1>3, ReviveB2Properties
<1>5. GrowsBy(k)
  BY <1>2, <1>4 DEF GrowsBy
<1>. QED BY <1>2, <1>3, <1>4, <1>5

(* Forgetting a ghost, if there is one, keeps the lists sound.             *)
LEMMA ForgetOneProperties ==
  ASSUME NEW G, IsFiniteSet(G), NEW b \in ForgetOne(G)
  PROVE  /\ b \subseteq G
         /\ Cardinality(G) \in Nat
         /\ Cardinality(b) = IF G = {} THEN 0 ELSE Cardinality(G) - 1
<1>1. CASE G = {}
  BY <1>1, FS_EmptySet DEF ForgetOne
<1>2. CASE G # {}
  <2>1. PICK g \in G : b = G \ {g}
    BY <1>2 DEF ForgetOne
  <2>. QED BY <1>2, <2>1, FS_RemoveElement, FS_CardinalityType
<1>. QED BY <1>1, <1>2

(* The steps of a fresh miss that call replace() on lists m, which are the *)
(* current ones but for a ghost.                                           *)
LEMMA AdmitReplaced ==
  ASSUME Sound(lists), NEW k \in Keys, NEW v, Fresh(k),
         NEW m, Sound(m), Resident(m) = Resident(lists), Known(m) \subseteq Known(lists),
         Admit(Replace(m, p, FALSE), k, v, 1)
  PROVE  /\ GrowsBy(k)
         /\ \E r : /\ Demotion(m, r, p, FALSE)
                   /\ Len(lists'.t1) = Len(r.t1) + 1
                   /\ Len(lists'.t2) = Len(r.t2)
                   /\ Cardinality(lists'.b1) = Cardinality(r.b1)
                   /\ Cardinality(lists'.b2) = Cardinality(r.b2)
<1>1. PICK r : r = Replace(m, p, FALSE)
  OBVIOUS
<1>2. /\ Sound(r) /\ Resident(r) \subseteq Resident(m)
      /\ Known(r) = Known(m)
      /\ Demotion(m, r, p, FALSE)
  BY <1>1, ReplaceProperties
<1>3. lists' = [r EXCEPT !.t1 = PushFront(@, k)]
  BY <1>1 DEF Admit, Settle
<1>4. k \notin Known(r)
  BY <1>2 DEF Fresh, Known
<1>5. /\ Sound(lists')
      /\ Resident(lists') = Resident(r) \cup {k}
      /\ Len(lists'.t1) = Len(r.t1) + 1
      /\ lists'.t2 = r.t2 /\ lists'.b1 = r.b1 /\ lists'.b2 = r.b2
  BY <1>2, <1>3, <1>4, AdmitProperties
<1>6. GrowsBy(k)
  BY <1>2, <1>5 DEF GrowsBy
<1>. QED BY <1>2, <1>5, <1>6

LEMMA OverGhostStep ==
  ASSUME Sound(lists), NEW k \in Keys, NEW v, PutFreshOverGhost(k, v)
  PROVE  /\ GrowsBy(k)
         /\ \E m, r : /\ m.t1 = lists.t1 /\ m.t2 = lists.t2 /\ m.b2 = lists.b2
                      /\ Cardinality(m.b1) = IF lists.b1 = {} THEN 0
                                             ELSE Cardinality(lists.b1) - 1
                      /\ Demotion(m, r, p, FALSE)
                      /\ Len(lists'.t1) = Len(r.t1) + 1
                      /\ Len(lists'.t2) = Len(r.t2)
                      /\ Cardinality(lists'.b1) = Cardinality(r.b1)
                      /\ Cardinality(lists'.b2) = Cardinality(r.b2)
<1>1. PICK b \in ForgetOne(lists.b1) :
           Admit(Replace([lists EXCEPT !.b1 = b], p, FALSE), k, v, 1)
  BY DEF PutFreshOverGhost
<1>2. /\ b \subseteq lists.b1
      /\ Cardinality(b) = IF lists.b1 = {} THEN 0 ELSE Cardinality(lists.b1) - 1
  BY ForgetOneProperties DEF Sound, FiniteGhosts
<1>3. PICK m : m = [lists EXCEPT !.b1 = b]
  OBVIOUS
<1>4. /\ Sound(m) /\ Resident(m) = Resident(lists)
      /\ m.t1 = lists.t1 /\ m.t2 = lists.t2 /\ m.b1 = b /\ m.b2 = lists.b2
  BY <1>2, <1>3, ForgetB1Properties
<1>5. Known(m) \subseteq Known(lists)
  BY <1>2, <1>4 DEF Known
<1>6. Fresh(k) /\ Admit(Replace(m, p, FALSE), k, v, 1)
  BY <1>1, <1>3 DEF PutFreshOverGhost
<1>7. /\ GrowsBy(k)
      /\ \E r : /\ Demotion(m, r, p, FALSE)
                /\ Len(lists'.t1) = Len(r.t1) + 1
                /\ Len(lists'.t2) = Len(r.t2)
                /\ Cardinality(lists'.b1) = Cardinality(r.b1)
                /\ Cardinality(lists'.b2) = Cardinality(r.b2)
  BY <1>4, <1>5, <1>6, AdmitReplaced
<1>. QED BY <1>2, <1>4, <1>7

LEMMA ReplacingStep ==
  ASSUME Sound(lists), NEW k \in Keys, NEW v, PutFreshReplacing(k, v)
  PROVE  /\ GrowsBy(k)
         /\ \E m, r : /\ m.t1 = lists.t1 /\ m.t2 = lists.t2 /\ m.b1 = lists.b1
                      /\ Cardinality(m.b2) =
                           IF Directory = 2 * capacity /\ lists.b2 # {}
                           THEN Cardinality(lists.b2) - 1
                           ELSE Cardinality(lists.b2)
                      /\ Demotion(m, r, p, FALSE)
                      /\ Len(lists'.t1) = Len(r.t1) + 1
                      /\ Len(lists'.t2) = Len(r.t2)
                      /\ Cardinality(lists'.b1) = Cardinality(r.b1)
                      /\ Cardinality(lists'.b2) = Cardinality(r.b2)
<1>1. PICK b \in IF Directory = 2 * capacity THEN ForgetOne(lists.b2) ELSE {lists.b2} :
           Admit(Replace([lists EXCEPT !.b2 = b], p, FALSE), k, v, 1)
  BY DEF PutFreshReplacing
<1>2. /\ b \subseteq lists.b2
      /\ Cardinality(b) = IF Directory = 2 * capacity /\ lists.b2 # {}
                          THEN Cardinality(lists.b2) - 1
                          ELSE Cardinality(lists.b2)
  <2>1. CASE Directory = 2 * capacity
    <3>1. b \in ForgetOne(lists.b2)
      BY <2>1
    <3>. QED BY <2>1, <3>1, ForgetOneProperties, FS_EmptySet DEF Sound, FiniteGhosts
  <2>2. CASE Directory # 2 * capacity
    BY <2>2
  <2>. QED BY <2>1, <2>2
<1>3. PICK m : m = [lists EXCEPT !.b2 = b]
  OBVIOUS
<1>4. /\ Sound(m) /\ Resident(m) = Resident(lists)
      /\ m.t1 = lists.t1 /\ m.t2 = lists.t2 /\ m.b1 = lists.b1 /\ m.b2 = b
  BY <1>2, <1>3, ForgetB2Properties
<1>5. Known(m) \subseteq Known(lists)
  BY <1>2, <1>4 DEF Known
<1>6. Fresh(k) /\ Admit(Replace(m, p, FALSE), k, v, 1)
  BY <1>1, <1>3 DEF PutFreshReplacing
<1>7. /\ GrowsBy(k)
      /\ \E r : /\ Demotion(m, r, p, FALSE)
                /\ Len(lists'.t1) = Len(r.t1) + 1
                /\ Len(lists'.t2) = Len(r.t2)
                /\ Cardinality(lists'.b1) = Cardinality(r.b1)
                /\ Cardinality(lists'.b2) = Cardinality(r.b2)
  BY <1>4, <1>5, <1>6, AdmitReplaced
<1>. QED BY <1>2, <1>4, <1>7

LEMMA OverT1Step ==
  ASSUME Sound(lists), NEW k \in Keys, NEW v, PutFreshOverT1(k, v)
  PROVE  /\ GrowsBy(k)
         /\ Len(lists'.t1) = IF Len(lists.t1) = 0 THEN 1 ELSE Len(lists.t1)
         /\ Len(lists'.t2) = Len(lists.t2)
         /\ lists'.b1 = lists.b1 /\ lists'.b2 = lists.b2
<1>0. /\ Len(lists.t1) \in Nat /\ (lists.t1 = << >> <=> Len(lists.t1) = 0)
      /\ lists.t1 \in Seq(Keys) /\ NoRepeats(lists.t1)
      /\ k \notin Known(lists)
  BY SizesAreNat DEF Sound, Disjoint, PutFreshOverT1, Fresh, Known
<1>1. CASE lists.t1 # << >>
  <2>1. PICK a : a = DropTail(lists.t1)
    OBVIOUS
  <2>2. /\ a \in Seq(Keys) /\ NoRepeats(a) /\ Len(a) = Len(lists.t1) - 1
        /\ ToSet(a) = T1(lists) \ {Last(lists.t1)}
    BY <1>0, <1>1, <2>1, DropTailProperties DEF T1
  <2>3. PICK m : m = [lists EXCEPT !.t1 = a]
    OBVIOUS
  <2>4. /\ m \in ListRecords
        /\ m.t1 = a /\ m.t2 = lists.t2 /\ m.b1 = lists.b1 /\ m.b2 = lists.b2
    BY <2>2, <2>3 DEF Sound, ListRecords
  <2>5. T1(m) \subseteq T1(lists) /\ T2(m) = T2(lists) /\ NoRepeats(m.t2)
    BY <2>2, <2>4 DEF T1, T2, Sound, Disjoint
  <2>6. Sound(m) /\ Resident(m) \subseteq Resident(lists)
    BY <2>2, <2>4, <2>5, ShorterIsSound
  <2>7. k \notin Known(m)
    BY <1>0, <2>4, <2>6 DEF Known
  <2>8. lists' = [m EXCEPT !.t1 = PushFront(@, k)]
    BY <1>1, <2>1, <2>3 DEF PutFreshOverT1, Admit, Settle
  <2>9. /\ Sound(lists')
        /\ Resident(lists') = Resident(m) \cup {k}
        /\ Len(lists'.t1) = Len(m.t1) + 1
        /\ lists'.t2 = m.t2 /\ lists'.b1 = m.b1 /\ lists'.b2 = m.b2
    BY <2>6, <2>7, <2>8, AdmitProperties
  <2>10. Len(lists'.t1) = Len(lists.t1) /\ Len(lists.t1) # 0
    BY <1>0, <1>1, <2>2, <2>4, <2>9
  <2>. QED BY <2>4, <2>6, <2>9, <2>10 DEF GrowsBy
<1>2. CASE lists.t1 = << >>
  <2>1. lists' = [lists EXCEPT !.t1 = PushFront(@, k)]
    BY <1>2 DEF PutFreshOverT1, Admit, Settle
  <2>2. /\ Sound(lists')
        /\ Resident(lists') = Resident(lists) \cup {k}
        /\ Len(lists'.t1) = Len(lists.t1) + 1
        /\ lists'.t2 = lists.t2 /\ lists'.b1 = lists.b1 /\ lists'.b2 = lists.b2
    BY <1>0, <2>1, AdmitProperties
  <2>3. Len(lists'.t1) = 1 /\ Len(lists.t1) = 0
    BY <1>0, <1>2, <2>2
  <2>. QED BY <2>2, <2>3 DEF GrowsBy
<1>. QED BY <1>1, <1>2

LEMMA SpareStep ==
  ASSUME Sound(lists), NEW k \in Keys, NEW v, PutFreshSpare(k, v)
  PROVE  /\ GrowsBy(k)
         /\ Len(lists'.t1) = Len(lists.t1) + 1
         /\ lists'.t2 = lists.t2 /\ lists'.b1 = lists.b1 /\ lists'.b2 = lists.b2
<1>1. k \notin Known(lists) /\ lists' = [lists EXCEPT !.t1 = PushFront(@, k)]
  BY DEF PutFreshSpare, Admit, Settle, Fresh, Known
<1>2. /\ Sound(lists')
      /\ Resident(lists') = Resident(lists) \cup {k}
      /\ Len(lists'.t1) = Len(lists.t1) + 1
      /\ lists'.t2 = lists.t2 /\ lists'.b1 = lists.b1 /\ lists'.b2 = lists.b2
  BY <1>1, AdmitProperties
<1>. QED BY <1>2 DEF GrowsBy

-----------------------------------------------------------------------------
(* Type correctness and the one home of every key.                         *)

StatRecords ==
  [hits : 0..(StatMod-1), misses : 0..(StatMod-1), evictions : 0..(StatMod-1)]

SoundState ==
  /\ Sound(lists)
  /\ values \in [Resident(lists) -> Values]
  /\ p \in Nat
  /\ capacity \in Capacities
  /\ stats \in StatRecords
  /\ hints \in Seq(Keys)

LEMMA CountedType ==
  ASSUME stats \in StatRecords, NEW n \in Nat,
         NEW field \in {"hits", "misses", "evictions"}
  PROVE  Counted(field, n) \in StatRecords
<1>1. \A x \in Nat : x % StatMod \in 0..(StatMod-1)
  BY ARCAssumption
<1>2. stats[field] \in 0..(StatMod-1)
  BY DEF StatRecords
<1>3. stats[field] + n \in Nat
  BY <1>2, ARCAssumption
<1>4. (stats[field] + n) % StatMod \in 0..(StatMod-1)
  BY <1>1, <1>3
<1>. QED BY <1>4 DEF Counted, StatRecords

LEMMA DeltaPositive ==
  ASSUME NEW A, NEW B, IsFiniteSet(A), IsFiniteSet(B)
  PROVE  Delta(A, B) \in Nat \ {0}
<1>1. Cardinality(A) \in Nat /\ Cardinality(B) \in Nat
  BY FS_CardinalityType
<1>2. Larger(1, Cardinality(B)) \in Nat \ {0}
  BY <1>1 DEF Larger
<1>3. \A a \in Nat, b \in Nat \ {0} : a \div b \in Nat
  OBVIOUS
<1>4. Cardinality(A) \div Larger(1, Cardinality(B)) \in Nat
  BY <1>1, <1>2, <1>3
<1>. QED BY <1>4 DEF Delta, Larger

(* The adaptation keeps p_ a natural number, and a ghost hit in b1 takes it *)
(* no further than the capacity, one in b2 below a positive capacity.       *)
LEMMA TargetMoves ==
  ASSUME SoundState
  PROVE  /\ Grown(p) \in Nat /\ Grown(p) <= capacity
         /\ Shrunk(p) \in Nat /\ Shrunk(p) <= p
         /\ p # 0 => Shrunk(p) < p
<1>1. Delta(lists.b2, lists.b1) \in Nat \ {0} /\ Delta(lists.b1, lists.b2) \in Nat \ {0}
  BY DeltaPositive DEF SoundState, Sound, FiniteGhosts
<1>2. p \in Nat /\ capacity \in Nat
  BY ARCAssumption DEF SoundState
<1>. QED BY <1>1, <1>2 DEF Grown, Shrunk, Smaller

LEMMA SettleKeepsSound ==
  ASSUME SoundState, NEW k \in Keys, NEW v \in Values, NEW l, NEW n \in Nat,
         Settle(l, k, v, n), GrowsBy(k), p' \in Nat
  PROVE  SoundState'
<1>1. lists' = l /\ values' = [x \in Resident(l) |-> IF x = k THEN v ELSE values[x]]
  BY DEF Settle
<1>2. Resident(l) \subseteq Resident(lists) \cup {k} /\ Sound(lists')
  BY <1>1 DEF GrowsBy
<1>3. values' \in [Resident(lists') -> Values]
  BY <1>1, <1>2 DEF SoundState
<1>4. stats' \in StatRecords
  BY CountedType DEF Settle, SoundState
<1>5. capacity' \in Capacities /\ hints' \in Seq(Keys)
  BY DEF Settle, SoundState
<1>. QED BY <1>2, <1>3, <1>4, <1>5 DEF SoundState

LEMMA PutKeepsSound ==
  ASSUME SoundState, NEW k \in Keys, NEW v \in Values, Put(k, v)
  PROVE  SoundState'
<1>. USE DEF SoundState
<1>1. CASE PutResident(k, v)
  <2>1. PICK l : l = Promote(lists, k)
    OBVIOUS
  <2>2. Sound(l) /\ Resident(l) = Resident(lists)
    BY <1>1, <2>1, PromoteProperties DEF PutResident
  <2>3. Settle(l, k, v, 0) /\ p' = p /\ lists' = l
    BY <1>1, <2>1 DEF PutResident, Settle
  <2>4. GrowsBy(k)
    BY <1>1, <2>2, <2>3 DEF GrowsBy, PutResident
  <2>. QED BY <2>3, <2>4, SettleKeepsSound
<1>2. CASE PutGhostB1(k, v)
  <2>1. PICK l : Settle(l, k, v, 1)
    BY <1>2 DEF PutGhostB1
  <2>2. GrowsBy(k)
    BY <1>2, GhostB1Step
  <2>3. p' \in Nat
    BY <1>2, TargetMoves DEF PutGhostB1
  <2>. QED BY <2>1, <2>2, <2>3, SettleKeepsSound
<1>3. CASE PutGhostB2(k, v)
  <2>1. PICK l : Settle(l, k, v, 1)
    BY <1>3 DEF PutGhostB2
  <2>2. GrowsBy(k)
    BY <1>3, GhostB2Step
  <2>3. p' \in Nat
    BY <1>3, TargetMoves DEF PutGhostB2
  <2>. QED BY <2>1, <2>2, <2>3, SettleKeepsSound
<1>4. CASE PutFreshOverGhost(k, v)
  <2>1. PICK l : Settle(l, k, v, 1) /\ p' = p
    BY <1>4 DEF PutFreshOverGhost, Admit
  <2>2. GrowsBy(k)
    BY <1>4, OverGhostStep
  <2>. QED BY <2>1, <2>2, SettleKeepsSound
<1>5. CASE PutFreshOverT1(k, v)
  <2>1. PICK n \in {0, 1} : \E l : Settle(l, k, v, n) /\ p' = p
    <3>1. CASE lists.t1 # << >>
      BY <1>5, <3>1 DEF PutFreshOverT1, Admit
    <3>2. CASE lists.t1 = << >>
      BY <1>5, <3>2 DEF PutFreshOverT1, Admit
    <3>. QED BY <3>1, <3>2
  <2>2. GrowsBy(k)
    BY <1>5, OverT1Step
  <2>. QED BY <2>1, <2>2, SettleKeepsSound
<1>6. CASE PutFreshReplacing(k, v)
  <2>1. PICK l : Settle(l, k, v, 1) /\ p' = p
    BY <1>6 DEF PutFreshReplacing, Admit
  <2>2. GrowsBy(k)
    BY <1>6, ReplacingStep
  <2>. QED BY <2>1, <2>2, SettleKeepsSound
<1>7. CASE PutFreshSpare(k, v)
  <2>1. PICK l : Settle(l, k, v, 0) /\ p' = p
    BY <1>7 DEF PutFreshSpare, Admit
  <2>2. GrowsBy(k)
    BY <1>7, SpareStep
  <2>. QED BY <2>1, <2>2, SettleKeepsSound
<1>. QED BY <1>1, <1>2, <1>3, <1>4, <1>5, <1>6, <1>7 DEF Put

(* values restricted to the keys that stay.                                *)
LEMMA RestrictedValues ==
  ASSUME values \in [Resident(lists) -> Values], NEW R, R \subseteq Resident(lists)
  PROVE  [x \in R |-> values[x]] \in [R -> Values]
OBVIOUS

(* The arithmetic of resize(): what the two loops leave of m + n nodes.     *)
LEMMA TrimArithmetic ==
  ASSUME NEW m \in Nat, NEW n \in Nat, NEW c \in Nat, NEW over, NEW fromT1,
         over = Larger(m + n, c) - c,
         fromT1 = Smaller(over, m)
  PROVE  /\ over \in Nat
         /\ m - fromT1 \in 0..m
         /\ n - (over - fromT1) \in 0..n
         /\ (m - fromT1) + (n - (over - fromT1)) <= c
<1>1. CASE m + n <= c
  <2>1. over = 0
    BY <1>1 DEF Larger
  <2>2. fromT1 = 0
    BY <2>1 DEF Smaller
  <2>. QED BY <1>1, <2>1, <2>2
<1>2. CASE ~(m + n <= c) /\ m + n - c <= m
  <2>1. over = m + n - c
    BY <1>2 DEF Larger
  <2>2. fromT1 = m + n - c
    BY <1>2, <2>1 DEF Smaller
  <2>. QED BY <1>2, <2>1, <2>2
<1>3. CASE ~(m + n <= c) /\ ~(m + n - c <= m)
  <2>1. over = m + n - c
    BY <1>3 DEF Larger
  <2>2. fromT1 = m
    BY <1>3, <2>1 DEF Smaller
  <2>. QED BY <1>3, <2>1, <2>2
<1>. QED BY <1>1, <1>2, <1>3

LEMMA ResizeStep ==
  ASSUME SoundState, NEW c \in Capacities, Resize(c)
  PROVE  /\ SoundState'
         /\ capacity' = c
         /\ Len(lists'.t1) <= c
         /\ Size(lists') <= c
<1>. USE DEF SoundState
<1>1. PICK k, j \in Nat : k = Len(lists.t1) /\ j = Len(lists.t2)
  BY SizesAreNat
<1>2. c \in Nat
  BY ARCAssumption
<1>3. PICK over : over = Larger(Size(lists), c) - c
  OBVIOUS
<1>4. PICK fromT1 : fromT1 = Smaller(over, Len(lists.t1))
  OBVIOUS
<1>5. /\ over \in Nat
      /\ k - fromT1 \in 0..k
      /\ j - (over - fromT1) \in 0..j
      /\ (k - fromT1) + (j - (over - fromT1)) <= c
  <2>1. over = Larger(k + j, c) - c
    BY <1>1, <1>3 DEF Size
  <2>2. fromT1 = Smaller(over, k)
    BY <1>1, <1>4
  <2>. QED BY <1>2, <2>1, <2>2, TrimArithmetic
<1>6. PICK m \in 0..Len(lists.t1) : m = k - fromT1
  BY <1>1, <1>5
<1>7. PICK n \in 0..Len(lists.t2) : n = j - (over - fromT1)
  BY <1>1, <1>5
<1>8. /\ lists' = Trimmed(lists, m, n)
      /\ stats' = Counted("evictions", over)
      /\ values' = [x \in Resident(lists') |-> values[x]]
      /\ capacity' = c /\ p' = p /\ hints' = hints
  BY <1>1, <1>3, <1>4, <1>6, <1>7 DEF Resize
<1>9. /\ Sound(lists') /\ Resident(lists') \subseteq Resident(lists)
      /\ Len(lists'.t1) = m /\ Len(lists'.t2) = n
  BY <1>8, TrimmedSound
<1>10. values' \in [Resident(lists') -> Values]
  BY <1>8, <1>9, RestrictedValues
<1>11. stats' \in StatRecords
  BY <1>5, <1>8, CountedType
<1>12. m + n <= c /\ m \in Nat /\ n \in Nat /\ m <= c
  BY <1>1, <1>2, <1>5, <1>6, <1>7
<1>13. Len(lists'.t1) <= c /\ Size(lists') <= c
  BY <1>9, <1>12 DEF Size
<1>. QED BY <1>8, <1>9, <1>10, <1>11, <1>13

LEMMA EraseStep ==
  ASSUME SoundState, NEW k \in Keys, Erase(k)
  PROVE  /\ SoundState'
         /\ capacity' = capacity /\ p' = p
         /\ Len(lists'.t1) <= Len(lists.t1) /\ Len(lists'.t2) <= Len(lists.t2)
         /\ Cardinality(lists'.b1) <= Cardinality(lists.b1)
         /\ Cardinality(lists'.b2) <= Cardinality(lists.b2)
<1>. USE DEF SoundState
<1>1. /\ lists' = [t1 |-> Unlink(lists.t1, k),
                   t2 |-> IF Holds(lists.t1, k) THEN lists.t2 ELSE Unlink(lists.t2, k),
                   b1 |-> lists.b1 \ {k},
                   b2 |-> lists.b2 \ {k}]
      /\ values' = [x \in Resident(lists') |-> values[x]]
      /\ capacity' = capacity /\ p' = p /\ stats' = stats /\ hints' = hints
  BY DEF Erase
<1>2. /\ Sound(lists') /\ Resident(lists') \subseteq Resident(lists)
      /\ Len(lists'.t1) <= Len(lists.t1) /\ Len(lists'.t2) <= Len(lists.t2)
      /\ Cardinality(lists'.b1) <= Cardinality(lists.b1)
      /\ Cardinality(lists'.b2) <= Cardinality(lists.b2)
  BY <1>1, ErasedSound
<1>3. values' \in [Resident(lists') -> Values]
  BY <1>1, <1>2, RestrictedValues
<1>. QED BY <1>1, <1>2, <1>3

LEMMA ClearStep ==
  ASSUME SoundState, Clear
  PROVE  SoundState' /\ capacity' = capacity /\ p' = 0 /\ lists' = NoEntries
<1>1. Sound(lists') /\ Resident(lists') = {}
  BY NoEntriesSound DEF Clear
<1>2. values' \in [Resident(lists') -> Values]
  BY <1>1 DEF Clear, NoValues
<1>3. stats' \in StatRecords
  BY ARCAssumption DEF Clear, NoStats, StatRecords
<1>. QED BY <1>1, <1>2, <1>3 DEF Clear, SoundState

(* What a get() and an iteration of hint_future() do to the lists.         *)
LEMMA ReadStep ==
  ASSUME SoundState,
         \/ \E k \in Keys : Get(k)
         \/ \E ks \in Predictions : HintFuture(ks)
         \/ HintNext
  PROVE  /\ SoundState'
         /\ capacity' = capacity /\ p' = p
         /\ Size(lists') = Size(lists)
         /\ Len(lists'.t1) <= Len(lists.t1)
         /\ lists'.b1 = lists.b1 /\ lists'.b2 = lists.b2
<1>. USE DEF SoundState
<1>0. Len(lists.t1) \in Nat
  BY SizesAreNat
<1>1. ASSUME NEW k \in Keys, Get(k)
      PROVE  /\ stats' \in StatRecords
             /\ \/ lists' = lists
                \/ k \in Resident(lists) /\ lists' = Promote(lists, k)
  BY <1>1, CountedType DEF Get
<1>2. ASSUME HintNext
      PROVE  /\ hints' \in Seq(Keys)
             /\ Head(hints) \in Keys
             /\ \/ lists' = lists
                \/ /\ Head(hints) \in Resident(lists)
                   /\ lists' = Promote(lists, Head(hints))
  BY <1>2, HeadTailProperties DEF HintNext
<1>3. /\ values' = values /\ p' = p /\ capacity' = capacity
      /\ stats' \in StatRecords /\ hints' \in Seq(Keys)
      /\ \/ lists' = lists
         \/ \E k \in Keys : k \in Resident(lists) /\ lists' = Promote(lists, k)
  <2>1. CASE \E k \in Keys : Get(k)
    BY <1>1, <2>1 DEF Get
  <2>2. CASE \E ks \in Predictions : HintFuture(ks)
    BY <2>2, ARCAssumption DEF HintFuture
  <2>3. CASE HintNext
    BY <1>2, <2>3 DEF HintNext
  <2>. QED BY <2>1, <2>2, <2>3
<1>4. CASE lists' = lists
  BY <1>0, <1>3, <1>4
<1>5. CASE \E k \in Keys : k \in Resident(lists) /\ lists' = Promote(lists, k)
  <2>1. PICK k \in Keys : k \in Resident(lists) /\ lists' = Promote(lists, k)
    BY <1>5
  <2>2. /\ Sound(lists')
        /\ Resident(lists') = Resident(lists)
        /\ Size(lists') = Size(lists)
        /\ Len(lists'.t1) <= Len(lists.t1)
        /\ lists'.b1 = lists.b1 /\ lists'.b2 = lists.b2
    BY <2>1, PromoteProperties
  <2>3. values' \in [Resident(lists') -> Values]
    BY <1>3, <2>2
  <2>. QED BY <1>3, <2>2, <2>3
<1>. QED BY <1>3, <1>4, <1>5

LEMMA InitSound == Init => SoundState
<1>. SUFFICES ASSUME Init PROVE SoundState
  OBVIOUS
<1>1. values \in [Resident(lists) -> Values]
  BY NoEntriesSound DEF Init, NoValues
<1>2. stats \in StatRecords
  BY ARCAssumption DEF Init, NoStats, StatRecords
<1>. QED BY <1>1, <1>2, NoEntriesSound, EmptySeq DEF Init, SoundState

LEMMA NextKeepsSound == SoundState /\ [Next]_vars => SoundState'
<1>. SUFFICES ASSUME SoundState, [Next]_vars PROVE SoundState'
  OBVIOUS
<1>1. CASE \E k \in Keys, v \in Values : Put(k, v)
  BY <1>1, PutKeepsSound
<1>2. CASE \E k \in Keys : Erase(k)
  BY <1>2, EraseStep
<1>3. CASE Clear
  BY <1>3, ClearStep
<1>4. CASE \/ \E k \in Keys : Get(k)
           \/ \E ks \in Predictions : HintFuture(ks)
           \/ HintNext
  BY <1>4, ReadStep
<1>5. CASE \E c \in Capacities : Resize(c)
  BY <1>5, ResizeStep
<1>6. CASE UNCHANGED vars
  BY <1>6 DEF vars, SoundState
<1>. QED BY <1>1, <1>2, <1>3, <1>4, <1>5, <1>6 DEF Next, FixedNext

THEOREM SoundAlways == Spec => []SoundState
BY InitSound, NextKeepsSound, PTL DEF Spec

(* Type correctness, for any keys, values, capacities and hint lists.      *)
THEOREM TypeCorrect == Spec => []TypeOK
<1>1. SoundState => TypeOK
  BY DEF SoundState, TypeOK, Sound, StatRecords
<1>. QED BY <1>1, SoundAlways, PTL

(* Every key has one home: whatever the sequence of calls, resizes and      *)
(* hints, it is in at most one of the four lists and has at most one node.  *)
THEOREM KeysHaveOneHome == Spec => []OneHome
<1>1. SoundState => OneHome
  BY DEF SoundState, Sound, OneHome
<1>. QED BY <1>1, SoundAlways, PTL

-----------------------------------------------------------------------------
(* The size bounds, for any keys and any capacities but 0.  Every step is   *)
(* reduced to the four list lengths it changes; the bounds are then         *)
(* arithmetic over those lengths.                                          *)

(* l has m, n, x and y nodes in t1_, t2_, ghost_b1_ and ghost_b2_.         *)
Shape(l, m, n, x, y) ==
  /\ m \in Nat /\ n \in Nat /\ x \in Nat /\ y \in Nat
  /\ Len(l.t1) = m /\ Len(l.t2) = n
  /\ Cardinality(l.b1) = x /\ Cardinality(l.b2) = y

LEMMA SoundShape ==
  ASSUME NEW l, Sound(l)
  PROVE  \E m, n, x, y : Shape(l, m, n, x, y)
<1>1. /\ Len(l.t1) \in Nat /\ Len(l.t2) \in Nat
      /\ Cardinality(l.b1) \in Nat /\ Cardinality(l.b2) \in Nat
  BY SizesAreNat
<1>2. Shape(l, Len(l.t1), Len(l.t2), Cardinality(l.b1), Cardinality(l.b2))
  BY <1>1 DEF Shape
<1>. QED BY <1>2

LEMMA ShapeSums ==
  ASSUME NEW l, NEW m, NEW n, NEW x, NEW y, Shape(l, m, n, x, y)
  PROVE  Size(l) = m + n /\ Ghosts(l) = x + y
BY DEF Shape, Size, Ghosts

(* replace() by the lengths it leaves.                                     *)
LEMMA DemotionShape ==
  ASSUME NEW l, l.t1 \in Seq(Keys), NEW r, NEW target, NEW inB2,
         NEW m, NEW n, NEW x, NEW y, Shape(l, m, n, x, y),
         Demotion(l, r, target, inB2)
  PROVE  \/ m # 0 /\ Shape(r, m - 1, n, x + 1, y)
         \/ n # 0 /\ Shape(r, m, n - 1, x, y + 1)
         \/ n = 0 /\ Shape(r, m, n, x, y) /\ ~DemotesT1(l, target, inB2)
<1>0. /\ m \in Nat /\ n \in Nat /\ x \in Nat /\ y \in Nat
      /\ Len(l.t1) = m /\ Len(l.t2) = n
      /\ Cardinality(l.b1) = x /\ Cardinality(l.b2) = y
      /\ (l.t1 = << >> <=> m = 0)
  BY EmptySeq, LenProperties DEF Shape
<1>1. CASE /\ DemotesT1(l, target, inB2)
           /\ Len(r.t1) = Len(l.t1) - 1
           /\ Len(r.t2) = Len(l.t2)
           /\ Cardinality(r.b1) = Cardinality(l.b1) + 1
           /\ Cardinality(r.b2) = Cardinality(l.b2)
  <2>1. m # 0
    BY <1>0, <1>1 DEF DemotesT1
  <2>2. m - 1 \in Nat /\ x + 1 \in Nat
    BY <1>0, <2>1
  <2>3. Shape(r, m - 1, n, x + 1, y)
    BY <1>0, <1>1, <2>2 DEF Shape
  <2>. QED BY <2>1, <2>3
<1>2. CASE /\ Len(l.t2) # 0
           /\ Len(r.t1) = Len(l.t1)
           /\ Len(r.t2) = Len(l.t2) - 1
           /\ Cardinality(r.b1) = Cardinality(l.b1)
           /\ Cardinality(r.b2) = Cardinality(l.b2) + 1
  <2>1. n # 0
    BY <1>0, <1>2
  <2>2. n - 1 \in Nat /\ y + 1 \in Nat
    BY <1>0, <2>1
  <2>3. Shape(r, m, n - 1, x, y + 1)
    BY <1>0, <1>2, <2>2 DEF Shape
  <2>. QED BY <2>1, <2>3
<1>3. CASE /\ ~DemotesT1(l, target, inB2)
           /\ Len(l.t2) = 0
           /\ Len(r.t1) = Len(l.t1)
           /\ Len(r.t2) = Len(l.t2)
           /\ Cardinality(r.b1) = Cardinality(l.b1)
           /\ Cardinality(r.b2) = Cardinality(l.b2)
  BY <1>0, <1>3 DEF Shape
<1>. QED BY <1>1, <1>2, <1>3 DEF Demotion

-----------------------------------------------------------------------------
(* The branches of put() by the lengths they leave.                        *)

LEMMA GhostB1Shape ==
  ASSUME SoundState, NEW k \in Keys, NEW v, PutGhostB1(k, v),
         NEW m, NEW n, NEW x, NEW y, Shape(lists, m, n, x, y)
  PROVE  /\ x # 0
         /\ \/ m # 0 /\ Shape(lists', m - 1, n + 1, x, y)
            \/ n # 0 /\ Shape(lists', m, n, x - 1, y + 1)
            \/ n = 0 /\ Shape(lists', m, n + 1, x - 1, y)
<1>0. /\ Sound(lists) /\ lists.t1 \in Seq(Keys)
      /\ m \in Nat /\ n \in Nat /\ x \in Nat /\ y \in Nat
      /\ (lists.b1 = {} <=> x = 0)
  BY SizesAreNat DEF Shape, SoundState
<1>1. p' \in Nat
  BY TargetMoves DEF PutGhostB1
<1>2. x # 0
  BY <1>0, GhostB1Step
<1>3. PICK r : /\ Demotion(lists, r, p', FALSE)
               /\ Len(lists'.t1) = Len(r.t1)
               /\ Len(lists'.t2) = Len(r.t2) + 1
               /\ Cardinality(lists'.b1) = Cardinality(r.b1) - 1
               /\ Cardinality(lists'.b2) = Cardinality(r.b2)
  BY <1>0, GhostB1Step
<1>4. \/ m # 0 /\ Shape(r, m - 1, n, x + 1, y)
      \/ n # 0 /\ Shape(r, m, n - 1, x, y + 1)
      \/ n = 0 /\ Shape(r, m, n, x, y) /\ ~DemotesT1(lists, p', FALSE)
  BY <1>0, <1>3, DemotionShape, Zenon
<1>5. ASSUME m # 0, Shape(r, m - 1, n, x + 1, y)
      PROVE  Shape(lists', m - 1, n + 1, x, y)
  <2>1. (x + 1) - 1 = x /\ n + 1 \in Nat
    BY <1>0
  <2>. QED BY <1>0, <1>3, <1>5, <2>1 DEF Shape
<1>6. ASSUME n # 0, Shape(r, m, n - 1, x, y + 1)
      PROVE  Shape(lists', m, n, x - 1, y + 1)
  <2>1. (n - 1) + 1 = n /\ x - 1 \in Nat
    BY <1>0, <1>2
  <2>. QED BY <1>0, <1>3, <1>6, <2>1 DEF Shape
<1>7. ASSUME n = 0, Shape(r, m, n, x, y)
      PROVE  Shape(lists', m, n + 1, x - 1, y)
  <2>1. n + 1 \in Nat /\ x - 1 \in Nat
    BY <1>0, <1>2
  <2>. QED BY <1>0, <1>3, <1>7, <2>1 DEF Shape
<1>. QED BY <1>2, <1>4, <1>5, <1>6, <1>7

LEMMA GhostB2Shape ==
  ASSUME SoundState, NEW k \in Keys, NEW v, PutGhostB2(k, v),
         NEW m, NEW n, NEW x, NEW y, Shape(lists, m, n, x, y)
  PROVE  /\ y # 0
         /\ \/ m # 0 /\ Shape(lists', m - 1, n + 1, x + 1, y - 1)
            \/ n # 0 /\ Shape(lists', m, n, x, y)
            \/ /\ n = 0 /\ Shape(lists', m, n + 1, x, y - 1)
               /\ m = 0 \/ m < p'
<1>0. /\ Sound(lists) /\ lists.t1 \in Seq(Keys)
      /\ m \in Nat /\ n \in Nat /\ x \in Nat /\ y \in Nat
      /\ (lists.b2 = {} <=> y = 0)
  BY SizesAreNat DEF Shape, SoundState
<1>1. p' \in Nat
  BY TargetMoves DEF PutGhostB2
<1>2. y # 0
  BY <1>0, GhostB2Step
<1>3. PICK r : /\ Demotion(lists, r, p', TRUE)
               /\ Len(lists'.t1) = Len(r.t1)
               /\ Len(lists'.t2) = Len(r.t2) + 1
               /\ Cardinality(lists'.b1) = Cardinality(r.b1)
               /\ Cardinality(lists'.b2) = Cardinality(r.b2) - 1
  BY <1>0, GhostB2Step
<1>4. \/ m # 0 /\ Shape(r, m - 1, n, x + 1, y)
      \/ n # 0 /\ Shape(r, m, n - 1, x, y + 1)
      \/ n = 0 /\ Shape(r, m, n, x, y) /\ ~DemotesT1(lists, p', TRUE)
  BY <1>0, <1>3, DemotionShape, Zenon
<1>5. ASSUME m # 0, Shape(r, m - 1, n, x + 1, y)
      PROVE  Shape(lists', m - 1, n + 1, x + 1, y - 1)
  <2>1. n + 1 \in Nat /\ y - 1 \in Nat
    BY <1>0, <1>2
  <2>. QED BY <1>0, <1>3, <1>5, <2>1 DEF Shape
<1>6. ASSUME n # 0, Shape(r, m, n - 1, x, y + 1)
      PROVE  Shape(lists', m, n, x, y)
  <2>1. (n - 1) + 1 = n /\ (y + 1) - 1 = y
    BY <1>0
  <2>. QED BY <1>0, <1>3, <1>6, <2>1 DEF Shape
<1>7. ASSUME n = 0, Shape(r, m, n, x, y)
      PROVE  Shape(lists', m, n + 1, x, y - 1)
  <2>1. n + 1 \in Nat /\ y - 1 \in Nat
    BY <1>0, <1>2
  <2>. QED BY <1>0, <1>3, <1>7, <2>1 DEF Shape
<1>8. ~DemotesT1(lists, p', TRUE) => m = 0 \/ m < p'
  <2>1. Len(lists.t1) = m /\ (lists.t1 = << >> <=> m = 0)
    BY <1>0, SizesAreNat DEF Shape
  <2>2. m < p' \/ m = p' \/ m > p'
    BY <1>0, <1>1
  <2>. QED BY <2>1, <2>2, Zenon DEF DemotesT1
<1>. QED BY <1>2, <1>4, <1>5, <1>6, <1>7, <1>8

LEMMA OverGhostShape ==
  ASSUME SoundState, NEW k \in Keys, NEW v, PutFreshOverGhost(k, v),
         NEW m, NEW n, NEW x, NEW y, Shape(lists, m, n, x, y)
  PROVE  /\ x # 0 /\ m < capacity
         /\ \/ Shape(lists', m, n, x, y)
            \/ n # 0 /\ Shape(lists', m + 1, n - 1, x - 1, y + 1)
            \/ n = 0 /\ Shape(lists', m + 1, n, x - 1, y)
<1>0. /\ Sound(lists) /\ lists.t1 \in Seq(Keys)
      /\ m \in Nat /\ n \in Nat /\ x \in Nat /\ y \in Nat /\ capacity \in Nat
      /\ Len(lists.t1) = m /\ Len(lists.t2) = n
      /\ Cardinality(lists.b1) = x /\ Cardinality(lists.b2) = y
      /\ (lists.b1 = {} <=> x = 0)
  BY SizesAreNat, ARCAssumption DEF Shape, SoundState
<1>1. m + x >= capacity /\ m < capacity
  BY <1>0 DEF PutFreshOverGhost, RecencyFull
<1>2. x # 0 /\ x - 1 \in Nat
  BY <1>0, <1>1
<1>3. PICK l, r : /\ l.t1 = lists.t1 /\ l.t2 = lists.t2 /\ l.b2 = lists.b2
                  /\ Cardinality(l.b1) = IF lists.b1 = {} THEN 0
                                         ELSE Cardinality(lists.b1) - 1
                  /\ Demotion(l, r, p, FALSE)
                  /\ Len(lists'.t1) = Len(r.t1) + 1
                  /\ Len(lists'.t2) = Len(r.t2)
                  /\ Cardinality(lists'.b1) = Cardinality(r.b1)
                  /\ Cardinality(lists'.b2) = Cardinality(r.b2)
  BY <1>0, OverGhostStep
<1>4. Shape(l, m, n, x - 1, y)
  BY <1>0, <1>2, <1>3 DEF Shape
<1>5. \/ m # 0 /\ Shape(r, m - 1, n, (x - 1) + 1, y)
      \/ n # 0 /\ Shape(r, m, n - 1, x - 1, y + 1)
      \/ n = 0 /\ Shape(r, m, n, x - 1, y) /\ ~DemotesT1(l, p, FALSE)
  <2>1. l.t1 \in Seq(Keys)
    BY <1>0, <1>3
  <2>2. Demotion(l, r, p, FALSE)
    BY <1>3
  <2>. QED BY <2>1, <2>2, <1>4, DemotionShape, Zenon
<1>6. ASSUME m # 0, Shape(r, m - 1, n, (x - 1) + 1, y)
      PROVE  Shape(lists', m, n, x, y)
  <2>1. (m - 1) + 1 = m /\ (x - 1) + 1 = x
    BY <1>0
  <2>. QED BY <1>0, <1>3, <1>6, <2>1 DEF Shape
<1>7. ASSUME n # 0, Shape(r, m, n - 1, x - 1, y + 1)
      PROVE  Shape(lists', m + 1, n - 1, x - 1, y + 1)
  BY <1>0, <1>3, <1>7 DEF Shape
<1>8. ASSUME n = 0, Shape(r, m, n, x - 1, y)
      PROVE  Shape(lists', m + 1, n, x - 1, y)
  BY <1>0, <1>3, <1>8 DEF Shape
<1>. QED BY <1>1, <1>2, <1>5, <1>6, <1>7, <1>8

LEMMA ReplacingShape ==
  ASSUME SoundState, NEW k \in Keys, NEW v, PutFreshReplacing(k, v),
         NEW m, NEW n, NEW x, NEW y, Shape(lists, m, n, x, y)
  PROVE  /\ m + x < capacity
         /\ \E z \in Nat :
              /\ z = IF (m + n) + (x + y) = 2 * capacity /\ y # 0 THEN y - 1 ELSE y
              /\ \/ Shape(lists', m, n, x + 1, z)
                 \/ n # 0 /\ Shape(lists', m + 1, n - 1, x, z + 1)
                 \/ n = 0 /\ Shape(lists', m + 1, n, x, z)
<1>0. /\ Sound(lists) /\ lists.t1 \in Seq(Keys)
      /\ m \in Nat /\ n \in Nat /\ x \in Nat /\ y \in Nat /\ capacity \in Nat
      /\ Len(lists.t1) = m /\ Len(lists.t2) = n
      /\ Cardinality(lists.b1) = x /\ Cardinality(lists.b2) = y
      /\ (lists.b2 = {} <=> y = 0)
  BY SizesAreNat, ARCAssumption DEF Shape, SoundState
<1>1. m + x < capacity
  BY <1>0 DEF PutFreshReplacing, RecencyFull
<1>2. Directory = (m + n) + (x + y)
  BY ShapeSums DEF Directory
<1>3. PICK l, r : /\ l.t1 = lists.t1 /\ l.t2 = lists.t2 /\ l.b1 = lists.b1
                  /\ Cardinality(l.b2) =
                       IF Directory = 2 * capacity /\ lists.b2 # {}
                       THEN Cardinality(lists.b2) - 1
                       ELSE Cardinality(lists.b2)
                  /\ Demotion(l, r, p, FALSE)
                  /\ Len(lists'.t1) = Len(r.t1) + 1
                  /\ Len(lists'.t2) = Len(r.t2)
                  /\ Cardinality(lists'.b1) = Cardinality(r.b1)
                  /\ Cardinality(lists'.b2) = Cardinality(r.b2)
  BY <1>0, ReplacingStep
<1>4. PICK z \in Nat : z = IF (m + n) + (x + y) = 2 * capacity /\ y # 0 THEN y - 1 ELSE y
  BY <1>0
<1>5. Cardinality(l.b2) = z
  BY <1>0, <1>2, <1>3, <1>4
<1>6. Shape(l, m, n, x, z)
  BY <1>0, <1>3, <1>5 DEF Shape
<1>7. \/ m # 0 /\ Shape(r, m - 1, n, x + 1, z)
      \/ n # 0 /\ Shape(r, m, n - 1, x, z + 1)
      \/ n = 0 /\ Shape(r, m, n, x, z) /\ ~DemotesT1(l, p, FALSE)
  <2>1. l.t1 \in Seq(Keys)
    BY <1>0, <1>3
  <2>2. Demotion(l, r, p, FALSE)
    BY <1>3
  <2>. QED BY <2>1, <2>2, <1>6, DemotionShape, Zenon
<1>8. ASSUME m # 0, Shape(r, m - 1, n, x + 1, z)
      PROVE  Shape(lists', m, n, x + 1, z)
  <2>1. (m - 1) + 1 = m
    BY <1>0
  <2>. QED BY <1>0, <1>3, <1>8, <2>1 DEF Shape
<1>9. ASSUME n # 0, Shape(r, m, n - 1, x, z + 1)
      PROVE  Shape(lists', m + 1, n - 1, x, z + 1)
  BY <1>0, <1>3, <1>9 DEF Shape
<1>10. ASSUME n = 0, Shape(r, m, n, x, z)
       PROVE  Shape(lists', m + 1, n, x, z)
  BY <1>0, <1>3, <1>10 DEF Shape
<1>. QED BY <1>1, <1>4, <1>7, <1>8, <1>9, <1>10

LEMMA OverT1Shape ==
  ASSUME SoundState, NEW k \in Keys, NEW v, PutFreshOverT1(k, v),
         NEW m, NEW n, NEW x, NEW y, Shape(lists, m, n, x, y)
  PROVE  /\ m >= capacity
         /\ m # 0 => Shape(lists', m, n, x, y)
<1>1. m >= capacity
  BY DEF PutFreshOverT1, Shape
<1>2. Sound(lists)
  BY DEF SoundState
<1>. QED BY <1>1, <1>2, OverT1Step DEF Shape

LEMMA SpareShape ==
  ASSUME SoundState, NEW k \in Keys, NEW v, PutFreshSpare(k, v),
         NEW m, NEW n, NEW x, NEW y, Shape(lists, m, n, x, y)
  PROVE  /\ m + x < capacity /\ (m + n) + (x + y) < capacity
         /\ Shape(lists', m + 1, n, x, y)
<1>1. m + x < capacity
  <2>1. m + x \in Int /\ capacity \in Int
    BY ARCAssumption DEF Shape, SoundState
  <2>. QED BY <2>1 DEF PutFreshSpare, RecencyFull, Shape
<1>2. (m + n) + (x + y) < capacity
  BY ShapeSums DEF PutFreshSpare, Directory
<1>3. Sound(lists)
  BY DEF SoundState
<1>4. m + 1 \in Nat
  BY DEF Shape
<1>. QED BY <1>1, <1>2, <1>3, <1>4, SpareStep DEF Shape

-----------------------------------------------------------------------------
(* A cache of fixed capacity: WithinCapacity and DirectoryBounded are       *)
(* inductive together, each being what the other needs at a ghost hit.      *)

Fits(m, n, x, y, c) ==
  /\ m + n <= c
  /\ m + x <= c
  /\ (m + n) + (x + y) <= 2 * c

Bounded == WithinCapacity /\ DirectoryBounded

LEMMA FitsIsBounded ==
  ASSUME NEW m, NEW n, NEW x, NEW y, Shape(lists, m, n, x, y)
  PROVE  Bounded <=> Fits(m, n, x, y, capacity) /\ p <= capacity
<1>1. Size(lists) = m + n /\ Directory = (m + n) + (x + y)
  BY ShapeSums DEF Directory
<1>2. Len(lists.t1) = m /\ Cardinality(lists.b1) = x
  BY DEF Shape
<1>. QED BY <1>1, <1>2 DEF Bounded, WithinCapacity, DirectoryBounded, Fits

LEMMA PutFrame ==
  ASSUME SoundState, NEW k \in Keys, NEW v \in Values, Put(k, v)
  PROVE  /\ capacity' = capacity
         /\ p <= capacity => p' <= capacity
<1>1. /\ p \in Nat /\ capacity \in Nat
      /\ Grown(p) \in Nat /\ Grown(p) <= capacity
      /\ Shrunk(p) \in Nat /\ Shrunk(p) <= p
  BY TargetMoves, ARCAssumption DEF SoundState
<1>. USE DEF Settle, Admit
<1>2. CASE PutResident(k, v)
  BY <1>2 DEF PutResident
<1>3. CASE PutGhostB1(k, v)
  BY <1>1, <1>3 DEF PutGhostB1
<1>4. CASE PutGhostB2(k, v)
  BY <1>1, <1>4 DEF PutGhostB2
<1>5. CASE PutFreshOverGhost(k, v)
  BY <1>5 DEF PutFreshOverGhost
<1>6. CASE PutFreshOverT1(k, v)
  BY <1>6 DEF PutFreshOverT1
<1>7. CASE PutFreshReplacing(k, v)
  BY <1>7 DEF PutFreshReplacing
<1>8. CASE PutFreshSpare(k, v)
  BY <1>8 DEF PutFreshSpare
<1>. QED BY <1>2, <1>3, <1>4, <1>5, <1>6, <1>7, <1>8 DEF Put

(* put() of a resident key moves a node between the lists, nothing more.   *)
LEMMA ResidentShape ==
  ASSUME SoundState, NEW k \in Keys, NEW v \in Values, PutResident(k, v)
  PROVE  /\ Size(lists') = Size(lists) /\ Len(lists'.t1) <= Len(lists.t1)
         /\ lists'.b1 = lists.b1 /\ lists'.b2 = lists.b2
<1>1. Sound(lists) /\ k \in Resident(lists) /\ lists' = Promote(lists, k)
  BY DEF PutResident, Settle, SoundState
<1>. QED BY <1>1, PromoteProperties

LEMMA PutKeepsBounded ==
  ASSUME SoundState, Bounded, capacity # 0,
         NEW k \in Keys, NEW v \in Values, Put(k, v)
  PROVE  Bounded'
<1>1. SoundState' /\ capacity' = capacity /\ p <= capacity /\ p' <= capacity
  BY PutKeepsSound, PutFrame DEF Bounded, DirectoryBounded
<1>2. PICK m, n, x, y : Shape(lists, m, n, x, y)
  BY SoundShape DEF SoundState
<1>3. PICK c \in Nat : c = capacity /\ c # 0
  BY ARCAssumption DEF SoundState
<1>4. /\ m \in Nat /\ n \in Nat /\ x \in Nat /\ y \in Nat
      /\ Fits(m, n, x, y, c) /\ p <= c /\ p' <= c
  BY <1>1, <1>2, <1>3, FitsIsBounded DEF Shape
<1>5. ASSUME NEW i, NEW j, NEW u, NEW w, Shape(lists', i, j, u, w), Fits(i, j, u, w, c)
      PROVE  Bounded'
  <2>1. Size(lists)' = i + j /\ Directory' = (i + j) + (u + w)
    BY <1>5, ShapeSums DEF Directory
  <2>2. Len(lists'.t1) = i /\ Cardinality(lists'.b1) = u
    BY <1>5 DEF Shape
  <2>. QED BY <1>1, <1>3, <1>5, <2>1, <2>2
           DEF Bounded, WithinCapacity, DirectoryBounded, Fits
<1>6. CASE PutResident(k, v)
  <2>1. PICK i, j, u, w : Shape(lists', i, j, u, w)
    BY <1>1, SoundShape DEF SoundState
  <2>2. /\ i \in Nat /\ j \in Nat /\ u = x /\ w = y
        /\ i + j = m + n /\ i <= m
    <3>1. /\ Size(lists') = Size(lists) /\ Len(lists'.t1) <= Len(lists.t1)
          /\ lists'.b1 = lists.b1 /\ lists'.b2 = lists.b2
      BY <1>6, ResidentShape
    <3>2. Size(lists) = m + n /\ Size(lists') = i + j
      BY <1>2, <2>1, ShapeSums
    <3>3. /\ i = Len(lists'.t1) /\ u = Cardinality(lists'.b1) /\ w = Cardinality(lists'.b2)
          /\ m = Len(lists.t1) /\ x = Cardinality(lists.b1) /\ y = Cardinality(lists.b2)
          /\ i \in Nat /\ j \in Nat
      BY <1>2, <2>1 DEF Shape
    <3>. QED BY <3>1, <3>2, <3>3
  <2>3. Fits(i, j, u, w, c)
    BY <1>3, <1>4, <2>2 DEF Fits
  <2>. QED BY <1>5, <2>1, <2>3
<1>7. CASE PutGhostB1(k, v)
  <2>1. /\ x # 0
        /\ \/ m # 0 /\ Shape(lists', m - 1, n + 1, x, y)
           \/ n # 0 /\ Shape(lists', m, n, x - 1, y + 1)
           \/ n = 0 /\ Shape(lists', m, n + 1, x - 1, y)
    BY <1>2, <1>7, GhostB1Shape
  <2>2. Fits(m - 1, n + 1, x, y, c) /\ Fits(m, n, x - 1, y + 1, c)
    BY <1>3, <1>4 DEF Fits
  <2>3. n = 0 => Fits(m, n + 1, x - 1, y, c)
    BY <1>3, <1>4, <2>1 DEF Fits
  <2>. QED BY <1>5, <2>1, <2>2, <2>3
<1>8. CASE PutGhostB2(k, v)
  <2>1. /\ y # 0
        /\ \/ m # 0 /\ Shape(lists', m - 1, n + 1, x + 1, y - 1)
           \/ n # 0 /\ Shape(lists', m, n, x, y)
           \/ /\ n = 0 /\ Shape(lists', m, n + 1, x, y - 1)
              /\ m = 0 \/ m < p'
    BY <1>2, <1>8, GhostB2Shape
  <2>2. Fits(m - 1, n + 1, x + 1, y - 1, c) /\ Fits(m, n, x, y, c)
    BY <1>3, <1>4 DEF Fits
  <2>3. n = 0 /\ (m = 0 \/ m < p') => Fits(m, n + 1, x, y - 1, c)
    <3>1. p' \in Nat
      BY <1>1 DEF SoundState
    <3>2. (m = 0 \/ m < p') => m < c
      BY <1>3, <1>4, <3>1
    <3>. QED BY <1>3, <1>4, <3>2 DEF Fits
  <2>. QED BY <1>5, <2>1, <2>2, <2>3
<1>9. CASE PutFreshOverGhost(k, v)
  <2>1. /\ x # 0 /\ m < c
        /\ \/ Shape(lists', m, n, x, y)
           \/ n # 0 /\ Shape(lists', m + 1, n - 1, x - 1, y + 1)
           \/ n = 0 /\ Shape(lists', m + 1, n, x - 1, y)
    BY <1>2, <1>3, <1>9, OverGhostShape
  <2>2. Fits(m + 1, n - 1, x - 1, y + 1, c)
    BY <1>3, <1>4 DEF Fits
  <2>3. n = 0 => Fits(m + 1, n, x - 1, y, c)
    BY <1>3, <1>4, <2>1 DEF Fits
  <2>. QED BY <1>4, <1>5, <2>1, <2>2, <2>3
<1>10. CASE PutFreshOverT1(k, v)
  <2>1. m >= c /\ (m # 0 => Shape(lists', m, n, x, y))
    BY <1>2, <1>3, <1>10, OverT1Shape
  <2>. QED BY <1>3, <1>4, <1>5, <2>1
<1>11. CASE PutFreshReplacing(k, v)
  <2>1. m + x < capacity
    BY <1>2, <1>11, ReplacingShape
  <2>2. PICK z \in Nat :
          /\ z = IF (m + n) + (x + y) = 2 * c /\ y # 0 THEN y - 1 ELSE y
          /\ \/ Shape(lists', m, n, x + 1, z)
             \/ n # 0 /\ Shape(lists', m + 1, n - 1, x, z + 1)
             \/ n = 0 /\ Shape(lists', m + 1, n, x, z)
    BY <1>2, <1>3, <1>11, ReplacingShape
  <2>3. (m + n) + (x + y) = 2 * c => y # 0
    BY <1>3, <1>4, <2>1 DEF Fits
  <2>4. (m + n) + (x + z) < 2 * c
    BY <1>3, <1>4, <2>2, <2>3 DEF Fits
  <2>5. Fits(m, n, x + 1, z, c) /\ Fits(m + 1, n - 1, x, z + 1, c)
    BY <1>3, <1>4, <2>1, <2>4 DEF Fits
  <2>6. n = 0 => Fits(m + 1, n, x, z, c)
    BY <1>3, <1>4, <2>1, <2>4 DEF Fits
  <2>. QED BY <1>5, <2>2, <2>5, <2>6
<1>12. CASE PutFreshSpare(k, v)
  <2>1. /\ m + x < c /\ (m + n) + (x + y) < c
        /\ Shape(lists', m + 1, n, x, y)
    BY <1>2, <1>3, <1>12, SpareShape
  <2>2. Fits(m + 1, n, x, y, c)
    BY <1>3, <1>4, <2>1 DEF Fits
  <2>. QED BY <1>5, <2>1, <2>2
<1>. QED BY <1>6, <1>7, <1>8, <1>9, <1>10, <1>11, <1>12 DEF Put

LEMMA FixedKeepsBounded ==
  ASSUME SoundState, Bounded, capacity # 0, [FixedNext]_vars
  PROVE  Bounded' /\ capacity' = capacity
<1>1. PICK m, n, x, y : Shape(lists, m, n, x, y)
  BY SoundShape DEF SoundState
<1>2. PICK c \in Nat : c = capacity
  BY ARCAssumption DEF SoundState
<1>3. /\ m \in Nat /\ n \in Nat /\ x \in Nat /\ y \in Nat
      /\ Fits(m, n, x, y, c) /\ p <= c
  BY <1>1, <1>2, FitsIsBounded DEF Shape
<1>4. ASSUME SoundState', capacity' = capacity, p' <= c,
             NEW i, NEW j, NEW u, NEW w, Shape(lists', i, j, u, w), Fits(i, j, u, w, c)
      PROVE  Bounded' /\ capacity' = capacity
  <2>1. Size(lists)' = i + j /\ Directory' = (i + j) + (u + w)
    BY <1>4, ShapeSums DEF Directory
  <2>2. Len(lists'.t1) = i /\ Cardinality(lists'.b1) = u
    BY <1>4 DEF Shape
  <2>. QED BY <1>2, <1>4, <2>1, <2>2
           DEF Bounded, WithinCapacity, DirectoryBounded, Fits
<1>5. CASE \E k \in Keys, v \in Values : Put(k, v)
  BY <1>5, PutKeepsBounded, PutFrame
<1>6. CASE \E k \in Keys : Erase(k)
  <2>1. /\ SoundState' /\ capacity' = capacity /\ p' = p
        /\ Len(lists'.t1) <= Len(lists.t1) /\ Len(lists'.t2) <= Len(lists.t2)
        /\ Cardinality(lists'.b1) <= Cardinality(lists.b1)
        /\ Cardinality(lists'.b2) <= Cardinality(lists.b2)
    BY <1>6, EraseStep
  <2>2. PICK i, j, u, w : Shape(lists', i, j, u, w)
    BY <2>1, SoundShape DEF SoundState
  <2>3. /\ i \in Nat /\ j \in Nat /\ u \in Nat /\ w \in Nat
        /\ i <= m /\ j <= n /\ u <= x /\ w <= y
    BY <1>1, <2>1, <2>2 DEF Shape
  <2>4. Fits(i, j, u, w, c)
    BY <1>2, <1>3, <2>3 DEF Fits
  <2>. QED BY <1>3, <1>4, <2>1, <2>2, <2>4
<1>7. CASE Clear
  <2>1. SoundState' /\ capacity' = capacity /\ p' = 0 /\ lists' = NoEntries
    BY <1>7, ClearStep
  <2>2. Shape(lists', 0, 0, 0, 0)
    BY <2>1, FS_EmptySet, EmptySeq DEF NoEntries, Shape
  <2>3. Fits(0, 0, 0, 0, c) /\ p' <= c
    BY <1>2, <2>1 DEF Fits
  <2>. QED BY <1>4, <2>1, <2>2, <2>3
<1>8. CASE \/ \E k \in Keys : Get(k)
           \/ \E ks \in Predictions : HintFuture(ks)
           \/ HintNext
  <2>1. /\ SoundState' /\ capacity' = capacity /\ p' = p
        /\ Size(lists') = Size(lists) /\ Len(lists'.t1) <= Len(lists.t1)
        /\ lists'.b1 = lists.b1 /\ lists'.b2 = lists.b2
    BY <1>8, ReadStep
  <2>2. PICK i, j, u, w : Shape(lists', i, j, u, w)
    BY <2>1, SoundShape DEF SoundState
  <2>3. Size(lists) = m + n /\ Size(lists') = i + j
    BY <1>1, <2>2, ShapeSums
  <2>4. /\ i = Len(lists'.t1) /\ u = Cardinality(lists'.b1) /\ w = Cardinality(lists'.b2)
        /\ m = Len(lists.t1) /\ x = Cardinality(lists.b1) /\ y = Cardinality(lists.b2)
        /\ i \in Nat /\ j \in Nat
    BY <1>1, <2>2 DEF Shape
  <2>5. Fits(i, j, u, w, c)
    <3>1. i + j = m + n /\ i <= m /\ u = x /\ w = y
      BY <2>1, <2>3, <2>4
    <3>2. i \in Nat /\ j \in Nat
      BY <2>4
    <3>3. Fits(i, j, x, y, c)
      BY <1>2, <1>3, <3>1, <3>2 DEF Fits
    <3>. QED BY <3>1, <3>3
  <2>. QED BY <1>3, <1>4, <2>1, <2>2, <2>5
<1>9. CASE UNCHANGED vars
  BY <1>9 DEF vars, Bounded, WithinCapacity, DirectoryBounded, Directory
<1>. QED BY <1>5, <1>6, <1>7, <1>8, <1>9 DEF FixedNext

(* A cache of fixed, non-zero capacity is Bounded: the induction.          *)
THEOREM BoundedAlways ==
  ASSUME 0 \notin Capacities
  PROVE  FixedSpec => [](SoundState /\ Bounded)
<1>. DEFINE IInv == SoundState /\ Bounded
<1>1. Init => IInv
  <2>. SUFFICES ASSUME Init PROVE IInv
    OBVIOUS
  <2>1. SoundState
    BY InitSound
  <2>2. Shape(lists, 0, 0, 0, 0)
    BY FS_EmptySet, EmptySeq DEF Init, NoEntries, Shape
  <2>3. Fits(0, 0, 0, 0, capacity) /\ p <= capacity
    BY ARCAssumption DEF Init, Fits
  <2>. QED BY <2>1, <2>2, <2>3, FitsIsBounded
<1>2. IInv /\ [FixedNext]_vars => IInv'
  <2>. SUFFICES ASSUME IInv, [FixedNext]_vars PROVE IInv'
    OBVIOUS
  <2>1. [Next]_vars
    BY DEF Next
  <2>2. SoundState'
    BY <2>1, NextKeepsSound
  <2>3. capacity # 0
    BY DEF SoundState
  <2>. QED BY <2>2, <2>3, FixedKeepsBounded
<1>. QED BY <1>1, <1>2, PTL DEF FixedSpec

(* A cache that is never resized holds at most capacity_ entries: each      *)
(* branch of put() that adds one has made room for it.                      *)
THEOREM FixedStaysWithinCapacity ==
  ASSUME 0 \notin Capacities
  PROVE  FixedSpec => []WithinCapacity
<1>1. FixedSpec => [](SoundState /\ Bounded)
  BY BoundedAlways
<1>2. SoundState /\ Bounded => WithinCapacity
  BY DEF Bounded
<1>. QED BY <1>1, <1>2, PTL

(* The ARC directory invariants of a cache that is never resized: its four  *)
(* lists remember at most twice the capacity, t1_ and its ghosts at most    *)
(* the capacity, and p_ never exceeds it.                                   *)
THEOREM FixedDirectoryBounded ==
  ASSUME 0 \notin Capacities
  PROVE  FixedSpec => []DirectoryBounded
<1>1. FixedSpec => [](SoundState /\ Bounded)
  BY BoundedAlways
<1>2. SoundState /\ Bounded => DirectoryBounded
  BY DEF Bounded
<1>. QED BY <1>1, <1>2, PTL

-----------------------------------------------------------------------------
(* A cache that is resized: only t1_ is bounded by the capacity, and that   *)
(* is what keeps put() from going over it by more than one entry.           *)

NearlyFits(m, n, c) == m <= c /\ m + n <= c + 1
RecencyWithin == capacity # 0 => Len(lists.t1) <= capacity

LEMMA NearlyFitsIs ==
  ASSUME NEW m, NEW n, NEW x, NEW y, Shape(lists, m, n, x, y), capacity # 0
  PROVE  RecencyWithin /\ AtMostOneOver <=> NearlyFits(m, n, capacity)
<1>1. Size(lists) = m + n /\ Len(lists.t1) = m
  BY ShapeSums DEF Shape
<1>. QED BY <1>1 DEF RecencyWithin, AtMostOneOver, NearlyFits

LEMMA PutKeepsNearly ==
  ASSUME SoundState, NEW m, NEW n, NEW x, NEW y, Shape(lists, m, n, x, y),
         NEW c \in Nat, c = capacity, c # 0, NearlyFits(m, n, c),
         NEW k \in Keys, NEW v \in Values, Put(k, v)
  PROVE  \E i, j, u, w : Shape(lists', i, j, u, w) /\ NearlyFits(i, j, c)
<1>1. m \in Nat /\ n \in Nat /\ x \in Nat /\ y \in Nat
  BY DEF Shape
<1>2. CASE PutResident(k, v)
  <2>1. SoundState'
    BY PutKeepsSound
  <2>2. PICK i, j, u, w : Shape(lists', i, j, u, w)
    BY <2>1, SoundShape DEF SoundState
  <2>3. Size(lists') = Size(lists) /\ Len(lists'.t1) <= Len(lists.t1)
    BY <1>2, ResidentShape
  <2>4. Size(lists) = m + n /\ Size(lists') = i + j
    BY <2>2, ShapeSums
  <2>5. i = Len(lists'.t1) /\ m = Len(lists.t1) /\ i \in Nat /\ j \in Nat
    BY <2>2 DEF Shape
  <2>6. i + j = m + n /\ i <= m
    BY <2>3, <2>4, <2>5
  <2>7. NearlyFits(i, j, c)
    BY <1>1, <2>5, <2>6 DEF NearlyFits
  <2>. QED BY <2>2, <2>7
<1>3. CASE PutGhostB1(k, v)
  <2>1. \/ m # 0 /\ Shape(lists', m - 1, n + 1, x, y)
        \/ n # 0 /\ Shape(lists', m, n, x - 1, y + 1)
        \/ n = 0 /\ Shape(lists', m, n + 1, x - 1, y)
    BY <1>3, GhostB1Shape
  <2>2. NearlyFits(m - 1, n + 1, c)
    BY <1>1 DEF NearlyFits
  <2>3. n = 0 => NearlyFits(m, n + 1, c)
    BY <1>1 DEF NearlyFits
  <2>. QED BY <2>1, <2>2, <2>3
<1>4. CASE PutGhostB2(k, v)
  <2>1. \/ m # 0 /\ Shape(lists', m - 1, n + 1, x + 1, y - 1)
        \/ n # 0 /\ Shape(lists', m, n, x, y)
        \/ n = 0 /\ Shape(lists', m, n + 1, x, y - 1)
    BY <1>4, GhostB2Shape
  <2>2. NearlyFits(m - 1, n + 1, c)
    BY <1>1 DEF NearlyFits
  <2>3. n = 0 => NearlyFits(m, n + 1, c)
    BY <1>1 DEF NearlyFits
  <2>. QED BY <2>1, <2>2, <2>3
<1>5. CASE PutFreshOverGhost(k, v)
  <2>1. /\ m < c
        /\ \/ Shape(lists', m, n, x, y)
           \/ n # 0 /\ Shape(lists', m + 1, n - 1, x - 1, y + 1)
           \/ n = 0 /\ Shape(lists', m + 1, n, x - 1, y)
    BY <1>5, OverGhostShape
  <2>2. NearlyFits(m + 1, n - 1, c)
    BY <1>1, <2>1 DEF NearlyFits
  <2>3. n = 0 => NearlyFits(m + 1, n, c)
    BY <1>1, <2>1 DEF NearlyFits
  <2>. QED BY <2>1, <2>2, <2>3
<1>6. CASE PutFreshOverT1(k, v)
  <2>1. m >= c /\ (m # 0 => Shape(lists', m, n, x, y))
    BY <1>6, OverT1Shape
  <2>2. m # 0
    BY <1>1, <2>1
  <2>. QED BY <2>1, <2>2
<1>7. CASE PutFreshReplacing(k, v)
  <2>1. m + x < c
    BY <1>7, ReplacingShape
  <2>2. PICK z \in Nat :
          \/ Shape(lists', m, n, x + 1, z)
          \/ n # 0 /\ Shape(lists', m + 1, n - 1, x, z + 1)
          \/ n = 0 /\ Shape(lists', m + 1, n, x, z)
    BY <1>7, ReplacingShape
  <2>3. NearlyFits(m + 1, n - 1, c)
    BY <1>1, <2>1 DEF NearlyFits
  <2>4. n = 0 => NearlyFits(m + 1, n, c)
    BY <1>1, <2>1 DEF NearlyFits
  <2>. QED BY <2>2, <2>3, <2>4
<1>8. CASE PutFreshSpare(k, v)
  <2>1. /\ m + x < c /\ (m + n) + (x + y) < c
        /\ Shape(lists', m + 1, n, x, y)
    BY <1>8, SpareShape
  <2>2. NearlyFits(m + 1, n, c)
    BY <1>1, <2>1 DEF NearlyFits
  <2>. QED BY <2>1, <2>2
<1>. QED BY <1>2, <1>3, <1>4, <1>5, <1>6, <1>7, <1>8 DEF Put

LEMMA StepKeepsNearly ==
  ASSUME SoundState, RecencyWithin, AtMostOneOver, [FixedNext]_vars, capacity # 0
  PROVE  RecencyWithin' /\ AtMostOneOver'
<1>1. PICK m, n, x, y : Shape(lists, m, n, x, y)
  BY SoundShape DEF SoundState
<1>2. PICK c \in Nat : c = capacity /\ c # 0
  BY ARCAssumption DEF SoundState
<1>3. NearlyFits(m, n, c) /\ m \in Nat /\ n \in Nat
  BY <1>1, <1>2, NearlyFitsIs DEF Shape
<1>4. ASSUME capacity' = capacity,
             NEW i, NEW j, NEW u, NEW w, Shape(lists', i, j, u, w), NearlyFits(i, j, c)
      PROVE  RecencyWithin' /\ AtMostOneOver'
  <2>1. Size(lists)' = i + j
    BY <1>4, ShapeSums
  <2>2. Len(lists'.t1) = i
    BY <1>4 DEF Shape
  <2>. QED BY <1>2, <1>4, <2>1, <2>2 DEF RecencyWithin, AtMostOneOver, NearlyFits
<1>5. CASE \E k \in Keys, v \in Values : Put(k, v)
  <2>1. capacity' = capacity
    BY <1>5, PutFrame
  <2>2. \E i, j, u, w : Shape(lists', i, j, u, w) /\ NearlyFits(i, j, c)
    BY <1>1, <1>2, <1>3, <1>5, PutKeepsNearly
  <2>. QED BY <1>4, <2>1, <2>2
<1>6. CASE \E k \in Keys : Erase(k)
  <2>1. /\ SoundState' /\ capacity' = capacity
        /\ Len(lists'.t1) <= Len(lists.t1) /\ Len(lists'.t2) <= Len(lists.t2)
    BY <1>6, EraseStep
  <2>2. PICK i, j, u, w : Shape(lists', i, j, u, w)
    BY <2>1, SoundShape DEF SoundState
  <2>3. i \in Nat /\ j \in Nat /\ i <= m /\ j <= n
    BY <1>1, <2>1, <2>2 DEF Shape
  <2>4. NearlyFits(i, j, c)
    BY <1>3, <2>3 DEF NearlyFits
  <2>. QED BY <1>4, <2>1, <2>2, <2>4
<1>7. CASE Clear
  <2>1. capacity' = capacity /\ lists' = NoEntries
    BY <1>7, ClearStep
  <2>2. Shape(lists', 0, 0, 0, 0)
    BY <2>1, FS_EmptySet, EmptySeq DEF NoEntries, Shape
  <2>3. NearlyFits(0, 0, c)
    BY DEF NearlyFits
  <2>. QED BY <1>4, <2>1, <2>2, <2>3
<1>8. CASE \/ \E k \in Keys : Get(k)
           \/ \E ks \in Predictions : HintFuture(ks)
           \/ HintNext
  <2>1. /\ SoundState' /\ capacity' = capacity
        /\ Size(lists') = Size(lists) /\ Len(lists'.t1) <= Len(lists.t1)
    BY <1>8, ReadStep
  <2>2. PICK i, j, u, w : Shape(lists', i, j, u, w)
    BY <2>1, SoundShape DEF SoundState
  <2>3. Size(lists) = m + n /\ Size(lists') = i + j
    BY <1>1, <2>2, ShapeSums
  <2>4. i = Len(lists'.t1) /\ m = Len(lists.t1) /\ i \in Nat /\ j \in Nat
    BY <1>1, <2>2 DEF Shape
  <2>5. i + j = m + n /\ i <= m
    BY <2>1, <2>3, <2>4
  <2>6. NearlyFits(i, j, c)
    BY <1>3, <2>4, <2>5 DEF NearlyFits
  <2>. QED BY <1>4, <2>1, <2>2, <2>6
<1>9. CASE UNCHANGED vars
  BY <1>9 DEF vars, RecencyWithin, AtMostOneOver
<1>. QED BY <1>5, <1>6, <1>7, <1>8, <1>9 DEF FixedNext

LEMMA ResizeMakesNear ==
  ASSUME SoundState, NEW d \in Capacities, Resize(d)
  PROVE  RecencyWithin' /\ AtMostOneOver'
<1>1. capacity' = d /\ Len(lists'.t1) <= d /\ Size(lists') <= d /\ SoundState' /\ d \in Nat
  BY ResizeStep, ARCAssumption
<1>2. PICK i, j, u, w : Shape(lists', i, j, u, w)
  BY <1>1, SoundShape DEF SoundState
<1>3. Size(lists') = i + j
  BY <1>2, ShapeSums
<1>4. i \in Nat /\ j \in Nat
  BY <1>2 DEF Shape
<1>. QED BY <1>1, <1>3, <1>4 DEF RecencyWithin, AtMostOneOver

LEMMA FixedKeepsCapacity ==
  ASSUME SoundState, [FixedNext]_vars
  PROVE  capacity' = capacity
<1>1. CASE \E k \in Keys, v \in Values : Put(k, v)
  BY <1>1, PutFrame
<1>2. CASE \E k \in Keys : Erase(k)
  BY <1>2, EraseStep
<1>3. CASE Clear
  BY <1>3, ClearStep
<1>4. CASE \/ \E k \in Keys : Get(k)
           \/ \E ks \in Predictions : HintFuture(ks)
           \/ HintNext
  BY <1>4, ReadStep
<1>5. CASE UNCHANGED vars
  BY <1>5 DEF vars
<1>. QED BY <1>1, <1>2, <1>3, <1>4, <1>5 DEF FixedNext

(* At capacity 0 nothing is claimed, and only resize() leaves it.           *)
LEMMA NextKeepsNearly ==
  ASSUME SoundState, RecencyWithin, AtMostOneOver, [Next]_vars
  PROVE  RecencyWithin' /\ AtMostOneOver'
<1>1. CASE \E d \in Capacities : Resize(d)
  BY <1>1, ResizeMakesNear
<1>2. CASE [FixedNext]_vars /\ capacity # 0
  BY <1>2, StepKeepsNearly
<1>3. CASE [FixedNext]_vars /\ capacity = 0
  <2>1. capacity' = capacity
    BY <1>3, FixedKeepsCapacity
  <2>. QED BY <1>3, <2>1 DEF RecencyWithin, AtMostOneOver
<1>. QED BY <1>1, <1>2, <1>3 DEF Next

(* Whatever the resizes between the calls, to capacity 0 and back included, *)
(* a cache of a capacity other than 0 is over it by at most one entry.      *)
THEOREM ResizedAtMostOneOver == Spec => []AtMostOneOver
<1>. DEFINE IInv == SoundState /\ RecencyWithin /\ AtMostOneOver
<1>1. Init => IInv
  <2>. SUFFICES ASSUME Init PROVE IInv
    OBVIOUS
  <2>1. SoundState
    BY InitSound
  <2>2. Shape(lists, 0, 0, 0, 0)
    BY FS_EmptySet, EmptySeq DEF Init, NoEntries, Shape
  <2>3. Size(lists) = 0 /\ Len(lists.t1) = 0 /\ capacity \in Nat
    BY <2>2, ShapeSums, ARCAssumption DEF Shape, Init
  <2>. QED BY <2>1, <2>3 DEF RecencyWithin, AtMostOneOver
<1>2. IInv /\ [Next]_vars => IInv'
  BY NextKeepsSound, NextKeepsNearly
<1>3. IInv => AtMostOneOver
  OBVIOUS
<1>. QED BY <1>1, <1>2, <1>3, PTL DEF Spec

-----------------------------------------------------------------------------
(* What leaves the cache.  The resident keys of sound lists are as many as   *)
(* their nodes, so how many are lost follows from the lengths.              *)

Lost == Resident(lists) \ Resident(lists')

LEMMA ResidentCounted ==
  ASSUME NEW l, Sound(l)
  PROVE  IsFiniteSet(Resident(l)) /\ Cardinality(Resident(l)) = Size(l) /\ Size(l) \in Nat
<1>1. /\ l.t1 \in Seq(Keys) /\ l.t2 \in Seq(Keys)
      /\ NoRepeats(l.t1) /\ NoRepeats(l.t2)
      /\ Len(l.t1) \in Nat /\ Len(l.t2) \in Nat
      /\ T1(l) \cap T2(l) = {}
  BY SizesAreNat DEF Sound, Disjoint
<1>2. /\ IsFiniteSet(T1(l)) /\ Cardinality(T1(l)) = Len(l.t1)
      /\ IsFiniteSet(T2(l)) /\ Cardinality(T2(l)) = Len(l.t2)
  BY <1>1, KeysCounted DEF T1, T2
<1>3. PICK A, B : A = T1(l) /\ B = T2(l)
  OBVIOUS
<1>4. /\ IsFiniteSet(A \cup B) /\ Cardinality(A \cap B) = 0
      /\ Cardinality(A \cup B) = Cardinality(A) + Cardinality(B) - Cardinality(A \cap B)
  BY <1>1, <1>2, <1>3, FS_Union, FS_EmptySet
<1>5. PICK m \in Nat, n \in Nat : m = Len(l.t1) /\ n = Len(l.t2)
  BY <1>1
<1>6. Cardinality(A) = m /\ Cardinality(B) = n
  BY <1>2, <1>3, <1>5
<1>7. Cardinality(A \cup B) = m + n /\ m + n \in Nat
  BY <1>4, <1>6
<1>8. Resident(l) = A \cup B /\ Size(l) = m + n
  BY <1>3, <1>5 DEF Resident, Size
<1>. QED BY <1>4, <1>7, <1>8

(* What is lost of a set that shrinks.                                     *)
LEMMA LostOfSubset ==
  ASSUME NEW A, IsFiniteSet(A), NEW B, B \subseteq A
  PROVE  /\ IsFiniteSet(A \ B)
         /\ Cardinality(A \ B) = Cardinality(A) - Cardinality(B)
         /\ Cardinality(A) = Cardinality(B) => A = B
<1>1. IsFiniteSet(A \ B) /\ IsFiniteSet(B) /\ A \cap B = B
  BY FS_Subset
<1>2. Cardinality(A \ B) = Cardinality(A) - Cardinality(B)
  BY <1>1, FS_Difference
<1>3. ASSUME Cardinality(A) = Cardinality(B) PROVE A = B
  <2>1. Cardinality(A \ B) = 0
    BY <1>2, <1>3, FS_CardinalityType
  <2>2. A \ B = {}
    BY <1>1, <2>1, FS_EmptySet
  <2>. QED BY <2>2
<1>. QED BY <1>1, <1>2, <1>3

(* put() of a new key that makes the cache n entries less than one larger    *)
(* loses n others.                                                         *)
LEMMA LostByGrowth ==
  ASSUME Sound(lists), NEW k, GrowsBy(k), k \notin Resident(lists), NEW n \in Nat,
         Size(lists') + n >= Size(lists) + 1
  PROVE  IsFiniteSet(Lost) /\ Cardinality(Lost) <= n
<1>1. PICK A, B : A = Resident(lists) /\ B = Resident(lists')
  OBVIOUS
<1>2. /\ IsFiniteSet(A) /\ Cardinality(A) = Size(lists) /\ Size(lists) \in Nat
      /\ IsFiniteSet(B) /\ Cardinality(B) = Size(lists') /\ Size(lists') \in Nat
  BY <1>1, ResidentCounted DEF GrowsBy
<1>3. k \in B /\ k \notin A /\ B \ {k} \subseteq A
  BY <1>1 DEF GrowsBy
<1>4. Cardinality(B \ {k}) = Cardinality(B) - 1
  BY <1>2, <1>3, FS_RemoveElement
<1>5. /\ IsFiniteSet(A \ (B \ {k}))
      /\ Cardinality(A \ (B \ {k})) = Cardinality(A) - Cardinality(B \ {k})
  BY <1>2, <1>3, LostOfSubset
<1>6. A \ (B \ {k}) = A \ B
  BY <1>3
<1>7. IsFiniteSet(A \ B) /\ Cardinality(A \ B) = Size(lists) - (Size(lists') - 1)
  BY <1>2, <1>4, <1>5, <1>6
<1>8. Cardinality(A \ B) <= n
  BY <1>2, <1>7
<1>. QED BY <1>1, <1>7, <1>8 DEF Lost

LEMMA OneLess ==
  ASSUME NEW m \in Nat, NEW n \in Nat, NEW x, NEW y,
         (x = m - 1 /\ y = n) \/ (x = m /\ y = n - 1) \/ (x = m /\ y = n)
  PROVE  x \in Int /\ y \in Int /\ x + y + 1 >= m + n
<1>1. CASE x = m - 1 /\ y = n
  BY <1>1
<1>2. CASE x = m /\ y = n - 1
  BY <1>2
<1>3. CASE x = m /\ y = n
  BY <1>3
<1>. QED BY <1>1, <1>2, <1>3

(* replace() takes one node at most.                                       *)
LEMMA DemotionTakesOne ==
  ASSUME NEW l, NEW m \in Nat, NEW n \in Nat, m = Len(l.t1), n = Len(l.t2),
         NEW r, NEW x, NEW y, x = Len(r.t1), y = Len(r.t2),
         NEW target, NEW inB2, Demotion(l, r, target, inB2)
  PROVE  x \in Int /\ y \in Int /\ x + y + 1 >= m + n
<1>1. (x = m - 1 /\ y = n) \/ (x = m /\ y = n - 1) \/ (x = m /\ y = n)
  BY DEF Demotion
<1>. QED BY <1>1, OneLess

(* put(), in what it does to the keys and values: the value of k is v, the   *)
(* others keep theirs, and of these at most as many are lost as the method   *)
(* counts as evictions.                                                    *)
PutLoses(k, v, n) ==
  /\ k \in Resident(lists') /\ Resident(lists') \subseteq Resident(lists) \cup {k}
  /\ values' = [x \in Resident(lists') |-> IF x = k THEN v ELSE values[x]]
  /\ stats' = Counted("evictions", n)
  /\ capacity' = capacity
  /\ IsFiniteSet(Lost) /\ Cardinality(Lost) <= n
  /\ k \in Resident(lists) => Resident(lists') = Resident(lists)

LEMMA PutLosesFew ==
  ASSUME SoundState, NEW k \in Keys, NEW v \in Values, Put(k, v)
  PROVE  \E n \in {0, 1} : PutLoses(k, v, n)
<1>0. Sound(lists) /\ Len(lists.t1) \in Nat /\ Len(lists.t2) \in Nat
  BY SizesAreNat DEF SoundState
<1>1. CASE PutResident(k, v)
  <2>1. PICK l : l = Promote(lists, k)
    OBVIOUS
  <2>2. Resident(l) = Resident(lists)
    BY <1>0, <1>1, <2>1, PromoteProperties DEF PutResident
  <2>3. Settle(l, k, v, 0) /\ lists' = l /\ k \in Resident(lists)
    BY <1>1, <2>1 DEF PutResident, Settle
  <2>4. Resident(lists') = Resident(lists)
    BY <2>2, <2>3
  <2>5. Lost = {} /\ IsFiniteSet({}) /\ Cardinality({}) = 0
    BY <2>4, FS_EmptySet DEF Lost
  <2>. QED BY <2>3, <2>4, <2>5 DEF PutLoses, Settle
<1>2. ASSUME NEW n \in {0, 1}, NEW l, Settle(l, k, v, n), GrowsBy(k),
             k \notin Resident(lists), Size(lists') + n >= Size(lists) + 1
      PROVE  PutLoses(k, v, n)
  <2>1. IsFiniteSet(Lost) /\ Cardinality(Lost) <= n
    BY <1>0, <1>2, LostByGrowth
  <2>. QED BY <1>2, <2>1 DEF PutLoses, Settle, GrowsBy
<1>3. ASSUME NEW a, NEW b, NEW c, NEW r, Demotion(a, r, b, c),
             a.t1 = lists.t1, a.t2 = lists.t2,
             \/ Len(lists'.t1) = Len(r.t1) + 1 /\ Len(lists'.t2) = Len(r.t2)
             \/ Len(lists'.t1) = Len(r.t1) /\ Len(lists'.t2) = Len(r.t2) + 1
      PROVE  Size(lists') + 1 >= Size(lists) + 1
  <2>1. PICK m \in Nat, n \in Nat : m = Len(lists.t1) /\ n = Len(lists.t2)
    BY <1>0
  <2>2. PICK x, y : x = Len(r.t1) /\ y = Len(r.t2)
    OBVIOUS
  <2>3. m = Len(a.t1) /\ n = Len(a.t2)
    BY <1>3, <2>1
  <2>4. x \in Int /\ y \in Int /\ x + y + 1 >= m + n
    BY <1>3, <2>2, <2>3, DemotionTakesOne
  <2>5. PICK i, j : i = Len(lists'.t1) /\ j = Len(lists'.t2)
    OBVIOUS
  <2>6. (i = x + 1 /\ j = y) \/ (i = x /\ j = y + 1)
    BY <1>3, <2>2, <2>5
  <2>7. (i + j) + 1 >= (m + n) + 1
    BY <2>4, <2>6
  <2>8. Size(lists') = i + j /\ Size(lists) = m + n
    BY <2>1, <2>5 DEF Size
  <2>. QED BY <2>7, <2>8
<1>4. CASE PutGhostB1(k, v)
  <2>1. PICK l : Settle(l, k, v, 1) /\ k \notin Resident(lists)
    BY <1>4 DEF PutGhostB1
  <2>2. GrowsBy(k) /\ Size(lists') + 1 >= Size(lists) + 1
    BY <1>0, <1>3, <1>4, GhostB1Step
  <2>. QED BY <1>2, <2>1, <2>2
<1>5. CASE PutGhostB2(k, v)
  <2>1. PICK l : Settle(l, k, v, 1) /\ k \notin Resident(lists)
    BY <1>5 DEF PutGhostB2
  <2>2. GrowsBy(k) /\ Size(lists') + 1 >= Size(lists) + 1
    BY <1>0, <1>3, <1>5, GhostB2Step
  <2>. QED BY <1>2, <2>1, <2>2
<1>6. CASE PutFreshOverGhost(k, v)
  <2>1. PICK l : Settle(l, k, v, 1) /\ k \notin Resident(lists)
    BY <1>6 DEF PutFreshOverGhost, Admit, Fresh
  <2>2. GrowsBy(k) /\ Size(lists') + 1 >= Size(lists) + 1
    BY <1>0, <1>3, <1>6, OverGhostStep
  <2>. QED BY <1>2, <2>1, <2>2
<1>7. CASE PutFreshReplacing(k, v)
  <2>1. PICK l : Settle(l, k, v, 1) /\ k \notin Resident(lists)
    BY <1>7 DEF PutFreshReplacing, Admit, Fresh
  <2>2. GrowsBy(k) /\ Size(lists') + 1 >= Size(lists) + 1
    BY <1>0, <1>3, <1>7, ReplacingStep
  <2>. QED BY <1>2, <2>1, <2>2
<1>8. CASE PutFreshOverT1(k, v)
  <2>1. /\ GrowsBy(k) /\ k \notin Resident(lists)
        /\ Len(lists'.t1) = IF Len(lists.t1) = 0 THEN 1 ELSE Len(lists.t1)
        /\ Len(lists'.t2) = Len(lists.t2)
        /\ lists.t1 = << >> <=> Len(lists.t1) = 0
    BY <1>0, <1>8, OverT1Step, SizesAreNat DEF PutFreshOverT1, Fresh
  <2>2. CASE lists.t1 # << >>
    <3>1. PICK l : Settle(l, k, v, 1)
      BY <1>8, <2>2 DEF PutFreshOverT1, Admit
    <3>2. Size(lists') + 1 >= Size(lists) + 1
      BY <1>0, <2>1, <2>2 DEF Size
    <3>. QED BY <1>2, <2>1, <3>1, <3>2
  <2>3. CASE lists.t1 = << >>
    <3>1. PICK l : Settle(l, k, v, 0)
      BY <1>8, <2>3 DEF PutFreshOverT1, Admit
    <3>2. Size(lists') + 0 >= Size(lists) + 1
      BY <1>0, <2>1, <2>3 DEF Size
    <3>. QED BY <1>2, <2>1, <3>1, <3>2
  <2>. QED BY <2>2, <2>3
<1>9. CASE PutFreshSpare(k, v)
  <2>1. PICK l : Settle(l, k, v, 0) /\ k \notin Resident(lists)
    BY <1>9 DEF PutFreshSpare, Admit, Fresh
  <2>2. GrowsBy(k) /\ Size(lists') + 0 >= Size(lists) + 1
    <3>1. /\ GrowsBy(k) /\ Len(lists'.t1) = Len(lists.t1) + 1 /\ lists'.t2 = lists.t2
      BY <1>0, <1>9, SpareStep
    <3>2. Len(lists'.t2) = Len(lists.t2)
      BY <3>1
    <3>3. PICK m \in Nat, n \in Nat : m = Len(lists.t1) /\ n = Len(lists.t2)
      BY <1>0
    <3>4. Size(lists') = (m + 1) + n /\ Size(lists) = m + n
      BY <3>1, <3>2, <3>3 DEF Size
    <3>5. Size(lists') + 0 >= Size(lists) + 1
      BY <3>4
    <3>. QED BY <3>1, <3>5
  <2>. QED BY <1>2, <2>1, <2>2
<1>. QED BY <1>1, <1>4, <1>5, <1>6, <1>7, <1>8, <1>9 DEF Put

(* resize() takes as many entries off as it counts, and no more than it     *)
(* must.                                                                   *)
ResizeKeeps(c, n) ==
  /\ Resident(lists') \subseteq Resident(lists)
  /\ values' = [x \in Resident(lists') |-> values[x]]
  /\ stats' = Counted("evictions", n)
  /\ capacity' = c
  /\ n <= Size(lists)
  /\ IsFiniteSet(Lost) /\ Cardinality(Lost) = n
  /\ \/ Resident(lists') = Resident(lists) /\ Cardinality(Resident(lists')) <= c
     \/ Cardinality(Resident(lists')) = c

LEMMA OverArithmetic ==
  ASSUME NEW m \in Nat, NEW n \in Nat, NEW c \in Nat, NEW over, NEW fromT1,
         over = Larger(m + n, c) - c,
         fromT1 = Smaller(over, m)
  PROVE  /\ over <= m + n
         /\ (m - fromT1) + (n - (over - fromT1)) = m + n - over
         /\ (over = 0 /\ m + n <= c) \/ m + n - over = c
<1>1. CASE m + n <= c
  <2>1. over = 0 /\ fromT1 \in Int
    BY <1>1 DEF Larger, Smaller
  <2>. QED BY <1>1, <2>1
<1>2. CASE ~(m + n <= c)
  <2>1. over = m + n - c /\ over \in Nat /\ fromT1 \in Int
    BY <1>2 DEF Larger, Smaller
  <2>. QED BY <1>2, <2>1
<1>. QED BY <1>1, <1>2

LEMMA ResizeKeepsMost ==
  ASSUME SoundState, NEW c \in Capacities, Resize(c)
  PROVE  \E n \in Nat : ResizeKeeps(c, n)
<1>1. PICK k, j \in Nat : k = Len(lists.t1) /\ j = Len(lists.t2)
  BY SizesAreNat DEF SoundState
<1>2. c \in Nat /\ Sound(lists)
  BY ARCAssumption DEF SoundState
<1>3. PICK over : over = Larger(Size(lists), c) - c
  OBVIOUS
<1>4. PICK fromT1 : fromT1 = Smaller(over, Len(lists.t1))
  OBVIOUS
<1>5. over = Larger(k + j, c) - c /\ fromT1 = Smaller(over, k)
  BY <1>1, <1>3, <1>4 DEF Size
<1>6. /\ over \in Nat
      /\ k - fromT1 \in 0..k
      /\ j - (over - fromT1) \in 0..j
  BY <1>2, <1>5, TrimArithmetic
<1>7. /\ over <= k + j
      /\ (k - fromT1) + (j - (over - fromT1)) = k + j - over
      /\ (over = 0 /\ k + j <= c) \/ k + j - over = c
  BY <1>2, <1>5, OverArithmetic
<1>8. PICK m \in 0..Len(lists.t1) : m = k - fromT1
  BY <1>1, <1>6
<1>9. PICK n \in 0..Len(lists.t2) : n = j - (over - fromT1)
  BY <1>1, <1>6
<1>10. /\ lists' = Trimmed(lists, m, n)
       /\ stats' = Counted("evictions", over)
       /\ values' = [x \in Resident(lists') |-> values[x]]
       /\ capacity' = c
  BY <1>1, <1>3, <1>4, <1>8, <1>9 DEF Resize
<1>11. /\ Sound(lists') /\ Resident(lists') \subseteq Resident(lists)
       /\ Len(lists'.t1) = m /\ Len(lists'.t2) = n
  BY <1>2, <1>10, TrimmedSound
<1>12. Size(lists) = k + j /\ Size(lists') = k + j - over
  <2>1. Size(lists') = (k - fromT1) + (j - (over - fromT1))
    BY <1>8, <1>9, <1>11 DEF Size
  <2>. QED BY <1>1, <1>7, <2>1 DEF Size
<1>13. PICK A, B : A = Resident(lists) /\ B = Resident(lists')
  OBVIOUS
<1>14. /\ IsFiniteSet(A) /\ Cardinality(A) = k + j
       /\ Cardinality(B) = k + j - over /\ B \subseteq A
  BY <1>2, <1>11, <1>12, <1>13, ResidentCounted
<1>15. /\ IsFiniteSet(A \ B) /\ Cardinality(A \ B) = Cardinality(A) - Cardinality(B)
       /\ Cardinality(A) = Cardinality(B) => A = B
  BY <1>14, LostOfSubset
<1>16. Cardinality(A \ B) = over
  BY <1>1, <1>6, <1>14, <1>15
<1>17. (B = A /\ Cardinality(B) <= c) \/ Cardinality(B) = c
  <2>1. CASE over = 0 /\ k + j <= c
    <3>1. Cardinality(B) = k + j
      BY <1>1, <1>14, <2>1
    <3>. QED BY <1>14, <1>15, <2>1, <3>1
  <2>2. CASE k + j - over = c
    BY <1>14, <2>2
  <2>. QED BY <1>7, <2>1, <2>2
<1>. QED BY <1>6, <1>7, <1>10, <1>11, <1>12, <1>13, <1>15, <1>16, <1>17 DEF ResizeKeeps, Lost

(* The counter of evictions moves by n, modulo its width.                   *)
LEMMA CountMoves ==
  ASSUME SoundState, NEW n \in Nat, n < StatMod, stats' = Counted("evictions", n)
  PROVE  (stats'.evictions - stats.evictions) % StatMod = n
<1>1. PICK e \in Int : e = stats.evictions
  BY DEF SoundState, StatRecords
<1>2. stats'.evictions = (e + n) % StatMod
  BY <1>1 DEF Counted, SoundState, StatRecords
<1>3. (((e + n) % StatMod) - e) % StatMod = ((e + n) - e) % StatMod
  <2>1. PICK x \in Int : x = e + n
    OBVIOUS
  <2>2. ((x % StatMod) - e) % StatMod = (x - e) % StatMod
    BY ARCAssumption, ModOfMod
  <2>. QED BY <2>1, <2>2
<1>4. (e + n) - e = n
  OBVIOUS
<1>5. n % StatMod = n
  BY ARCAssumption, ModSmall
<1>. QED BY <1>1, <1>2, <1>3, <1>4, <1>5

(* Every entry that put() or resize() drops is counted in evictions_, if the *)
(* counters (size_t) can count the keys there are.                         *)
THEOREM LossesAreAlwaysCounted ==
  ASSUME IsFiniteSet(Keys), Cardinality(Keys) < StatMod, StatMod # 1
  PROVE  Spec => LossesAreCounted
<1>. DEFINE Counts == \/ \E k \in Keys, v \in Values : Put(k, v)
                      \/ \E c \in Capacities : Resize(c)
                      => Cardinality(Resident(lists) \ Resident(lists'))
                           <= (stats'.evictions - stats.evictions) % StatMod
<1>1. SoundState => Counts
  <2>1. ASSUME SoundState, NEW k \in Keys, NEW v \in Values, Put(k, v)
        PROVE  Cardinality(Lost) <= (stats'.evictions - stats.evictions) % StatMod
    <3>1. PICK n \in {0, 1} : PutLoses(k, v, n)
      BY <2>1, PutLosesFew
    <3>2. n \in Nat /\ n < StatMod
      BY ARCAssumption
    <3>. QED BY <2>1, <3>1, <3>2, CountMoves DEF PutLoses
  <2>2. ASSUME SoundState, NEW c \in Capacities, Resize(c)
        PROVE  Cardinality(Lost) <= (stats'.evictions - stats.evictions) % StatMod
    <3>1. PICK n \in Nat : ResizeKeeps(c, n)
      BY <2>2, ResizeKeepsMost
    <3>2. Resident(lists) \subseteq Keys
      BY <2>2, KeysOfList, SizesAreNat DEF SoundState, Resident, T1, T2
    <3>3. Cardinality(Resident(lists)) <= Cardinality(Keys)
      BY <3>2, FS_Subset
    <3>4. Cardinality(Resident(lists)) = Size(lists) /\ Size(lists) \in Nat
      BY <2>2, ResidentCounted DEF SoundState
    <3>5. n <= Size(lists) /\ stats' = Counted("evictions", n) /\ Cardinality(Lost) = n
      BY <3>1 DEF ResizeKeeps
    <3>6. Cardinality(Keys) \in Nat /\ StatMod \in Nat
      BY ARCAssumption, FS_CardinalityType
    <3>7. n < StatMod
      BY <3>3, <3>4, <3>5, <3>6
    <3>8. (stats'.evictions - stats.evictions) % StatMod = n
      BY <2>2, <3>5, <3>7, CountMoves
    <3>. QED BY <3>5, <3>8
  <2>. QED BY <2>1, <2>2 DEF Lost
<1>. QED BY <1>1, SoundAlways, PTL DEF Spec, LossesAreCounted

-----------------------------------------------------------------------------
LEMMA SameCardinality == \A S : Contract!Cardinality(S) = Cardinality(S)
  BY DEF Contract!Cardinality, Cardinality

(* The contents of the contract are the values of the nodes.                *)
Contents == [k \in Resident(lists) |-> values[k]]

LEMMA ReadReads ==
  ASSUME SoundState,
         (\E k \in Keys : Get(k)) \/ (\E ks \in Predictions : HintFuture(ks)) \/ HintNext
  PROVE  Contract!Read
<1>1. values' = values /\ capacity' = capacity
  BY DEF Get, HintFuture, HintNext
<1>2. Resident(lists') = Resident(lists)
  <2>1. CASE \E k \in Keys : Get(k)
    BY <2>1, PromoteProperties DEF Get, SoundState
  <2>2. CASE \E ks \in Predictions : HintFuture(ks)
    BY <2>2 DEF HintFuture
  <2>3. CASE HintNext
    <3>1. Head(hints) \in Keys
      BY <2>3, HeadTailProperties DEF HintNext, SoundState
    <3>. QED BY <2>3, <3>1, PromoteProperties DEF HintNext, SoundState
  <2>. QED BY <2>1, <2>2, <2>3
<1>. QED BY <1>1, <1>2 DEF Contract!Read, Contract!cvars

LEMMA PutPuts ==
  ASSUME SoundState, NEW k \in Keys, NEW v \in Values, Put(k, v)
  PROVE  Contract!Put(k, v)
<1>1. PICK n \in {0, 1} : PutLoses(k, v, n)
  BY PutLosesFew
<1>2. PICK R, Q : R = Resident(lists) /\ Q = Resident(lists')
  OBVIOUS
<1>3. PICK old : old = Contents
  OBVIOUS
<1>4. old = [x \in R |-> values[x]]
  BY <1>2, <1>3 DEF Contents
<1>5. /\ k \in Q /\ Q \subseteq R \cup {k} /\ capacity' = capacity
      /\ values' = [x \in Q |-> IF x = k THEN v ELSE values[x]]
      /\ IsFiniteSet(R \ Q) /\ Cardinality(R \ Q) <= 1
      /\ k \in R => Q = R
  BY <1>1, <1>2, FS_CardinalityType DEF PutLoses, Lost
<1>6. Contents' = [x \in Q |-> IF x = k THEN v ELSE values[x]]
  BY <1>2, <1>5 DEF Contents
<1>7. CASE k \in R
  <2>1. Contents' = [old EXCEPT ![k] = v]
    BY <1>4, <1>5, <1>6, <1>7
  <2>2. Contract!Overwrite(k, v)
    BY <1>3, <1>4, <1>5, <1>7, <2>1 DEF Contents, Contract!Overwrite, Contract!Present
  <2>. QED BY <2>2 DEF Contract!Put
<1>8. CASE k \notin R
  <2>1. (R \ (R \ Q)) \cup {k} = Q /\ R \ Q \in SUBSET R
    BY <1>5, <1>8
  <2>2. Contents' = [x \in (R \ (R \ Q)) \cup {k} |-> IF x = k THEN v ELSE old[x]]
    BY <1>4, <1>5, <1>6, <2>1
  <2>3. Contract!Insert(k, v)
    BY <1>3, <1>4, <1>5, <1>8, <2>1, <2>2, SameCardinality
       DEF Contents, Contract!Insert, Contract!Present
  <2>. QED BY <2>3 DEF Contract!Put
<1>. QED BY <1>7, <1>8

LEMMA EraseErases ==
  ASSUME SoundState, NEW k \in Keys, Erase(k)
  PROVE  Contract!Erase(k)
<1>1. PICK a, b, l : a = lists.t1 /\ b = lists.t2 /\ l = lists'
  OBVIOUS
<1>2. /\ a \in Seq(Keys) /\ b \in Seq(Keys) /\ NoRepeats(a) /\ NoRepeats(b)
      /\ ToSet(a) \cap ToSet(b) = {}
  BY <1>1, SizesAreNat DEF SoundState, Sound, Disjoint, T1, T2
<1>3. /\ l.t1 = Unlink(a, k)
      /\ l.t2 = IF Holds(a, k) THEN b ELSE Unlink(b, k)
      /\ values' = [x \in Resident(l) |-> values[x]] /\ capacity' = capacity
  BY <1>1 DEF Erase
<1>4. /\ ToSet(Unlink(a, k)) = ToSet(a) \ {k} /\ ToSet(Unlink(b, k)) = ToSet(b) \ {k}
      /\ Holds(a, k) <=> k \in ToSet(a)
  BY <1>2, UnlinkProperties, KeysOfList
<1>5. Resident(l) = (ToSet(a) \cup ToSet(b)) \ {k}
  BY <1>2, <1>3, <1>4 DEF Resident, T1, T2
<1>6. Resident(lists') = Resident(lists) \ {k}
  BY <1>1, <1>5 DEF Resident, T1, T2
<1>7. Contents' = [x \in Resident(lists) \ {k} |-> Contents[x]]
  BY <1>1, <1>3, <1>6 DEF Contents
<1>. QED BY <1>3, <1>7 DEF Contents, Contract!Erase, Contract!Only, Contract!Present

LEMMA ResizeResizes ==
  ASSUME SoundState, NEW c \in Capacities, Resize(c)
  PROVE  Contract!Resize(c)
<1>1. PICK n \in Nat : ResizeKeeps(c, n)
  BY ResizeKeepsMost
<1>2. PICK kept : kept = Resident(lists')
  OBVIOUS
<1>3. /\ kept \in SUBSET Resident(lists) /\ capacity' = c
      /\ \/ kept = Resident(lists) /\ Cardinality(kept) <= c
         \/ Cardinality(kept) = c
      /\ Contents' = [x \in kept |-> Contents[x]]
  BY <1>1, <1>2 DEF ResizeKeeps, Contents
<1>. QED BY <1>3, SameCardinality DEF Contents, Contract!Resize, Contract!Only, Contract!Present

(* ARCCache and ContextARCCache implement AdaptiveCache, call by call: the   *)
(* cache is the lossy map of CacheContract, for any keys, values, capacities *)
(* and hints.                                                              *)
THEOREM ImplementsTheContract == Spec => ImplementsContract
<1>. DEFINE Step ==
       /\ \A k \in Keys :
            /\ Get(k) => Contract!Read
            /\ Erase(k) => Contract!Erase(k)
            /\ \A v \in Values : Put(k, v) => Contract!Put(k, v)
       /\ HintNext \/ (\E ks \in Predictions : HintFuture(ks)) => Contract!Read
       /\ \A c \in Capacities : Resize(c) => Contract!Resize(c)
       /\ Clear => Contract!Clear
<1>1. Init => Contract!Init
  <2>. SUFFICES ASSUME Init PROVE Contract!Init
    OBVIOUS
  <2>1. Resident(lists) = {}
    BY NoEntriesSound DEF Init
  <2>. QED BY <2>1 DEF Init, Contract!Init
<1>2. SoundState => Step
  <2>1. Clear => Contract!Clear
    BY NoEntriesSound DEF Clear, Contract!Clear
  <2>. QED BY <2>1, ReadReads, PutPuts, EraseErases, ResizeResizes
<1>. QED BY <1>1, <1>2, SoundAlways, PTL DEF Spec, ImplementsContract
=============================================================================
