-------------------------- MODULE CollectionProofs --------------------------
(***************************************************************************)
(* Lemmas about collections of any size: what the operations on a recency  *)
(* list do to its keys, its length and the uniqueness of its nodes; then    *)
(* induction over data, and what the folds and sums of the community        *)
(* modules come to; then the predictors' counts and tables, the end of a    *)
(* log, and the orders and cuts that a ranking may be.                     *)
(***************************************************************************)
EXTENDS RecencyLists, PredictorContract, FiniteSetsExt, SequenceTheorems, FiniteSetTheorems,
        WellFoundedInduction, TLAPS

(* The keys of a list, over positions instead of its DOMAIN. *)
LEMMA KeysOfList ==
  ASSUME NEW S, NEW s \in Seq(S)
  PROVE  /\ Len(s) \in Nat
         /\ \A x : x \in ToSet(s) <=> \E i \in 1..Len(s) : s[i] = x
         /\ \A x : Holds(s, x) <=> x \in ToSet(s)
         /\ ToSet(s) \subseteq S
<1>1. DOMAIN s = 1..Len(s)
  OBVIOUS
<1>. QED BY <1>1 DEF ToSet, Holds, Contains

(* map_.find(k) misses: unlinking k changes nothing. *)
LEMMA UnlinkAbsent ==
  ASSUME NEW s, NEW k, ~Holds(s, k)
  PROVE  Unlink(s, k) = s
BY DEF Unlink, RemoveFirst, Holds, Contains

(* map_.find(k) hits: the one node of k is cut out. *)
LEMMA UnlinkPresent ==
  ASSUME NEW S, NEW s \in Seq(S), NEW i \in 1..Len(s), NoRepeats(s)
  PROVE  Unlink(s, s[i]) = SubSeq(s, 1, i-1) \o SubSeq(s, i+1, Len(s))
<1> DEFINE I == {j \in 1..Len(s) : s[j] = s[i]}
<1>1. I = {i}
  BY DEF NoRepeats
<1>2. Min(I) = i
  BY <1>1 DEF Min
<1>. QED BY <1>1, <1>2 DEF Unlink, RemoveFirst, SelectInSeq, RemoveAt

(* Concatenation, position by position. *)
LEMMA JoinProperties ==
  ASSUME NEW S, NEW a \in Seq(S), NEW b \in Seq(S)
  PROVE  /\ a \o b \in Seq(S)
         /\ Len(a \o b) = Len(a) + Len(b)
         /\ \A j \in 1..Len(a) : (a \o b)[j] = a[j]
         /\ \A j \in 1..Len(b) : (a \o b)[Len(a) + j] = b[j]
<1>1. Len(a) \in Nat /\ Len(b) \in Nat
  BY LenProperties
<1>. QED BY <1>1, ConcatProperties

(* a is what precedes position i of s, and b what follows it. *)
SplitAround(s, i, a, b) ==
  /\ Len(a) = i - 1
  /\ Len(b) = Len(s) - i
  /\ \A j \in 1..(i - 1) : a[j] = s[j]
  /\ \A j \in 1..(Len(s) - i) : b[j] = s[i + j]

(* u is s without its position i. *)
IsCut(S, s, i, u) ==
  /\ u \in Seq(S)
  /\ Len(u) = Len(s) - 1
  /\ \A j \in 1..(i - 1) : u[j] = s[j]
  /\ \A j \in i..(Len(s) - 1) : u[j] = s[j+1]

(* Joining what precedes position i and what follows it cuts i out. *)
LEMMA JoinAround ==
  ASSUME NEW S, NEW s \in Seq(S), NEW i \in 1..Len(s),
         NEW a \in Seq(S), NEW b \in Seq(S), SplitAround(s, i, a, b)
  PROVE  IsCut(S, s, i, a \o b)
<1>1. Len(s) \in Nat /\ i \in Nat /\ 1 <= i /\ i <= Len(s)
  BY LenProperties
<1>2. /\ Len(a) = i - 1 /\ Len(b) = Len(s) - i
      /\ \A j \in 1..(i - 1) : a[j] = s[j]
      /\ \A j \in 1..(Len(s) - i) : b[j] = s[i + j]
  BY DEF SplitAround
<1>. DEFINE u == a \o b
<1>3. /\ u \in Seq(S)
      /\ Len(u) = Len(a) + Len(b)
      /\ \A j \in 1..Len(a) : u[j] = a[j]
      /\ \A j \in 1..Len(b) : u[Len(a) + j] = b[j]
  <2>1. u \in Seq(S)
    BY JoinProperties
  <2>2. Len(u) = Len(a) + Len(b)
    BY JoinProperties
  <2>3. \A j \in 1..Len(a) : u[j] = a[j]
    BY JoinProperties
  <2>4. \A j \in 1..Len(b) : u[Len(a) + j] = b[j]
    BY JoinProperties
  <2>. QED BY <2>1, <2>2, <2>3, <2>4
<1>. HIDE DEF u
<1>4. ASSUME NEW j \in i..(Len(s) - 1)
      PROVE  u[j] = s[j+1]
  <2>1. PICK n : n = j - (i - 1)
    OBVIOUS
  <2>2. PICK la, lb : la = Len(a) /\ lb = Len(b) /\ la = i - 1 /\ lb = Len(s) - i
    BY <1>2
  <2>3. n \in 1..lb /\ la + n = j /\ i + n = j + 1
    BY <1>1, <2>1, <2>2
  <2>4. u[la + n] = b[n]
    BY <1>3, <2>2, <2>3
  <2>5. b[n] = s[i + n]
    BY <1>2, <2>2, <2>3
  <2>. QED BY <2>3, <2>4, <2>5
<1>5. \A j \in 1..(i - 1) : u[j] = s[j]
  BY <1>2, <1>3
<1>6. Len(u) = Len(s) - 1
  BY <1>1, <1>2, <1>3
<1>7. IsCut(S, s, i, u)
  BY <1>3, <1>4, <1>5, <1>6 DEF IsCut
<1>. QED BY <1>7 DEF u

(* Cutting out position i shifts what follows it. *)
LEMMA CutProperties ==
  ASSUME NEW S, NEW s \in Seq(S), NEW i \in 1..Len(s)
  PROVE  IsCut(S, s, i, SubSeq(s, 1, i-1) \o SubSeq(s, i+1, Len(s)))
<1>1. Len(s) \in Nat /\ i \in Nat /\ 1 <= i /\ i <= Len(s)
  BY LenProperties
<1> DEFINE before == SubSeq(s, 1, i-1)
           after  == SubSeq(s, i+1, Len(s))
<1>2. /\ before \in Seq(S)
      /\ Len(before) = i - 1 /\ \A j \in 1..(i - 1) : before[j] = s[j]
  BY <1>1, SubSeqProperties
<1>3. /\ after \in Seq(S)
      /\ Len(after) = Len(s) - i
      /\ \A j \in 1..(Len(s) - i) : after[j] = s[i + j]
  BY <1>1, SubSeqProperties
<1>. HIDE DEF before, after
<1>4. SplitAround(s, i, before, after)
  BY <1>2, <1>3 DEF SplitAround
<1>5. IsCut(S, s, i, before \o after)
  BY <1>2, <1>3, <1>4, JoinAround
<1>. QED BY <1>5 DEF before, after

(* Unlinking k takes exactly k out and keeps the nodes unique. *)
LEMMA UnlinkProperties ==
  ASSUME NEW S, NEW s \in Seq(S), NEW k, NoRepeats(s)
  PROVE  /\ Unlink(s, k) \in Seq(S)
         /\ NoRepeats(Unlink(s, k))
         /\ ToSet(Unlink(s, k)) = ToSet(s) \ {k}
         /\ Len(Unlink(s, k)) = IF k \in ToSet(s) THEN Len(s) - 1 ELSE Len(s)
<1>1. CASE k \notin ToSet(s)
  BY <1>1, UnlinkAbsent, KeysOfList
<1>2. CASE k \in ToSet(s)
  <2>1. PICK i \in 1..Len(s) : s[i] = k
    BY <1>2, KeysOfList
  <2>2. PICK u : u = Unlink(s, k)
    OBVIOUS
  <2>3. /\ u \in Seq(S)
        /\ Len(u) = Len(s) - 1
        /\ \A j \in 1..(i - 1) : u[j] = s[j]
        /\ \A j \in i..(Len(s) - 1) : u[j] = s[j+1]
    <3>1. u = SubSeq(s, 1, i-1) \o SubSeq(s, i+1, Len(s))
      BY <2>1, <2>2, UnlinkPresent
    <3>. QED BY <3>1, CutProperties DEF IsCut
  <2>10. Len(u) \in Nat /\ Len(s) \in Nat
    BY <2>3, LenProperties
  <2>4. NoRepeats(u)
    <3>. SUFFICES ASSUME NEW j \in 1..Len(u), NEW l \in 1..Len(u), u[j] = u[l]
                  PROVE  j = l
      BY DEF NoRepeats
    <3>. DEFINE Old(n) == IF n < i THEN n ELSE n + 1
    <3>1. /\ Old(j) \in 1..Len(s) /\ Old(l) \in 1..Len(s)
          /\ s[Old(j)] = s[Old(l)]
      BY <2>3, <2>10
    <3>2. Old(j) = Old(l)
      BY <3>1 DEF NoRepeats
    <3>. QED BY <3>2, <2>3, <2>10
  <2>5. \A j \in 1..Len(u) : u[j] # k
    BY <2>1, <2>3, <2>10 DEF NoRepeats
  <2>6. ASSUME NEW j \in 1..Len(s), s[j] # k
        PROVE  \E l \in 1..Len(u) : u[l] = s[j]
    <3>1. CASE j < i
      BY <3>1, <2>3, <2>10
    <3>2. CASE j > i
      <4>1. j-1 \in 1..Len(u) /\ u[j-1] = s[j]
        BY <3>2, <2>3, <2>10
      <4>. QED BY <4>1
    <3>. QED BY <3>1, <3>2, <2>1, <2>6
  <2>7. \A j \in 1..Len(u) : \E l \in 1..Len(s) : u[j] = s[l]
    <3>1. \A j \in 1..Len(u) : j \in 1..Len(s) /\ j+1 \in 1..Len(s)
      BY <2>3, <2>10
    <3>. QED BY <2>3, <3>1
  <2>8. ASSUME NEW x
        PROVE  x \in ToSet(u) <=> x \in ToSet(s) /\ x # k
    <3>1. ASSUME x \in ToSet(u) PROVE x \in ToSet(s) /\ x # k
      <4>1. PICK j \in 1..Len(u) : u[j] = x
        BY <3>1, <2>3, KeysOfList
      <4>2. PICK l \in 1..Len(s) : u[j] = s[l]
        BY <2>7
      <4>. QED BY <4>1, <4>2, <2>5, KeysOfList
    <3>2. ASSUME x \in ToSet(s), x # k PROVE x \in ToSet(u)
      <4>1. PICK j \in 1..Len(s) : s[j] = x
        BY <3>2, KeysOfList
      <4>2. PICK l \in 1..Len(u) : u[l] = s[j]
        BY <3>2, <4>1, <2>6
      <4>. QED BY <4>1, <4>2, <2>3, KeysOfList
    <3>. QED BY <3>1, <3>2
  <2>9. ToSet(u) = ToSet(s) \ {k}
    BY <2>8
  <2>. QED BY <1>2, <2>2, <2>3, <2>4, <2>9
<1>. QED BY <1>1, <1>2

(* push_front(k) of a key without a node. *)
LEMMA PushFrontProperties ==
  ASSUME NEW S, NEW u \in Seq(S), NEW k \in S, NoRepeats(u), k \notin ToSet(u)
  PROVE  /\ PushFront(u, k) \in Seq(S)
         /\ NoRepeats(PushFront(u, k))
         /\ ToSet(PushFront(u, k)) = ToSet(u) \cup {k}
         /\ Len(PushFront(u, k)) = Len(u) + 1
<1>2. u \in Seq(S) /\ NoRepeats(u) /\ k \notin ToSet(u) /\ Len(u) \in Nat
  BY LenProperties
<1>3. PICK t : t = <<k>> \o u
  OBVIOUS
<1>4. PushFront(u, k) = t
  BY <1>3 DEF PushFront, Cons
<1>5. /\ t \in Seq(S) /\ Len(t) = Len(u) + 1 /\ t[1] = k
      /\ Len(u) \in Nat /\ 1 \in 1..Len(t)
      /\ \A j \in 2..Len(t) : t[j] = u[j-1] /\ j-1 \in 1..Len(u)
  BY <1>2, <1>3
<1>6. \A j \in 2..Len(t) : t[j] # k
  <2>. TAKE j \in 2..Len(t)
  <2>1. u[j-1] \in ToSet(u)
    BY <1>2, <1>5, KeysOfList
  <2>. QED BY <2>1, <1>2, <1>5
<1>7. \A j \in 1..Len(u) : t[j+1] = u[j] /\ j + 1 \in 1..Len(t)
  BY <1>2, <1>5
<1>8. ASSUME NEW i \in 1..Len(t), NEW j \in 1..Len(t), t[i] = t[j]
      PROVE  i = j
  <2>1. CASE i = 1 \/ j = 1
    BY <2>1, <1>8, <1>2, <1>5, <1>6
  <2>2. CASE i \in 2..Len(t) /\ j \in 2..Len(t)
    <3>1. u[i-1] = u[j-1] /\ i-1 \in 1..Len(u) /\ j-1 \in 1..Len(u)
      BY <2>2, <1>5, <1>8
    <3>2. i - 1 = j - 1
      BY <3>1, <1>2 DEF NoRepeats
    <3>. QED BY <3>2
  <2>. QED BY <2>1, <2>2
<1>9. NoRepeats(t)
  BY <1>8 DEF NoRepeats
<1>10. ASSUME NEW x
       PROVE  x \in ToSet(t) <=> x \in ToSet(u) \/ x = k
  <2>1. CASE x \in ToSet(t)
    <3>1. PICK j \in 1..Len(t) : t[j] = x
      BY <2>1, <1>5, KeysOfList
    <3>2. CASE j = 1
      <4>1. x = k
        BY <3>1, <3>2, <1>5
      <4>. QED BY <4>1, <2>1
    <3>3. CASE j \in 2..Len(t)
      BY <3>1, <3>3, <1>2, <1>5, KeysOfList
    <3>. QED BY <3>2, <3>3, <2>1
  <2>2. CASE x \in ToSet(u)
    <3>1. PICK j \in 1..Len(u) : u[j] = x
      BY <2>2, <1>2, KeysOfList
    <3>2. j + 1 \in 1..Len(t) /\ t[j+1] = x
      BY <3>1, <1>7
    <3>3. x \in ToSet(t)
      BY <3>2, <1>5, KeysOfList
    <3>. QED BY <3>3, <2>2
  <2>3. CASE x = k
    <3>1. 1 \in 1..Len(t)
      BY <1>2, <1>5
    <3>. QED BY <3>1, <2>3, <1>5, KeysOfList
  <2>. QED BY <2>1, <2>2, <2>3
<1>11. ToSet(t) = ToSet(u) \cup {k}
  BY <1>2, <1>10
<1>. QED BY <1>2, <1>4, <1>5, <1>9, <1>11

(* Touching k puts it among the keys and keeps the nodes unique. *)
LEMMA TouchProperties ==
  ASSUME NEW S, NEW s \in Seq(S), NEW k \in S, NoRepeats(s)
  PROVE  /\ Touch(s, k) \in Seq(S)
         /\ NoRepeats(Touch(s, k))
         /\ ToSet(Touch(s, k)) = ToSet(s) \cup {k}
         /\ Len(Touch(s, k)) = IF k \in ToSet(s) THEN Len(s) ELSE Len(s) + 1
<1>1. PICK u : u = Unlink(s, k)
  OBVIOUS
<1>2. /\ u \in Seq(S) /\ NoRepeats(u) /\ ToSet(u) = ToSet(s) \ {k}
      /\ Len(u) = IF k \in ToSet(s) THEN Len(s) - 1 ELSE Len(s)
      /\ Len(s) \in Nat
  BY <1>1, UnlinkProperties, LenProperties
<1>3. Touch(s, k) = PushFront(u, k)
  BY <1>1 DEF Touch
<1>4. /\ PushFront(u, k) \in Seq(S)
      /\ NoRepeats(PushFront(u, k))
      /\ ToSet(PushFront(u, k)) = ToSet(u) \cup {k}
      /\ Len(PushFront(u, k)) = Len(u) + 1
  BY <1>2, PushFrontProperties
<1>. QED BY <1>2, <1>3, <1>4

(* pop_back() takes exactly the tail out. *)
LEMMA DropTailProperties ==
  ASSUME NEW S, NEW s \in Seq(S), s # << >>, NoRepeats(s)
  PROVE  /\ DropTail(s) \in Seq(S)
         /\ NoRepeats(DropTail(s))
         /\ Last(s) \in ToSet(s)
         /\ ToSet(DropTail(s)) = ToSet(s) \ {Last(s)}
         /\ Len(DropTail(s)) = Len(s) - 1
<1>1. Len(s) \in Nat \ {0} /\ Len(s) \in 1..Len(s) /\ Last(s) = s[Len(s)]
  BY EmptySeq DEF Last
<1> DEFINE u == DropTail(s)
<1>2. /\ u \in Seq(S) /\ Len(u) = Len(s) - 1
      /\ \A j \in 1..(Len(s) - 1) : u[j] = s[j]
  <2>1. \A j \in 1..(Len(s) - 1) : s[j] \in S
    BY <1>1, ElementOfSeq
  <2>2. u = SubSeq(s, 1, Len(s) - 1)
    BY DEF DropTail, Front
  <2>3. PICK n \in Nat : n = Len(s) - 1
    BY <1>1
  <2>4. \A j \in 1..n : s[j] \in S
    BY <2>1, <2>3
  <2>5. /\ SubSeq(s, 1, n) \in Seq(S)
        /\ Len(SubSeq(s, 1, n)) = n
        /\ \A j \in 1..n : SubSeq(s, 1, n)[j] = s[j]
    BY <2>4, SubSeqProperties
  <2>. QED BY <2>2, <2>3, <2>5, Zenon
<1>. HIDE DEF u
<1>5. NoRepeats(u)
  BY <1>1, <1>2 DEF NoRepeats
<1>6. ASSUME NEW x
      PROVE  x \in ToSet(u) <=> x \in ToSet(s) /\ x # Last(s)
  <2>1. ASSUME x \in ToSet(u) PROVE x \in ToSet(s) /\ x # Last(s)
    <3>1. PICK j \in 1..Len(u) : u[j] = x
      BY <2>1, <1>2, KeysOfList
    <3>2. j \in 1..Len(s) /\ j # Len(s) /\ s[j] = x
      BY <3>1, <1>1, <1>2
    <3>. QED BY <3>2, <1>1, KeysOfList DEF NoRepeats
  <2>2. ASSUME x \in ToSet(s), x # Last(s) PROVE x \in ToSet(u)
    <3>1. PICK j \in 1..Len(s) : s[j] = x
      BY <2>2, KeysOfList
    <3>2. j \in 1..Len(u) /\ u[j] = x
      BY <3>1, <2>2, <1>1, <1>2
    <3>. QED BY <3>2, <1>2, KeysOfList
  <2>. QED BY <2>1, <2>2
<1>7. Last(s) \in ToSet(s)
  BY <1>1, KeysOfList
<1>8. ToSet(u) = ToSet(s) \ {Last(s)}
  BY <1>6
<1>. QED BY <1>2, <1>5, <1>7, <1>8 DEF u

(* Popping any number of tails leaves a prefix. *)
LEMMA PrefixProperties ==
  ASSUME NEW S, NEW s \in Seq(S), NEW n \in 0..Len(s), NoRepeats(s)
  PROVE  /\ SubSeq(s, 1, n) \in Seq(S)
         /\ NoRepeats(SubSeq(s, 1, n))
         /\ ToSet(SubSeq(s, 1, n)) \subseteq ToSet(s)
         /\ Len(SubSeq(s, 1, n)) = n
<1>1. Len(s) \in Nat /\ n \in Nat /\ n <= Len(s)
  BY LenProperties
<1> DEFINE u == SubSeq(s, 1, n)
<1>2. /\ u \in Seq(S) /\ Len(u) = n
      /\ \A j \in 1..n : u[j] = s[j]
  <2>1. \A j \in 1..n : s[j] \in S
    BY <1>1, ElementOfSeq
  <2>. QED BY <2>1, <1>1, SubSeqProperties
<1>. HIDE DEF u
<1>3. NoRepeats(u)
  BY <1>1, <1>2 DEF NoRepeats
<1>4. ASSUME NEW x \in ToSet(u)
      PROVE  x \in ToSet(s)
  <2>1. PICK j \in 1..Len(u) : u[j] = x
    BY <1>2, KeysOfList
  <2>2. j \in 1..Len(s) /\ s[j] = x
    BY <2>1, <1>1, <1>2
  <2>. QED BY <2>2, KeysOfList
<1>. QED BY <1>2, <1>3, <1>4 DEF u

(* A list of different keys has as many keys as nodes. *)
LEMMA KeysCounted ==
  ASSUME NEW S, NEW s \in Seq(S), NoRepeats(s)
  PROVE  IsFiniteSet(ToSet(s)) /\ Cardinality(ToSet(s)) = Len(s)
<1>1. Len(s) \in Nat /\ DOMAIN s = 1..Len(s)
  BY LenProperties
<1>2. s \in Bijection(1..Len(s), ToSet(s))
  <2>1. s \in [1..Len(s) -> ToSet(s)]
    <3>1. \A i \in 1..Len(s) : s[i] \in ToSet(s)
      BY KeysOfList
    <3>2. s = [i \in 1..Len(s) |-> s[i]]
      BY <1>1
    <3> QED
      BY <3>1, <3>2
  <2>2. IsInjective(s)
    BY <1>1 DEF NoRepeats, IsInjective
  <2>3. \A x \in ToSet(s) : \E i \in 1..Len(s) : s[i] = x
    BY KeysOfList
  <2> QED
    BY <2>1, <2>2, <2>3 DEF Bijection, Injection, Surjection
<1>3. IsFiniteSet(1..Len(s)) /\ Cardinality(1..Len(s)) = Len(s)
  <2>1. 1 \in Int /\ Len(s) \in Int
    BY <1>1
  <2>2. Cardinality(1..Len(s)) = IF 1 > Len(s) THEN 0 ELSE Len(s) - 1 + 1
    BY <2>1, FS_Interval
  <2> QED
    BY <1>1, <2>1, <2>2, FS_Interval
<1> QED
  BY <1>2, <1>3, FS_Bijection DEF ExistsBijection

-----------------------------------------------------------------------------
(* The order of recency.  Only keys of the list are in it, each pair in one  *)
(* way.                                                                    *)
LEMMA BeforeKeys ==
  ASSUME NEW S, NEW s \in Seq(S), NEW x, NEW y, Before(s, x, y)
  PROVE  /\ x \in ToSet(s) /\ y \in ToSet(s)
         /\ NoRepeats(s) => x # y
<1>1. PICK p \in 1..Len(s), q \in 1..Len(s) : p < q /\ s[p] = x /\ s[q] = y
  BY DEF Before
<1>2. Len(s) \in Nat
  BY LenProperties
<1>3. x \in ToSet(s) /\ y \in ToSet(s)
  BY <1>1, KeysOfList
<1>4. ASSUME NoRepeats(s), x = y PROVE FALSE
  BY <1>1, <1>2, <1>4 DEF NoRepeats
<1>. QED BY <1>3, <1>4

(* Nothing is less recent than the tail.                                   *)
LEMMA NothingAfterTail ==
  ASSUME NEW S, NEW s \in Seq(S), NoRepeats(s), NEW y
  PROVE  ~Before(s, s[Len(s)], y)
<1>1. SUFFICES ASSUME Before(s, s[Len(s)], y) PROVE FALSE
  OBVIOUS
<1>2. PICK p \in 1..Len(s), q \in 1..Len(s) : p < q /\ s[p] = s[Len(s)] /\ s[q] = y
  BY <1>1 DEF Before
<1>3. Len(s) \in Nat /\ Len(s) \in 1..Len(s)
  BY <1>2, LenProperties
<1>4. p = Len(s)
  BY <1>2, <1>3 DEF NoRepeats
<1>. QED BY <1>2, <1>3, <1>4

(* Unlinking k leaves the order of the others.                              *)
LEMMA UnlinkKeepsOrder ==
  ASSUME NEW S, NEW s \in Seq(S), NEW k, NoRepeats(s), NEW x, NEW y
  PROVE  Before(Unlink(s, k), x, y) <=> Before(s, x, y) /\ x # k /\ y # k
<1>1. Len(s) \in Nat
  BY LenProperties
<1>2. CASE k \notin ToSet(s)
  <2>1. Unlink(s, k) = s
    BY <1>2, KeysOfList, UnlinkAbsent
  <2>2. Before(s, x, y) => x # k /\ y # k
    BY <1>2, BeforeKeys
  <2>. QED BY <2>1, <2>2
<1>3. CASE k \in ToSet(s)
  <2>1. PICK i \in 1..Len(s) : s[i] = k
    BY <1>3, KeysOfList
  <2>2. PICK u : u = Unlink(s, k)
    OBVIOUS
  <2>3. IsCut(S, s, i, u)
    BY <2>1, <2>2, UnlinkPresent, CutProperties
  <2>4. /\ Len(u) = Len(s) - 1
        /\ \A j \in 1..(i - 1) : u[j] = s[j]
        /\ \A j \in i..(Len(s) - 1) : u[j] = s[j + 1]
    BY <2>3 DEF IsCut
  <2>5. ASSUME Before(u, x, y) PROVE Before(s, x, y) /\ x # k /\ y # k
    <3>1. PICK p \in 1..Len(u), q \in 1..Len(u) : p < q /\ u[p] = x /\ u[q] = y
      BY <2>5 DEF Before
    <3>2. PICK a : a = IF p < i THEN p ELSE p + 1
      OBVIOUS
    <3>3. PICK b : b = IF q < i THEN q ELSE q + 1
      OBVIOUS
    <3>4. /\ a \in 1..Len(s) /\ b \in 1..Len(s) /\ a < b
          /\ a # i /\ b # i
      BY <1>1, <2>4, <3>1, <3>2, <3>3
    <3>5. s[a] = x
      BY <1>1, <2>4, <3>1, <3>2
    <3>6. s[b] = y
      BY <1>1, <2>4, <3>1, <3>3
    <3>7. Before(s, x, y)
      BY <3>4, <3>5, <3>6 DEF Before
    <3>8. x # k /\ y # k
      BY <2>1, <3>4, <3>5, <3>6 DEF NoRepeats
    <3>. QED BY <3>7, <3>8
  <2>6. ASSUME Before(s, x, y), x # k, y # k PROVE Before(u, x, y)
    <3>1. PICK p \in 1..Len(s), q \in 1..Len(s) : p < q /\ s[p] = x /\ s[q] = y
      BY <2>6 DEF Before
    <3>2. PICK a : a = IF p < i THEN p ELSE p - 1
      OBVIOUS
    <3>3. PICK b : b = IF q < i THEN q ELSE q - 1
      OBVIOUS
    <3>4. p # i /\ q # i
      BY <2>1, <2>6, <3>1
    <3>5. a \in 1..Len(u) /\ b \in 1..Len(u) /\ a < b
      BY <1>1, <2>4, <3>1, <3>2, <3>3, <3>4
    <3>6. u[a] = x
      BY <1>1, <2>4, <3>1, <3>2, <3>4
    <3>7. u[b] = y
      BY <1>1, <2>4, <3>1, <3>3, <3>4
    <3>. QED BY <3>5, <3>6, <3>7 DEF Before
  <2>. QED BY <2>2, <2>5, <2>6
<1>. QED BY <1>2, <1>3

(* What is pushed in front is more recent than all there was.               *)
LEMMA PushFrontOrder ==
  ASSUME NEW S, NEW u \in Seq(S), NEW k \in S, NEW x, NEW y
  PROVE  Before(PushFront(u, k), x, y) <=>
           \/ x = k /\ y \in ToSet(u)
           \/ Before(u, x, y)
<1>1. PICK t : t = <<k>> \o u
  OBVIOUS
<1>2. PushFront(u, k) = t
  BY <1>1 DEF PushFront, Cons
<1>3. /\ t \in Seq(S) /\ Len(t) = Len(u) + 1 /\ t[1] = k
      /\ Len(u) \in Nat
      /\ \A j \in 2..Len(t) : t[j] = u[j - 1]
  BY <1>1, LenProperties
<1>7. \A j \in 1..Len(u) : t[j + 1] = u[j]
  <2>. SUFFICES ASSUME NEW j \in 1..Len(u) PROVE t[j + 1] = u[j]
    OBVIOUS
  <2>1. j + 1 \in 2..Len(t) /\ (j + 1) - 1 = j
    BY <1>3
  <2>. QED BY <1>3, <2>1
<1>4. ASSUME Before(t, x, y) PROVE (x = k /\ y \in ToSet(u)) \/ Before(u, x, y)
  <2>1. PICK p \in 1..Len(t), q \in 1..Len(t) : p < q /\ t[p] = x /\ t[q] = y
    BY <1>4 DEF Before
  <2>2. q - 1 \in 1..Len(u) /\ u[q - 1] = y
    BY <1>3, <2>1
  <2>3. CASE p = 1
    BY <1>3, <2>1, <2>2, <2>3, KeysOfList
  <2>4. CASE p # 1
    <3>1. p - 1 \in 1..Len(u) /\ u[p - 1] = x /\ p - 1 < q - 1
      BY <1>3, <2>1, <2>4
    <3>. QED BY <2>2, <3>1 DEF Before
  <2>. QED BY <2>3, <2>4
<1>5. ASSUME x = k, y \in ToSet(u) PROVE Before(t, x, y)
  <2>1. PICK q \in 1..Len(u) : u[q] = y
    BY <1>5, KeysOfList
  <2>2. 1 \in 1..Len(t) /\ q + 1 \in 1..Len(t) /\ 1 < q + 1 /\ t[q + 1] = y
    BY <1>3, <1>7, <2>1
  <2>. QED BY <1>3, <1>5, <2>2 DEF Before
<1>6. ASSUME Before(u, x, y) PROVE Before(t, x, y)
  <2>1. PICK p \in 1..Len(u), q \in 1..Len(u) : p < q /\ u[p] = x /\ u[q] = y
    BY <1>6 DEF Before
  <2>2. /\ p + 1 \in 1..Len(t) /\ q + 1 \in 1..Len(t) /\ p + 1 < q + 1
        /\ t[p + 1] = x /\ t[q + 1] = y
    BY <1>3, <1>7, <2>1
  <2>. QED BY <2>2 DEF Before
<1>. QED BY <1>2, <1>4, <1>5, <1>6

(* A touched key becomes the most recent; the others keep their order.      *)
LEMMA TouchOrder ==
  ASSUME NEW S, NEW s \in Seq(S), NEW k \in S, NoRepeats(s), NEW x, NEW y
  PROVE  Before(Touch(s, k), x, y) <=>
           \/ x = k /\ y \in ToSet(s) \ {k}
           \/ Before(s, x, y) /\ x # k /\ y # k
<1>1. /\ Unlink(s, k) \in Seq(S)
      /\ ToSet(Unlink(s, k)) = ToSet(s) \ {k}
  BY UnlinkProperties
<1>2. Before(Unlink(s, k), x, y) <=> Before(s, x, y) /\ x # k /\ y # k
  BY UnlinkKeepsOrder
<1>. QED BY <1>1, <1>2, PushFrontOrder DEF Touch

(* Popping tails leaves the order of what is left.                          *)
LEMMA PrefixOrder ==
  ASSUME NEW S, NEW s \in Seq(S), NEW n \in 0..Len(s), NEW x, NEW y,
         Before(SubSeq(s, 1, n), x, y)
  PROVE  Before(s, x, y)
<1>1. PICK u : u = SubSeq(s, 1, n)
  OBVIOUS
<1>2. Len(s) \in Nat /\ n \in Nat /\ n <= Len(s)
  BY LenProperties
<1>3. Len(u) = n /\ \A j \in 1..n : u[j] = s[j]
  <2>1. \A j \in 1..n : s[j] \in S
    BY <1>2, ElementOfSeq
  <2>. QED BY <1>1, <1>2, <2>1, SubSeqProperties
<1>4. PICK p \in 1..Len(u), q \in 1..Len(u) : p < q /\ u[p] = x /\ u[q] = y
  BY <1>1 DEF Before
<1>5. p \in 1..Len(s) /\ q \in 1..Len(s) /\ s[p] = x /\ s[q] = y
  BY <1>2, <1>3, <1>4
<1>. QED BY <1>4, <1>5 DEF Before

-----------------------------------------------------------------------------
(* Induction over data.  The library's induction theorems take the predicate *)
(* as an operator; here it is a set, which the provers can instantiate.     *)
LEMMA NatInductionOnSet ==
  ASSUME NEW N, 0 \in N, \A n \in N \cap Nat : n + 1 \in N
  PROVE  Nat \subseteq N
<1>1. SUFFICES ASSUME Nat \ N # {} PROVE FALSE
  OBVIOUS
<1>2. PICK m \in Nat \ N : \A y \in Nat \ N : <<y, m>> \notin OpToRel(<, Nat)
  BY <1>1, NatLessThanWellFounded, WFMin
<1>3. \A y \in Nat \ N : ~(y < m)
  BY <1>2 DEF OpToRel
<1>4. m # 0 /\ m - 1 \in Nat /\ m - 1 < m /\ (m - 1) + 1 = m
  OBVIOUS
<1>5. m - 1 \in N \cap Nat
  BY <1>3, <1>4
<1>. QED BY <1>4, <1>5

(* A set of subsets of S that has the empty one, and with each one that     *)
(* with one element more, has all of them.                                 *)
LEMMA FiniteInductionOnSet ==
  ASSUME NEW S, IsFiniteSet(S), NEW F, {} \in F,
         \A T \in SUBSET S, x \in S : T \in F /\ x \notin T => T \cup {x} \in F
  PROVE  SUBSET S \subseteq F
<1>. DEFINE N == {n \in Nat : \A T \in SUBSET S : Cardinality(T) = n => T \in F}
<1>1. \A T \in SUBSET S : IsFiniteSet(T) /\ Cardinality(T) \in Nat
  BY FS_Subset, FS_CardinalityType
<1>2. 0 \in N
  BY <1>1, FS_EmptySet
<1>3. ASSUME NEW n \in N \cap Nat PROVE n + 1 \in N
  <2>1. ASSUME NEW T \in SUBSET S, Cardinality(T) = n + 1 PROVE T \in F
    <3>1. T # {}
      BY <2>1, FS_EmptySet
    <3>2. PICK x \in T : TRUE
      BY <3>1
    <3>3. Cardinality(T \ {x}) = n
      BY <1>1, <2>1, <3>2, FS_RemoveElement
    <3>4. T \ {x} \in F /\ T \ {x} \in SUBSET S /\ (T \ {x}) \cup {x} = T
      BY <3>2, <3>3
    <3>. QED BY <3>2, <3>4
  <2>. QED BY <2>1
<1>4. Nat \subseteq N
  <2>. HIDE DEF N
  <2>. QED BY <1>2, <1>3, NatInductionOnSet
<1>. QED BY <1>1, <1>4

-----------------------------------------------------------------------------
(* The recursion that every fold of the community modules is: take the      *)
(* element that C chooses, apply the step G of that element to the fold of  *)
(* the rest.                                                               *)
IsFold(f, S, base, C, G) ==
  f = [s \in SUBSET S |-> IF s = {} THEN base ELSE G[C[s]][f[s \ {C[s]}]]]
Chooses(C, S) == \A s \in SUBSET S : s # {} => C[s] \in s

(* There is such a function, for any finite set.                            *)
LEMMA FoldExists ==
  ASSUME NEW S, IsFiniteSet(S), NEW B, NEW base \in B, NEW C, Chooses(C, S),
         NEW G \in [S -> [B -> B]]
  PROVE  \E f \in [SUBSET S -> B] : IsFold(f, S, base, C, G)
<1>. DEFINE Value(f, s) == IF s = {} THEN base ELSE G[C[s]][f[s \ {C[s]}]]
            Upto(f, n) == \A s \in SUBSET S : Cardinality(s) <= n => f[s] = Value(f, s)
            N == {n \in Nat : \E f \in [SUBSET S -> B] : Upto(f, n)}
<1>1. \A s \in SUBSET S : IsFiniteSet(s) /\ Cardinality(s) \in Nat
                           /\ Cardinality(s) <= Cardinality(S)
  BY FS_Subset, FS_CardinalityType
<1>2. 0 \in N
  <2>1. \A s \in SUBSET S : Cardinality(s) <= 0 => s = {}
    BY <1>1, FS_EmptySet
  <2>2. Upto([s \in SUBSET S |-> base], 0)
    BY <2>1
  <2>3. [s \in SUBSET S |-> base] \in [SUBSET S -> B]
    OBVIOUS
  <2>. HIDE DEF Upto
  <2>. QED BY <2>2, <2>3
<1>3. ASSUME NEW n \in N \cap Nat PROVE n + 1 \in N
  <2>1. PICK f \in [SUBSET S -> B] : Upto(f, n)
    BY <1>3
  <2>. DEFINE g == [s \in SUBSET S |-> Value(f, s)]
  <2>2. g \in [SUBSET S -> B]
    BY DEF Chooses
  <2>3. ASSUME NEW s \in SUBSET S, Cardinality(s) <= n + 1
        PROVE  g[s] = Value(g, s)
    <3>1. CASE s = {}
      BY <3>1
    <3>2. CASE s # {}
      <4>. DEFINE t == s \ {C[s]}
      <4>1. C[s] \in s
        BY <3>2 DEF Chooses
      <4>2. Cardinality(t) <= n
        BY <1>1, <2>3, <4>1, FS_RemoveElement
      <4>3. f[t] = Value(f, t)
        BY <2>1, <4>2
      <4>4. g[t] = f[t]
        BY <4>3
      <4>. HIDE DEF t
      <4>. QED BY <3>2, <4>4 DEF t
    <3>. QED BY <3>1, <3>2
  <2>4. Upto(g, n + 1)
    <3>. HIDE DEF g, Value
    <3>. QED BY <2>3
  <2>. HIDE DEF g, Upto
  <2>. QED BY <2>2, <2>4
<1>4. Nat \subseteq N
  <2>. HIDE DEF N
  <2>. QED BY <1>2, <1>3, NatInductionOnSet
<1>5. PICK f \in [SUBSET S -> B] : Upto(f, Cardinality(S))
  <2>. HIDE DEF Upto
  <2>. QED BY <1>1, <1>4
<1>6. \A s \in SUBSET S : f[s] = Value(f, s)
  BY <1>1, <1>5
<1>7. IsFold(f, S, base, C, G)
  BY <1>6 DEF IsFold
<1>. QED BY <1>7


-----------------------------------------------------------------------------
(* Folds over a sequence go through its positions from the first to the     *)
(* last: the fold of the positions s applies the step of the last of them,   *)
(* which is one of them.                                                   *)
LEMMA MaxOfPositions ==
  ASSUME NEW n \in Nat, NEW s \in SUBSET (1..n), s # {}
  PROVE  Max(s) \in s /\ \A y \in s : y <= Max(s)
<1>. DEFINE N == {m \in Nat : \A x \in SUBSET (1..m) :
                     x # {} => \E a \in x : \A b \in x : a >= b}
<1>1. 0 \in N
  <2>1. 1..0 = {}
    OBVIOUS
  <2>. QED BY <2>1
<1>2. ASSUME NEW m \in N \cap Nat PROVE m + 1 \in N
  <2>1. ASSUME NEW x \in SUBSET (1..(m + 1)), x # {}
        PROVE  \E a \in x : \A b \in x : a >= b
    <3>1. CASE m + 1 \in x
      BY <3>1
    <3>2. CASE m + 1 \notin x
      <4>1. x \in SUBSET (1..m)
        BY <3>2
      <4>. QED BY <2>1, <4>1
    <3>. QED BY <3>1, <3>2
  <2>. QED BY <2>1
<1>3. Nat \subseteq N
  <2>. HIDE DEF N
  <2>. QED BY <1>1, <1>2, NatInductionOnSet
<1>. QED BY <1>3 DEF Max

(* The first k positions: the last is k, and before it are the first k - 1. *)
LEMMA MaxOfPrefix ==
  ASSUME NEW k \in Nat, k # 0
  PROVE  1..k # {} /\ Max(1..k) = k /\ (1..k) \ {k} = 1..(k - 1)
<1>1. Max(1..k) \in 1..k /\ \A y \in 1..k : y <= Max(1..k)
  <2>1. ASSUME NEW s \in SUBSET (1..k), s # {}
        PROVE  Max(s) \in s /\ \A y \in s : y <= Max(s)
    BY <2>1, MaxOfPositions
  <2>2. 1..k # {}
    OBVIOUS
  <2>. QED BY <2>1, <2>2
<1>. QED BY <1>1

(* G[k] is the step of position k. *)
FoldUp(f, n, base, G) ==
  f = [s \in SUBSET (1..n) |-> IF s = {} THEN base ELSE G[Max(s)][f[s \ {Max(s)}]]]

(* There is such a function, for any length.                                *)
LEMMA FoldUpExists ==
  ASSUME NEW n \in Nat, NEW B, NEW base \in B, NEW G \in [1..n -> [B -> B]]
  PROVE  \E f \in [SUBSET (1..n) -> B] : FoldUp(f, n, base, G)
<1>1. PICK C : C = [s \in SUBSET (1..n) |-> Max(s)]
  OBVIOUS
<1>2. PICK S : S = 1..n
  OBVIOUS
<1>3. IsFiniteSet(S)
  BY <1>2, FS_Interval
<1>4. Chooses(C, S)
  BY <1>1, <1>2, MaxOfPositions DEF Chooses
<1>5. G \in [S -> [B -> B]]
  BY <1>2
<1>6. PICK f \in [SUBSET S -> B] : IsFold(f, S, base, C, G)
  BY <1>3, <1>4, <1>5, FoldExists
<1>7. \A s \in SUBSET S : C[s] = Max(s)
  BY <1>1, <1>2
<1>8. f = [s \in SUBSET S |-> IF s = {} THEN base ELSE G[C[s]][f[s \ {C[s]}]]]
  BY <1>6 DEF IsFold
<1>9. f = [s \in SUBSET S |-> IF s = {} THEN base ELSE G[Max(s)][f[s \ {Max(s)}]]]
  BY <1>7, <1>8
<1>10. FoldUp(f, n, base, G)
  BY <1>2, <1>9 DEF FoldUp
<1>. QED BY <1>2, <1>6, <1>10

-----------------------------------------------------------------------------
(* Sums over a finite set: which element is added first makes no difference. *)
Integral(f, S) == \A x \in S : f[x] \in Int

Choice(S) == [s \in SUBSET S |-> CHOOSE x \in s : TRUE]
Adding(f, S) == [x \in S |-> [n \in Int |-> f[x] + n]]
SumFold(h, f, S) ==
  h = [s \in SUBSET S |-> IF s = {} THEN 0
                          ELSE f[CHOOSE x \in s : TRUE] + h[s \ {CHOOSE x \in s : TRUE}]]

(* There is a function that sums, whichever element comes first.             *)
LEMMA SumFoldExists ==
  ASSUME NEW S, IsFiniteSet(S), NEW f, Integral(f, S)
  PROVE  \E h \in [SUBSET S -> Int] : SumFold(h, f, S)
<1>1. Chooses(Choice(S), S)
  BY DEF Chooses, Choice
<1>2. Adding(f, S) \in [S -> [Int -> Int]]
  BY DEF Adding, Integral
<1>3. PICK h \in [SUBSET S -> Int] : IsFold(h, S, 0, Choice(S), Adding(f, S))
  <2>1. 0 \in Int
    OBVIOUS
  <2>2. ASSUME NEW C, Chooses(C, S), NEW G \in [S -> [Int -> Int]]
        PROVE  \E h \in [SUBSET S -> Int] : IsFold(h, S, 0, C, G)
    BY <2>1, <2>2, FoldExists
  <2>. QED BY <1>1, <1>2, <2>2
<1>4. ASSUME NEW s \in SUBSET S, s # {}
      PROVE  h[s] = f[CHOOSE x \in s : TRUE] + h[s \ {CHOOSE x \in s : TRUE}]
  <2>1. PICK c : c = CHOOSE x \in s : TRUE
    OBVIOUS
  <2>2. c \in s /\ c \in S /\ Choice(S)[s] = c
    BY <1>4, <2>1 DEF Choice
  <2>3. h[s] = Adding(f, S)[c][h[s \ {c}]]
    BY <1>3, <1>4, <2>2 DEF IsFold
  <2>4. h[s \ {c}] \in Int
    OBVIOUS
  <2>. QED BY <2>1, <2>2, <2>3, <2>4 DEF Adding
<1>5. h[{}] = 0
  BY <1>3 DEF IsFold
<1>6. SumFold(h, f, S)
  BY <1>4, <1>5 DEF SumFold
<1>. QED BY <1>6

(* Two such functions agree on the sets that both sum over.                  *)
LEMMA SumFoldUnique ==
  ASSUME NEW S, IsFiniteSet(S), NEW T \in SUBSET S, NEW f,
         NEW h, SumFold(h, f, S), NEW g, SumFold(g, f, T)
  PROVE  \A s \in SUBSET T : g[s] = h[s]
<1>. DEFINE N == {n \in Nat : \A s \in SUBSET T : Cardinality(s) = n => g[s] = h[s]}
<1>1. \A s \in SUBSET T : IsFiniteSet(s) /\ Cardinality(s) \in Nat
  BY FS_Subset, FS_CardinalityType
<1>2. g[{}] = 0 /\ h[{}] = 0
  BY DEF SumFold
<1>3. 0 \in N
  <2>1. \A s \in SUBSET T : Cardinality(s) = 0 => s = {}
    BY <1>1, FS_EmptySet
  <2>. QED BY <1>2, <2>1
<1>4. ASSUME NEW n \in N \cap Nat PROVE n + 1 \in N
  <2>1. ASSUME NEW s \in SUBSET T, Cardinality(s) = n + 1 PROVE g[s] = h[s]
    <3>1. s # {}
      BY <2>1, FS_EmptySet
    <3>2. PICK c : c = CHOOSE x \in s : TRUE
      OBVIOUS
    <3>3. c \in s
      BY <3>1, <3>2
    <3>4. Cardinality(s \ {c}) = n
      <4>1. IsFiniteSet(s) /\ Cardinality(s) = n + 1 /\ n \in Nat
        BY <1>1, <2>1
      <4>2. Cardinality(s \ {c}) = Cardinality(s) - 1
        BY <4>1, <3>3, FS_RemoveElement
      <4>. QED BY <4>1, <4>2
    <3>5. g[s \ {c}] = h[s \ {c}]
      BY <3>4
    <3>6. g[s] = f[c] + g[s \ {c}]
      BY <3>1, <3>2 DEF SumFold
    <3>7. h[s] = f[c] + h[s \ {c}]
      BY <3>1, <3>2 DEF SumFold
    <3>. QED BY <3>5, <3>6, <3>7
  <2>. QED BY <2>1
<1>5. Nat \subseteq N
  <2>. HIDE DEF N
  <2>. QED BY <1>3, <1>4, NatInductionOnSet
<1>. QED BY <1>1, <1>5

(* Sums of one and the same function are values of one function.            *)
SumsOf(h, f, S) ==
  /\ h \in [SUBSET S -> Int]
  /\ SumFold(h, f, S)
  /\ \A T \in SUBSET S : SumFunctionOnSet(f, T) = h[T]

LEMMA SumIsFold ==
  ASSUME NEW S, IsFiniteSet(S), NEW f, Integral(f, S)
  PROVE  \E h : SumsOf(h, f, S)
<1>1. PICK h \in [SUBSET S -> Int] : SumFold(h, f, S)
  BY SumFoldExists
<1>2. ASSUME NEW T \in SUBSET S PROVE SumFunctionOnSet(f, T) = h[T]
  <2>. DEFINE g == CHOOSE g : SumFold(g, f, T)
  <2>1. SumFunctionOnSet(f, T) = g[T]
    BY DEF SumFunctionOnSet, FoldFunctionOnSet, MapThenFoldSet, SumFold
  <2>2. IsFiniteSet(T) /\ Integral(f, T)
    BY FS_Subset DEF Integral
  <2>3. \E k : SumFold(k, f, T)
    BY <2>2, SumFoldExists
  <2>4. SumFold(g, f, T)
    BY <2>3
  <2>. HIDE DEF g
  <2>5. \A s \in SUBSET T : g[s] = h[s]
    BY <1>1, <2>4, SumFoldUnique
  <2>. QED BY <2>1, <2>5
<1>3. SumsOf(h, f, S)
  BY <1>1, <1>2 DEF SumsOf
<1>. QED BY <1>3

(* The sum is an integer; taking out any element takes its value away.      *)
LEMMA SumRemove ==
  ASSUME NEW S, IsFiniteSet(S), NEW f, Integral(f, S), NEW x \in S
  PROVE  /\ SumFunctionOnSet(f, S) \in Int
         /\ SumFunctionOnSet(f, S \ {x}) \in Int
         /\ SumFunctionOnSet(f, S) = SumFunctionOnSet(f, S \ {x}) + f[x]
<1>0. PICK h : SumsOf(h, f, S)
  BY SumIsFold
<1>1. /\ h \in [SUBSET S -> Int]
      /\ SumFold(h, f, S)
      /\ \A T \in SUBSET S : SumFunctionOnSet(f, T) = h[T]
  BY <1>0 DEF SumsOf
<1>. DEFINE N == {n \in Nat : \A s \in SUBSET S : Cardinality(s) = n =>
                     \A y \in s : h[s] = h[s \ {y}] + f[y]}
<1>2. 0 \in N
  <2>1. \A s \in SUBSET S : Cardinality(s) = 0 => s = {}
    BY FS_Subset, FS_EmptySet
  <2>. QED BY <2>1
<1>3. ASSUME NEW n \in N \cap Nat PROVE n + 1 \in N
  <2>1. ASSUME NEW s \in SUBSET S, Cardinality(s) = n + 1, NEW y \in s
        PROVE  h[s] = h[s \ {y}] + f[y]
    <3>2. PICK c : c = CHOOSE z \in s : TRUE
      OBVIOUS
    <3>3. c \in s
      BY <3>2
    <3>4. h[s] = f[c] + h[s \ {c}]
      BY <1>1, <3>2 DEF SumFold
    <3>5. IsFiniteSet(s) /\ Cardinality(s) = n + 1 /\ n \in Nat
      BY <2>1, FS_Subset
    <3>6. \A z \in s : Cardinality(s \ {z}) = n
      <4>1. \A z \in s : Cardinality(s \ {z}) = Cardinality(s) - 1
        BY <3>5, FS_RemoveElement
      <4>. QED BY <3>5, <4>1
    <3>7. CASE y = c
      <4>1. h[s] \in Int /\ h[s \ {c}] \in Int /\ f[c] \in Int
        BY <1>1, <3>3 DEF Integral
      <4>. QED BY <3>4, <3>7, <4>1
    <3>8. CASE y # c
      <4>1. PICK t : t = (s \ {c}) \ {y}
        OBVIOUS
      <4>2. t = (s \ {y}) \ {c} /\ t \in SUBSET S
        BY <4>1
      <4>3. h[s \ {c}] = h[t] + f[y]
        BY <3>3, <3>6, <3>8, <4>1
      <4>4. h[s \ {y}] = h[t] + f[c]
        BY <3>3, <3>6, <3>8, <4>2
      <4>5. {h[t], h[s \ {y}], h[s \ {c}], f[y], f[c]} \subseteq Int
        BY <1>1, <3>3, <4>2 DEF Integral
      <4>. QED BY <3>4, <4>3, <4>4, <4>5
    <3>. QED BY <3>7, <3>8
  <2>. QED BY <2>1
<1>4. Nat \subseteq N
  <2>. HIDE DEF N
  <2>. QED BY <1>2, <1>3, NatInductionOnSet
<1>5. h[S] = h[S \ {x}] + f[x]
  <2>1. Cardinality(S) \in N
    BY <1>4, FS_CardinalityType
  <2>. QED BY <2>1
<1>. QED BY <1>1, <1>5

(* Nothing sums to 0.                                                       *)
LEMMA SumEmpty ==
  ASSUME NEW f
  PROVE  SumFunctionOnSet(f, {}) = 0
<1>1. PICK h : SumsOf(h, f, {})
  BY SumIsFold, FS_EmptySet DEF Integral
<1>. QED BY <1>1 DEF SumFold, SumsOf

(* One element more.                                                        *)
LEMMA SumAdd ==
  ASSUME NEW S, IsFiniteSet(S), NEW f, NEW x, x \notin S, Integral(f, S \cup {x})
  PROVE  /\ SumFunctionOnSet(f, S) \in Int
         /\ SumFunctionOnSet(f, S \cup {x}) = SumFunctionOnSet(f, S) + f[x]
<1>1. PICK T : T = S \cup {x}
  OBVIOUS
<1>2. IsFiniteSet(T) /\ x \in T /\ T \ {x} = S /\ Integral(f, T)
  BY <1>1, FS_AddElement
<1>3. /\ SumFunctionOnSet(f, T \ {x}) \in Int
      /\ SumFunctionOnSet(f, T) = SumFunctionOnSet(f, T \ {x}) + f[x]
  BY <1>2, SumRemove
<1>. QED BY <1>1, <1>2, <1>3

(* Functions that agree on a set have the same sum over it.                 *)
LEMMA SumSame ==
  ASSUME NEW S, IsFiniteSet(S), NEW f, NEW g,
         Integral(f, S), \A x \in S : g[x] = f[x]
  PROVE  SumFunctionOnSet(g, S) = SumFunctionOnSet(f, S)
<1>. DEFINE F == {T \in SUBSET S : SumFunctionOnSet(g, T) = SumFunctionOnSet(f, T)}
<1>1. {} \in F
  BY SumEmpty
<1>2. ASSUME NEW T \in SUBSET S, NEW x \in S, T \in F, x \notin T
      PROVE  T \cup {x} \in F
  <2>1. IsFiniteSet(T)
    BY FS_Subset
  <2>2. Integral(f, T \cup {x}) /\ Integral(g, T \cup {x})
    BY DEF Integral
  <2>3. ASSUME NEW h, Integral(h, T \cup {x})
        PROVE  SumFunctionOnSet(h, T \cup {x}) = SumFunctionOnSet(h, T) + h[x]
    <3>. HIDE DEF F
    <3>. QED BY <1>2, <2>1, <2>3, SumAdd
  <2>. QED BY <1>2, <2>2, <2>3
<1>3. SUBSET S \subseteq F
  <2>. HIDE DEF F
  <2>. QED BY <1>1, <1>2, FiniteInductionOnSet
<1>. QED BY <1>3

(* Of natural numbers: the sum is one, and no part of it is larger.          *)
LEMMA SumMonotone ==
  ASSUME NEW S, IsFiniteSet(S), NEW f, \A x \in S : f[x] \in Nat, NEW P \in SUBSET S
  PROVE  /\ SumFunctionOnSet(f, S) \in Nat
         /\ SumFunctionOnSet(f, P) \in Nat
         /\ SumFunctionOnSet(f, P) <= SumFunctionOnSet(f, S)
<1>. DEFINE Q(T) == SumFunctionOnSet(f, T)
            F == {T \in SUBSET S : Q(T) \in Nat /\ Q(T \cap P) \in Nat /\ Q(T \cap P) <= Q(T)}
<1>1. {} \in F
  <2>1. {} \cap P = {}
    OBVIOUS
  <2>. QED BY <2>1, SumEmpty
<1>2. ASSUME NEW T \in SUBSET S, NEW x \in S, T \in F, x \notin T
      PROVE  T \cup {x} \in F
  <2>1. IsFiniteSet(T) /\ IsFiniteSet(T \cap P)
    BY FS_Subset
  <2>2. Q(T \cup {x}) = Q(T) + f[x]
    <3>1. Integral(f, T \cup {x})
      BY DEF Integral
    <3>. QED BY <1>2, <2>1, <3>1, SumAdd
  <2>3. Q((T \cup {x}) \cap P) = IF x \in P THEN Q(T \cap P) + f[x] ELSE Q(T \cap P)
    <3>1. CASE x \in P
      <4>1. (T \cup {x}) \cap P = (T \cap P) \cup {x} /\ x \notin T \cap P
        BY <1>2, <3>1
      <4>2. Integral(f, (T \cap P) \cup {x})
        BY DEF Integral
      <4>3. Q((T \cap P) \cup {x}) = Q(T \cap P) + f[x]
        BY <2>1, <4>1, <4>2, SumAdd
      <4>. QED BY <3>1, <4>1, <4>3
    <3>2. CASE x \notin P
      <4>1. (T \cup {x}) \cap P = T \cap P
        BY <3>2
      <4>. QED BY <3>2, <4>1
    <3>. QED BY <3>1, <3>2
  <2>4. f[x] \in Nat /\ Q(T) \in Nat /\ Q(T \cap P) \in Nat /\ Q(T \cap P) <= Q(T)
    BY <1>2
  <2>. HIDE DEF Q
  <2>. QED BY <2>2, <2>3, <2>4
<1>3. SUBSET S \subseteq F
  <2>. HIDE DEF F
  <2>. QED BY <1>1, <1>2, FiniteInductionOnSet
<1>4. S \in F /\ S \cap P = P
  BY <1>3
<1>. QED BY <1>4

-----------------------------------------------------------------------------
(* The orders of a finite set go through each of its elements once.          *)
LEMMA OrderProperties ==
  ASSUME NEW S, IsFiniteSet(S), NEW order \in SetToSeqs(S)
  PROVE  /\ Cardinality(S) \in Nat
         /\ order \in [1..Cardinality(S) -> S]
         /\ \A i, j \in 1..Cardinality(S) : order[i] = order[j] => i = j
         /\ \A x \in S : \E i \in 1..Cardinality(S) : order[i] = x
<1>. DEFINE D == 1..Cardinality(S)
<1>1. Cardinality(S) \in Nat
  BY FS_CardinalityType
<1>2. order \in [D -> S] /\ \A i, j \in D : order[i] = order[j] => i = j
  BY DEF SetToSeqs
<1>3. Cardinality(D) = Cardinality(S)
  <2>1. Cardinality(1..Cardinality(S)) = IF 1 > Cardinality(S) THEN 0 ELSE Cardinality(S) - 1 + 1
    BY <1>1, FS_Interval
  <2>. QED BY <1>1, <2>1
<1>4. order \in Injection(D, S)
  BY <1>2 DEF Injection, IsInjective
<1>5. order \in Surjection(D, S)
  <2>. HIDE DEF D
  <2>. QED BY <1>3, <1>4, FS_Injection
<1>. QED BY <1>1, <1>2, <1>5 DEF Surjection

(* Appending a value that a sequence without repetitions does not hold.      *)
LEMMA AppendFresh ==
  ASSUME NEW S, NEW s \in Seq(S), NEW x \in S
  PROVE  /\ Append(s, x) \in Seq(S)
         /\ Append(s, x) # << >>
         /\ ToSet(Append(s, x)) = ToSet(s) \cup {x}
         /\ Front(Append(s, x)) = s
         /\ Last(Append(s, x)) = x
         /\ IsInjective(s) /\ x \notin ToSet(s) => IsInjective(Append(s, x))
<1>1. /\ Append(s, x) \in Seq(S) /\ Len(Append(s, x)) = Len(s) + 1
      /\ \A i \in 1..Len(s) : Append(s, x)[i] = s[i]
      /\ Append(s, x)[Len(s) + 1] = x
  BY AppendProperties
<1>2. /\ Len(s) \in Nat /\ DOMAIN s = 1..Len(s)
      /\ DOMAIN Append(s, x) = 1..(Len(s) + 1)
  BY <1>1, LenProperties
<1>3. ToSet(Append(s, x)) = ToSet(s) \cup {x}
  BY <1>1, <1>2 DEF ToSet
<1>4. Front(Append(s, x)) = s
  <2>1. SubSeq(Append(s, x), 1, Len(s)) = s
    OBVIOUS
  <2>. QED BY <1>1, <1>2, <2>1 DEF Front
<1>5. Last(Append(s, x)) = x
  BY <1>1, <1>2 DEF Last
<1>6. ASSUME IsInjective(s), x \notin ToSet(s) PROVE IsInjective(Append(s, x))
  <2>1. \A i \in 1..Len(s) : s[i] # x
    BY <1>2, <1>6 DEF ToSet
  <2>2. \A i, j \in 1..Len(s) : s[i] = s[j] => i = j
    BY <1>2, <1>6 DEF IsInjective
  <2>. QED BY <1>1, <1>2, <2>1, <2>2 DEF IsInjective
<1>7. Append(s, x) # << >>
  <2>1. Len(Append(s, x)) # 0
    BY <1>1, <1>2
  <2>2. Len(<< >>) = 0
    OBVIOUS
  <2>. QED BY <2>1, <2>2, Zenon
<1>. QED BY <1>1, <1>3, <1>4, <1>5, <1>6, <1>7

(* All but the last of a sequence.                                          *)
LEMMA FrontProperties ==
  ASSUME NEW S, NEW s \in Seq(S), s # << >>
  PROVE  /\ Front(s) \in Seq(S)
         /\ ToSet(Front(s)) \subseteq ToSet(s)
         /\ Last(s) \in ToSet(s)
         /\ ToSet(s) = ToSet(Front(s)) \cup {Last(s)}
         /\ IsInjective(s) => Last(s) \notin ToSet(Front(s))
<1>1. Front(s) = SubSeq(s, 1, Len(s) - 1) /\ Len(s) \in Nat
  BY LenProperties DEF Front
<1>2. DOMAIN s = 1..Len(s)
  OBVIOUS
<1>3. Len(s) # 0
  BY EmptySeq
<1>4. /\ Front(s) \in Seq(S)
      /\ DOMAIN Front(s) = 1..(Len(s) - 1)
      /\ \A i \in 1..(Len(s) - 1) : Front(s)[i] = s[i]
  BY <1>1, <1>3
<1>5. Last(s) = s[Len(s)] /\ 1..Len(s) = (1..(Len(s) - 1)) \cup {Len(s)}
  BY <1>1, <1>3 DEF Last
<1>6. IsInjective(s) => Last(s) \notin ToSet(Front(s))
  BY <1>1, <1>2, <1>3, <1>4, <1>5 DEF IsInjective, ToSet
<1>. QED BY <1>2, <1>4, <1>5, <1>6 DEF ToSet

(* All but the first of a sequence without repetitions.                      *)
LEMMA TailInjective ==
  ASSUME NEW S, NEW s \in Seq(S), s # << >>, IsInjective(s)
  PROVE  /\ Tail(s) \in Seq(S) /\ IsInjective(Tail(s))
         /\ Head(s) \in S
         /\ ToSet(Tail(s)) = ToSet(s) \ {Head(s)}
         /\ Head(s) \in ToSet(s)
<1>1. /\ Head(s) \in S /\ Tail(s) \in Seq(S) /\ Len(Tail(s)) = Len(s) - 1
      /\ \A i \in 1..Len(Tail(s)) : Tail(s)[i] = s[i + 1]
  BY HeadTailProperties
<1>2. Len(s) \in Nat /\ DOMAIN s = 1..Len(s) /\ DOMAIN Tail(s) = 1..(Len(s) - 1)
        /\ Head(s) = s[1]
  BY <1>1
<1>3. Len(s) # 0
  BY EmptySeq
<1>4. \A i, j \in 1..Len(s) : s[i] = s[j] => i = j
  BY <1>2 DEF IsInjective
<1>5. IsInjective(Tail(s))
  BY <1>1, <1>2, <1>4 DEF IsInjective
<1>6. ToSet(s) = {s[i] : i \in 1..Len(s)}
        /\ ToSet(Tail(s)) = {s[i + 1] : i \in 1..(Len(s) - 1)}
  BY <1>1, <1>2 DEF ToSet
<1>7. ASSUME NEW x PROVE x \in ToSet(Tail(s)) <=> x \in ToSet(s) /\ x # s[1]
  <2>1. ASSUME NEW i \in 1..(Len(s) - 1), x = s[i + 1]
        PROVE  x \in ToSet(s) /\ x # s[1]
    <3>1. i + 1 \in 1..Len(s) /\ 1 \in 1..Len(s) /\ i + 1 # 1
      BY <1>2
    <3>. QED BY <1>4, <1>6, <2>1, <3>1
  <2>2. ASSUME NEW i \in 1..Len(s), x = s[i], x # s[1]
        PROVE  x \in ToSet(Tail(s))
    <3>1. i - 1 \in 1..(Len(s) - 1) /\ (i - 1) + 1 = i
      BY <1>2, <2>2
    <3>. QED BY <1>6, <2>2, <3>1
  <2>. QED BY <1>6, <2>1, <2>2
<1>8. Head(s) \in ToSet(s)
  BY <1>2, <1>3, <1>6
<1>. QED BY <1>1, <1>2, <1>5, <1>7, <1>8

(* A finite set of integers has a largest element.                          *)
LEMMA MaxOfFinite ==
  ASSUME NEW S \in SUBSET Int, IsFiniteSet(S), S # {}
  PROVE  Max(S) \in S /\ \A y \in S : y <= Max(S)
<1>. DEFINE F == {T \in SUBSET S : T # {} => \E a \in T : \A b \in T : a >= b}
<1>1. {} \in F
  OBVIOUS
<1>2. ASSUME NEW T \in SUBSET S, NEW x \in S, T \in F, x \notin T
      PROVE  T \cup {x} \in F
  <2>1. CASE T = {}
    BY <2>1
  <2>2. CASE T # {}
    <3>1. PICK a \in T : \A b \in T : a >= b
      BY <1>2, <2>2
    <3>2. CASE a >= x
      <4>1. \A b \in T \cup {x} : a >= b
        BY <3>1, <3>2
      <4>. QED BY <4>1
    <3>3. CASE ~(a >= x)
      <4>1. \A b \in T \cup {x} : x >= b
        BY <3>1, <3>3
      <4>. QED BY <4>1
    <3>. QED BY <3>2, <3>3
  <2>. QED BY <2>1, <2>2
<1>3. SUBSET S \subseteq F
  <2>. HIDE DEF F
  <2>. QED BY <1>1, <1>2, FiniteInductionOnSet
<1>. QED BY <1>3 DEF Max

-----------------------------------------------------------------------------
(* As many values as places, where no two are the same.                      *)
ValuesTo(o, m) == {o[i] : i \in 1..m}

LEMMA PlacesCounted ==
  ASSUME NEW m \in Nat, NEW o,
         \A i, j \in 1..m : o[i] = o[j] => i = j
  PROVE  IsFiniteSet(ValuesTo(o, m)) /\ Cardinality(ValuesTo(o, m)) = m
<1>. DEFINE f == [i \in 1..m |-> o[i]]
            T == ValuesTo(o, m)
<1>1. f \in Surjection(1..m, T) /\ f \in Injection(1..m, T)
  BY DEF Surjection, Injection, IsInjective, ValuesTo
<1>2. IsFiniteSet(1..m) /\ Cardinality(1..m) = m
  BY FS_Interval
<1>. HIDE DEF f, T
<1>3. IsFiniteSet(T) /\ Cardinality(T) = m
  BY <1>1, <1>2, FS_Surjection
<1>. QED BY <1>3 DEF T

(* A finite set can be put in the order of any integers, ties included: what  *)
(* std::sort leaves is one of the orders there are.                        *)
InOrder(o, T, key) ==
  \A i, j \in 1..Cardinality(T) : i < j => key[o[i]] <= key[o[j]]

LEMMA OrderExists ==
  ASSUME NEW S, IsFiniteSet(S), NEW key, \A x \in S : key[x] \in Int
  PROVE  \E o \in SetToSeqs(S) : InOrder(o, S, key)
<1>. DEFINE N == {n \in Nat : \A T \in SUBSET S :
                    Cardinality(T) = n => \E o \in SetToSeqs(T) : InOrder(o, T, key)}
<1>1. \A T \in SUBSET S : IsFiniteSet(T) /\ Cardinality(T) \in Nat
  BY FS_Subset, FS_CardinalityType
<1>2. 0 \in N
  <2>1. ASSUME NEW T \in SUBSET S, Cardinality(T) = 0
        PROVE  \E o \in SetToSeqs(T) : InOrder(o, T, key)
    <3>1. 1..Cardinality(T) = {}
      BY <2>1
    <3>2. [i \in 1..Cardinality(T) |-> i] \in SetToSeqs(T)
      BY <3>1 DEF SetToSeqs
    <3>. QED BY <3>1, <3>2 DEF InOrder
  <2>. QED BY <2>1
<1>3. ASSUME NEW n \in N \cap Nat PROVE n + 1 \in N
  <2>1. ASSUME NEW T \in SUBSET S, Cardinality(T) = n + 1
        PROVE  \E o \in SetToSeqs(T) : InOrder(o, T, key)
    <3>1. PICK x \in T : \A y \in T : key[y] <= key[x]
      <4>. DEFINE K == {key[y] : y \in T}
                  f == [y \in T |-> key[y]]
      <4>1. f \in Surjection(T, K)
        BY DEF Surjection
      <4>2. IsFiniteSet(T) /\ T # {}
        BY <1>1, <2>1, FS_EmptySet
      <4>3. K \in SUBSET Int /\ K # {}
        BY <4>2
      <4>. HIDE DEF K, f
      <4>4. IsFiniteSet(K)
        BY <4>1, <4>2, FS_Surjection
      <4>5. Max(K) \in K /\ \A k \in K : k <= Max(K)
        BY <4>3, <4>4, MaxOfFinite
      <4>. QED BY <4>5 DEF K
    <3>2. Cardinality(T \ {x}) = n /\ T \ {x} \in SUBSET S
      BY <1>1, <2>1, FS_RemoveElement
    <3>3. PICK r \in SetToSeqs(T \ {x}) : InOrder(r, T \ {x}, key)
      BY <1>3, <3>2
    <3>4. /\ r \in [1..n -> T \ {x}]
          /\ \A i, j \in 1..n : i # j => r[i] # r[j]
      BY <3>2, <3>3 DEF SetToSeqs
    <3>. DEFINE o == [i \in 1..(n + 1) |-> IF i = n + 1 THEN x ELSE r[i]]
    <3>5. /\ \A i \in 1..n : o[i] = r[i]
          /\ o[n + 1] = x
          /\ o \in [1..(n + 1) -> T]
      BY <3>4
    <3>6. \A i \in 1..(n + 1) : i = n + 1 \/ i \in 1..n
      OBVIOUS
    <3>. HIDE DEF o
    <3>7. \A i, j \in 1..(n + 1) : i # j => o[i] # o[j]
      BY <3>4, <3>5, <3>6
    <3>8. ASSUME NEW i \in 1..(n + 1), NEW j \in 1..(n + 1), i < j
          PROVE  key[o[i]] <= key[o[j]]
      <4>1. i \in 1..n
        BY <3>8
      <4>2. CASE j = n + 1
        BY <3>1, <3>4, <3>5, <4>1, <4>2
      <4>3. CASE j \in 1..n
        BY <3>2, <3>3, <3>5, <3>8, <4>1, <4>3 DEF InOrder
      <4>. QED BY <3>6, <4>2, <4>3
    <3>9. o \in SetToSeqs(T)
      BY <2>1, <3>5, <3>7 DEF SetToSeqs
    <3>10. InOrder(o, T, key)
      BY <2>1, <3>8 DEF InOrder
    <3>. QED BY <3>9, <3>10
  <2>. QED BY <2>1
<1>4. Nat \subseteq N
  <2>. HIDE DEF N
  <2>. QED BY <1>2, <1>3, NatInductionOnSet
<1>. QED BY <1>1, <1>4

(* The places of the numbers up to v, and below it.                          *)
PlacesUpTo(n, key, v) == {x \in 1..n : key[x] <= v}
PlacesBelow(n, key, v) == {x \in 1..n : key[x] < v}

(* Of n numbers in order, the one at place r: r of them at least are no       *)
(* larger, and fewer than r are smaller.                                   *)
HasRank(n, key, v, r) ==
  /\ Cardinality(PlacesUpTo(n, key, v)) \in Nat
  /\ Cardinality(PlacesUpTo(n, key, v)) >= r
  /\ Cardinality(PlacesBelow(n, key, v)) \in Nat
  /\ Cardinality(PlacesBelow(n, key, v)) <= r - 1

LEMMA RankProperties ==
  ASSUME NEW n \in Nat, NEW places, places = 1..n,
         NEW key, \A x \in places : key[x] \in Int,
         NEW o \in SetToSeqs(places), InOrder(o, places, key), NEW r \in places
  PROVE  HasRank(n, key, key[o[r]], r)
<1>1. PICK S : S = 1..n /\ S = places
  OBVIOUS
<1>2. IsFiniteSet(S) /\ Cardinality(S) = n
  BY <1>1, FS_Interval
<1>3. /\ o \in [1..n -> S]
      /\ \A i, j \in 1..n : o[i] = o[j] => i = j
      /\ \A x \in S : \E i \in 1..n : o[i] = x
  <2>1. o \in SetToSeqs(S)
    BY <1>1
  <2>. QED BY <1>2, <2>1, OrderProperties
<1>4. \A i, j \in 1..n : i < j => key[o[i]] <= key[o[j]]
  BY <1>1, <1>2 DEF InOrder
<1>5. /\ r \in Nat /\ r - 1 \in Nat
      /\ 1..r \subseteq 1..n /\ 1..(r - 1) \subseteq 1..n
      /\ \A i \in 1..r : i < r \/ i = r
      /\ \A i \in 1..n : i < r => i \in 1..(r - 1)
      /\ \A i \in 1..n : i < r \/ i = r \/ r < i
  OBVIOUS
<1>6. \A x \in S : key[x] \in Int
  BY <1>1
<1>7. ASSUME NEW m \in Nat, 1..m \subseteq 1..n
      PROVE  IsFiniteSet(ValuesTo(o, m)) /\ Cardinality(ValuesTo(o, m)) = m
  <2>1. \A i, j \in 1..m : o[i] = o[j] => i = j
    BY <1>3, <1>7
  <2>. QED BY <2>1, PlacesCounted
<1>. DEFINE atMost == {x \in S : key[x] <= key[o[r]]}
            less == {x \in S : key[x] < key[o[r]]}
            A == ValuesTo(o, r)
            B == ValuesTo(o, r - 1)
<1>8. ASSUME NEW i \in 1..r PROVE o[i] \in atMost
  BY <1>3, <1>4, <1>5, <1>6
<1>9. ASSUME NEW x \in less PROVE x \in B
  <2>1. PICK i \in 1..n : o[i] = x
    BY <1>3
  <2>2. key[o[i]] < key[o[r]] /\ key[o[i]] \in Int /\ key[o[r]] \in Int
    BY <1>3, <1>6, <2>1
  <2>3. i # r /\ ~(r < i)
    BY <1>4, <2>2
  <2>4. i \in 1..(r - 1)
    BY <1>5, <2>3
  <2>. QED BY <2>1, <2>4 DEF ValuesTo
<1>10. A \subseteq atMost /\ less \subseteq B
  BY <1>8, <1>9 DEF ValuesTo
<1>11. Cardinality(A) = r
  BY <1>7, <1>5
<1>12. IsFiniteSet(B) /\ Cardinality(B) = r - 1
  BY <1>7, <1>5
<1>13. IsFiniteSet(atMost) /\ o[r] \in 1..n
  BY <1>1, <1>2, <1>3, FS_Subset
<1>. HIDE DEF atMost, less, A, B
<1>14. Cardinality(A) <= Cardinality(atMost) /\ Cardinality(atMost) \in Nat
  BY <1>10, <1>13, FS_Subset, FS_CardinalityType
<1>15. Cardinality(less) <= Cardinality(B) /\ Cardinality(less) \in Nat
  BY <1>10, <1>12, FS_Subset, FS_CardinalityType
<1>16. /\ Cardinality(atMost) \in Nat /\ Cardinality(atMost) >= r
       /\ Cardinality(less) \in Nat /\ Cardinality(less) <= r - 1
  BY <1>5, <1>11, <1>12, <1>14, <1>15
<1>17. /\ atMost = PlacesUpTo(n, key, key[o[r]])
       /\ less = PlacesBelow(n, key, key[o[r]])
  BY <1>1 DEF atMost, less, PlacesUpTo, PlacesBelow
<1>. QED BY <1>16, <1>17 DEF HasRank

-----------------------------------------------------------------------------
(* Remainders: nothing to take off, only one that fits, and reducing before   *)
(* a sum comes to the same as after it.                                     *)
LEMMA ModSmall ==
  ASSUME NEW w \in Nat \ {0}, NEW x \in Nat, x < w
  PROVE  x % w = x
OBVIOUS

(* A number has one remainder.                                              *)
LEMMA RemainderUnique ==
  ASSUME NEW w \in Nat \ {0}, NEW q \in Int, NEW p \in Int,
         NEW r \in 0..(w - 1), NEW s \in 0..(w - 1), w * q + r = w * p + s
  PROVE  r = s
<1>1. w * (q - p) = s - r
  OBVIOUS
<1>2. CASE q - p >= 1
  <2>1. w * (q - p) >= w
    <3>1. PICK d \in Nat : d + 1 = q - p
      <4>1. (q - p) - 1 \in Nat /\ ((q - p) - 1) + 1 = q - p
        BY <1>2
      <4>. QED BY <4>1
    <3>2. w * d >= 0
      OBVIOUS
    <3>3. w * (d + 1) = w * d + w
      OBVIOUS
    <3>. QED BY <3>1, <3>2, <3>3
  <2>. QED BY <1>1, <2>1
<1>3. CASE p - q >= 1
  <2>1. w * (p - q) >= w
    <3>1. PICK d \in Nat : d + 1 = p - q
      <4>1. (p - q) - 1 \in Nat /\ ((p - q) - 1) + 1 = p - q
        BY <1>3
      <4>. QED BY <4>1
    <3>2. w * d >= 0
      OBVIOUS
    <3>3. w * (d + 1) = w * d + w
      OBVIOUS
    <3>. QED BY <3>1, <3>2, <3>3
  <2>2. w * (p - q) = r - s
    OBVIOUS
  <2>. QED BY <2>1, <2>2
<1>4. CASE q = p
  BY <1>1, <1>4
<1>. QED BY <1>2, <1>3, <1>4

(* What wraps in the middle wraps at the end.                                *)
LEMMA ModOfMod ==
  ASSUME NEW w \in Nat \ {0}, NEW x \in Int, NEW y \in Int
  PROVE  /\ ((x % w) + y) % w = (x + y) % w
         /\ ((x % w) - y) % w = (x - y) % w
<1>1. ASSUME NEW z \in Int PROVE ((x % w) + z) % w = (x + z) % w
  <2>1. PICK a, r, b, s, c, t :
          /\ a = x \div w /\ r = x % w
          /\ b = (r + z) \div w /\ s = (r + z) % w
          /\ c = (x + z) \div w /\ t = (x + z) % w
    OBVIOUS
  <2>2. a \in Int /\ r \in Int /\ x = w * a + r
    BY <2>1
  <2>3. b \in Int /\ s \in 0..(w - 1) /\ r + z = w * b + s
    BY <2>1, <2>2
  <2>4. c \in Int /\ t \in 0..(w - 1) /\ x + z = w * c + t
    BY <2>1
  <2>5. w * (a + b) + s = w * c + t
    <3>1. w * (a + b) = w * a + w * b
      BY <2>2, <2>3
    <3>. QED BY <2>2, <2>3, <2>4, <3>1
  <2>6. s = t
    <3>1. a + b \in Int
      BY <2>2, <2>3
    <3>. QED BY <2>3, <2>4, <2>5, <3>1, RemainderUnique
  <2>. QED BY <2>1, <2>6
<1>2. -y \in Int /\ (x % w) + (-y) = (x % w) - y /\ x + (-y) = x - y
  OBVIOUS
<1>. QED BY <1>1, <1>2

-----------------------------------------------------------------------------
(* The tables of the predictors.  Where a key occurs.                        *)
PlacesOf(places, key, x) == {i \in places : key[i] = x}
KeysAt(places, key) == {key[i] : i \in places}

LEMMA TallyIs ==
  ASSUME NEW places, NEW key
  PROVE  /\ DOMAIN Tally(places, key) = KeysAt(places, key)
         /\ \A x \in KeysAt(places, key) :
               Tally(places, key)[x] = Cardinality(PlacesOf(places, key, x))
         /\ Tally(places, key) =
               [x \in KeysAt(places, key) |-> Cardinality(PlacesOf(places, key, x))]
BY DEF Tally, KeysAt, PlacesOf

(* Keys that agree on the places give one tally.                            *)
LEMMA TallySame ==
  ASSUME NEW places, NEW key, NEW key2, \A i \in places : key2[i] = key[i]
  PROVE  Tally(places, key2) = Tally(places, key)
<1>1. KeysAt(places, key2) = KeysAt(places, key)
  BY DEF KeysAt
<1>2. ASSUME NEW x PROVE PlacesOf(places, key2, x) = PlacesOf(places, key, x)
  BY DEF PlacesOf
<1>. QED BY <1>1, <1>2, TallyIs

(* One place more is one increment.                                         *)
LEMMA TallyAdd ==
  ASSUME NEW places, IsFiniteSet(places), NEW key, NEW p, p \notin places, NEW key2,
         \A i \in places : key2[i] = key[i]
  PROVE  Tally(places \cup {p}, key2) = Increment(Tally(places, key), key2[p])
<1>. DEFINE f == Tally(places, key)
            g == Tally(places \cup {p}, key2)
            x == key2[p]
<1>1. KeysAt(places \cup {p}, key2) = KeysAt(places, key) \cup {x}
  BY DEF KeysAt
<1>2. ASSUME NEW y, y # x
      PROVE  PlacesOf(places \cup {p}, key2, y) = PlacesOf(places, key, y)
  BY <1>2 DEF PlacesOf
<1>3. PlacesOf(places \cup {p}, key2, x) = PlacesOf(places, key, x) \cup {p}
  BY DEF PlacesOf
<1>4. PICK S : S = PlacesOf(places, key, x)
  OBVIOUS
<1>5. IsFiniteSet(S) /\ p \notin S
  <2>1. S \in SUBSET places
    BY <1>4 DEF PlacesOf
  <2>. QED BY <2>1, FS_Subset
<1>6. Cardinality(S \cup {p}) = Cardinality(S) + 1
  BY <1>5, FS_AddElement
<1>7. Cardinality(S) = Count(f, x)
  <2>1. CASE x \in KeysAt(places, key)
    BY <1>4, <2>1, TallyIs DEF Count
  <2>2. CASE x \notin KeysAt(places, key)
    <3>1. S = {}
      BY <1>4, <2>2 DEF KeysAt, PlacesOf
    <3>2. x \notin DOMAIN f
      BY <2>2, TallyIs
    <3>. QED BY <3>1, <3>2, FS_EmptySet DEF Count
  <2>. QED BY <2>1, <2>2
<1>8. DOMAIN f = KeysAt(places, key) /\ DOMAIN g = KeysAt(places, key) \cup {x}
  BY <1>1, TallyIs
<1>9. g[x] = Count(f, x) + 1
  <2>1. x \in KeysAt(places \cup {p}, key2)
    BY <1>1
  <2>2. g[x] = Cardinality(PlacesOf(places \cup {p}, key2, x))
    BY <2>1, TallyIs
  <2>. QED BY <1>3, <1>4, <1>6, <1>7, <2>2
<1>10. ASSUME NEW y \in KeysAt(places, key), y # x PROVE g[y] = f[y]
  <2>1. y \in KeysAt(places \cup {p}, key2)
    BY <1>1
  <2>2. g[y] = Cardinality(PlacesOf(places \cup {p}, key2, y))
    BY <2>1, TallyIs
  <2>3. f[y] = Cardinality(PlacesOf(places, key, y))
    BY TallyIs
  <2>. QED BY <1>2, <1>10, <2>2, <2>3
<1>11. g = [y \in DOMAIN g |-> g[y]]
  BY TallyIs
<1>. HIDE DEF f, g, x
<1>12. g = [y \in DOMAIN f \cup {x} |-> IF y = x THEN Count(f, x) + 1 ELSE f[y]]
  BY <1>8, <1>9, <1>10, <1>11
<1>. QED BY <1>12 DEF Increment, Assign, f, g, x

LEMMA TallyEmpty ==
  ASSUME NEW key
  PROVE  Tally({}, key) = NoCounts
BY DEF Tally, NoCounts

(* The rows of a table.                                                     *)
LEMMA TableIs ==
  ASSUME NEW places, NEW row, NEW col
  PROVE  /\ DOMAIN Table(places, row, col) = KeysAt(places, row)
         /\ \A x \in KeysAt(places, row) :
               Table(places, row, col)[x] = Tally(PlacesOf(places, row, x), col)
         /\ Table(places, row, col) =
               [x \in KeysAt(places, row) |-> Tally(PlacesOf(places, row, x), col)]
BY DEF Table, KeysAt, PlacesOf

LEMMA TableSame ==
  ASSUME NEW places, NEW row, NEW row2, NEW col, NEW col2,
         \A i \in places : row2[i] = row[i] /\ col2[i] = col[i]
  PROVE  Table(places, row2, col2) = Table(places, row, col)
<1>1. KeysAt(places, row2) = KeysAt(places, row)
  BY DEF KeysAt
<1>2. ASSUME NEW x PROVE PlacesOf(places, row2, x) = PlacesOf(places, row, x)
  BY DEF PlacesOf
<1>3. ASSUME NEW x
      PROVE  Tally(PlacesOf(places, row, x), col2) = Tally(PlacesOf(places, row, x), col)
  <2>1. PICK S : S = PlacesOf(places, row, x)
    OBVIOUS
  <2>2. \A i \in S : col2[i] = col[i]
    BY <2>1 DEF PlacesOf
  <2>3. Tally(S, col2) = Tally(S, col)
    BY <2>2, TallySame
  <2>. QED BY <2>1, <2>3
<1>. QED BY <1>1, <1>2, <1>3, TableIs

RowOf(t, x) == IF x \in DOMAIN t THEN t[x] ELSE NoCounts
RowGrows(t, u, x, y) == u = Assign(t, x, Increment(RowOf(t, x), y))

(* One place more is one increment in its row.                              *)
LEMMA TableAdd ==
  ASSUME NEW places, IsFiniteSet(places), NEW row, NEW col, NEW p, p \notin places,
         NEW row2, NEW col2, \A i \in places : row2[i] = row[i] /\ col2[i] = col[i]
  PROVE  RowGrows(Table(places, row, col), Table(places \cup {p}, row2, col2),
                  row2[p], col2[p])
<1>. DEFINE t == Table(places, row, col)
            u == Table(places \cup {p}, row2, col2)
            x == row2[p]
<1>1. KeysAt(places \cup {p}, row2) = KeysAt(places, row) \cup {x}
  BY DEF KeysAt
<1>2. ASSUME NEW y, y # x
      PROVE  PlacesOf(places \cup {p}, row2, y) = PlacesOf(places, row, y)
  BY <1>2 DEF PlacesOf
<1>3. PlacesOf(places \cup {p}, row2, x) = PlacesOf(places, row, x) \cup {p}
  BY DEF PlacesOf
<1>4. \A y : PlacesOf(places, row, y) \in SUBSET places
  BY DEF PlacesOf
<1>5. ASSUME NEW y
      PROVE  Tally(PlacesOf(places, row, y), col2) = Tally(PlacesOf(places, row, y), col)
  <2>1. PICK S : S = PlacesOf(places, row, y) /\ S \in SUBSET places
    BY <1>4
  <2>2. Tally(S, col2) = Tally(S, col)
    BY <2>1, TallySame
  <2>. QED BY <2>1, <2>2
<1>6. Tally(PlacesOf(places, row, x) \cup {p}, col2)
        = Increment(Tally(PlacesOf(places, row, x), col), col2[p])
  <2>1. PICK S : S = PlacesOf(places, row, x) /\ S \in SUBSET places
    BY <1>4
  <2>2. IsFiniteSet(S) /\ p \notin S /\ \A i \in S : col2[i] = col[i]
    BY <2>1, FS_Subset
  <2>3. Tally(S \cup {p}, col2) = Increment(Tally(S, col), col2[p])
    BY <2>2, TallyAdd
  <2>. QED BY <2>1, <2>3
<1>7. Tally(PlacesOf(places, row, x), col) = RowOf(t, x)
  <2>1. CASE x \in KeysAt(places, row)
    BY <2>1, TableIs DEF RowOf
  <2>2. CASE x \notin KeysAt(places, row)
    <3>1. PlacesOf(places, row, x) = {}
      BY <2>2 DEF KeysAt, PlacesOf
    <3>2. x \notin DOMAIN t
      BY <2>2, TableIs
    <3>. QED BY <3>1, <3>2, TallyEmpty DEF RowOf
  <2>. QED BY <2>1, <2>2
<1>8. DOMAIN t = KeysAt(places, row) /\ DOMAIN u = KeysAt(places, row) \cup {x}
  BY <1>1, TableIs
<1>9. u[x] = Increment(RowOf(t, x), col2[p])
  <2>1. x \in KeysAt(places \cup {p}, row2)
    BY <1>1
  <2>2. u[x] = Tally(PlacesOf(places \cup {p}, row2, x), col2)
    BY <2>1, TableIs
  <2>. QED BY <1>3, <1>6, <1>7, <2>2
<1>10. ASSUME NEW y \in KeysAt(places, row), y # x PROVE u[y] = t[y]
  <2>1. y \in KeysAt(places \cup {p}, row2)
    BY <1>1
  <2>2. u[y] = Tally(PlacesOf(places \cup {p}, row2, y), col2)
    BY <2>1, TableIs
  <2>3. t[y] = Tally(PlacesOf(places, row, y), col)
    BY TableIs
  <2>. QED BY <1>2, <1>5, <1>10, <2>2, <2>3
<1>11. u = [y \in DOMAIN u |-> u[y]]
  BY DEF Table
<1>. HIDE DEF t, u, x
<1>12. u = [y \in DOMAIN t \cup {x} |->
             IF y = x THEN Increment(RowOf(t, x), col2[p]) ELSE t[y]]
  BY <1>8, <1>9, <1>10, <1>11
<1>. QED BY <1>12 DEF RowGrows, Assign, t, u, x

(* Counts add up: one increment adds one, a tally adds up to its places.     *)
LEMMA TotalIncrement ==
  ASSUME NEW f, IsFiniteSet(DOMAIN f), \A y \in DOMAIN f : f[y] \in Nat, NEW x
  PROVE  /\ Total(f) \in Nat
         /\ Total(Increment(f, x)) = Total(f) + 1
<1>. DEFINE D == DOMAIN f
            g == Increment(f, x)
<1>1. /\ DOMAIN g = D \cup {x} /\ g[x] = Count(f, x) + 1
      /\ \A y \in D : y # x => g[y] = f[y]
  BY DEF Increment, Assign
<1>2. Total(f) = SumFunctionOnSet(f, D) /\ Total(g) = SumFunctionOnSet(g, D \cup {x})
  BY <1>1 DEF Total, SumFunction
<1>3. SumFunctionOnSet(f, D) \in Nat
  BY SumMonotone
<1>4. \A y \in D \cup {x} : g[y] \in Nat
  BY <1>1 DEF Count
<1>. HIDE DEF g
<1>5. CASE x \in D
  <2>1. PICK E : E = D \ {x}
    OBVIOUS
  <2>2. IsFiniteSet(E) /\ x \notin E /\ E \cup {x} = D /\ E \subseteq D
    BY <1>5, <2>1, FS_RemoveElement
  <2>3. Integral(f, E \cup {x}) /\ Integral(g, E \cup {x}) /\ Integral(f, E)
    BY <1>4, <2>2 DEF Integral
  <2>4. SumFunctionOnSet(f, D) = SumFunctionOnSet(f, E) + f[x]
        /\ SumFunctionOnSet(f, E) \in Int
    BY <2>2, <2>3, SumAdd
  <2>5. SumFunctionOnSet(g, D \cup {x}) = SumFunctionOnSet(g, E) + g[x]
    <3>1. D \cup {x} = E \cup {x}
      BY <2>2
    <3>. QED BY <2>2, <2>3, <3>1, SumAdd
  <2>6. SumFunctionOnSet(g, E) = SumFunctionOnSet(f, E)
    <3>1. \A y \in E : g[y] = f[y]
      BY <1>1, <2>1
    <3>. QED BY <2>2, <2>3, <3>1, SumSame
  <2>7. g[x] = f[x] + 1 /\ f[x] \in Nat
    BY <1>1, <1>5 DEF Count
  <2>8. PICK a, b, c : /\ a = SumFunctionOnSet(f, E) /\ b = SumFunctionOnSet(f, D)
                       /\ c = SumFunctionOnSet(g, D \cup {x})
    OBVIOUS
  <2>9. a \in Int /\ b = a + f[x] /\ c = a + (f[x] + 1)
    BY <2>4, <2>5, <2>6, <2>7, <2>8
  <2>10. c = b + 1
    BY <2>7, <2>9
  <2>. QED BY <1>2, <1>3, <2>8, <2>10 DEF g
<1>6. CASE x \notin D
  <2>1. Integral(f, D) /\ Integral(g, D \cup {x})
    BY <1>4 DEF Integral
  <2>2. SumFunctionOnSet(g, D \cup {x}) = SumFunctionOnSet(g, D) + g[x]
    BY <1>6, <2>1, SumAdd
  <2>3. SumFunctionOnSet(g, D) = SumFunctionOnSet(f, D)
    <3>1. \A y \in D : g[y] = f[y]
      BY <1>1, <1>6
    <3>. QED BY <2>1, <3>1, SumSame
  <2>4. g[x] = 1
    BY <1>1, <1>6 DEF Count
  <2>. QED BY <1>2, <1>3, <2>2, <2>3, <2>4 DEF g
<1>. QED BY <1>5, <1>6

LEMMA TallyTyped ==
  ASSUME NEW places, IsFiniteSet(places), NEW key
  PROVE  /\ IsFiniteSet(DOMAIN Tally(places, key))
         /\ \A x \in DOMAIN Tally(places, key) : Tally(places, key)[x] \in Nat
<1>. DEFINE f == [i \in places |-> key[i]]
            K == KeysAt(places, key)
<1>1. f \in Surjection(places, K)
  BY DEF Surjection, KeysAt
<1>. HIDE DEF f, K
<1>2. IsFiniteSet(K)
  BY <1>1, FS_Surjection
<1>3. \A x : PlacesOf(places, key, x) \in SUBSET places
  BY DEF PlacesOf
<1>4. \A x : Cardinality(PlacesOf(places, key, x)) \in Nat
  BY <1>3, FS_Subset, FS_CardinalityType
<1>. QED BY <1>2, <1>4, TallyIs DEF K

LEMMA TallyTotal ==
  ASSUME NEW places, IsFiniteSet(places), NEW key
  PROVE  Total(Tally(places, key)) = Cardinality(places)
<1>. DEFINE F == {T \in SUBSET places : Total(Tally(T, key)) = Cardinality(T)}
<1>1. {} \in F
  <2>1. DOMAIN NoCounts = {}
    BY DEF NoCounts
  <2>2. Total(NoCounts) = 0
    BY <2>1, SumEmpty DEF Total, SumFunction
  <2>. QED BY <2>2, TallyEmpty, FS_EmptySet
<1>2. ASSUME NEW T \in SUBSET places, NEW x \in places, T \in F, x \notin T
      PROVE  T \cup {x} \in F
  <2>1. IsFiniteSet(T)
    BY FS_Subset
  <2>2. Tally(T \cup {x}, key) = Increment(Tally(T, key), key[x])
    BY <1>2, <2>1, TallyAdd
  <2>3. PICK f : f = Tally(T, key)
    OBVIOUS
  <2>4. IsFiniteSet(DOMAIN f) /\ \A y \in DOMAIN f : f[y] \in Nat
    BY <2>1, <2>3, TallyTyped
  <2>5. Total(Increment(f, key[x])) = Total(f) + 1
    BY <2>4, TotalIncrement
  <2>6. Cardinality(T \cup {x}) = Cardinality(T) + 1
    BY <1>2, <2>1, FS_AddElement
  <2>7. Total(f) = Cardinality(T)
    BY <1>2, <2>3
  <2>. QED BY <2>2, <2>3, <2>5, <2>6, <2>7
<1>3. SUBSET places \subseteq F
  <2>. HIDE DEF F
  <2>. QED BY <1>1, <1>2, FiniteInductionOnSet
<1>. QED BY <1>3

(* One count is part of the total.                                          *)
LEMMA CountWithinTotal ==
  ASSUME NEW f, IsFiniteSet(DOMAIN f), \A y \in DOMAIN f : f[y] \in Nat, NEW x \in DOMAIN f
  PROVE  Total(f) \in Nat /\ f[x] \in Nat /\ f[x] <= Total(f)
<1>1. PICK D : D = DOMAIN f
  OBVIOUS
<1>2. {x} \in SUBSET D /\ IsFiniteSet(D)
  BY <1>1
<1>3. /\ SumFunctionOnSet(f, D) \in Nat
      /\ SumFunctionOnSet(f, {x}) <= SumFunctionOnSet(f, D)
  <2>1. \A y \in D : f[y] \in Nat
    BY <1>1
  <2>. QED BY <1>2, <2>1, SumMonotone
<1>4. SumFunctionOnSet(f, {x}) = f[x]
  <2>1. PICK E : E = {}
    OBVIOUS
  <2>2. IsFiniteSet(E) /\ x \notin E /\ E \cup {x} = {x}
    BY <2>1, FS_EmptySet
  <2>3. Integral(f, E \cup {x})
    BY <2>2 DEF Integral
  <2>4. SumFunctionOnSet(f, E \cup {x}) = SumFunctionOnSet(f, E) + f[x]
    BY <2>2, <2>3, SumAdd
  <2>5. SumFunctionOnSet(f, E) = 0
    BY <2>1, SumEmpty
  <2>6. f[x] \in Nat
    OBVIOUS
  <2>. QED BY <2>2, <2>4, <2>5, <2>6
<1>. QED BY <1>1, <1>3, <1>4 DEF Total, SumFunction

-----------------------------------------------------------------------------
IsLearnLoop(f, n, evs) ==
  f = [s \in SUBSET (1..n) |->
         IF s = {} THEN << >> ELSE Learn(f[s \ {Max(s)}], evs[Max(s)])]

IsLearnRun(R, n, evs) ==
  /\ R[0] = << >>
  /\ \A k \in 1..n : R[k] = Learn(R[k - 1], evs[k])

LEMMA LearnLoopExists ==
  ASSUME NEW E, NEW n \in Nat, NEW evs, \A k \in 1..n : evs[k] \in E
  PROVE  \E f \in [SUBSET (1..n) -> Seq(E)] : IsLearnLoop(f, n, evs)
<1>. DEFINE G == [k \in 1..n |-> [log \in Seq(E) |-> Learn(log, evs[k])]]
<1>1. G \in [1..n -> [Seq(E) -> Seq(E)]]
  <2>1. ASSUME NEW k \in 1..n, NEW log \in Seq(E) PROVE Learn(log, evs[k]) \in Seq(E)
    <3>1. Append(log, evs[k]) \in Seq(E)
      BY AppendProperties
    <3>. QED BY <3>1 DEF Learn
  <2>. QED BY <2>1
<1>2. << >> \in Seq(E)
  OBVIOUS
<1>3. PICK f \in [SUBSET (1..n) -> Seq(E)] : FoldUp(f, n, << >>, G)
  <2>. HIDE DEF G
  <2>. QED BY <1>1, <1>2, FoldUpExists
<1>4. ASSUME NEW s \in SUBSET (1..n), s # {}
      PROVE  f[s] = Learn(f[s \ {Max(s)}], evs[Max(s)])
  <2>1. Max(s) \in 1..n
    BY <1>4, MaxOfPositions
  <2>2. f[s] = G[Max(s)][f[s \ {Max(s)}]]
    BY <1>3, <1>4 DEF FoldUp
  <2>3. f[s \ {Max(s)}] \in Seq(E)
    BY <1>3
  <2>. QED BY <2>1, <2>2, <2>3
<1>5. f[{}] = << >>
  BY <1>3 DEF FoldUp
<1>6. IsLearnLoop(f, n, evs)
  BY <1>3, <1>4, <1>5 DEF IsLearnLoop
<1>. QED BY <1>6

LEMMA LearningRuns ==
  ASSUME NEW E, NEW evs \in Seq(E), NEW n \in Nat, n = Len(evs)
  PROVE  \E R : IsLearnRun(R, n, evs) /\ Learning(evs) = R[n]
<1>. DEFINE f == CHOOSE f : IsLearnLoop(f, n, evs)
            R == [k \in 0..n |-> f[1..k]]
<1>1. Learning(evs) = f[1..n]
  <2>1. DOMAIN evs = 1..n
    OBVIOUS
  <2>. QED BY <2>1 DEF Learning, FoldLeft, MapThenFoldSet, IsLearnLoop
<1>2. IsLearnLoop(f, n, evs)
  <2>1. \A k \in 1..n : evs[k] \in E
    OBVIOUS
  <2>2. \E g \in [SUBSET (1..n) -> Seq(E)] : IsLearnLoop(g, n, evs)
    BY <2>1, LearnLoopExists
  <2>. QED BY <2>2
<1>. HIDE DEF f
<1>3. f[{}] = << >>
  BY <1>2 DEF IsLearnLoop
<1>4. ASSUME NEW k \in 1..n
      PROVE  f[1..k] = Learn(f[1..(k - 1)], evs[k])
  <2>1. 1..k # {} /\ Max(1..k) = k /\ (1..k) \ {k} = 1..(k - 1)
    <3>1. k \in Nat /\ k # 0
      OBVIOUS
    <3>. QED BY <3>1, MaxOfPrefix
  <2>2. 1..k \in SUBSET (1..n)
    OBVIOUS
  <2>. QED BY <1>2, <2>1, <2>2 DEF IsLearnLoop
<1>5. IsLearnRun(R, n, evs)
  <2>1. 1..0 = {}
    OBVIOUS
  <2>2. R[0] = << >>
    BY <1>3, <2>1
  <2>3. ASSUME NEW k \in 1..n PROVE R[k] = Learn(R[k - 1], evs[k])
    <3>1. R[k] = f[1..k] /\ R[k - 1] = f[1..(k - 1)]
      OBVIOUS
    <3>. HIDE DEF R
    <3>. QED BY <1>4, <3>1
  <2>. HIDE DEF R
  <2>. QED BY <2>2, <2>3 DEF IsLearnRun
<1>6. R[n] = Learning(evs)
  BY <1>1
<1>. HIDE DEF R
<1>. QED BY <1>5, <1>6

(* One event more: it is learned from or not.                               *)
LEMMA LearningAppend ==
  ASSUME NEW E, NEW evs \in Seq(E), NEW ev \in E
  PROVE  Learning(Append(evs, ev)) = Learn(Learning(evs), ev)
<1>1. PICK n \in Nat : n = Len(evs)
  BY LenProperties
<1>2. PICK more : more = Append(evs, ev)
  OBVIOUS
<1>3. /\ more \in Seq(E) /\ Len(more) = n + 1 /\ n + 1 \in Nat
      /\ \A k \in 1..n : more[k] = evs[k]
      /\ more[n + 1] = ev
  BY <1>1, <1>2, AppendProperties
<1>4. PICK R : IsLearnRun(R, n, evs) /\ Learning(evs) = R[n]
  BY <1>1, LearningRuns
<1>5. PICK Q : IsLearnRun(Q, n + 1, more) /\ Learning(more) = Q[n + 1]
  <2>1. PICK m \in Nat : m = n + 1 /\ m = Len(more)
    BY <1>3
  <2>. QED BY <1>3, <2>1, LearningRuns
<1>. DEFINE N == {k \in Nat : k <= n => Q[k] = R[k]}
<1>6. 0 \in N
  BY <1>4, <1>5 DEF IsLearnRun
<1>7. ASSUME NEW k \in N \cap Nat PROVE k + 1 \in N
  <2>1. CASE k + 1 <= n
    <3>1. Q[k] = R[k] /\ k + 1 \in 1..n /\ k + 1 \in 1..(n + 1) /\ (k + 1) - 1 = k
      BY <1>7, <2>1
    <3>2. Q[k + 1] = Learn(Q[k], more[k + 1]) /\ R[k + 1] = Learn(R[k], evs[k + 1])
      BY <1>4, <1>5, <3>1 DEF IsLearnRun
    <3>3. more[k + 1] = evs[k + 1]
      BY <1>3, <3>1
    <3>. QED BY <3>1, <3>2, <3>3
  <2>2. CASE ~(k + 1 <= n)
    BY <2>2
  <2>. QED BY <2>1, <2>2
<1>8. Nat \subseteq N
  <2>. HIDE DEF N
  <2>. QED BY <1>6, <1>7, NatInductionOnSet
<1>9. Q[n] = R[n]
  BY <1>8
<1>10. Q[n + 1] = Learn(Q[n], ev)
  <2>1. n + 1 \in 1..(n + 1) /\ (n + 1) - 1 = n
    OBVIOUS
  <2>. QED BY <1>3, <1>5, <2>1 DEF IsLearnRun
<1>. QED BY <1>2, <1>4, <1>5, <1>9, <1>10

LEMMA LearningEmpty == Learning(<< >>) = << >>
<1>1. << >> \in Seq({}) /\ Len(<< >>) = 0
  OBVIOUS
<1>2. PICK e : e = << >>
  OBVIOUS
<1>3. e \in Seq({}) /\ 0 \in Nat /\ 0 = Len(e)
  BY <1>1, <1>2
<1>4. PICK R : IsLearnRun(R, 0, e) /\ Learning(e) = R[0]
  BY <1>3, LearningRuns
<1>. QED BY <1>2, <1>4 DEF IsLearnRun

LEMMA LearningTyped ==
  ASSUME NEW E, NEW evs \in Seq(E)
  PROVE  Learning(evs) \in Seq(E)
<1>1. PICK n \in Nat : n = Len(evs)
  BY LenProperties
<1>2. PICK R : IsLearnRun(R, n, evs) /\ Learning(evs) = R[n]
  BY <1>1, LearningRuns
<1>. DEFINE Typed(k) == R[k] \in Seq(E)
            N == {k \in Nat : k <= n => Typed(k)}
<1>3. 0 \in N
  <2>1. << >> \in Seq(E)
    OBVIOUS
  <2>2. Typed(0)
    BY <1>2, <2>1 DEF IsLearnRun
  <2>. HIDE DEF Typed
  <2>. QED BY <2>2
<1>4. ASSUME NEW k \in N \cap Nat PROVE k + 1 \in N
  <2>1. CASE k + 1 <= n
    <3>0. Typed(k) /\ k + 1 \in 1..n /\ (k + 1) - 1 = k
      <4>. HIDE DEF Typed
      <4>. QED BY <1>4, <2>1
    <3>1. R[k] \in Seq(E) /\ k + 1 \in 1..n /\ (k + 1) - 1 = k
      BY <3>0
    <3>2. R[k + 1] = Learn(R[k], evs[k + 1]) /\ evs[k + 1] \in E
      BY <1>1, <1>2, <3>1 DEF IsLearnRun
    <3>3. Append(R[k], evs[k + 1]) \in Seq(E)
      BY <3>1, <3>2, AppendProperties
    <3>4. Typed(k + 1)
      BY <3>1, <3>2, <3>3 DEF Learn
    <3>. HIDE DEF Typed
    <3>. QED BY <3>4
  <2>2. CASE ~(k + 1 <= n)
    BY <2>2
  <2>. QED BY <2>1, <2>2
<1>5. Nat \subseteq N
  <2>. HIDE DEF N
  <2>. QED BY <1>3, <1>4, NatInductionOnSet
<1>6. Typed(n)
  <2>. HIDE DEF Typed
  <2>. QED BY <1>5
<1>. QED BY <1>2, <1>6

(* m is l and one event more, at place p. *)
OneMore(l, m, ev, p) ==
  /\ p \in Nat /\ p # 0 /\ p = Len(l) + 1 /\ Len(l) = p - 1
  /\ DOMAIN l = 1..(p - 1) /\ DOMAIN m = 1..p /\ Len(m) = p
  /\ DOMAIN m = DOMAIN l \cup {p} /\ p \notin DOMAIN l /\ IsFiniteSet(DOMAIN l)
  /\ \A i \in DOMAIN l : m[i] = l[i]
  /\ m[p] = ev
  /\ (l = << >>) <=> (p = 1)
  /\ m # << >>

LEMMA AppendIsOneMore ==
  ASSUME NEW E, NEW l \in Seq(E), NEW ev \in E
  PROVE  OneMore(l, Append(l, ev), ev, Len(l) + 1)
<1>1. PICK n \in Nat : n = Len(l)
  BY LenProperties
<1>2. PICK m : m = Append(l, ev)
  OBVIOUS
<1>3. /\ m \in Seq(E) /\ Len(m) = n + 1 /\ \A i \in 1..n : m[i] = l[i]
      /\ m[n + 1] = ev
  BY <1>1, <1>2, AppendProperties
<1>4. DOMAIN l = 1..n /\ DOMAIN m = 1..(n + 1)
  BY <1>1, <1>3
<1>5. IsFiniteSet(1..n)
  BY FS_Interval
<1>6. 1..(n + 1) = 1..n \cup {n + 1} /\ n + 1 \notin 1..n /\ (n + 1) - 1 = n
  OBVIOUS
<1>7. l = << >> <=> n = 0
  BY <1>1, EmptySeq
<1>8. m # << >>
  <2>1. Len(<< >>) = 0 /\ n + 1 # 0
    OBVIOUS
  <2>. QED BY <1>3, <2>1
<1>. QED BY <1>1, <1>2, <1>3, <1>4, <1>5, <1>6, <1>7, <1>8 DEF OneMore

(* t is the end of l. *)
IsEnd(t, l, n, k) ==
  /\ n \in Nat /\ k \in Nat /\ n <= k /\ Len(t) = n /\ Len(l) = k
  /\ \A i \in 1..n : t[i] = l[k - n + i]

(* The end of a log that grows by one, at both.                             *)
LEMMA EndMoves ==
  ASSUME NEW t, NEW l, NEW ev, NEW t2, NEW l2, NEW q, NEW p,
         OneMore(l, l2, ev, p), OneMore(t, t2, ev, q), IsEnd(t, l, Len(t), Len(l))
  PROVE  IsEnd(t2, l2, Len(t2), Len(l2))
<1>1. PICK n, k : /\ n = Len(t) /\ k = Len(l) /\ n \in Nat /\ k \in Nat /\ n <= k
                  /\ \A i \in 1..n : t[i] = l[k - n + i]
  BY DEF IsEnd
<1>2. /\ p = k + 1 /\ Len(l2) = p /\ DOMAIN l = 1..(p - 1)
      /\ (\A i \in DOMAIN l : l2[i] = l[i]) /\ l2[p] = ev
      /\ q = n + 1 /\ Len(t2) = q /\ DOMAIN t = 1..(q - 1)
      /\ (\A i \in DOMAIN t : t2[i] = t[i]) /\ t2[q] = ev
  BY <1>1 DEF OneMore
<1>3. ASSUME NEW i \in 1..(n + 1) PROVE t2[i] = l2[(k + 1) - (n + 1) + i]
  <2>1. CASE i = n + 1
    <3>1. (k + 1) - (n + 1) + i = k + 1
      BY <1>1, <2>1
    <3>. QED BY <1>2, <2>1, <3>1
  <2>2. CASE i # n + 1
    <3>1. i \in 1..n /\ k - n + i \in DOMAIN l /\ i \in DOMAIN t
          /\ (k + 1) - (n + 1) + i = k - n + i
      BY <1>1, <1>2, <2>2
    <3>. QED BY <1>1, <1>2, <3>1
  <2>. QED BY <2>1, <2>2
<1>. QED BY <1>1, <1>2, <1>3 DEF IsEnd

(* The last events of a log that grows by one.                              *)
From(evs, i) == SubSeq(evs, i, Len(evs))

LEMMA FromAppend ==
  ASSUME NEW E, NEW evs \in Seq(E), NEW ev \in E, NEW i \in 1..(Len(evs) + 1)
  PROVE  /\ From(evs, i) \in Seq(E)
         /\ From(Append(evs, ev), i) = Append(From(evs, i), ev)
<1>1. PICK n \in Nat : n = Len(evs)
  BY LenProperties
<1>2. PICK more : more = Append(evs, ev)
  OBVIOUS
<1>3. /\ more \in Seq(E) /\ Len(more) = n + 1 /\ \A j \in 1..n : more[j] = evs[j]
      /\ more[n + 1] = ev
  BY <1>1, <1>2, AppendProperties
<1>4. PICK s : s = SubSeq(evs, i, n)
  OBVIOUS
<1>5. /\ i \in Int /\ n \in Int /\ n + 1 \in Int /\ i <= n + 1 /\ 1 <= i
  BY <1>1
<1>6. /\ s \in Seq(E) /\ Len(s) = n - i + 1
      /\ \A j \in 1..(n - i + 1) : s[j] = evs[i + j - 1]
  <2>1. \A j \in i..n : evs[j] \in E
    BY <1>1, <1>5
  <2>2. /\ s \in Seq(E) /\ Len(s) = IF i <= n THEN n - i + 1 ELSE 0
        /\ \A j \in 1..(n - i + 1) : s[j] = evs[i + j - 1]
    BY <1>4, <1>5, <2>1, SubSeqProperties
  <2>. QED BY <1>5, <2>2
<1>7. PICK t : t = SubSeq(more, i, n + 1)
  OBVIOUS
<1>8. /\ t \in Seq(E) /\ Len(t) = n - i + 2
      /\ \A j \in 1..(n - i + 2) : t[j] = more[i + j - 1]
  <2>1. \A j \in i..(n + 1) : more[j] \in E
    BY <1>3, <1>5
  <2>2. /\ t \in Seq(E) /\ Len(t) = IF i <= n + 1 THEN (n + 1) - i + 1 ELSE 0
        /\ \A j \in 1..((n + 1) - i + 1) : t[j] = more[i + j - 1]
    BY <1>5, <1>7, <2>1, SubSeqProperties
  <2>. QED BY <1>5, <2>2
<1>9. PICK u : u = Append(s, ev)
  OBVIOUS
<1>10. /\ u \in Seq(E) /\ Len(u) = n - i + 2 /\ u[n - i + 2] = ev
       /\ \A j \in 1..(n - i + 1) : u[j] = s[j]
  <2>0. s \in Seq(E)
    BY <1>6
  <2>1. /\ u \in Seq(E) /\ Len(u) = Len(s) + 1 /\ u[Len(s) + 1] = ev
        /\ \A j \in 1..Len(s) : u[j] = s[j]
    BY <1>9, <2>0, AppendProperties
  <2>2. (n - i + 1) + 1 = n - i + 2
    BY <1>5
  <2>. QED BY <1>6, <2>1, <2>2
<1>11. ASSUME NEW j \in 1..(n - i + 2) PROVE t[j] = u[j]
  <2>1. CASE j = n - i + 2
    <3>1. i + j - 1 = n + 1
      BY <1>5, <2>1
    <3>. QED BY <1>3, <1>8, <1>10, <2>1, <3>1
  <2>2. CASE j # n - i + 2
    <3>1. j \in 1..(n - i + 1) /\ i + j - 1 \in 1..n
      BY <1>5, <2>2
    <3>. QED BY <1>3, <1>6, <1>8, <1>10, <3>1
  <2>. QED BY <2>1, <2>2
<1>12. t = u
  BY <1>8, <1>10, <1>11, SeqEqual
<1>. QED BY <1>1, <1>2, <1>3, <1>4, <1>6, <1>7, <1>9, <1>12 DEF From

(* What the last events say is the end of what all say.                     *)
EndsAt(evs, i) == IsEnd(Learning(From(evs, i)), Learning(evs), Len(Learning(From(evs, i))), Len(Learning(evs)))
EndsMatch(evs) == \A i \in 1..(Len(evs) + 1) : EndsAt(evs, i)

LEMMA EndsFollow ==
  ASSUME NEW E, NEW evs \in Seq(E), NEW ev \in E, EndsMatch(evs)
  PROVE  EndsMatch(Append(evs, ev))
<1>1. PICK n \in Nat : n = Len(evs)
  BY LenProperties
<1>2. PICK more : more = Append(evs, ev)
  OBVIOUS
<1>3. more \in Seq(E) /\ Len(more) = n + 1
  BY <1>1, <1>2, AppendProperties
<1>4. PICK l, m : l = Learning(evs) /\ m = Learning(more)
  OBVIOUS
<1>5. l \in Seq(E) /\ m \in Seq(E) /\ m = Learn(l, ev)
  BY <1>2, <1>3, <1>4, LearningTyped, LearningAppend
<1>6. ASSUME NEW i \in 1..(n + 2) PROVE EndsAt(more, i)
  <2>1. CASE i = n + 2
    <3>1. From(more, i) = << >>
      <4>1. i \in Int /\ n + 1 \in Int /\ n + 1 < i
        BY <1>1, <2>1
      <4>2. SubSeq(more, i, n + 1) = << >>
        BY <4>1, SubSeqEmpty
      <4>. QED BY <1>3, <4>2 DEF From
    <3>2. Learning(From(more, i)) = << >>
      BY <3>1, LearningEmpty
    <3>3. Len(m) \in Nat
      BY <1>5, LenProperties
    <3>4. PICK e, k : e = << >> /\ k = Len(m)
      OBVIOUS
    <3>5. k \in Nat /\ Len(e) = 0 /\ 1..0 = {}
      BY <3>3, <3>4
    <3>6. IsEnd(e, m, 0, k)
      BY <3>4, <3>5 DEF IsEnd
    <3>. QED BY <1>4, <3>2, <3>4, <3>5, <3>6 DEF EndsAt
  <2>2. CASE i # n + 2
    <3>1. i \in 1..(n + 1)
      BY <1>1, <2>2
    <3>2. EndsAt(evs, i)
      BY <1>1, <3>1 DEF EndsMatch
    <3>3. PICK s : s = From(evs, i)
      OBVIOUS
    <3>4. s \in Seq(E) /\ From(more, i) = Append(s, ev)
      BY <1>1, <1>2, <3>1, <3>3, FromAppend
    <3>5. PICK t, t2 : t = Learning(s) /\ t2 = Learning(Append(s, ev))
      OBVIOUS
    <3>6. t \in Seq(E) /\ t2 = Learn(t, ev)
      BY <3>4, <3>5, LearningTyped, LearningAppend
    <3>7. IsEnd(t, l, Len(t), Len(l))
      BY <1>4, <3>2, <3>3, <3>5 DEF EndsAt
    <3>8. CASE Learns(ev)
      <4>1. t2 = Append(t, ev) /\ m = Append(l, ev)
        BY <1>5, <3>6, <3>8 DEF Learn
      <4>2. PICK q, p : q = Len(t) + 1 /\ p = Len(l) + 1
        OBVIOUS
      <4>3. OneMore(t, t2, ev, q) /\ OneMore(l, m, ev, p)
        BY <1>5, <3>6, <4>1, <4>2, AppendIsOneMore
      <4>4. IsEnd(t2, m, Len(t2), Len(m))
        BY <3>7, <4>3, EndMoves
      <4>. QED BY <1>4, <3>4, <3>5, <4>4 DEF EndsAt
    <3>9. CASE ~Learns(ev)
      <4>1. t2 = t /\ m = l
        BY <1>5, <3>6, <3>9 DEF Learn
      <4>. QED BY <1>4, <3>4, <3>5, <3>7, <4>1 DEF EndsAt
    <3>. QED BY <3>8, <3>9
  <2>. QED BY <2>1, <2>2
<1>7. Len(more) + 1 = n + 2
  BY <1>3
<1>. QED BY <1>2, <1>6, <1>7 DEF EndsMatch

LEMMA EmptyEnds == EndsMatch(<< >>)
<1>1. PICK e : e = << >>
  OBVIOUS
<1>2. Len(e) = 0 /\ Learning(e) = e
  BY <1>1, LearningEmpty
<1>3. ASSUME NEW i \in 1..(Len(e) + 1) PROVE EndsAt(e, i)
  <2>1. i = 1
    BY <1>2
  <2>2. SubSeq(e, 1, 0) = << >>
    BY SubSeqEmpty
  <2>3. From(e, i) = e
    BY <1>1, <1>2, <2>1, <2>2 DEF From
  <2>4. IsEnd(e, e, 0, 0)
    BY <1>2 DEF IsEnd
  <2>. QED BY <1>2, <2>3, <2>4 DEF EndsAt
<1>4. EndsMatch(e)
  BY <1>3 DEF EndsMatch
<1>. QED BY <1>1, <1>4

(* The window: h holds the last n of the k apps of l.                       *)
WindowSize(k, cap) == IF k <= cap THEN k ELSE cap
IsWindow(h, l, n, k, cap) ==
  /\ n \in Nat /\ k \in Nat /\ Len(h) = n /\ Len(l) = k /\ n = WindowSize(k, cap)
  /\ \A i \in 1..n : h[i] = l[k - n + i].app

LEMMA WindowMoves ==
  ASSUME NEW A, NEW h \in Seq(A), NEW l, NEW m, NEW ev, NEW p, OneMore(l, m, ev, p),
         NEW cap \in Nat \ {0}, IsWindow(h, l, Len(h), Len(l), cap), NEW x \in A, x = ev.app,
         NEW h2, h2 = IF Len(Append(h, x)) > cap THEN Tail(Append(h, x))
                      ELSE Append(h, x)
  PROVE  h2 \in Seq(A) /\ IsWindow(h2, m, Len(h2), Len(m), cap)
<1>1. PICK n, k : n = Len(h) /\ k = Len(l)
  OBVIOUS
<1>2. /\ n \in Nat /\ k \in Nat /\ n = WindowSize(k, cap) /\ n <= k
      /\ p = k + 1 /\ Len(m) = k + 1 /\ DOMAIN l = 1..k
  <2>1. n \in Nat /\ k \in Nat /\ n = WindowSize(k, cap)
    BY <1>1 DEF IsWindow
  <2>2. p = k + 1 /\ Len(m) = p /\ DOMAIN l = 1..(p - 1)
    BY <1>1 DEF OneMore
  <2>3. 1..(p - 1) = 1..k
    BY <2>1, <2>2
  <2>. QED BY <2>1, <2>2, <2>3 DEF WindowSize
<1>3. \A i \in 1..n : h[i] = l[k - n + i].app
  BY <1>1 DEF IsWindow
<1>4. (\A i \in 1..k : m[i] = l[i]) /\ m[k + 1] = ev
  <2>1. (\A i \in DOMAIN l : m[i] = l[i]) /\ m[p] = ev
    BY DEF OneMore
  <2>. QED BY <1>2, <2>1
<1>5. PICK g : g = Append(h, x)
  OBVIOUS
<1>6. g \in Seq(A) /\ g # << >> /\ Len(g) = n + 1
  <2>1. g \in Seq(A) /\ g # << >> /\ Len(g) = Len(h) + 1
    BY <1>5, AppendProperties
  <2>. QED BY <1>1, <2>1
<1>7. (\A i \in 1..n : g[i] = h[i]) /\ g[n + 1] = x
  <2>1. (\A i \in 1..Len(h) : g[i] = h[i]) /\ g[Len(h) + 1] = x
    BY <1>5, AppendProperties
  <2>. QED BY <1>1, <2>1
<1>8. ASSUME NEW i \in 1..(n + 1) PROVE g[i] = m[k - n + i].app
  <2>1. CASE i = n + 1
    <3>1. k - n + i = k + 1
      BY <1>2, <2>1
    <3>. QED BY <1>4, <1>7, <2>1, <3>1
  <2>2. CASE i # n + 1
    <3>1. i \in 1..n /\ k - n + i \in 1..k
      BY <1>2, <2>2
    <3>2. g[i] = h[i] /\ h[i] = l[k - n + i].app
      BY <1>3, <1>7, <3>1
    <3>3. m[k - n + i] = l[k - n + i]
      BY <1>4, <3>1
    <3>. QED BY <3>2, <3>3
  <2>. QED BY <2>1, <2>2
<1>9. CASE n + 1 > cap
  <2>1. WindowSize(k + 1, cap) = n
    BY <1>2, <1>9 DEF WindowSize
  <2>2. h2 = Tail(g)
    BY <1>5, <1>6, <1>9
  <2>3. h2 \in Seq(A) /\ Len(h2) = Len(g) - 1 /\ \A i \in 1..Len(h2) : h2[i] = g[i + 1]
    BY <1>6, <2>2, HeadTailProperties
  <2>4. Len(h2) = n
    BY <1>2, <1>6, <2>3
  <2>5. ASSUME NEW i \in 1..n PROVE h2[i] = m[(k + 1) - n + i].app
    <3>0. PICK j : j = i + 1
      OBVIOUS
    <3>1. j \in 1..(n + 1) /\ k - n + j = (k + 1) - n + i
      BY <1>2, <3>0
    <3>2. g[j] = m[k - n + j].app
      BY <1>8, <3>1
    <3>3. h2[i] = g[j]
      BY <2>3, <2>4, <3>0
    <3>. QED BY <3>1, <3>2, <3>3
  <2>6. IsWindow(h2, m, n, k + 1, cap)
    <3>1. k + 1 \in Nat
      BY <1>2
    <3>. QED BY <1>2, <2>1, <2>4, <2>5, <3>1 DEF IsWindow
  <2>. QED BY <1>2, <2>3, <2>4, <2>6
<1>10. CASE ~(n + 1 > cap)
  <2>1. n = k /\ WindowSize(k + 1, cap) = n + 1 /\ n + 1 \in Nat /\ k + 1 \in Nat
    BY <1>2, <1>10 DEF WindowSize
  <2>2. h2 = g
    BY <1>5, <1>6, <1>10
  <2>3. ASSUME NEW i \in 1..(n + 1) PROVE g[i] = m[(k + 1) - (n + 1) + i].app
    <3>1. (k + 1) - (n + 1) + i = k - n + i
      BY <1>2
    <3>. QED BY <1>8, <3>1
  <2>4. IsWindow(h2, m, n + 1, k + 1, cap)
    BY <1>2, <1>6, <2>1, <2>2, <2>3 DEF IsWindow
  <2>. QED BY <1>2, <1>6, <2>2, <2>4
<1>. QED BY <1>9, <1>10

-----------------------------------------------------------------------------
LEMMA Scaled ==
  ASSUME NEW x \in Nat, NEW y \in Nat, x <= y, NEW c \in Nat
  PROVE  x * c \in Nat /\ x * c <= y * c
<1>1. PICK d \in Nat : y = x + d
  <2>1. y - x \in Nat /\ y = x + (y - x)
    OBVIOUS
  <2>. QED BY <2>1
<1>2. y * c = x * c + d * c
  BY <1>1
<1>3. x * c \in Nat /\ d * c \in Nat
  OBVIOUS
<1>. QED BY <1>2, <1>3

(* Three shares of one whole, 45, 30 and 25 in the hundred.                 *)
LEMMA SharesAddUp ==
  ASSUME NEW u \in Nat, NEW d \in Nat, NEW c \in Nat,
         NEW t \in Nat, NEW w \in Nat, NEW h \in Nat, u <= t, d <= w, c <= h
  PROVE  45 * u * w * h + 30 * d * t * h + 25 * c * w * t \in 0..(100 * w * t * h)
<1>1. PICK p, q, r \in Nat : p = w * h /\ q = t * h /\ r = w * t
  <2>1. w * h \in Nat /\ t * h \in Nat /\ w * t \in Nat
    OBVIOUS
  <2>. QED BY <2>1
<1>2. u * p \in Nat /\ u * p <= t * p
  BY Scaled
<1>3. d * q \in Nat /\ d * q <= w * q
  BY Scaled
<1>4. c * r \in Nat /\ c * r <= h * r
  BY Scaled
<1>5. PICK whole \in Nat : whole = w * t * h
  <2>1. w * t * h \in Nat
    OBVIOUS
  <2>. QED BY <2>1
<1>6. t * p = whole /\ w * q = whole /\ h * r = whole
  BY <1>1, <1>5
<1>7. 45 * u * w * h = 45 * (u * p) /\ 30 * d * t * h = 30 * (d * q)
      /\ 25 * c * w * t = 25 * (c * r) /\ 100 * w * t * h = 100 * whole
  BY <1>1, <1>5
<1>8. PICK x, y, z \in Nat : x = u * p /\ y = d * q /\ z = c * r
  BY <1>2, <1>3, <1>4
<1>9. x <= whole /\ y <= whole /\ z <= whole
  BY <1>2, <1>3, <1>4, <1>6, <1>8
<1>10. 45 * x + 30 * y + 25 * z \in 0..(100 * whole)
  BY <1>9
<1>. QED BY <1>7, <1>8, <1>10

(* What an order of the candidates, cut to k, is.                           *)
Ranked(score, s) ==
  \A i, j \in DOMAIN s : i < j => score[s[i]] >= score[s[j]]

LEMMA CutOfOrder ==
  ASSUME NEW S, IsFiniteSet(S), NEW s \in SetToSeqs(S), NEW k \in Nat
  PROVE  /\ Len(Cut(s, k)) = IF Cardinality(S) <= k THEN Cardinality(S) ELSE k
         /\ Len(Cut(s, k)) <= k
         /\ IsInjective(Cut(s, k)) /\ Range(Cut(s, k)) \subseteq S
<1>1. PICK n \in Nat : n = Cardinality(S)
  BY FS_CardinalityType
<1>2. s \in [1..n -> S] /\ \A i, j \in 1..n : s[i] = s[j] => i = j
  BY <1>1, OrderProperties
<1>3. s \in Seq(S) /\ Len(s) = n
  BY <1>1, <1>2
<1>4. CASE n <= k
  <2>1. Cut(s, k) = s
    BY <1>3, <1>4 DEF Cut
  <2>2. DOMAIN s = 1..n
    BY <1>2
  <2>3. IsInjective(s) /\ Range(s) \subseteq S
    BY <1>2, <2>2 DEF IsInjective, Range
  <2>. QED BY <1>1, <1>3, <1>4, <2>1, <2>3
<1>5. CASE ~(n <= k)
  <2>1. Cut(s, k) = SubSeq(s, 1, k)
    BY <1>3, <1>5 DEF Cut
  <2>2. PICK t : t = SubSeq(s, 1, k)
    OBVIOUS
  <2>3. t \in Seq(S) /\ Len(t) = k /\ \A i \in 1..k : t[i] = s[i]
    <3>1. \A i \in 1..k : s[i] \in S
      BY <1>2, <1>5
    <3>2. /\ t \in Seq(S) /\ Len(t) = IF 1 <= k THEN k - 1 + 1 ELSE 0
          /\ \A i \in 1..(k - 1 + 1) : t[i] = s[1 + i - 1]
      BY <2>2, <3>1, SubSeqProperties
    <3>3. k - 1 + 1 = k /\ \A i \in 1..k : 1 + i - 1 = i
      OBVIOUS
    <3>4. Len(t) = k
      BY <3>2
    <3>. QED BY <3>2, <3>3, <3>4
  <2>4. DOMAIN t = 1..k
    BY <2>3
  <2>5. IsInjective(t) /\ Range(t) \subseteq S
    <3>1. \A i \in 1..k : i \in 1..n
      BY <1>5
    <3>2. ASSUME NEW i \in 1..k, NEW j \in 1..k, t[i] = t[j] PROVE i = j
      BY <1>2, <2>3, <3>1, <3>2
    <3>3. \A i \in 1..k : t[i] \in S
      BY <1>2, <2>3, <3>1
    <3>. QED BY <2>4, <3>2, <3>3 DEF IsInjective, Range
  <2>. QED BY <1>1, <1>5, <2>1, <2>2, <2>3, <2>5
<1>. QED BY <1>4, <1>5

LEMMA RankingsAreCuts ==
  ASSUME NEW score, NEW k \in Nat, IsFiniteSet(DOMAIN score), NEW r \in Rankings(score, k)
  PROVE  /\ Len(r) = IF Cardinality(DOMAIN score) <= k THEN Cardinality(DOMAIN score) ELSE k
         /\ Len(r) <= k /\ IsInjective(r) /\ Range(r) \subseteq DOMAIN score
<1>1. PICK D : D = DOMAIN score
  OBVIOUS
<1>2. PICK s \in SetToSeqs(D) : r = Cut(s, k)
  BY <1>1 DEF Rankings
<1>. QED BY <1>1, <1>2, CutOfOrder

(* With no two scores alike there is one order.                             *)
AtLeast(S, key, v) == {y \in S : key[y] >= v}

LEMMA PlaceIsCount ==
  ASSUME NEW S, IsFiniteSet(S), NEW key, \A x \in S : key[x] \in Int,
         \A x, y \in S : key[x] = key[y] => x = y,
         NEW s \in SetToSeqs(S), Ranked(key, s), NEW i \in DOMAIN s
  PROVE  /\ i \in Nat /\ s[i] \in S
         /\ Cardinality(AtLeast(S, key, key[s[i]])) = i
<1>1. PICK n \in Nat : n = Cardinality(S)
  BY FS_CardinalityType
<1>2. /\ s \in [1..n -> S] /\ (\A j, k \in 1..n : s[j] = s[k] => j = k)
      /\ \A x \in S : \E j \in 1..n : s[j] = x
  BY <1>1, OrderProperties
<1>3. i \in 1..n /\ s[i] \in S /\ i \in Nat
  BY <1>2
<1>4. AtLeast(S, key, key[s[i]]) = ValuesTo(s, i)
  <2>1. ASSUME NEW j \in 1..i PROVE s[j] \in S /\ key[s[j]] >= key[s[i]]
    <3>1. j \in 1..n /\ s[j] \in S
      BY <1>2, <1>3
    <3>2. j < i => key[s[j]] >= key[s[i]]
      BY <1>2, <1>3, <3>1 DEF Ranked
    <3>3. key[s[i]] >= key[s[i]]
      <4>1. key[s[i]] \in Int
        BY <1>3
      <4>. QED BY <4>1
    <3>4. j < i \/ j = i
      BY <1>3
    <3>. QED BY <3>1, <3>2, <3>3, <3>4
  <2>2. ASSUME NEW y \in S, key[y] >= key[s[i]] PROVE \E j \in 1..i : y = s[j]
    <3>1. PICK j \in 1..n : s[j] = y
      BY <1>2
    <3>2. CASE j <= i
      BY <3>1, <3>2
    <3>3. CASE i < j
      <4>1. key[s[i]] >= key[y]
        BY <1>2, <1>3, <3>1, <3>3 DEF Ranked
      <4>2. key[y] = key[s[i]]
        BY <1>3, <2>2, <4>1
      <4>3. y = s[i]
        BY <1>3, <4>2
      <4>. QED BY <1>3, <4>3
    <3>. QED BY <1>3, <3>1, <3>2, <3>3
  <2>. QED BY <2>1, <2>2 DEF AtLeast, ValuesTo
<1>5. Cardinality(ValuesTo(s, i)) = i
  <2>1. \A j, k \in 1..i : s[j] = s[k] => j = k
    BY <1>2, <1>3
  <2>. QED BY <1>3, <2>1, PlacesCounted
<1>. QED BY <1>3, <1>4, <1>5

LEMMA OneOrder ==
  ASSUME NEW S, IsFiniteSet(S), NEW key, \A x \in S : key[x] \in Int,
         \A x, y \in S : key[x] = key[y] => x = y,
         NEW s \in SetToSeqs(S), Ranked(key, s), NEW t \in SetToSeqs(S), Ranked(key, t)
  PROVE  s = t
<1>1. PICK n \in Nat : n = Cardinality(S)
  BY FS_CardinalityType
<1>2. /\ s \in [1..n -> S] /\ t \in [1..n -> S]
      /\ \A x \in S : \E j \in 1..n : t[j] = x
  BY <1>1, OrderProperties
<1>3. ASSUME NEW i \in 1..n PROVE s[i] = t[i]
  <2>1. PICK j \in 1..n : t[j] = s[i]
    BY <1>2
  <2>2. i \in DOMAIN s /\ j \in DOMAIN t
    BY <1>2
  <2>3. Cardinality(AtLeast(S, key, key[s[i]])) = i
    BY <2>2, PlaceIsCount
  <2>4. Cardinality(AtLeast(S, key, key[t[j]])) = j
    BY <2>2, PlaceIsCount
  <2>. QED BY <2>1, <2>3, <2>4
<1>. QED BY <1>2, <1>3

IsAnswer(r, k, U) == Len(r) <= k /\ IsInjective(r) /\ Range(r) \subseteq U

LEMMA RankingsAnswer ==
  ASSUME NEW score, NEW k \in Nat, NEW U, IsFiniteSet(DOMAIN score),
         DOMAIN score \subseteq U, NEW r \in Rankings(score, k)
  PROVE  IsAnswer(r, k, U)
BY RankingsAreCuts DEF IsAnswer

LEMMA NoAnswer ==
  ASSUME NEW k \in Nat, NEW U
  PROVE  IsAnswer(<< >>, k, U) /\ Len(<< >>) = 0
<1>1. PICK e : e = << >>
  OBVIOUS
<1>2. Len(e) = 0 /\ DOMAIN e = {}
  BY <1>1
<1>3. IsAnswer(e, k, U)
  BY <1>2 DEF IsAnswer, IsInjective, Range
<1>. QED BY <1>1, <1>2, <1>3

-----------------------------------------------------------------------------
(* The recents list of a window, app by app.                                *)
Distinct(S) == {s \in Seq(S) : NoRepeats(s)}

IsTouchLoop(f, n, h) ==
  f = [s \in SUBSET (1..n) |->
         IF s = {} THEN << >> ELSE Touch(f[s \ {Max(s)}], h[Max(s)])]

IsTouchRun(R, n, h, S) ==
  /\ R[0] = << >>
  /\ \A k \in 1..n : R[k] = Touch(R[k - 1], h[k])
  /\ \A k \in 0..n : R[k] \in Distinct(S)

LEMMA EmptyDistinct ==
  ASSUME NEW S
  PROVE  << >> \in Distinct(S)
<1>1. << >> \in Seq(S) /\ Len(<< >>) = 0 /\ 1..0 = {}
  BY EmptySeq
<1>. QED BY <1>1 DEF Distinct, NoRepeats

LEMMA TouchLoopExists ==
  ASSUME NEW S, NEW n \in Nat, NEW h, \A k \in 1..n : h[k] \in S
  PROVE  \E f \in [SUBSET (1..n) -> Distinct(S)] : IsTouchLoop(f, n, h)
<1>. DEFINE G == [k \in 1..n |-> [s \in Distinct(S) |-> Touch(s, h[k])]]
<1>1. G \in [1..n -> [Distinct(S) -> Distinct(S)]]
  <2>1. ASSUME NEW k \in 1..n, NEW s \in Distinct(S) PROVE Touch(s, h[k]) \in Distinct(S)
    <3>1. PICK x \in S : x = h[k]
      OBVIOUS
    <3>2. s \in Seq(S) /\ NoRepeats(s)
      BY DEF Distinct
    <3>3. Touch(s, x) \in Seq(S) /\ NoRepeats(Touch(s, x))
      BY <3>2, TouchProperties
    <3>. QED BY <3>1, <3>3 DEF Distinct
  <2>. QED BY <2>1
<1>2. << >> \in Distinct(S)
  BY EmptyDistinct
<1>3. PICK f \in [SUBSET (1..n) -> Distinct(S)] : FoldUp(f, n, << >>, G)
  <2>. HIDE DEF G
  <2>. QED BY <1>1, <1>2, FoldUpExists
<1>4. ASSUME NEW s \in SUBSET (1..n), s # {}
      PROVE  f[s] = Touch(f[s \ {Max(s)}], h[Max(s)])
  <2>1. Max(s) \in 1..n
    BY <1>4, MaxOfPositions
  <2>2. f[s] = G[Max(s)][f[s \ {Max(s)}]]
    BY <1>3, <1>4 DEF FoldUp
  <2>3. f[s \ {Max(s)}] \in Distinct(S)
    BY <1>3
  <2>. QED BY <2>1, <2>2, <2>3
<1>5. f[{}] = << >>
  BY <1>3 DEF FoldUp
<1>6. IsTouchLoop(f, n, h)
  BY <1>3, <1>4, <1>5 DEF IsTouchLoop
<1>. QED BY <1>6

LEMMA TouchLoopTyped ==
  ASSUME NEW S, NEW n \in Nat, NEW h, \A k \in 1..n : h[k] \in S,
         NEW f, IsTouchLoop(f, n, h)
  PROVE  \A k \in 0..n : f[1..k] \in Distinct(S)
<1>. DEFINE Typed(k) == f[1..k] \in Distinct(S)
            N == {k \in Nat : k <= n => Typed(k)}
<1>1. 0 \in N
  <2>1. 1..0 = {} /\ {} \in SUBSET (1..n)
    OBVIOUS
  <2>2. f[{}] = << >>
    BY <2>1 DEF IsTouchLoop
  <2>3. Typed(0)
    BY <2>1, <2>2, EmptyDistinct
  <2>. HIDE DEF Typed
  <2>. QED BY <2>3
<1>2. ASSUME NEW k \in N \cap Nat PROVE k + 1 \in N
  <2>1. CASE k + 1 <= n
    <3>1. Typed(k)
      <4>. HIDE DEF Typed
      <4>. QED BY <1>2, <2>1
    <3>2. f[1..(k + 1)] = Touch(f[1..k], h[k + 1])
      <4>1. PICK T : T = 1..(k + 1)
        OBVIOUS
      <4>2. T # {} /\ Max(T) = k + 1 /\ T \ {k + 1} = 1..((k + 1) - 1) /\ (k + 1) - 1 = k
        <5>1. k + 1 \in Nat /\ k + 1 # 0
          OBVIOUS
        <5>. QED BY <4>1, <5>1, MaxOfPrefix
      <4>3. T \in SUBSET (1..n)
        BY <2>1, <4>1
      <4>. QED BY <4>1, <4>2, <4>3 DEF IsTouchLoop
    <3>3. PICK s, x : s = f[1..k] /\ x = h[k + 1] /\ x \in S
      <4>1. k + 1 \in 1..n
        BY <2>1
      <4>. QED BY <4>1
    <3>4. s \in Seq(S) /\ NoRepeats(s) /\ x \in S
      BY <3>1, <3>3 DEF Distinct
    <3>5. Touch(s, x) \in Seq(S) /\ NoRepeats(Touch(s, x))
      BY <3>4, TouchProperties
    <3>6. Typed(k + 1)
      BY <3>2, <3>3, <3>5 DEF Distinct
    <3>. HIDE DEF Typed
    <3>. QED BY <3>6
  <2>2. CASE ~(k + 1 <= n)
    BY <2>2
  <2>. QED BY <2>1, <2>2
<1>3. Nat \subseteq N
  <2>. HIDE DEF N
  <2>. QED BY <1>1, <1>2, NatInductionOnSet
<1>4. \A k \in 0..n : Typed(k)
  <2>. HIDE DEF Typed
  <2>. QED BY <1>3
<1>. QED BY <1>4

(* In the first k places of h, x is used after the last use of y.           *)
UsedAfter(h, k, x, y) ==
  \E i \in 1..k : h[i] = x /\ \A j \in 1..k : h[j] = y => j < i
UsedIn(h, k) == {h[i] : i \in 1..k}
MoreRecentFirst(s, h, k) == \A x, y : Before(s, x, y) => UsedAfter(h, k, x, y)

LEMMA TouchRecency ==
  ASSUME NEW S, NEW n \in Nat, NEW h, \A k \in 1..n : h[k] \in S,
         NEW R, IsTouchRun(R, n, h, S)
  PROVE  \A k \in 0..n : ToSet(R[k]) = UsedIn(h, k) /\ MoreRecentFirst(R[k], h, k)
<1>. DEFINE Held(k) == ToSet(R[k]) = UsedIn(h, k) /\ MoreRecentFirst(R[k], h, k)
            N == {k \in Nat : k <= n => Held(k)}
<1>1. 0 \in N
  <2>1. PICK e : e = << >>
    OBVIOUS
  <2>2. e = R[0] /\ Len(e) = 0 /\ DOMAIN e = {} /\ 1..0 = {}
    BY <2>1 DEF IsTouchRun
  <2>3. ToSet(e) = {} /\ UsedIn(h, 0) = {}
    BY <2>2 DEF ToSet, UsedIn
  <2>4. MoreRecentFirst(e, h, 0)
    BY <2>2 DEF MoreRecentFirst, Before
  <2>5. Held(0)
    BY <2>2, <2>3, <2>4
  <2>. HIDE DEF Held
  <2>. QED BY <2>5
<1>2. ASSUME NEW k \in N \cap Nat PROVE k + 1 \in N
  <2>1. CASE k + 1 <= n
    <3>0. Held(k)
      <4>. HIDE DEF Held
      <4>. QED BY <1>2, <2>1
    <3>1. PICK s, x : s = R[k] /\ x = h[k + 1]
      OBVIOUS
    <3>2. x \in S /\ s \in Seq(S) /\ NoRepeats(s) /\ R[k + 1] = Touch(s, x)
      <4>1. k + 1 \in 1..n /\ k \in 0..n /\ (k + 1) - 1 = k
        BY <2>1
      <4>. QED BY <3>1, <4>1 DEF IsTouchRun, Distinct
    <3>3. ToSet(s) = UsedIn(h, k) /\ MoreRecentFirst(s, h, k)
      BY <3>0, <3>1
    <3>4. 1..(k + 1) = 1..k \cup {k + 1}
      OBVIOUS
    <3>5. ToSet(Touch(s, x)) = UsedIn(h, k + 1)
      <4>1. ToSet(Touch(s, x)) = ToSet(s) \cup {x}
        BY <3>2, TouchProperties
      <4>. QED BY <3>1, <3>3, <3>4, <4>1 DEF UsedIn
    <3>6. ASSUME NEW a, NEW b, Before(Touch(s, x), a, b) PROVE UsedAfter(h, k + 1, a, b)
      <4>1. (a = x /\ b # x) \/ (Before(s, a, b) /\ b # x)
        BY <3>2, <3>6, TouchOrder
      <4>2. CASE a = x /\ b # x
        <5>1. k + 1 \in 1..(k + 1) /\ \A j \in 1..(k + 1) : h[j] = b => j < k + 1
          BY <3>1, <4>2
        <5>. QED BY <3>1, <4>2, <5>1 DEF UsedAfter
      <4>3. CASE Before(s, a, b) /\ b # x
        <5>1. UsedAfter(h, k, a, b)
          BY <3>3, <4>3 DEF MoreRecentFirst
        <5>2. PICK i \in 1..k : h[i] = a /\ \A j \in 1..k : h[j] = b => j < i
          BY <5>1 DEF UsedAfter
        <5>3. \A j \in 1..(k + 1) : h[j] = b => j < i
          BY <3>1, <3>4, <4>3, <5>2
        <5>. QED BY <3>4, <5>2, <5>3 DEF UsedAfter
      <4>. QED BY <4>1, <4>2, <4>3
    <3>7. MoreRecentFirst(Touch(s, x), h, k + 1)
      BY <3>6 DEF MoreRecentFirst
    <3>8. Held(k + 1)
      BY <3>2, <3>5, <3>7
    <3>. HIDE DEF Held
    <3>. QED BY <3>8
  <2>2. CASE ~(k + 1 <= n)
    BY <2>2
  <2>. QED BY <2>1, <2>2
<1>3. Nat \subseteq N
  <2>. HIDE DEF N
  <2>. QED BY <1>1, <1>2, NatInductionOnSet
<1>4. \A k \in 0..n : Held(k)
  <2>. HIDE DEF Held
  <2>. QED BY <1>3
<1>. QED BY <1>4
=============================================================================
