------------------------ MODULE SchedulingListProofs ------------------------
(***************************************************************************)
(* What the list operators return, for lists of any length over any set.   *)
(***************************************************************************)
EXTENDS SchedulingList, SequenceLemmas, FiniteSetTheorems

-----------------------------------------------------------------------------
(* Ordered_List::insert                                                    *)

(* insert() walks past the first |Passed| positions, and no others: Passed *)
(* is a prefix of the positions of l. *)
LEMMA PassedIsPrefix ==
  ASSUME NEW S, NEW l \in Seq(S), NEW e, NEW rank
  PROVE  /\ Cardinality(Passed(l, rank, e)) \in 0..Len(l)
         /\ Passed(l, rank, e) = 1..Cardinality(Passed(l, rank, e))
<1> DEFINE P == Passed(l, rank, e)
           c == Cardinality(P)
<1>1. Len(l) \in Nat
  OBVIOUS
<1>2. /\ P \in SUBSET (1..Len(l))
      /\ \A i \in P : 1..i \subseteq P
  BY <1>1 DEF Passed
<1>3. IsFiniteSet(1..Len(l)) /\ Cardinality(1..Len(l)) = Len(l)
  BY <1>1, FS_Interval
<1> HIDE DEF P
<1>4. IsFiniteSet(P) /\ c <= Len(l) /\ c \in Nat
  <2>1. IsFiniteSet(P) /\ c <= Cardinality(1..Len(l))
    BY <1>2, <1>3, FS_Subset
  <2>2. c \in Nat
    BY <2>1, FS_CardinalityType
  <2>3. QED
    BY <1>3, <2>1, <2>2
<1>5. ASSUME NEW i \in P PROVE i <= c
  <2>1. i \in Nat /\ i >= 1 /\ 1..i \in SUBSET P
    BY <1>1, <1>2
  <2>2. Cardinality(1..i) = i
    BY <2>1, FS_Interval
  <2>3. Cardinality(1..i) <= Cardinality(P)
    BY <2>1, <1>4, FS_Subset
  <2>4. QED
    BY <2>2, <2>3
<1>6. P \in SUBSET (1..c)
  BY <1>1, <1>2, <1>4, <1>5
<1>7. IsFiniteSet(1..c) /\ Cardinality(1..c) = c
  BY <1>4, FS_Interval
<1>8. P = 1..c
  BY <1>6, <1>7, FS_Subset
<1>9. QED
  BY <1>1, <1>4, <1>8 DEF P

(* insert() adds its element and nothing else, keeps the elements distinct *)
(* Whatever its position, the list holds e besides what it held, and no    *)
(* element twice. *)
LEMMA InsertAtFacts ==
  ASSUME NEW S, NEW l \in Seq(S), NEW e \in S, NEW k \in 1..Len(l)+1
  PROVE  /\ InsertAt(l, k, e) \in Seq(S)
         /\ Len(InsertAt(l, k, e)) = Len(l) + 1
         /\ ToSet(InsertAt(l, k, e)) = ToSet(l) \cup {e}
         /\ IsInjective(l) /\ e \notin ToSet(l) => IsInjective(InsertAt(l, k, e))
<1> DEFINE m == InsertAt(l, k, e)
<1>1. /\ Len(l) \in Nat
      /\ DOMAIN l = 1..Len(l)
      /\ \A i \in 1..Len(l) : l[i] \in S
  OBVIOUS
<1>2. k \in 1..Len(l)+1
  OBVIOUS
<1>3. m \in Seq(S) /\ Spliced(m, l, k, e)
  BY InsertAtElements
<1> HIDE DEF m
<1>4. /\ m \in Seq(S)
      /\ Len(m) = Len(l) + 1
      /\ \A i \in 1..Len(l)+1 : m[i] = IF i < k THEN l[i] ELSE IF i = k THEN e ELSE l[i-1]
  BY <1>3 DEF Spliced
<1>5. DOMAIN m = 1..Len(l)+1
  BY <1>4
<1>6. ToSet(m) = ToSet(l) \cup {e}
  <2>1. ASSUME NEW x \in ToSet(m) PROVE x \in ToSet(l) \cup {e}
    <3>1. PICK i \in 1..Len(l)+1 : x = m[i]
      BY <1>5 DEF ToSet
    <3>2. \/ i < k /\ i \in 1..Len(l) /\ x = l[i]
          \/ x = e
          \/ i > k /\ i-1 \in 1..Len(l) /\ x = l[i-1]
      BY <1>1, <1>2, <1>4, <3>1
    <3>3. QED
      BY <1>1, <3>2 DEF ToSet
  <2>2. ASSUME NEW x \in ToSet(l) PROVE x \in ToSet(m)
    <3>1. PICK i \in 1..Len(l) : x = l[i]
      BY <1>1 DEF ToSet
    <3>2. \/ i < k /\ i \in 1..Len(l)+1 /\ m[i] = l[i]
          \/ i >= k /\ i+1 \in 1..Len(l)+1 /\ m[i+1] = l[i]
      BY <1>1, <1>2, <1>4
    <3>3. QED
      BY <1>5, <3>1, <3>2 DEF ToSet
  <2>3. e \in ToSet(m)
    <3>1. k \in DOMAIN m /\ m[k] = e
      BY <1>1, <1>2, <1>4, <1>5
    <3>2. QED
      BY <3>1 DEF ToSet
  <2>4. QED
    BY <2>1, <2>2, <2>3
<1>7. ASSUME IsInjective(l), e \notin ToSet(l) PROVE IsInjective(m)
  <2>1. \A i, j \in 1..Len(l) : l[i] = l[j] => i = j
    BY <1>1, <1>7 DEF IsInjective
  <2>2. \A i \in 1..Len(l) : l[i] # e
    BY <1>1, <1>7 DEF ToSet
  <2>3. \A i \in 1..Len(l)+1 :
          \/ i < k /\ i \in 1..Len(l) /\ m[i] = l[i]
          \/ i = k /\ m[i] = e
          \/ i > k /\ i-1 \in 1..Len(l) /\ m[i] = l[i-1]
    BY <1>1, <1>2, <1>4
  <2>4. ASSUME NEW i \in 1..Len(l)+1, NEW j \in 1..Len(l)+1, m[i] = m[j]
        PROVE  i = j
    <3> DEFINE Before(x) == x < k /\ x \in 1..Len(l) /\ m[x] = l[x]
               At(x)     == x = k /\ m[x] = e
               After(x)  == x > k /\ x-1 \in 1..Len(l) /\ m[x] = l[x-1]
    <3>1. (Before(i) \/ At(i) \/ After(i)) /\ (Before(j) \/ At(j) \/ After(j))
      BY <2>3
    <3>2. CASE Before(i) /\ Before(j)
      BY <2>1, <2>4, <3>2
    <3>3. CASE At(i) /\ At(j)
      BY <3>3
    <3>4. CASE After(i) /\ After(j)
      <4>1. i-1 = j-1
        BY <2>1, <2>4, <3>4
      <4>2. QED
        BY <1>1, <4>1
    <3>5. CASE (Before(i) /\ After(j)) \/ (After(i) /\ Before(j))
      <4>1. i = j-1 \/ i-1 = j
        BY <2>1, <2>4, <3>5
      <4>2. QED
        BY <1>1, <1>2, <3>5, <4>1
    <3>6. CASE (At(i) /\ ~At(j)) \/ (~At(i) /\ At(j))
      BY <2>2, <2>4, <3>1, <3>6
    <3> HIDE DEF Before, At, After
    <3>7. QED
      BY <3>1, <3>2, <3>3, <3>4, <3>5, <3>6
  <2>5. QED
    BY <1>5, <2>4 DEF IsInjective
<1>8. QED
  BY <1>4, <1>6, <1>7 DEF m

(* and keeps a sorted list sorted. *)
LEMMA OrderedInsertFacts ==
  ASSUME NEW S, NEW l \in Seq(S), NEW e \in S, NEW rank \in [S -> Int]
  PROVE  /\ OrderedInsert(l, rank, e) \in Seq(S)
         /\ Len(OrderedInsert(l, rank, e)) = Len(l) + 1
         /\ ToSet(OrderedInsert(l, rank, e)) = ToSet(l) \cup {e}
         /\ IsInjective(l) /\ e \notin ToSet(l) => IsInjective(OrderedInsert(l, rank, e))
         /\ Sorted(l, rank) => Sorted(OrderedInsert(l, rank, e), rank)
<1> DEFINE P == Passed(l, rank, e)
           k == Cardinality(P) + 1
           m == OrderedInsert(l, rank, e)
<1>1. /\ Len(l) \in Nat
      /\ DOMAIN l = 1..Len(l)
      /\ \A i \in 1..Len(l) : l[i] \in S
  OBVIOUS
<1>2. k \in 1..Len(l)+1 /\ P = 1..(k-1)
  BY <1>1, PassedIsPrefix
<1> HIDE DEF P, k
<1>3. m = InsertAt(l, k, e)
  BY DEF OrderedInsert, P, k
<1> HIDE DEF m
<1>4. /\ m \in Seq(S)
      /\ Len(m) = Len(l) + 1
      /\ \A i \in 1..Len(l)+1 : m[i] = IF i < k THEN l[i] ELSE IF i = k THEN e ELSE l[i-1]
  <2>1. k \in 1..Len(l)+1
    BY <1>2
  <2>2. InsertAt(l, k, e) \in Seq(S) /\ Spliced(InsertAt(l, k, e), l, k, e)
    BY <2>1, InsertAtElements
  <2>3. m \in Seq(S) /\ Spliced(m, l, k, e)
    BY <1>3, <2>2
  <2>4. QED
    BY <2>3 DEF Spliced
<1>5. /\ ToSet(m) = ToSet(l) \cup {e}
      /\ IsInjective(l) /\ e \notin ToSet(l) => IsInjective(m)
  <2>1. k \in 1..Len(l)+1
    BY <1>2
  <2>2. QED
    BY <1>3, <2>1, InsertAtFacts
<1>6. ASSUME Sorted(l, rank) PROVE Sorted(m, rank)
  <2>1. \A i, j \in 1..Len(l) : i <= j => rank[l[i]] <= rank[l[j]]
    BY <1>6 DEF Sorted
  <2>2. \A i \in 1..Len(l) : rank[l[i]] \in Int
    BY <1>1
  <2>3. \A i \in 1..Len(l) : i < k => rank[l[i]] <= rank[e]
    BY <1>1, <1>2 DEF P, Passed
  <2>4. \A i \in 1..Len(l) : i >= k => rank[e] <= rank[l[i]]
    <3> SUFFICES ASSUME NEW i \in 1..Len(l), i >= k
                 PROVE  rank[e] <= rank[l[i]]
      OBVIOUS
    <3>1. i \notin P
      BY <1>1, <1>2
    <3>2. PICK j \in 1..i : ~(rank[l[j]] <= rank[e])
      BY <3>1 DEF P, Passed
    <3>3. j \in 1..Len(l) /\ j <= i
      BY <1>1, <3>2
    <3>4. rank[l[j]] <= rank[l[i]] /\ rank[e] < rank[l[j]]
      BY <2>1, <2>2, <3>2, <3>3
    <3>5. QED
      BY <2>2, <3>3, <3>4
  <2>5. ASSUME NEW i \in 1..Len(l)+1, NEW j \in 1..Len(l)+1, i <= j
        PROVE  rank[m[i]] <= rank[m[j]]
    <3>1. CASE j < k
      <4>1. /\ i \in 1..Len(l) /\ j \in 1..Len(l)
            /\ m[i] = l[i] /\ m[j] = l[j]
        BY <1>1, <1>2, <1>4, <2>5, <3>1, SMTT(20)
      <4>2. QED
        BY <2>1, <2>5, <4>1
    <3>2. CASE j = k
      <4>1. \/ i < k /\ i \in 1..Len(l) /\ m[i] = l[i] /\ m[j] = e
            \/ m[i] = e /\ m[j] = e
        BY <1>1, <1>2, <1>4, <2>5, <3>2
      <4>2. rank[e] \in Int
        OBVIOUS
      <4>3. QED
        BY <2>3, <4>1, <4>2
    <3>3. CASE j > k /\ i < k
      <4>1. /\ j-1 \in 1..Len(l) /\ i \in 1..Len(l) /\ i <= j-1
            /\ m[j] = l[j-1] /\ m[i] = l[i]
        BY <1>1, <1>2, <1>4, <2>5, <3>3
      <4>2. QED
        BY <2>1, <4>1
    <3>4. CASE j > k /\ i = k
      <4>1. j-1 \in 1..Len(l) /\ j-1 >= k /\ m[j] = l[j-1] /\ m[i] = e
        BY <1>1, <1>2, <1>4, <3>4
      <4>2. QED
        BY <2>4, <4>1
    <3>5. CASE j > k /\ i > k
      <4>1. /\ j-1 \in 1..Len(l) /\ i-1 \in 1..Len(l) /\ i-1 <= j-1
            /\ m[j] = l[j-1] /\ m[i] = l[i-1]
        BY <1>1, <1>2, <1>4, <2>5, <3>5
      <4>2. QED
        BY <2>1, <4>1
    <3>6. QED
      BY <1>2, <3>1, <3>2, <3>3, <3>4, <3>5
  <2>6. QED
    BY <1>4, <2>5 DEF Sorted
<1>7. QED
  BY <1>4, <1>5, <1>6 DEF m

-----------------------------------------------------------------------------
(* List::remove(obj)                                                       *)

(* Removing an object takes it out and keeps the order of the others. *)
LEMMA ListRemoveFacts ==
  ASSUME NEW S, NEW l \in Seq(S), NEW e, NEW rank, IsInjective(l)
  PROVE  /\ ListRemove(l, e) \in Seq(S)
         /\ Len(ListRemove(l, e)) = IF e \in ToSet(l) THEN Len(l) - 1 ELSE Len(l)
         /\ ToSet(ListRemove(l, e)) = ToSet(l) \ {e}
         /\ IsInjective(ListRemove(l, e))
         /\ Sorted(l, rank) => Sorted(ListRemove(l, e), rank)
<1>1. /\ Len(l) \in Nat
      /\ DOMAIN l = 1..Len(l)
      /\ \A i \in 1..Len(l) : l[i] \in S
  OBVIOUS
<1>2. \A i, j \in 1..Len(l) : l[i] = l[j] => i = j
  BY <1>1 DEF IsInjective
<1>3. CASE e \notin ToSet(l)
  BY <1>3 DEF ListRemove
<1>4. CASE e \in ToSet(l)
  <2> DEFINE k == CHOOSE i \in DOMAIN l : l[i] = e
             m == ListRemove(l, e)
  <2>1. k \in 1..Len(l) /\ l[k] = e
    BY <1>1, <1>4 DEF ToSet
  <2> HIDE DEF k
  <2>2. m = RemoveAt(l, k)
    BY <1>4 DEF ListRemove, k
  <2> HIDE DEF m
  <2>3. /\ m \in Seq(S)
        /\ Len(m) = Len(l) - 1
        /\ \A i \in 1..Len(l)-1 : m[i] = IF i < k THEN l[i] ELSE l[i+1]
    BY <2>1, <2>2, RemoveAtElements
  <2>4. DOMAIN m = 1..Len(l)-1
    BY <2>3
  <2>5. \A i \in 1..Len(l)-1 :
          \/ i < k /\ i \in 1..Len(l) /\ m[i] = l[i]
          \/ i >= k /\ i+1 \in 1..Len(l) /\ m[i] = l[i+1]
    BY <1>1, <2>1, <2>3
  <2>6. ToSet(m) = ToSet(l) \ {e}
    <3>1. ASSUME NEW x \in ToSet(m) PROVE x \in ToSet(l) \ {e}
      <4>1. PICK i \in 1..Len(l)-1 : x = m[i]
        BY <2>4 DEF ToSet
      <4>2. PICK j \in 1..Len(l) : j # k /\ x = l[j]
        BY <1>1, <2>1, <2>5, <4>1
      <4>3. QED
        BY <1>1, <1>2, <2>1, <4>2 DEF ToSet
    <3>2. ASSUME NEW x \in ToSet(l) \ {e} PROVE x \in ToSet(m)
      <4>1. PICK i \in 1..Len(l) : x = l[i] /\ i # k
        BY <1>1, <2>1 DEF ToSet
      <4>2. \/ i < k /\ i \in 1..Len(l)-1 /\ m[i] = l[i]
            \/ i > k /\ i-1 \in 1..Len(l)-1 /\ m[i-1] = l[i]
        <5>1. CASE i < k
          BY <1>1, <2>1, <2>3, <4>1, <5>1
        <5>2. CASE i > k
          <6>1. i-1 \in 1..Len(l)-1 /\ ~(i-1 < k) /\ (i-1)+1 = i
            BY <1>1, <2>1, <4>1, <5>2
          <6>2. m[i-1] = l[(i-1)+1]
            BY <2>3, <6>1
          <6>3. QED
            BY <5>2, <6>1, <6>2
        <5>3. QED
          BY <1>1, <2>1, <4>1, <5>1, <5>2
      <4>3. QED
        BY <2>4, <4>1, <4>2 DEF ToSet
    <3>3. QED
      BY <3>1, <3>2
  <2>7. IsInjective(m)
    <3>1. \A i, j \in 1..Len(l)-1 : m[i] = m[j] => i = j
      BY <1>1, <1>2, <2>1, <2>5
    <3>2. QED
      BY <2>4, <3>1 DEF IsInjective
  <2>8. ASSUME Sorted(l, rank) PROVE Sorted(m, rank)
    <3>1. \A i, j \in 1..Len(l) : i <= j => rank[l[i]] <= rank[l[j]]
      BY <2>8 DEF Sorted
    <3>2. ASSUME NEW i \in 1..Len(l)-1, NEW j \in 1..Len(l)-1, i <= j
          PROVE  rank[m[i]] <= rank[m[j]]
      BY <1>1, <2>1, <2>5, <3>1, <3>2
    <3>3. QED
      BY <2>3, <3>2 DEF Sorted
  <2>9. QED
    BY <1>4, <2>3, <2>6, <2>7, <2>8 DEF m
<1>5. QED
  BY <1>3, <1>4

-----------------------------------------------------------------------------
(* The head of a list                                                      *)

(* A list is empty when it has no elements; otherwise its head is one of   *)
(* them and, in a sorted list, has the least rank. *)
LEMMA HeadFacts ==
  ASSUME NEW S, NEW l \in Seq(S), NEW rank
  PROVE  /\ ToSet(l) \subseteq S
         /\ l = << >> <=> ToSet(l) = {}
         /\ l # << >> => Head(l) \in ToSet(l)
         /\ l # << >> /\ Sorted(l, rank) => \A x \in ToSet(l) : rank[Head(l)] <= rank[x]
<1>1. /\ Len(l) \in Nat
      /\ DOMAIN l = 1..Len(l)
      /\ \A i \in 1..Len(l) : l[i] \in S
  OBVIOUS
<1>2. ToSet(l) \subseteq S
  BY <1>1 DEF ToSet
<1>3. ASSUME l # << >> PROVE 1 \in 1..Len(l) /\ Head(l) = l[1]
  BY <1>1, <1>3
<1>4. ASSUME l = << >> PROVE ToSet(l) = {}
  BY <1>1, <1>4 DEF ToSet
<1>5. ASSUME l # << >> PROVE Head(l) \in ToSet(l)
  BY <1>1, <1>3, <1>5 DEF ToSet
<1>6. ASSUME l # << >>, Sorted(l, rank), NEW x \in ToSet(l)
      PROVE  rank[Head(l)] <= rank[x]
  <2>1. PICK i \in 1..Len(l) : x = l[i]
    BY <1>1 DEF ToSet
  <2>2. QED
    BY <1>1, <1>3, <1>6, <2>1 DEF Sorted
<1>7. QED
  BY <1>2, <1>4, <1>5, <1>6

(* Whether a list is sorted depends on the ranks of its elements only. *)
LEMMA SortedCongruence ==
  ASSUME NEW S, NEW l \in Seq(S), NEW r1, NEW r2,
         Sorted(l, r1), \A x \in ToSet(l) : r1[x] = r2[x]
  PROVE  Sorted(l, r2)
<1>1. /\ Len(l) \in Nat
      /\ \A i \in 1..Len(l) : l[i] \in ToSet(l)
  BY DEF ToSet
<1>2. QED
  BY <1>1 DEF Sorted

(* A list that loses its head keeps the others, in their order. *)
LEMMA TailFacts ==
  ASSUME NEW S, NEW l \in Seq(S), l # << >>, IsInjective(l), NEW rank
  PROVE  /\ Tail(l) \in Seq(S)
         /\ ToSet(Tail(l)) = ToSet(l) \ {Head(l)}
         /\ IsInjective(Tail(l))
         /\ Sorted(l, rank) => Sorted(Tail(l), rank)
<1>1. /\ Len(l) \in Nat /\ Len(l) >= 1
      /\ DOMAIN l = 1..Len(l)
      /\ Head(l) = l[1]
  OBVIOUS
<1>2. \A i, j \in 1..Len(l) : l[i] = l[j] => i = j
  BY <1>1 DEF IsInjective
<1>3. /\ Tail(l) \in Seq(S)
      /\ Len(Tail(l)) = Len(l) - 1
      /\ DOMAIN Tail(l) = 1..Len(l)-1
      /\ \A i \in 1..Len(l)-1 : Tail(l)[i] = l[i+1]
  BY <1>1, HeadTailProperties
<1>4. ASSUME NEW x \in ToSet(Tail(l)) PROVE x \in ToSet(l) \ {Head(l)}
  <2>1. PICK i \in 1..Len(l)-1 : x = l[i+1]
    BY <1>3 DEF ToSet
  <2>2. i+1 \in 1..Len(l) /\ i+1 # 1 /\ 1 \in 1..Len(l)
    BY <1>1, <2>1
  <2>3. QED
    BY <1>1, <1>2, <2>1, <2>2 DEF ToSet
<1>5. ASSUME NEW x \in ToSet(l) \ {Head(l)} PROVE x \in ToSet(Tail(l))
  <2>1. PICK i \in 1..Len(l) : x = l[i]
    BY <1>1 DEF ToSet
  <2>2. i-1 \in 1..Len(l)-1 /\ (i-1)+1 = i
    BY <1>1, <2>1
  <2>3. Tail(l)[i-1] = x
    BY <1>3, <2>1, <2>2
  <2>4. QED
    BY <1>3, <2>2, <2>3 DEF ToSet
<1>6. IsInjective(Tail(l))
  <2>1. \A i \in 1..Len(l)-1 : i+1 \in 1..Len(l)
    BY <1>1
  <2>2. ASSUME NEW i \in 1..Len(l)-1, NEW j \in 1..Len(l)-1, Tail(l)[i] = Tail(l)[j]
        PROVE  i = j
    <3>1. i+1 = j+1
      BY <1>2, <1>3, <2>1, <2>2
    <3>2. QED
      BY <1>1, <3>1
  <2>3. QED
    BY <1>3, <2>2 DEF IsInjective
<1>7. ASSUME Sorted(l, rank) PROVE Sorted(Tail(l), rank)
  <2>1. ASSUME NEW i \in 1..Len(l)-1, NEW j \in 1..Len(l)-1, i <= j
        PROVE  rank[Tail(l)[i]] <= rank[Tail(l)[j]]
    <3>1. i+1 \in 1..Len(l) /\ j+1 \in 1..Len(l) /\ i+1 <= j+1
      BY <1>1, <2>1
    <3>2. QED
      BY <1>3, <1>7, <3>1 DEF Sorted
  <2>2. QED
    BY <1>3, <2>1 DEF Sorted
<1>8. QED
  BY <1>3, <1>4, <1>5, <1>6, <1>7

-----------------------------------------------------------------------------
(* Scheduling_List                                                         *)

(* insert() leaves the chosen element alone. *)
LEMMA SchedInsertFacts ==
  ASSUME NEW S, Null \notin S, NEW rank \in [S -> Int], NEW s, SchedListOK(s, S, rank),
         NEW e \in S, e \notin ToSet(s.list)
  PROVE  /\ SchedListOK(SchedInsert(s, rank, e), S, rank)
         /\ ToSet(SchedInsert(s, rank, e).list) = ToSet(s.list) \cup {e}
         /\ SchedInsert(s, rank, e).chosen = s.chosen
<1> DEFINE l == OrderedInsert(s.list, rank, e)
<1>1. /\ s.list \in Seq(S) /\ s.chosen \in S /\ s.chosen \in ToSet(s.list)
      /\ IsInjective(s.list) /\ Sorted(s.list, rank)
  BY DEF SchedListOK
<1>2. /\ l \in Seq(S) /\ ToSet(l) = ToSet(s.list) \cup {e}
      /\ IsInjective(l) /\ Sorted(l, rank)
  BY <1>1, OrderedInsertFacts
<1>3. SchedInsert(s, rank, e) = [list |-> l, chosen |-> s.chosen]
  BY <1>1 DEF SchedInsert
<1> HIDE DEF l
<1>4. QED
  BY <1>1, <1>2, <1>3 DEF SchedListOK

(* remove() of the chosen element chooses the head. *)
LEMMA SchedRemoveFacts ==
  ASSUME NEW S, NEW rank, NEW s, SchedListOK(s, S, rank),
         NEW e, ToSet(s.list) \ {e} # {}
  PROVE  /\ SchedListOK(SchedRemove(s, e), S, rank)
         /\ ToSet(SchedRemove(s, e).list) = ToSet(s.list) \ {e}
         /\ e # s.chosen => SchedRemove(s, e).chosen = s.chosen
         /\ e = s.chosen => \A x \in ToSet(s.list) \ {e} :
                               rank[SchedRemove(s, e).chosen] <= rank[x]
<1> DEFINE l == ListRemove(s.list, e)
           c == IF e = s.chosen THEN Head(l) ELSE s.chosen
<1>1. /\ s.list \in Seq(S) /\ s.chosen \in S /\ s.chosen \in ToSet(s.list)
      /\ IsInjective(s.list) /\ Sorted(s.list, rank)
  BY DEF SchedListOK
<1>2. /\ l \in Seq(S) /\ ToSet(l) = ToSet(s.list) \ {e}
      /\ IsInjective(l) /\ Sorted(l, rank)
  BY <1>1, ListRemoveFacts
<1> HIDE DEF l
<1>3. /\ l # << >> /\ Head(l) \in ToSet(l) /\ ToSet(l) \subseteq S
      /\ \A x \in ToSet(l) : rank[Head(l)] <= rank[x]
  BY <1>2, HeadFacts
<1>4. SchedRemove(s, e) = [list |-> l, chosen |-> c]
  BY <1>1, <1>3 DEF SchedRemove, HeadOf, l
<1>5. c \in ToSet(l)
  BY <1>1, <1>2, <1>3
<1>6. QED
  BY <1>2, <1>3, <1>4, <1>5 DEF SchedListOK

(* reorder() keeps the elements and the order of the list. *)
LEMMA ReorderFacts ==
  ASSUME NEW S, NEW rank \in [S -> Int], NEW s, SchedListOK(s, S, rank)
  PROVE  /\ Reorder(s, rank) \in Seq(S)
         /\ ToSet(Reorder(s, rank)) = ToSet(s.list)
         /\ IsInjective(Reorder(s, rank))
         /\ Sorted(Reorder(s, rank), rank)
<1> DEFINE l == ListRemove(s.list, s.chosen)
<1>1. /\ s.list \in Seq(S) /\ s.chosen \in S /\ s.chosen \in ToSet(s.list)
      /\ IsInjective(s.list) /\ Sorted(s.list, rank)
  BY DEF SchedListOK
<1>2. /\ l \in Seq(S) /\ ToSet(l) = ToSet(s.list) \ {s.chosen}
      /\ IsInjective(l) /\ Sorted(l, rank)
  BY <1>1, ListRemoveFacts
<1> HIDE DEF l
<1>3. /\ OrderedInsert(l, rank, s.chosen) \in Seq(S)
      /\ ToSet(OrderedInsert(l, rank, s.chosen)) = ToSet(l) \cup {s.chosen}
      /\ IsInjective(OrderedInsert(l, rank, s.chosen))
      /\ Sorted(OrderedInsert(l, rank, s.chosen), rank)
  BY <1>1, <1>2, OrderedInsertFacts
<1>4. QED
  BY <1>1, <1>2, <1>3 DEF Reorder, l

(* choose() keeps the elements and chooses one of the least rank. *)
LEMMA SchedChooseFacts ==
  ASSUME NEW S, NEW rank \in [S -> Int], NEW s, SchedListOK(s, S, rank)
  PROVE  /\ SchedListOK(SchedChoose(s, rank), S, rank)
         /\ ToSet(SchedChoose(s, rank).list) = ToSet(s.list)
         /\ \A x \in ToSet(s.list) : rank[SchedChoose(s, rank).chosen] <= rank[x]
<1> DEFINE l == Reorder(s, rank)
<1>1. /\ s.list \in Seq(S) /\ s.chosen \in ToSet(s.list)
      /\ l \in Seq(S) /\ ToSet(l) = ToSet(s.list) /\ IsInjective(l) /\ Sorted(l, rank)
  BY ReorderFacts DEF SchedListOK
<1> HIDE DEF l
<1>2. s.list # << >> /\ l # << >>
  BY <1>1, HeadFacts
<1>3. SchedChoose(s, rank) = [list |-> l, chosen |-> Head(l)]
  BY <1>2 DEF SchedChoose, l
<1>4. /\ Head(l) \in ToSet(l) /\ ToSet(l) \subseteq S
      /\ \A x \in ToSet(l) : rank[Head(l)] <= rank[x]
  BY <1>1, <1>2, HeadFacts
<1>5. QED
  BY <1>1, <1>3, <1>4 DEF SchedListOK

(* choose_another() keeps the elements. *)
LEMMA SchedChooseAnotherFacts ==
  ASSUME NEW S, NEW rank \in [S -> Int], NEW s, SchedListOK(s, S, rank)
  PROVE  /\ SchedListOK(SchedChooseAnother(s, rank), S, rank)
         /\ ToSet(SchedChooseAnother(s, rank).list) = ToSet(s.list)
<1> DEFINE m == ListRemove(s.list, s.chosen)
           l == Reorder(s, rank)
<1>1. /\ s.list \in Seq(S) /\ s.chosen \in ToSet(s.list) /\ IsInjective(s.list)
      /\ l \in Seq(S) /\ ToSet(l) = ToSet(s.list) /\ IsInjective(l) /\ Sorted(l, rank)
  BY ReorderFacts DEF SchedListOK
<1>2. CASE ~(Len(s.list) > 1)
  BY <1>2 DEF SchedChooseAnother
<1>3. CASE Len(s.list) > 1
  <2>1. m \in Seq(S) /\ Len(m) = Len(s.list) - 1 /\ ToSet(m) = ToSet(s.list) \ {s.chosen}
    BY <1>1, ListRemoveFacts
  <2>2. m # << >>
    BY <1>1, <1>3, <2>1
  <2> HIDE DEF m, l
  <2>3. Head(m) \in ToSet(l) /\ Head(m) \in S
    BY <1>1, <2>1, <2>2, HeadFacts
  <2>4. SchedChooseAnother(s, rank) = [list |-> l, chosen |-> Head(m)]
    BY <1>3 DEF SchedChooseAnother, m, l
  <2>5. QED
    BY <1>1, <2>3, <2>4 DEF SchedListOK
<1>4. QED
  BY <1>2, <1>3

(* choose(obj) keeps the elements. *)
LEMMA SchedChooseObjectFacts ==
  ASSUME NEW S, Null \notin S, NEW rank \in [S -> Int], NEW s, SchedListOK(s, S, rank),
         NEW e \in ToSet(s.list)
  PROVE  /\ SchedListOK(SchedChooseObject(s, rank, e), S, rank)
         /\ ToSet(SchedChooseObject(s, rank, e).list) = ToSet(s.list)
         /\ SchedChooseObject(s, rank, e).chosen = e
<1> DEFINE l == Reorder(s, rank)
<1>1. /\ s.list \in Seq(S) /\ s.chosen \in S
      /\ l \in Seq(S) /\ ToSet(l) = ToSet(s.list) /\ IsInjective(l) /\ Sorted(l, rank)
  BY ReorderFacts DEF SchedListOK
<1>2. e \in S
  BY <1>1, HeadFacts
<1>3. SchedChooseObject(s, rank, e) = [list |-> l, chosen |-> e]
  BY <1>1 DEF SchedChooseObject
<1> HIDE DEF l
<1>4. QED
  BY <1>1, <1>2, <1>3 DEF SchedListOK

-----------------------------------------------------------------------------
(* Who is before whom                                                      *)

(* t is in l before u.                                                     *)
Ahead(l, t, u) == \E i, j \in 1..Len(l) : i < j /\ l[i] = t /\ l[j] = u

(* Taking the head leaves the order of the others.                         *)
LEMMA AheadInTail ==
  ASSUME NEW S, NEW l \in Seq(S), l # << >>, IsInjective(l),
         NEW t, NEW u, Ahead(l, t, u), t \in ToSet(Tail(l))
  PROVE  Ahead(Tail(l), t, u)
<1>1. PICK i, j \in 1..Len(l) : i < j /\ l[i] = t /\ l[j] = u
  BY DEF Ahead
<1>2. Len(l) \in Nat /\ Len(l) >= 1 /\ Head(l) = l[1] /\ 1 \in 1..Len(l)
  OBVIOUS
<1> DEFINE m == Tail(l)
<1>3. Len(m) = Len(l) - 1 /\ \A n \in 1..Len(l)-1 : m[n] = l[n+1]
  BY <1>2
<1>4. t # Head(l)
  BY TailFacts
<1> HIDE DEF m
<1>5. i # 1
  BY <1>1, <1>2, <1>4
<1>6. i - 1 \in 1..Len(m) /\ j - 1 \in 1..Len(m) /\ i - 1 < j - 1
      /\ (i - 1) + 1 = i /\ (j - 1) + 1 = j
  BY <1>1, <1>2, <1>3, <1>5
<1>7. m[i-1] = t /\ m[j-1] = u
  BY <1>1, <1>3, <1>6
<1>8. QED
  BY <1>6, <1>7 DEF Ahead, m

(* So does inserting an element anywhere ...                               *)
LEMMA AheadInserted ==
  ASSUME NEW S, NEW l \in Seq(S), NEW e \in S, NEW k \in 1..Len(l)+1,
         NEW t, NEW u, Ahead(l, t, u)
  PROVE  Ahead(InsertAt(l, k, e), t, u)
<1> DEFINE m == InsertAt(l, k, e)
           to(i) == IF i < k THEN i ELSE i + 1
<1>1. PICK i, j \in 1..Len(l) : i < j /\ l[i] = t /\ l[j] = u
  BY DEF Ahead
<1>2. Len(l) \in Nat /\ Spliced(m, l, k, e)
  BY InsertAtElements
<1> HIDE DEF m
<1>3. ASSUME NEW n \in 1..Len(l) PROVE to(n) \in 1..Len(m) /\ m[to(n)] = l[n]
  <2>1. to(n) \in 1..Len(l)+1 /\ k \in Int /\ Len(m) = Len(l) + 1
    BY <1>2 DEF Spliced
  <2>2. CASE n < k
    BY <1>2, <2>1, <2>2 DEF Spliced
  <2>3. CASE ~(n < k)
    <3>1. n + 1 \in 1..Len(l)+1 /\ ~(n + 1 < k) /\ n + 1 # k /\ (n + 1) - 1 = n
      BY <1>2, <2>1, <2>3
    <3>2. QED
      BY <1>2, <2>1, <2>3, <3>1 DEF Spliced
  <2>4. QED
    BY <2>2, <2>3
<1>4. to(i) < to(j)
  BY <1>1, <1>2
<1> HIDE DEF to
<1>5. to(i) \in 1..Len(m) /\ to(j) \in 1..Len(m) /\ m[to(i)] = t /\ m[to(j)] = u
  BY <1>1, <1>3
<1>6. QED
  BY <1>4, <1>5 DEF Ahead, m

(* ... and removing another element.                                       *)
LEMMA AheadRemoved ==
  ASSUME NEW S, NEW l \in Seq(S), NEW e, NEW t, NEW u, Ahead(l, t, u), t # e, u # e
  PROVE  Ahead(ListRemove(l, e), t, u)
<1>1. CASE e \notin ToSet(l)
  BY <1>1 DEF ListRemove
<1>2. CASE e \in ToSet(l)
  <2> DEFINE p == CHOOSE i \in DOMAIN l : l[i] = e
             m == RemoveAt(l, p)
             to(i) == IF i < p THEN i ELSE i - 1
  <2>1. PICK i, j \in 1..Len(l) : i < j /\ l[i] = t /\ l[j] = u
    BY DEF Ahead
  <2>2. Len(l) \in Nat /\ p \in 1..Len(l) /\ l[p] = e
    BY <1>2 DEF ToSet
  <2>3. ListRemove(l, e) = m
    BY <1>2 DEF ListRemove
  <2> HIDE DEF p
  <2>4. Len(m) = Len(l) - 1 /\ \A n \in 1..Len(l)-1 : m[n] = IF n < p THEN l[n] ELSE l[n+1]
    BY <2>2, RemoveAtElements
  <2> HIDE DEF m
  <2>5. ASSUME NEW n \in 1..Len(l), n # p PROVE to(n) \in 1..Len(m) /\ m[to(n)] = l[n]
    <3>1. CASE n < p
      BY <2>2, <2>4, <3>1
    <3>2. CASE n > p
      <4>1. n - 1 \in 1..Len(l)-1 /\ ~(n - 1 < p) /\ (n - 1) + 1 = n /\ ~(n < p)
        BY <2>2, <3>2
      <4>2. QED
        BY <2>4, <4>1
    <3>3. QED
      BY <2>2, <2>5, <3>1, <3>2
  <2>6. i # p /\ j # p
    BY <2>1, <2>2
  <2>7. to(i) < to(j)
    BY <2>1, <2>2, <2>6
  <2> HIDE DEF to
  <2>8. to(i) \in 1..Len(m) /\ to(j) \in 1..Len(m) /\ m[to(i)] = t /\ m[to(j)] = u
    BY <2>1, <2>5, <2>6
  <2>9. QED
    BY <2>3, <2>7, <2>8 DEF Ahead
<1>3. QED
  BY <1>1, <1>2

(* insert() puts an element behind every one of no worse rank.             *)
LEMMA InsertsBehind ==
  ASSUME NEW S, NEW l \in Seq(S), NEW rank \in [S -> Int], NEW e \in S, Sorted(l, rank),
         NEW t \in ToSet(l), rank[t] <= rank[e]
  PROVE  Ahead(OrderedInsert(l, rank, e), t, e)
<1> DEFINE P == Passed(l, rank, e)
           k == Cardinality(P) + 1
           m == InsertAt(l, k, e)
<1>1. Len(l) \in Nat /\ \A i \in 1..Len(l) : l[i] \in S
  OBVIOUS
<1>2. PICK i \in 1..Len(l) : l[i] = t
  BY DEF ToSet
<1>3. i \in P
  <2> SUFFICES ASSUME NEW j \in 1..i PROVE rank[l[j]] <= rank[e]
    BY DEF Passed
  <2>1. j \in 1..Len(l) /\ j <= i
    BY <1>1
  <2>2. rank[l[j]] <= rank[l[i]]
    BY <2>1 DEF Sorted
  <2>3. rank[l[j]] \in Int /\ rank[l[i]] \in Int /\ rank[e] \in Int
    BY <1>1, <2>1
  <2>4. QED
    BY <1>2, <2>2, <2>3
<1>4. k \in 1..Len(l)+1 /\ i < k
  <2>1. Cardinality(P) \in 0..Len(l) /\ P = 1..Cardinality(P)
    BY PassedIsPrefix
  <2> HIDE DEF P
  <2>2. QED
    BY <1>1, <1>3, <2>1
<1> HIDE DEF k
<1>5. Spliced(m, l, k, e)
  BY <1>4, InsertAtElements
<1>6. OrderedInsert(l, rank, e) = m
  BY DEF OrderedInsert, k
<1> HIDE DEF m
<1>7. i \in 1..Len(m) /\ k \in 1..Len(m) /\ m[i] = t /\ m[k] = e
  BY <1>1, <1>2, <1>4, <1>5 DEF Spliced
<1>8. QED
  BY <1>4, <1>6, <1>7 DEF Ahead

=============================================================================
