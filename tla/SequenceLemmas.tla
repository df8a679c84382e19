--------------------------- MODULE SequenceLemmas ---------------------------
(***************************************************************************)
(* What InsertAt and RemoveAt return, element by element, and \o, Head and *)
(* Tail.  The lists of the scheduler and the sockets of a node are         *)
(* sequences changed by the first two, a node's segments by the others.    *)
(* And that a set of naturals has a least element: what fails for some     *)
(* length of a list fails for a least one.                                 *)
(***************************************************************************)
EXTENDS Integers, Sequences, SequencesExt, SequenceTheorems, WellFoundedInduction, TLAPS

(* A set of natural numbers has a least element. *)
LEMMA LeastNatural ==
  ASSUME NEW T \in SUBSET Nat, T # {}
  PROVE  \E n \in T : \A m \in T : n <= m
<1> DEFINE R == {ss \in Nat \X Nat : ss[1] < ss[2]}
<1>1. IsWellFoundedOn(R, Nat)
  BY NatLessThanWellFounded, Zenon DEF OpToRel
<1>2. PICK n \in T : \A m \in T : ~(<<m, n>> \in R)
  <2> HIDE DEF R
  <2> QED
    BY <1>1, WFMin
<1>3. ASSUME NEW m \in T PROVE n <= m
  <2>1. <<m, n>> \in Nat \X Nat
    OBVIOUS
  <2>2. ~(<<m, n>>[1] < <<m, n>>[2])
    BY <1>2, <2>1
  <2>3. QED
    BY <2>2
<1>4. QED
  BY <1>3

(* m is l with e at position k, and what was there and after it moved up.  *)
Spliced(m, l, k, e) ==
    /\ Len(m) = Len(l) + 1
    /\ \A i \in 1..Len(l)+1 : m[i] = IF i < k THEN l[i] ELSE IF i = k THEN e ELSE l[i-1]

(* What InsertAt(l, k, e) holds at each position. *)
LEMMA InsertAtElements ==
  ASSUME NEW S, NEW l \in Seq(S), NEW e \in S, NEW k \in 1..Len(l)+1
  PROVE  InsertAt(l, k, e) \in Seq(S) /\ Spliced(InsertAt(l, k, e), l, k, e)
<1> DEFINE a == SubSeq(l, 1, k-1)
           b == SubSeq(l, k, Len(l))
<1>1. /\ Len(l) \in Nat
      /\ \A i \in 1..Len(l) : l[i] \in S
  OBVIOUS
<1>2. /\ a \in Seq(S) /\ Len(a) = k-1
      /\ \A i \in 1..k-1 : a[i] = l[i]
  BY <1>1, SubSeqProperties
<1>3. /\ b \in Seq(S) /\ Len(b) = Len(l)-k+1
      /\ \A i \in 1..Len(l)-k+1 : b[i] = l[i+k-1]
  BY <1>1, SubSeqProperties
<1>4. /\ <<e>> \in Seq(S) /\ Len(<<e>>) = 1 /\ <<e>>[1] = e
  OBVIOUS
<1> DEFINE c == a \o <<e>>
<1> HIDE DEF a, b
<1>5. /\ c \in Seq(S) /\ Len(c) = k
      /\ \A i \in 1..k : c[i] = IF i < k THEN l[i] ELSE e
  BY <1>2, <1>4, ConcatProperties
<1> HIDE DEF c
<1>6. /\ c \o b \in Seq(S) /\ Len(c \o b) = Len(c) + Len(b)
      /\ \A i \in 1..Len(c)+Len(b) :
            (c \o b)[i] = IF i <= Len(c) THEN c[i] ELSE b[i-Len(c)]
  BY <1>3, <1>5, ConcatProperties
<1>7. ASSUME NEW i \in 1..Len(l)+1
      PROVE  (c \o b)[i] = IF i < k THEN l[i] ELSE IF i = k THEN e ELSE l[i-1]
  <2>1. CASE i <= k
    BY <2>1, <1>1, <1>3, <1>5, <1>6
  <2>2. CASE i > k
    <3>1. /\ i-k \in 1..Len(l)-k+1
          /\ (c \o b)[i] = b[i-k]
      BY <2>2, <1>1, <1>3, <1>5, <1>6
    <3>2. b[i-k] = l[(i-k)+k-1]
      BY <3>1, <1>3
    <3>3. QED
      BY <3>1, <3>2, <2>2, <1>1
  <2>3. i <= k \/ i > k
    BY <1>1
  <2>4. QED
    BY <2>1, <2>2, <2>3
<1>8. InsertAt(l, k, e) = c \o b
  BY DEF InsertAt, a, b, c
<1>9. Len(c \o b) = Len(l) + 1 /\ c \o b \in Seq(S)
  BY <1>1, <1>3, <1>5, <1>6
<1>10. QED
  BY <1>7, <1>8, <1>9 DEF Spliced

(* What RemoveAt(l, k) holds at each position. *)
LEMMA RemoveAtElements ==
  ASSUME NEW S, NEW l \in Seq(S), NEW k \in 1..Len(l)
  PROVE  /\ RemoveAt(l, k) \in Seq(S)
         /\ Len(RemoveAt(l, k)) = Len(l) - 1
         /\ \A i \in 1..Len(l)-1 :
              RemoveAt(l, k)[i] = IF i < k THEN l[i] ELSE l[i+1]
<1> DEFINE a == SubSeq(l, 1, k-1)
           b == SubSeq(l, k+1, Len(l))
<1>1. /\ Len(l) \in Nat
      /\ \A i \in 1..Len(l) : l[i] \in S
  OBVIOUS
<1>2. /\ a \in Seq(S) /\ Len(a) = k-1
      /\ \A i \in 1..k-1 : a[i] = l[i]
  BY <1>1, SubSeqProperties
<1>3. /\ b \in Seq(S) /\ Len(b) = Len(l)-k
      /\ \A i \in 1..Len(l)-k : b[i] = l[i+k]
  BY <1>1, SubSeqProperties
<1> HIDE DEF a, b
<1>4. /\ a \o b \in Seq(S) /\ Len(a \o b) = Len(a) + Len(b)
      /\ \A i \in 1..Len(a)+Len(b) :
            (a \o b)[i] = IF i <= Len(a) THEN a[i] ELSE b[i-Len(a)]
  BY <1>2, <1>3, ConcatProperties
<1>5. ASSUME NEW i \in 1..Len(l)-1
      PROVE  (a \o b)[i] = IF i < k THEN l[i] ELSE l[i+1]
  <2>1. CASE i < k
    BY <2>1, <1>1, <1>2, <1>3, <1>4
  <2>2. CASE i >= k
    <3>1. /\ i-(k-1) \in 1..Len(l)-k
          /\ (a \o b)[i] = b[i-(k-1)]
      BY <2>2, <1>1, <1>2, <1>3, <1>4
    <3>2. b[i-(k-1)] = l[(i-(k-1))+k]
      BY <3>1, <1>3
    <3>3. QED
      BY <3>1, <3>2, <2>2, <1>1
  <2>3. i < k \/ i >= k
    BY <1>1
  <2>4. QED
    BY <2>1, <2>2, <2>3
<1>6. RemoveAt(l, k) = a \o b
  BY DEF RemoveAt, a, b
<1>7. QED
  BY <1>1, <1>2, <1>3, <1>4, <1>5, <1>6

(* The first n members of a sequence. *)
LEMMA FirstOf ==
  ASSUME NEW S, NEW l \in Seq(S), NEW n \in 0..Len(l)
  PROVE  /\ SubSeq(l, 1, n) \in Seq(S)
         /\ Len(SubSeq(l, 1, n)) = n
         /\ \A i \in 1..n : SubSeq(l, 1, n)[i] = l[i]
<1>1. Len(l) \in Nat /\ \A i \in 1..Len(l) : l[i] \in S
  OBVIOUS
<1>2. QED
  BY <1>1, SubSeqProperties

(* What joins q and r holds nothing but what one of them does, ... *)
LEMMA ArrivesFrom ==
  ASSUME NEW S, NEW q \in Seq(S), NEW T, NEW r \in Seq(T)
  PROVE  ToSet(q \o r) \subseteq ToSet(q) \cup ToSet(r)
<1>1. /\ Len(q) \in Nat /\ Len(r) \in Nat /\ Len(q \o r) = Len(q) + Len(r)
      /\ DOMAIN (q \o r) = 1..Len(q) + Len(r) /\ DOMAIN q = 1..Len(q) /\ DOMAIN r = 1..Len(r)
  <2>1. q \in Seq(S \cup T) /\ r \in Seq(S \cup T)
    BY SeqMonotonic
  <2>2. QED
    BY <2>1, ConcatProperties
<1>2. \A i \in 1..Len(q) + Len(r) : (q \o r)[i] = IF i <= Len(q) THEN q[i] ELSE r[i - Len(q)]
  <2>1. q \in Seq(S \cup T) /\ r \in Seq(S \cup T)
    BY SeqMonotonic
  <2>2. QED
    BY <2>1, ConcatProperties
<1> DEFINE w == q \o r
<1> HIDE DEF w
<1>3. ASSUME NEW i \in DOMAIN w
      PROVE  w[i] \in ToSet(q) \cup ToSet(r)
  <2>1. i \in 1..Len(q) + Len(r)
    BY <1>1 DEF w
  <2>2. CASE i <= Len(q)
    <3>1. i \in DOMAIN q /\ w[i] = q[i]
      BY <1>1, <1>2, <2>1, <2>2 DEF w
    <3>2. QED
      BY <3>1 DEF ToSet
  <2>3. CASE ~(i <= Len(q))
    <3>1. i - Len(q) \in DOMAIN r /\ w[i] = r[i - Len(q)]
      BY <1>1, <1>2, <2>1, <2>3 DEF w
    <3>2. QED
      BY <3>1 DEF ToSet
  <2>4. QED
    BY <2>2, <2>3
<1>4. QED
  BY <1>3 DEF w, ToSet

(* ... and all of it. *)
LEMMA SentIsUnderWay ==
  ASSUME NEW U, NEW q \in Seq(U), NEW V, NEW r \in Seq(V)
  PROVE  ToSet(q \o r) = ToSet(q) \cup ToSet(r)
<1> DEFINE w == q \o r
<1>1. q \in Seq(U \cup V) /\ r \in Seq(U \cup V)
  BY SeqMonotonic
<1>2. /\ w \in Seq(U \cup V) /\ Len(w) = Len(q) + Len(r) /\ Len(q) \in Nat /\ Len(r) \in Nat
      /\ \A i \in 1..Len(q) + Len(r) : w[i] = IF i <= Len(q) THEN q[i] ELSE r[i - Len(q)]
  BY <1>1, ConcatProperties, LenProperties
<1> HIDE DEF w
<1>3. DOMAIN w = 1..Len(q) + Len(r) /\ DOMAIN q = 1..Len(q) /\ DOMAIN r = 1..Len(r)
  BY <1>1, <1>2
<1>4. \A i \in DOMAIN q : i \in DOMAIN w /\ w[i] = q[i]
  BY <1>2, <1>3
<1>5. \A i \in DOMAIN r : i + Len(q) \in DOMAIN w /\ w[i + Len(q)] = r[i]
  <2>1. SUFFICES ASSUME NEW i \in DOMAIN r
                 PROVE  i + Len(q) \in DOMAIN w /\ w[i + Len(q)] = r[i]
    OBVIOUS
  <2>2. i \in Nat /\ 1 <= i /\ i <= Len(r)
    BY <1>3, <1>2
  <2>3. i + Len(q) \in DOMAIN w /\ ~(i + Len(q) <= Len(q)) /\ (i + Len(q)) - Len(q) = i
    BY <1>2, <1>3, <2>2
  <2>4. QED
    BY <1>2, <1>3, <2>3
<1>6. ToSet(q) \cup ToSet(r) \subseteq ToSet(w)
  BY <1>4, <1>5 DEF ToSet
<1>7. ToSet(w) \subseteq ToSet(q) \cup ToSet(r)
  BY ArrivesFrom DEF w
<1>8. QED
  BY <1>6, <1>7 DEF w

(* What is left when the first member is taken was there before, ... *)
LEMMA FirstTaken ==
  ASSUME NEW U, NEW p \in Seq(U), p # << >>
  PROVE  ToSet(Tail(p)) \subseteq ToSet(p) /\ Head(p) \in ToSet(p) \cap U
<1>1. /\ Len(p) \in Nat \ {0} /\ DOMAIN p = 1..Len(p) /\ Head(p) = p[1] /\ p[1] \in U
      /\ Tail(p) \in Seq(U) /\ Len(Tail(p)) = Len(p) - 1
      /\ \A i \in 1..Len(Tail(p)) : Tail(p)[i] = p[i + 1]
  BY HeadTailProperties
<1>2. DOMAIN Tail(p) = 1..Len(p) - 1
  BY <1>1
<1>3. \A i \in DOMAIN Tail(p) : i + 1 \in DOMAIN p /\ Tail(p)[i] = p[i + 1]
  BY <1>1, <1>2
<1>4. ToSet(Tail(p)) \subseteq ToSet(p)
  BY <1>3 DEF ToSet
<1>5. 1 \in DOMAIN p
  BY <1>1
<1>6. QED
  BY <1>1, <1>4, <1>5 DEF ToSet

(* ... one place further. *)
LEMMA TailAt ==
  ASSUME NEW U, NEW q \in Seq(U), q # << >>
  PROVE  LET r == Tail(q)
         IN /\ r \in Seq(U) /\ DOMAIN r \subseteq Nat /\ DOMAIN q \subseteq Nat
            /\ 1 \in DOMAIN q /\ q[1] = Head(q) /\ \A k \in DOMAIN q : k >= 1
            /\ \A k \in DOMAIN r : k + 1 \in DOMAIN q /\ r[k] = q[k + 1]
            /\ \A k \in DOMAIN q : k # 1 => k - 1 \in DOMAIN r /\ r[k - 1] = q[k]
<1> DEFINE r == Tail(q)
<1>1. /\ r \in Seq(U) /\ Len(r) = Len(q) - 1 /\ Len(q) \in Nat /\ Len(q) >= 1
      /\ \A i \in 1..Len(r) : r[i] = q[i + 1]
      /\ Head(q) = q[1]
  BY HeadTailProperties, LenProperties, EmptySeq
<1> HIDE DEF r
<1>2. DOMAIN r = 1..Len(q) - 1 /\ DOMAIN q = 1..Len(q)
  BY <1>1
<1>3. DOMAIN r \subseteq Nat /\ DOMAIN q \subseteq Nat /\ 1 \in DOMAIN q /\ \A k \in DOMAIN q : k >= 1
  BY <1>1, <1>2
<1>4. \A k \in DOMAIN r : k + 1 \in DOMAIN q /\ r[k] = q[k + 1]
  BY <1>1, <1>2
<1>5. \A k \in DOMAIN q : k # 1 => k - 1 \in DOMAIN r /\ r[k - 1] = q[k]
  BY <1>1, <1>2
<1>6. QED
  BY <1>1, <1>3, <1>4, <1>5 DEF r

(* What joins q and r holds q first and r after it. *)
LEMMA JoinAt ==
  ASSUME NEW U, NEW q \in Seq(U), NEW V, NEW r \in Seq(V)
  PROVE  LET w == q \o r
         IN /\ w \in Seq(U \cup V) /\ Len(q) \in Nat
            /\ DOMAIN q \subseteq Nat /\ DOMAIN r \subseteq Nat /\ DOMAIN w \subseteq Nat
            /\ \A k \in DOMAIN q : k <= Len(q) /\ k \in DOMAIN w /\ w[k] = q[k]
            /\ \A k \in DOMAIN r : k >= 1 /\ k + Len(q) \in DOMAIN w /\ w[k + Len(q)] = r[k]
            /\ \A k \in DOMAIN w : k \notin DOMAIN q =>
                 k > Len(q) /\ k - Len(q) \in DOMAIN r /\ w[k] = r[k - Len(q)]
<1> DEFINE w == q \o r
<1>1. q \in Seq(U \cup V) /\ r \in Seq(U \cup V)
  BY SeqMonotonic
<1>2. /\ w \in Seq(U \cup V) /\ Len(w) = Len(q) + Len(r) /\ Len(q) \in Nat /\ Len(r) \in Nat
      /\ \A i \in 1..Len(q) + Len(r) : w[i] = IF i <= Len(q) THEN q[i] ELSE r[i - Len(q)]
  BY <1>1, ConcatProperties, LenProperties
<1> HIDE DEF w
<1>3. DOMAIN w = 1..Len(q) + Len(r) /\ DOMAIN q = 1..Len(q) /\ DOMAIN r = 1..Len(r)
  BY <1>1, <1>2
<1>4. DOMAIN q \subseteq Nat /\ DOMAIN r \subseteq Nat /\ DOMAIN w \subseteq Nat
  BY <1>2, <1>3
<1>5. \A k \in DOMAIN q : k <= Len(q) /\ k \in DOMAIN w /\ w[k] = q[k]
  BY <1>2, <1>3
<1>6. ASSUME NEW k \in DOMAIN r
      PROVE  k >= 1 /\ k + Len(q) \in DOMAIN w /\ w[k + Len(q)] = r[k]
  <2>1. k \in Nat /\ 1 <= k /\ k <= Len(r)
    BY <1>2, <1>3
  <2>2. k + Len(q) \in DOMAIN w /\ ~(k + Len(q) <= Len(q)) /\ (k + Len(q)) - Len(q) = k
    BY <1>2, <1>3, <2>1
  <2>3. QED
    BY <1>2, <1>3, <2>1, <2>2
<1>7. \A k \in DOMAIN w : k \notin DOMAIN q =>
        k > Len(q) /\ k - Len(q) \in DOMAIN r /\ w[k] = r[k - Len(q)]
  BY <1>2, <1>3
<1>8. QED
  BY <1>2, <1>4, <1>5, <1>6, <1>7 DEF w

(* A member put before a sequence is its head. *)
LEMMA HandledFirst ==
  ASSUME NEW U, NEW q \in Seq(U), NEW m \in U
  PROVE  LET w == <<m>> \o q
         IN w \in Seq(U) /\ w # << >> /\ Head(w) = m /\ Tail(w) = q /\ ToSet(w) = ToSet(q) \cup {m}
<1> DEFINE p == <<m>>
           w == p \o q
<1>1. p \in Seq(U) /\ Len(p) = 1 /\ p[1] = m /\ ToSet(p) = {m}
  BY DEF ToSet
<1> HIDE DEF p
<1>2. w \in Seq(U) /\ w # << >> /\ Head(w) = m /\ Tail(w) = q
  <2>1. /\ w \in Seq(U) /\ Len(w) = 1 + Len(q) /\ Len(q) \in Nat
        /\ \A i \in 1..1 + Len(q) : w[i] = IF i <= 1 THEN p[i] ELSE q[i - 1]
    <3>1. /\ w \in Seq(U) /\ Len(w) = Len(p) + Len(q) /\ Len(q) \in Nat
          /\ \A i \in 1..Len(p) + Len(q) : w[i] = IF i <= Len(p) THEN p[i] ELSE q[i - Len(p)]
      BY <1>1, ConcatProperties, LenProperties
    <3>2. QED
      BY <1>1, <3>1
  <2> HIDE DEF w
  <2>2. w # << >>
    BY <2>1, EmptySeq
  <2> DEFINE r == Tail(w)
  <2>3. /\ r \in Seq(U) /\ Len(r) = Len(q) /\ Head(w) = w[1]
        /\ \A i \in 1..Len(r) : r[i] = w[i + 1]
    BY <2>1, <2>2, HeadTailProperties
  <2> HIDE DEF r
  <2>4. w[1] = m
    BY <1>1, <2>1
  <2>5. \A i \in 1..Len(q) : r[i] = q[i]
    <3>1. SUFFICES ASSUME NEW i \in 1..Len(q) PROVE r[i] = q[i]
      OBVIOUS
    <3>2. i + 1 \in 1..1 + Len(q) /\ ~(i + 1 <= 1) /\ (i + 1) - 1 = i
      BY <2>1
    <3>3. w[i + 1] = q[i]
      BY <2>1, <3>2
    <3>4. QED
      BY <2>3, <3>3
  <2>6. r = q
    BY <2>3, <2>5, SeqEqual
  <2>7. QED
    BY <2>1, <2>2, <2>3, <2>4, <2>6 DEF r
<1>3. ToSet(w) = ToSet(q) \cup {m}
  <2>1. ToSet(p \o q) = ToSet(p) \cup ToSet(q)
    BY <1>1, SentIsUnderWay
  <2>2. QED
    BY <1>1, <2>1
<1>4. QED
  BY <1>2, <1>3 DEF p

(* A sequence is its head and its tail. *)
LEMMA HeadBack ==
  ASSUME NEW U, NEW q \in Seq(U), q # << >>
  PROVE  <<Head(q)>> \o Tail(q) = q
<1> DEFINE m == Head(q)
           r == Tail(q)
           p == <<m>>
           w == p \o r
<1>1. /\ m \in U /\ r \in Seq(U) /\ DOMAIN r \subseteq Nat /\ DOMAIN q \subseteq Nat
      /\ 1 \in DOMAIN q /\ q[1] = m /\ \A k \in DOMAIN q : k >= 1
      /\ \A k \in DOMAIN q : k # 1 => k - 1 \in DOMAIN r /\ r[k - 1] = q[k]
      /\ Len(q) \in Nat /\ DOMAIN q = 1..Len(q) /\ Len(r) = Len(q) - 1
  BY TailAt, HeadTailProperties, LenProperties
<1> HIDE DEF m, r
<1>2. p \in Seq(U) /\ Len(p) = 1 /\ p[1] = m
  BY <1>1
<1> HIDE DEF p
<1>3. /\ w \in Seq(U) /\ Len(w) = Len(p) + Len(r)
      /\ \A i \in 1..Len(p) + Len(r) : w[i] = IF i <= Len(p) THEN p[i] ELSE r[i - Len(p)]
  <2>1. r \in Seq(U)
    BY <1>1
  <2>2. p \in Seq(U)
    BY <1>2
  <2>3. QED
    BY <2>1, <2>2, ConcatProperties
<1> HIDE DEF w
<1>4. Len(w) = Len(q)
  BY <1>1, <1>2, <1>3
<1>5. ASSUME NEW i \in 1..Len(q)
      PROVE  w[i] = q[i]
  <2>1. w[i] = IF i <= 1 THEN p[i] ELSE r[i - 1]
    BY <1>1, <1>2, <1>3
  <2>2. CASE i = 1
    BY <1>1, <1>2, <2>1, <2>2
  <2>3. CASE i # 1
    <3>1. i \in DOMAIN q /\ ~(i <= 1)
      BY <1>1, <2>3
    <3>2. QED
      BY <1>1, <2>1, <2>3, <3>1
  <2>4. QED
    BY <2>2, <2>3
<1>6. w = q
  BY <1>3, <1>4, <1>5, SeqEqual
<1>7. QED
  BY <1>6 DEF w, p, m, r

=============================================================================
