----------------------------- MODULE HeapProofs -----------------------------
(***************************************************************************)
(* What holds of the heap for any regions, any requests and any sizes of   *)
(* the size word and the list node: no byte is in two pieces and none is   *)
(* lost, and no two free elements lie side by side.                        *)
(*                                                                         *)
(* The order of the free list matters to what alloc() chooses, not to what *)
(* it keeps: the proofs see the list as the set of its elements, without   *)
(* repetitions.                                                            *)
(***************************************************************************)
EXTENDS Heap, SequenceLemmas, FiniteSetTheorems

(* A list of elements without repetitions whose elements are those of S.   *)
Lists(l, S) == l \in Seq(Pieces) /\ IsInjective(l) /\ ToSet(l) = S

(* remove(e) takes one element out.                                        *)
LEMMA RemoveLists ==
  ASSUME NEW l, NEW S, Lists(l, S), NEW i \in DOMAIN l
  PROVE  Lists(RemoveAt(l, i), S \ {l[i]})
<1>1. /\ l \in Seq(Pieces) /\ Len(l) \in Nat /\ DOMAIN l = 1..Len(l)
      /\ S = {l[j] : j \in 1..Len(l)}
      /\ \A a, b \in 1..Len(l) : l[a] = l[b] => a = b
  BY DEF Lists, IsInjective, ToSet
<1> DEFINE m == RemoveAt(l, i)
<1>2. /\ m \in Seq(Pieces) /\ Len(m) = Len(l) - 1
      /\ \A k \in 1..Len(l)-1 : m[k] = IF k < i THEN l[k] ELSE l[k+1]
  <2>1. l \in Seq(Pieces) /\ i \in 1..Len(l)
    BY <1>1
  <2> HIDE DEF m
  <2>2. QED
    BY <2>1, RemoveAtElements DEF m
<1> HIDE DEF m
<1>3. DOMAIN m = 1..Len(l)-1
  BY <1>2
<1>4. IsInjective(m)
  BY <1>1, <1>2, <1>3 DEF IsInjective
<1>5. ASSUME NEW k \in 1..Len(l)-1 PROVE m[k] \in S \ {l[i]}
  BY <1>1, <1>2
<1>6. ASSUME NEW e \in S \ {l[i]} PROVE e \in ToSet(m)
  <2>1. PICK j \in 1..Len(l) : e = l[j]
    BY <1>1
  <2>2. CASE j < i
    <3>1. j \in 1..Len(l)-1 /\ m[j] = e
      BY <2>1, <2>2, <1>1, <1>2
    <3>2. QED
      BY <3>1, <1>3 DEF ToSet
  <2>3. CASE j > i
    <3>1. j-1 \in 1..Len(l)-1 /\ m[j-1] = e
      BY <2>1, <2>3, <1>1, <1>2
    <3>2. QED
      BY <3>1, <1>3 DEF ToSet
  <2>4. j # i
    BY <2>1
  <2>5. QED
    BY <2>2, <2>3, <2>4, <1>1
<1>7. ToSet(m) = S \ {l[i]}
  BY <1>3, <1>5, <1>6 DEF ToSet
<1>8. QED
  BY <1>2, <1>4, <1>7 DEF Lists, m

(* An element that is resized in place is another element.                 *)
LEMMA ReplaceLists ==
  ASSUME NEW l, NEW S, Lists(l, S), NEW i \in DOMAIN l, NEW e \in Pieces, e \notin S
  PROVE  Lists([l EXCEPT ![i] = e], (S \ {l[i]}) \cup {e})
<1>1. /\ l \in Seq(Pieces) /\ Len(l) \in Nat /\ DOMAIN l = 1..Len(l)
      /\ S = {l[j] : j \in 1..Len(l)}
      /\ \A a, b \in 1..Len(l) : l[a] = l[b] => a = b
  BY DEF Lists, IsInjective, ToSet
<1> DEFINE m == [l EXCEPT ![i] = e]
<1>2. /\ m \in Seq(Pieces) /\ DOMAIN m = 1..Len(l)
      /\ \A k \in 1..Len(l) : m[k] = IF k = i THEN e ELSE l[k]
  BY <1>1
<1> HIDE DEF m
<1>3. IsInjective(m)
  BY <1>1, <1>2 DEF IsInjective
<1>4. ASSUME NEW k \in 1..Len(l) PROVE m[k] \in (S \ {l[i]}) \cup {e}
  BY <1>1, <1>2
<1>5. ASSUME NEW d \in (S \ {l[i]}) \cup {e} PROVE \E k \in 1..Len(l) : m[k] = d
  <2>1. CASE d = e
    BY <2>1, <1>1, <1>2
  <2>2. CASE d # e
    <3>1. PICK j \in 1..Len(l) : d = l[j]
      BY <2>2, <1>1
    <3>2. QED
      BY <2>2, <3>1, <1>2
  <2>3. QED
    BY <2>1, <2>2
<1>6. ToSet(m) = (S \ {l[i]}) \cup {e}
  BY <1>2, <1>4, <1>5 DEF ToSet
<1>7. QED
  BY <1>2, <1>3, <1>6 DEF Lists, m

(* insert_tail() puts one element in.                                      *)
LEMMA AppendLists ==
  ASSUME NEW l, NEW S, Lists(l, S), NEW e \in Pieces, e \notin S
  PROVE  Lists(Append(l, e), S \cup {e})
<1>1. /\ l \in Seq(Pieces) /\ Len(l) \in Nat /\ DOMAIN l = 1..Len(l)
      /\ S = {l[j] : j \in 1..Len(l)}
      /\ \A a, b \in 1..Len(l) : l[a] = l[b] => a = b
  BY DEF Lists, IsInjective, ToSet
<1> DEFINE m == Append(l, e)
<1>2. /\ m \in Seq(Pieces) /\ DOMAIN m = 1..Len(l)+1
      /\ \A k \in 1..Len(l)+1 : m[k] = IF k = Len(l)+1 THEN e ELSE l[k]
  BY <1>1
<1> HIDE DEF m
<1>3. IsInjective(m)
  BY <1>1, <1>2 DEF IsInjective
<1>4. ASSUME NEW k \in 1..Len(l)+1 PROVE m[k] \in S \cup {e}
  BY <1>1, <1>2
<1>5. ASSUME NEW d \in S \cup {e} PROVE \E k \in 1..Len(l)+1 : m[k] = d
  <2>1. CASE d = e
    BY <2>1, <1>1, <1>2
  <2>2. CASE d # e
    <3>1. PICK j \in 1..Len(l) : d = l[j]
      BY <2>2, <1>1
    <3>2. j \in 1..Len(l)+1 /\ m[j] = d
      BY <3>1, <1>1, <1>2
    <3>3. QED
      BY <3>2
  <2>3. QED
    BY <2>1, <2>2
<1>6. ToSet(m) = S \cup {e}
  BY <1>2, <1>4, <1>5 DEF ToSet
<1>7. QED
  BY <1>2, <1>3, <1>6 DEF Lists, m

-----------------------------------------------------------------------------
(* Pieces and their bytes                                                  *)

(* Two pieces of which one starts where the other ends.                    *)
LEMMA JoinedBytes ==
  ASSUME NEW a \in Pieces, NEW b \in Pieces, NEW w \in Pieces, NEW n,
         a.object + a.size = b.object, w.object = a.object, w.size = a.size + b.size
  PROVE  n \in Bytes(w) <=> n \in Bytes(a) \/ n \in Bytes(b)
<1>1. /\ a.object \in Nat /\ a.size \in Nat
      /\ b.object \in Nat /\ b.size \in Nat
  BY DEF Pieces
<1>2. w.object + w.size = b.object + b.size
  BY <1>1
<1>3. /\ n \in Bytes(a) <=> n \in Int /\ a.object <= n /\ n < b.object
      /\ n \in Bytes(b) <=> n \in Int /\ b.object <= n /\ n < b.object + b.size
      /\ n \in Bytes(w) <=> n \in Int /\ a.object <= n /\ n < b.object + b.size
  BY <1>1, <1>2 DEF Bytes
<1>4. a.object <= b.object /\ b.object <= b.object + b.size
  BY <1>1
<1>5. CASE n \in Int
  BY <1>1, <1>3, <1>4, <1>5
<1>6. CASE n \notin Int
  BY <1>3, <1>6
<1>7. QED
  BY <1>5, <1>6

(* Pieces that are not empty are apart when they share no byte.            *)
LEMMA ApartBytes ==
  ASSUME NEW a \in Pieces, NEW b \in Pieces, a.size > 0, b.size > 0
  PROVE  Apart(a, b) <=> \A x \in Bytes(a) : x \notin Bytes(b)
<1>1. /\ a.object \in Nat /\ a.size \in Nat
      /\ b.object \in Nat /\ b.size \in Nat
  BY DEF Pieces
<1>2. ASSUME Apart(a, b), NEW x \in Bytes(a) PROVE x \notin Bytes(b)
  BY <1>1, <1>2 DEF Apart, Bytes
<1>3. ASSUME ~Apart(a, b) PROVE \E x \in Bytes(a) : x \in Bytes(b)
  <2>1. CASE a.object <= b.object
    BY <2>1, <1>1, <1>3 DEF Apart, Bytes
  <2>2. CASE b.object <= a.object
    BY <2>2, <1>1, <1>3 DEF Apart, Bytes
  <2>3. QED
    BY <2>1, <2>2, <1>1
<1>4. QED
  BY <1>2, <1>3

BytesOf(S) == UNION {Bytes(e) : e \in S}

LEMMA BytesOfIn ==
  ASSUME NEW S, NEW x
  PROVE  x \in BytesOf(S) <=> \E e \in S : x \in Bytes(e)
  BY DEF BytesOf

(* What is kept of the free elements F and the blocks U.                   *)
Disjoint(F, U) ==
    /\ F \subseteq Pieces /\ U \subseteq Pieces
    /\ \A e \in F \cup U : Kept(e)
    /\ \A e \in F : e \notin U
    /\ \A a, b \in F \cup U : a # b => Apart(a, b)

NoneTouch(F) == \A a, b \in F : a.object + a.size # b.object

(* alloc() splits the element x of F in a rest, when there is one, and the *)
(* block b.                                                                *)
Splits(x, rest, b) ==
    /\ b \in Pieces /\ Kept(b)
    /\ b.object + b.size = x.object + x.size
    /\ \/ rest = {} /\ b.object = x.object
       \/ \E y \in Pieces : /\ rest = {y} /\ Kept(y) /\ y.object = x.object
                            /\ y.object + y.size = b.object

LEMMA SplitBytes ==
  ASSUME NEW x \in Pieces, NEW rest, NEW b, Splits(x, rest, b), NEW n
  PROVE  /\ n \in Bytes(x) <=> n \in Bytes(b) \/ \E y \in rest : n \in Bytes(y)
         /\ \A y \in rest : ~(n \in Bytes(y) /\ n \in Bytes(b))
<1>1. /\ x.object \in Nat /\ x.size \in Nat
      /\ b.object \in Nat /\ b.size \in Nat
  BY DEF Pieces, Splits
<1>2. CASE rest = {} /\ b.object = x.object
  BY <1>1, <1>2 DEF Splits, Bytes
<1>3. ASSUME NEW y \in Pieces, rest = {y}, Kept(y), y.object = x.object,
             y.object + y.size = b.object
      PROVE  /\ n \in Bytes(x) <=> n \in Bytes(b) \/ n \in Bytes(y)
             /\ ~(n \in Bytes(y) /\ n \in Bytes(b))
  <2>1. y.object \in Nat /\ y.size \in Nat
    BY DEF Pieces
  <2>2. QED
    BY <1>1, <1>3, <2>1 DEF Splits, Bytes
<1>4. QED
  BY <1>2, <1>3 DEF Splits

LEMMA SplitDisjoint ==
  ASSUME HeapAssumption, NEW F, NEW U, Disjoint(F, U), NoneTouch(F),
         NEW x \in F, NEW rest, NEW b, Splits(x, rest, b)
  PROVE  /\ Disjoint((F \ {x}) \cup rest, U \cup {b})
         /\ NoneTouch((F \ {x}) \cup rest)
         /\ \A y \in rest : y \notin F \ {x}
<1> DEFINE G == (F \ {x}) \cup rest
           V == U \cup {b}
<1>0. Node \in Nat /\ Node > 0
  BY HeapAssumption DEF HeapAssumption
<1>1. /\ x \in Pieces /\ Kept(x) /\ b \in Pieces /\ Kept(b)
      /\ rest \subseteq Pieces /\ \A y \in rest : Kept(y)
      /\ \A y, z \in rest : y = z
  BY DEF Splits, Disjoint
<1>2. /\ G \subseteq Pieces /\ V \subseteq Pieces
      /\ \A e \in G \cup V : Kept(e)
  BY <1>1 DEF Disjoint
<1>3. \A e \in Pieces : Kept(e) => e.size > 0 /\ e.size \in Nat /\ e.object \in Nat
  BY <1>0 DEF Kept, Pieces
(* What was apart from x is apart from its parts. *)
<1>4. ASSUME NEW c \in (F \ {x}) \cup U, NEW y \in rest \cup {b} PROVE Apart(c, y) /\ Apart(y, c)
  <2>1. c \in Pieces /\ Kept(c) /\ c # x /\ Apart(c, x)
    BY DEF Disjoint
  <2>2. y \in Pieces /\ Kept(y)
    BY <1>1
  <2>3. ASSUME NEW n \in Bytes(y) PROVE n \in Bytes(x)
    BY <1>1, SplitBytes
  <2>4. \A n \in Bytes(c) : n \notin Bytes(y)
    <3>1. \A n \in Bytes(c) : n \notin Bytes(x)
      BY <2>1, <1>1, <1>3, ApartBytes
    <3>2. QED
      BY <2>3, <3>1
  <2>5. Apart(c, y)
    BY <2>1, <2>2, <2>4, <1>3, ApartBytes
  <2>6. QED
    BY <2>5, <2>1, <2>2, <1>3 DEF Apart
<1>5. ASSUME NEW y \in rest PROVE Apart(y, b) /\ Apart(b, y) /\ y # b
  <2>1. y.object + y.size = b.object
    BY DEF Splits
  <2>2. QED
    BY <2>1, <1>1, <1>3 DEF Apart
<1>6. \A c \in Pieces : Kept(c) => ~Apart(c, c)
  BY <1>3 DEF Apart
<1>7. ASSUME NEW e \in G PROVE e \notin V
  <2>1. CASE e \in F \ {x}
    BY <2>1, <1>1, <1>4, <1>6 DEF Disjoint
  <2>2. CASE e \in rest
    BY <2>2, <1>1, <1>4, <1>5, <1>6
  <2>3. QED
    BY <2>1, <2>2
<1>8. ASSUME NEW c \in G \cup V, NEW d \in G \cup V, c # d PROVE Apart(c, d)
  <2>1. CASE c \in (F \ {x}) \cup U /\ d \in (F \ {x}) \cup U
    BY <2>1, <1>8 DEF Disjoint
  <2>2. CASE c \in (F \ {x}) \cup U /\ d \in rest \cup {b}
    BY <2>2, <1>4
  <2>3. CASE c \in rest \cup {b} /\ d \in (F \ {x}) \cup U
    BY <2>3, <1>4
  <2>4. CASE c \in rest \cup {b} /\ d \in rest \cup {b}
    BY <2>4, <1>1, <1>5, <1>8
  <2>5. QED
    BY <2>1, <2>2, <2>3, <2>4
<1>9. NoneTouch(G)
  <2>1. SUFFICES ASSUME NEW c \in G, NEW d \in G PROVE c.object + c.size # d.object
    BY DEF NoneTouch
  <2>2. CASE c \in F \ {x} /\ d \in F \ {x}
    BY <2>2 DEF NoneTouch
  <2>3. CASE c \in F \ {x} /\ d \in rest
    <3>1. d.object = x.object
      BY <2>3 DEF Splits
    <3>2. QED
      BY <3>1, <2>3 DEF NoneTouch
  <2>4. CASE c \in rest
    <3>1. c.object + c.size = b.object
      BY <2>4 DEF Splits
    <3>2. CASE d \in F \ {x}
      <4>1. Apart(d, b)
        BY <3>2, <1>4
      <4>2. d \in Pieces /\ Kept(d)
        BY <3>2 DEF Disjoint
      <4>3. QED
        BY <3>1, <4>1, <4>2, <1>1, <1>3 DEF Apart
    <3>3. CASE d \in rest
      BY <2>4, <3>3, <1>1, <1>3
    <3>4. QED
      BY <3>2, <3>3
  <2>5. QED
    BY <2>2, <2>3, <2>4
<1>10. ASSUME NEW y \in rest PROVE y \notin F \ {x}
  BY <1>1, <1>4, <1>6
<1>11. QED
  BY <1>2, <1>7, <1>8, <1>9, <1>10 DEF Disjoint

(* insert_merging() makes one element w of e and the elements G of F that  *)
(* touch it.                                                               *)
Joins(F, e, G, w) ==
    /\ w \in Pieces /\ Kept(w)
    /\ G \subseteq F
    /\ \A a \in F : a.object + a.size = e.object \/ a.object = e.object + e.size => a \in G
    /\ \A n \in Int : n \in Bytes(w) <=> n \in Bytes(e) \/ \E a \in G : n \in Bytes(a)
    /\ \/ w.object = e.object /\ \A a \in F : a.object + a.size # e.object
       \/ \E a \in G : w.object = a.object
    /\ \/ w.object + w.size = e.object + e.size /\ \A a \in F : a.object # e.object + e.size
       \/ \E a \in G : w.object + w.size = a.object + a.size

LEMMA JoinDisjoint ==
  ASSUME HeapAssumption, NEW F, NEW U, Disjoint(F, U), NoneTouch(F),
         NEW e \in Pieces, Kept(e), \A a \in F \cup U : Apart(a, e),
         NEW G, NEW w, Joins(F, e, G, w), NEW H, H = (F \ G) \cup {w}
  PROVE  Disjoint(H, U) /\ NoneTouch(H)
<1>0. Node \in Nat /\ Node > 0
  BY HeapAssumption DEF HeapAssumption
<1>1. \A a \in Pieces : Kept(a) => a.size > 0 /\ a.size \in Nat /\ a.object \in Nat
  BY <1>0 DEF Kept, Pieces
<1>2. w \in Pieces /\ Kept(w) /\ G \subseteq F
  BY DEF Joins
<1>3. ASSUME NEW c \in (F \ G) \cup U PROVE Apart(c, w) /\ Apart(w, c) /\ c # w
  <2>1. c \in Pieces /\ Kept(c) /\ Apart(c, e) /\ \A a \in G : Apart(c, a)
    BY <1>2 DEF Disjoint
  <2>2. \A a \in G : a \in Pieces /\ Kept(a)
    BY <1>2 DEF Disjoint
  <2>3. ASSUME NEW n \in Bytes(c) PROVE n \notin Bytes(w)
    <3>1. n \in Int
      BY <2>1, <1>1 DEF Bytes
    <3>2. n \notin Bytes(e)
      BY <2>1, <1>1, ApartBytes
    <3>3. \A a \in G : n \notin Bytes(a)
      BY <2>1, <2>2, <1>1, ApartBytes
    <3>4. QED
      BY <3>1, <3>2, <3>3 DEF Joins
  <2>4. Apart(c, w)
    BY <2>1, <2>3, <1>1, <1>2, ApartBytes
  <2>5. QED
    BY <2>1, <2>4, <1>1, <1>2 DEF Apart
<1>4. Disjoint((F \ G) \cup {w}, U)
  <2>1. /\ (F \ G) \cup {w} \subseteq Pieces /\ U \subseteq Pieces
        /\ \A c \in ((F \ G) \cup {w}) \cup U : Kept(c)
    BY <1>2 DEF Disjoint
  <2>2. \A c \in (F \ G) \cup {w} : c \notin U
    BY <1>3 DEF Disjoint
  <2>3. ASSUME NEW c \in ((F \ G) \cup {w}) \cup U, NEW d \in ((F \ G) \cup {w}) \cup U, c # d
        PROVE  Apart(c, d)
    BY <2>3, <1>3 DEF Disjoint
  <2>4. QED
    BY <2>1, <2>2, <2>3 DEF Disjoint
<1>5. ASSUME NEW c \in F \ G PROVE c.object + c.size # w.object
  BY <1>2 DEF Joins, NoneTouch
<1>6. ASSUME NEW c \in F \ G PROVE w.object + w.size # c.object
  BY <1>2 DEF Joins, NoneTouch
<1>7. w.object + w.size # w.object
  BY <1>1, <1>2
<1>8. NoneTouch((F \ G) \cup {w})
  BY <1>5, <1>6, <1>7 DEF NoneTouch
<1>9. QED
  BY <1>3, <1>4, <1>8

-----------------------------------------------------------------------------
(* The operations on the list, as operations on its set of elements        *)

LEMMA CutSplits ==
  ASSUME HeapAssumption, NEW F, NEW U, Disjoint(F, U), Lists(list, F),
         NEW i \in DOMAIN list, NEW s \in Nat, s >= Node, Fits(list[i], s)
  PROVE  \E rest : /\ Splits(list[i], rest, BlockAtEnd(i, s))
                   /\ (\A y \in rest : y \notin F) => Lists(Cut(i, s), (F \ {list[i]}) \cup rest)
<1> DEFINE x == list[i]
           b == BlockAtEnd(i, s)
           y == [object |-> x.object, size |-> x.size - s]
<1>0. Node \in Nat /\ Node > 0
  BY HeapAssumption DEF HeapAssumption
<1>1. /\ list \in Seq(Pieces) /\ DOMAIN list = 1..Len(list)
      /\ x \in F /\ x \in Pieces /\ Kept(x)
  BY DEF Lists, Disjoint, ToSet
<1>2. x.object \in Nat /\ x.size \in Nat /\ x.object # 0
  BY <1>1 DEF Pieces, Kept
<1>3. x.size >= s /\ x.size - s \in Nat
  BY <1>0, <1>2 DEF Fits
<1>4. /\ b \in Pieces /\ Kept(b) /\ b.object + b.size = x.object + x.size
      /\ b.object = x.object + (x.size - s)
  BY <1>2, <1>3 DEF BlockAtEnd, Pieces, Kept
<1>5. CASE x.size = s
  <2>1. Splits(x, {}, b)
    BY <1>2, <1>4, <1>5 DEF Splits
  <2>2. Lists(Cut(i, s), (F \ {x}) \cup {})
    BY <1>5, RemoveLists DEF Cut
  <2>3. QED
    BY <2>1, <2>2
<1>6. CASE x.size # s
  <2>1. y \in Pieces /\ Kept(y) /\ y.object = x.object /\ y.object + y.size = b.object
    BY <1>0, <1>2, <1>3, <1>4, <1>6 DEF Fits, Pieces, Kept
  <2>2. Splits(x, {y}, b)
    BY <2>1, <1>4 DEF Splits
  <2>3. Cut(i, s) = [list EXCEPT ![i] = y]
    <3>1. [x EXCEPT !.size = @ - s] = y
      BY <1>1 DEF Pieces
    <3>2. Cut(i, s) = [list EXCEPT ![i] = [x EXCEPT !.size = @ - s]]
      BY <1>6 DEF Cut, Shrunk
    <3>3. QED
      BY <3>1, <3>2
  <2> HIDE DEF y
  <2>4. ASSUME y \notin F PROVE Lists(Cut(i, s), (F \ {x}) \cup {y})
    <3>1. Lists([list EXCEPT ![i] = y], (F \ {list[i]}) \cup {y})
      BY <2>1, <2>4, ReplaceLists
    <3>2. QED
      BY <3>1, <2>3
  <2>5. QED
    BY <2>2, <2>4
<1>7. QED
  BY <1>5, <1>6

(* The elements that insert_merging() finds are all there are: no two of   *)
(* them start, and no two end, at one place.                               *)
LEMMA FoundTouch ==
  ASSUME HeapAssumption, NEW F, NEW U, Disjoint(F, U), Lists(list, F),
         NEW e \in Pieces, Kept(e),
         NEW r \in 0..Len(list), NEW l \in 0..Len(list),
         IsFirst(r, {j \in DOMAIN list : list[j].object = e.object + e.size}),
         IsFirst(l, {j \in DOMAIN list : list[j].object + list[j].size = e.object})
  PROVE  /\ r = 0 => \A a \in F : a.object # e.object + e.size
         /\ r # 0 => /\ r \in DOMAIN list /\ list[r].object = e.object + e.size
                     /\ \A a \in F : a.object = e.object + e.size => a = list[r]
         /\ l = 0 => \A a \in F : a.object + a.size # e.object
         /\ l # 0 => /\ l \in DOMAIN list /\ list[l].object + list[l].size = e.object
                     /\ \A a \in F : a.object + a.size = e.object => a = list[l]
<1>0. Node \in Nat /\ Node > 0
  BY HeapAssumption DEF HeapAssumption
<1>1. /\ list \in Seq(Pieces) /\ DOMAIN list = 1..Len(list) /\ Len(list) \in Nat
      /\ F = {list[j] : j \in DOMAIN list}
  BY DEF Lists, ToSet
<1>2. \A a \in F : a.object \in Nat /\ a.size \in Nat /\ a.size > 0
  BY <1>0 DEF Disjoint, Kept, Pieces
<1>3. ASSUME NEW a \in F, NEW b \in F, a.object = b.object \/ a.object + a.size = b.object + b.size
      PROVE  a = b
  <2>1. ~Apart(a, b)
    BY <1>2, <1>3 DEF Apart
  <2>2. QED
    BY <2>1 DEF Disjoint
<1>4. ASSUME r # 0
      PROVE  /\ r \in DOMAIN list /\ list[r].object = e.object + e.size
             /\ \A a \in F : a.object = e.object + e.size => a = list[r]
  <2>1. r \in DOMAIN list /\ list[r].object = e.object + e.size
    BY <1>4 DEF IsFirst
  <2>2. list[r] \in F
    BY <2>1, <1>1
  <2>3. QED
    BY <2>1, <2>2, <1>3
<1>5. ASSUME l # 0
      PROVE  /\ l \in DOMAIN list /\ list[l].object + list[l].size = e.object
             /\ \A a \in F : a.object + a.size = e.object => a = list[l]
  <2>1. l \in DOMAIN list /\ list[l].object + list[l].size = e.object
    BY <1>5 DEF IsFirst
  <2>2. list[l] \in F
    BY <2>1, <1>1
  <2>3. QED
    BY <2>1, <2>2, <1>3
<1>6. 0 \notin DOMAIN list
  BY <1>1
<1>7. ASSUME r = 0, NEW a \in F PROVE a.object # e.object + e.size
  <2>1. PICK j \in DOMAIN list : a = list[j]
    BY <1>1
  <2>2. QED
    BY <2>1, <1>6, <1>7 DEF IsFirst
<1>8. ASSUME l = 0, NEW a \in F PROVE a.object + a.size # e.object
  <2>1. PICK j \in DOMAIN list : a = list[j]
    BY <1>1
  <2>2. QED
    BY <2>1, <1>6, <1>8 DEF IsFirst
<1>9. QED
  BY <1>4, <1>5, <1>7, <1>8

LEMMA MergedJoins ==
  ASSUME HeapAssumption, NEW F, NEW U, Disjoint(F, U), Lists(list, F),
         NEW e \in Pieces, Kept(e), \A a \in F : Apart(a, e),
         NEW r \in 0..Len(list), NEW l \in 0..Len(list),
         IsFirst(r, {j \in DOMAIN list : list[j].object = e.object + e.size}),
         IsFirst(l, {j \in DOMAIN list : list[j].object + list[j].size = e.object})
  PROVE  \E G, w : Joins(F, e, G, w) /\ Lists(Merged(e, l, r), (F \ G) \cup {w})
<1> DEFINE R == list[r]
           L == list[l]
           whole == IF r = 0 THEN e ELSE [e EXCEPT !.size = @ + R.size]
           grown == IF l = 0 THEN Append(list, whole)
                    ELSE [list EXCEPT ![l].size = @ + whole.size]
           w == [object |-> IF l = 0 THEN e.object ELSE L.object,
                 size   |-> (IF l = 0 THEN 0 ELSE L.size) + whole.size]
           G == (IF l = 0 THEN {} ELSE {L}) \cup (IF r = 0 THEN {} ELSE {R})
<1>0. Node \in Nat /\ Node > 0
  BY HeapAssumption DEF HeapAssumption
<1>1. /\ list \in Seq(Pieces) /\ DOMAIN list = 1..Len(list) /\ Len(list) \in Nat
      /\ \A j \in DOMAIN list : list[j] \in F
  BY DEF Lists, ToSet
<1>2. /\ \A a \in F : a.object \in Nat /\ a.size \in Nat /\ a.size > 0 /\ a.object # 0
                      /\ a.size >= Node
      /\ e.object \in Nat /\ e.size \in Nat /\ e.size > 0 /\ e.object # 0 /\ e.size >= Node
  BY <1>0 DEF Disjoint, Kept, Pieces
<1>3. /\ r = 0 => \A a \in F : a.object # e.object + e.size
      /\ r # 0 => /\ r \in DOMAIN list /\ R.object = e.object + e.size
                  /\ \A a \in F : a.object = e.object + e.size => a = R
      /\ l = 0 => \A a \in F : a.object + a.size # e.object
      /\ l # 0 => /\ l \in DOMAIN list /\ L.object + L.size = e.object
                  /\ \A a \in F : a.object + a.size = e.object => a = L
  BY FoundTouch
<1>4. (r # 0 => R \in F) /\ (l # 0 => L \in F)
  BY <1>1, <1>3
<1>5. whole \in Pieces /\ whole.object = e.object
      /\ whole.size = e.size + (IF r = 0 THEN 0 ELSE R.size)
  BY <1>2, <1>4 DEF Pieces
<1>5a. r = 0 => whole = e
  OBVIOUS
<1> HIDE DEF whole
<1>6. w \in Pieces /\ Kept(w)
      /\ w.object = (IF l = 0 THEN e.object ELSE L.object)
      /\ w.size = (IF l = 0 THEN 0 ELSE L.size) + whole.size
  <2>1. /\ w.object = (IF l = 0 THEN e.object ELSE L.object)
        /\ w.size = (IF l = 0 THEN 0 ELSE L.size) + whole.size
    OBVIOUS
  <2>2. /\ (IF l = 0 THEN e.object ELSE L.object) \in Nat \ {0}
        /\ (IF l = 0 THEN 0 ELSE L.size) \in Nat
    BY <1>2, <1>4
  <2>3. /\ (IF r = 0 THEN 0 ELSE R.size) \in Nat
    BY <1>2, <1>4
  <2>4. whole.size \in Nat /\ whole.size >= Node
    BY <1>0, <1>2, <1>5, <2>3
  <2>5. w.size \in Nat /\ w.size >= Node /\ w.object \in Nat \ {0}
    BY <1>0, <2>1, <2>2, <2>4
  <2>6. w \in Pieces
    BY <2>1, <2>5 DEF Pieces
  <2>7. QED
    BY <2>1, <2>5, <2>6 DEF Kept
<1>7. l # 0 => [L EXCEPT !.size = @ + whole.size] = w
  <2>1. ASSUME l # 0 PROVE L \in Pieces
    BY <2>1, <1>1, <1>3
  <2>2. QED
    BY <2>1 DEF Pieces
<1>8. l # 0 => grown = [list EXCEPT ![l] = w]
  <2>1. l # 0 => grown = [list EXCEPT ![l] = [L EXCEPT !.size = @ + whole.size]]
    OBVIOUS
  <2>2. QED
    BY <2>1, <1>7
<1>9. l = 0 => w = whole
  BY <1>5 DEF Pieces
<1> HIDE DEF w
<1>10. w \notin F
  <2>1. w.object <= e.object /\ e.object + e.size <= w.object + w.size
    BY <1>2, <1>3, <1>4, <1>5, <1>6, SMTT(20)
  <2>2. ASSUME NEW a \in F PROVE a # w
    BY <2>1, <1>2 DEF Apart
  <2>3. QED
    BY <2>2
<1>11. Lists(grown, (F \ (IF l = 0 THEN {} ELSE {L})) \cup {w})
  <2>1. CASE l = 0
    <3>1. Lists(Append(list, w), F \cup {w})
      BY <1>6, <1>10, AppendLists
    <3>2. QED
      BY <2>1, <3>1, <1>9
  <2>2. CASE l # 0
    <3>1. l \in DOMAIN list
      BY <2>2, <1>3
    <3>2. Lists([list EXCEPT ![l] = w], (F \ {list[l]}) \cup {w})
      BY <3>1, <1>6, <1>10, ReplaceLists
    <3>3. QED
      BY <2>2, <3>2, <1>8
  <2>3. QED
    BY <2>1, <2>2
<1>12. r # 0 => r \in DOMAIN grown /\ grown[r] = R /\ r # l
  <2>1. r # 0 /\ l # 0 => r # l
    BY <1>2, <1>3, <1>4
  <2>2. r # 0 /\ l = 0 => r \in DOMAIN grown /\ grown[r] = R
    BY <1>1, <1>3, <1>9, <1>6
  <2>3. r # 0 /\ l # 0 => r \in DOMAIN grown /\ grown[r] = R
    BY <2>1, <1>1, <1>3, <1>8
  <2>4. QED
    BY <2>1, <2>2, <2>3
<1>13. Merged(e, l, r) = IF r = 0 THEN grown ELSE RemoveAt(grown, r)
  BY DEF Merged, whole
<1> HIDE DEF grown
<1>14. Lists(Merged(e, l, r), (F \ G) \cup {w})
  <2>1. CASE r = 0
    BY <2>1, <1>11, <1>13
  <2>2. CASE r # 0
    <3> DEFINE S == (F \ (IF l = 0 THEN {} ELSE {L})) \cup {w}
    <3>1. Lists(grown, S) /\ r \in DOMAIN grown
      BY <2>2, <1>11, <1>12
    <3>2. Lists(RemoveAt(grown, r), S \ {grown[r]})
      <4> HIDE DEF S
      <4>1. QED
        BY <3>1, RemoveLists
    <3>3. S \ {grown[r]} = (F \ G) \cup {w}
      BY <2>2, <1>4, <1>10, <1>12
    <3>4. QED
      BY <2>2, <3>2, <3>3, <1>13
  <2>3. QED
    BY <2>1, <2>2
<1>15. Joins(F, e, G, w)
  <2>1. G \subseteq F
    BY <1>4
  <2>2. \A a \in F : a.object + a.size = e.object \/ a.object = e.object + e.size => a \in G
    BY <1>3
  <2>3. ASSUME NEW n \in Int
        PROVE  n \in Bytes(w) <=> n \in Bytes(e) \/ \E a \in G : n \in Bytes(a)
    <3>1. r = 0 => (n \in Bytes(whole) <=> n \in Bytes(e))
      BY <1>5a
    <3>2. ASSUME r # 0 PROVE n \in Bytes(whole) <=> n \in Bytes(e) \/ n \in Bytes(R)
      <4>1. R \in Pieces /\ e.object + e.size = R.object
        BY <3>2, <1>3, <1>4 DEF Disjoint
      <4>2. whole \in Pieces /\ whole.object = e.object /\ whole.size = e.size + R.size
        BY <3>2, <1>5
      <4>3. QED
        BY <4>1, <4>2, JoinedBytes
    <3>3. l = 0 => (n \in Bytes(w) <=> n \in Bytes(whole))
      BY <1>9
    <3>4. ASSUME l # 0 PROVE n \in Bytes(w) <=> n \in Bytes(L) \/ n \in Bytes(whole)
      <4>1. L \in Pieces /\ L.object + L.size = whole.object
        BY <3>4, <1>3, <1>4, <1>5 DEF Disjoint
      <4>2. w \in Pieces /\ w.object = L.object /\ w.size = L.size + whole.size
        BY <3>4, <1>6
      <4>3. whole \in Pieces
        BY <1>5
      <4>4. QED
        BY <4>1, <4>2, <4>3, JoinedBytes
    <3>5. CASE l = 0 /\ r = 0
      BY <3>1, <3>3, <3>5
    <3>6. CASE l # 0 /\ r = 0
      BY <3>1, <3>4, <3>6
    <3>7. CASE l = 0 /\ r # 0
      BY <3>2, <3>3, <3>7
    <3>8. CASE l # 0 /\ r # 0
      BY <3>2, <3>4, <3>8
    <3>9. QED
      BY <3>5, <3>6, <3>7, <3>8
  <2>4. \/ w.object = e.object /\ \A a \in F : a.object + a.size # e.object
        \/ \E a \in G : w.object = a.object
    BY <1>3, <1>6
  <2>5. \/ w.object + w.size = e.object + e.size /\ \A a \in F : a.object # e.object + e.size
        \/ \E a \in G : w.object + w.size = a.object + a.size
    <3>1. CASE r = 0
      BY <3>1, <1>2, <1>3, <1>4, <1>5, <1>6
    <3>2. CASE r # 0
      <4>1. w.object + w.size = R.object + R.size
        BY <3>2, <1>2, <1>3, <1>4, <1>5, <1>6, SMTT(20)
      <4>2. QED
        BY <3>2, <4>1
    <3>3. QED
      BY <3>1, <3>2
  <2>6. QED
    BY <2>1, <2>2, <2>3, <2>4, <2>5, <1>6 DEF Joins
<1>16. QED
  BY <1>14, <1>15

-----------------------------------------------------------------------------
(* The inductive invariant: the three invariants, with the list as a set.  *)

HeapInv ==
    /\ Lists(list, ToSet(list))
    /\ Disjoint(ToSet(list), blocks)
    /\ NoneTouch(ToSet(list))
    /\ BytesOf(ToSet(list)) \cup BytesOf(blocks) = GivenBytes
    /\ IsFiniteSet(BytesOf(ToSet(list)))
    /\ grouped = Cardinality(BytesOf(ToSet(list)))
    /\ given \subseteq Regions

LEMMA PieceCardinality ==
  ASSUME NEW a \in Pieces, a.size > 0
  PROVE  IsFiniteSet(Bytes(a)) /\ Cardinality(Bytes(a)) = a.size
<1>1. a.object \in Int /\ a.size \in Int /\ a.object + a.size - 1 \in Int
  BY DEF Pieces
<1>2. /\ IsFiniteSet(a.object .. a.object + a.size - 1)
      /\ Cardinality(a.object .. a.object + a.size - 1)
           = IF a.object > a.object + a.size - 1 THEN 0
             ELSE (a.object + a.size - 1) - a.object + 1
  BY <1>1, FS_Interval
<1>3. QED
  BY <1>1, <1>2 DEF Bytes

LEMMA KeptSize ==
  ASSUME HeapAssumption, NEW a \in Pieces, Kept(a)
  PROVE  a.size > 0 /\ a.object \in Nat /\ a.size \in Nat
  BY DEF HeapAssumption, Kept, Pieces

(* Two sets without a common element.                                      *)
LEMMA DisjointUnion ==
  ASSUME NEW S, IsFiniteSet(S), NEW T, IsFiniteSet(T), \A x \in T : x \notin S
  PROVE  /\ IsFiniteSet(S \cup T)
         /\ Cardinality(S \cup T) = Cardinality(S) + Cardinality(T)
         /\ Cardinality(S) \in Nat /\ Cardinality(T) \in Nat
<1>1. S \cap T = {}
  OBVIOUS
<1>2. Cardinality(S \cap T) = 0
  BY <1>1, FS_EmptySet
<1>3. Cardinality(S) \in Nat /\ Cardinality(T) \in Nat
  BY FS_CardinalityType
<1>4. /\ IsFiniteSet(S \cup T)
      /\ Cardinality(S \cup T) = Cardinality(S) + Cardinality(T) - Cardinality(S \cap T)
  BY FS_Union
<1>5. QED
  BY <1>2, <1>3, <1>4

LEMMA InitInv == ASSUME HeapAssumption, Init PROVE HeapInv
<1>1. list = << >> /\ grouped = 0 /\ blocks = {} /\ given = {}
  BY DEF Init
<1>2. ToSet(list) = {} /\ list \in Seq(Pieces) /\ IsInjective(list)
  BY <1>1 DEF ToSet, IsInjective
<1>3. BytesOf({}) = {} /\ GivenBytes = {}
  BY <1>1 DEF BytesOf, GivenBytes
<1>4. IsFiniteSet({}) /\ Cardinality({}) = 0
  BY FS_EmptySet
<1>5. QED
  BY <1>1, <1>2, <1>3, <1>4 DEF HeapInv, Lists, Disjoint, NoneTouch

LEMMA AllocKeeps ==
  ASSUME HeapAssumption, HeapInv, NEW bytes \in Requests, Alloc(bytes)
  PROVE  HeapInv'
<1> DEFINE s == Needed(bytes)
           F == ToSet(list)
<1>1. s \in Nat /\ s >= Node
  <2>1. Header \in Nat /\ Node \in Nat /\ bytes \in Nat
    BY DEF HeapAssumption
  <2>2. QED
    BY <2>1 DEF Needed
<1>2. PICK i \in DOMAIN list :
         /\ IsFirst(i, {j \in DOMAIN list : Fits(list[j], s)})
         /\ list' = Cut(i, s)
         /\ grouped' = grouped - s
         /\ blocks' = blocks \cup {BlockAtEnd(i, s)}
         /\ given' = given
  BY DEF Alloc
<1> DEFINE x == list[i]
           b == BlockAtEnd(i, s)
<1>3. Fits(x, s) /\ x \in F
  <2>1. i # 0
    BY DEF HeapInv, Lists
  <2>2. QED
    BY <1>2, <2>1 DEF IsFirst, ToSet
<1>4. Lists(list, F) /\ Disjoint(F, blocks) /\ NoneTouch(F)
  BY DEF HeapInv
<1> HIDE DEF s, F
<1>5. PICK rest : /\ Splits(x, rest, b)
                  /\ (\A y \in rest : y \notin F) => Lists(Cut(i, s), (F \ {x}) \cup rest)
  BY <1>1, <1>3, <1>4, CutSplits
<1> DEFINE G == (F \ {x}) \cup rest
<1>6. /\ Disjoint(G, blocks \cup {b}) /\ NoneTouch(G)
      /\ \A y \in rest : y \notin F \ {x}
  <2>1. x \in F /\ Splits(x, rest, b)
    BY <1>3, <1>5
  <2> HIDE DEF x, b
  <2>2. QED
    BY <2>1, <1>4, SplitDisjoint
<1>7. b \in Pieces /\ Kept(b) /\ b.size = s
  BY <1>5 DEF Splits, BlockAtEnd
<1>8. x \in Pieces /\ Kept(x) /\ x.size > 0 /\ x.object \in Nat /\ x.size \in Nat
  <2>1. x \in Pieces /\ Kept(x)
    BY <1>3, <1>4 DEF Disjoint
  <2>2. QED
    BY <2>1, KeptSize
<1>9. b.size > 0 /\ b.object \in Nat /\ b.size \in Nat
  BY <1>7, KeptSize
(* The rest ends before the element does. *)
<1>10. \A y \in rest : y \notin F
  <2>1. \A y \in rest : y # x
    <3>1. SUFFICES ASSUME NEW y \in rest, y = x PROVE FALSE
      OBVIOUS
    <3>2. y.object + y.size = b.object /\ b.object + b.size = x.object + x.size
      BY <1>5, <3>1 DEF Splits
    <3>3. QED
      BY <3>1, <3>2, <1>8, <1>9
  <2>2. QED
    BY <2>1, <1>6
<1>11. Lists(list', G) /\ ToSet(list') = G
  BY <1>2, <1>5, <1>10 DEF Lists
<1>12. ASSUME NEW n PROVE n \in BytesOf(F) <=> n \in BytesOf(G) \/ n \in Bytes(b)
  <2>1. n \in Bytes(x) <=> n \in Bytes(b) \/ \E y \in rest : n \in Bytes(y)
    BY <1>5, <1>8, SplitBytes
  <2>2. QED
    BY <2>1, <1>3, BytesOfIn
<1>13. ASSUME NEW n \in Bytes(b) PROVE n \notin BytesOf(G)
  <2>1. \A y \in G : y \in Pieces /\ Kept(y) /\ Apart(b, y)
    BY <1>6 DEF Disjoint
  <2>2. \A y \in G : n \notin Bytes(y)
    BY <2>1, <1>7, <1>9, KeptSize, ApartBytes
  <2>3. QED
    BY <2>2, BytesOfIn
<1>14. BytesOf(F) = BytesOf(G) \cup Bytes(b)
  BY <1>12
<1>15. /\ IsFiniteSet(BytesOf(G))
       /\ Cardinality(BytesOf(F)) = Cardinality(BytesOf(G)) + s
       /\ Cardinality(BytesOf(G)) \in Nat
  <2>1. IsFiniteSet(BytesOf(F))
    BY DEF HeapInv, F
  <2>2. IsFiniteSet(BytesOf(G))
    BY <2>1, <1>14, FS_Subset
  <2>3. IsFiniteSet(Bytes(b)) /\ Cardinality(Bytes(b)) = s
    BY <1>7, <1>9, PieceCardinality
  <2> HIDE DEF G, b
  <2>4. QED
    BY <2>2, <2>3, <1>13, <1>14, DisjointUnion
<1>16. grouped' = Cardinality(BytesOf(G))
  BY <1>1, <1>2, <1>15 DEF HeapInv, F
<1>5a. BytesOf(G) \cup BytesOf(blocks \cup {b}) = GivenBytes
  <2>1. BytesOf(F) \cup BytesOf(blocks) = GivenBytes
    BY DEF HeapInv, F
  <2>2. BytesOf(blocks \cup {b}) = BytesOf(blocks) \cup Bytes(b)
    BY DEF BytesOf
  <2>3. QED
    BY <2>1, <2>2, <1>14
<1>18. GivenBytes' = GivenBytes
  BY <1>2 DEF GivenBytes
<1>19. BytesOf(ToSet(list))' = BytesOf(G) /\ BytesOf(blocks)' = BytesOf(blocks \cup {b})
  BY <1>2, <1>11 DEF BytesOf
<1> HIDE DEF G, b, x
<1>20. given' \subseteq Regions
  BY <1>2 DEF HeapInv
<1>21. blocks' = blocks \cup {b}
  BY <1>2 DEF b
<1>22. QED
  BY <1>6, <1>11, <1>15, <1>16, <1>5a, <1>18, <1>19, <1>20, <1>21 DEF HeapInv

(* What free() keeps of a list F and blocks U that are apart from the      *)
(* piece e that comes back.                                                *)
LEMMA InsertKeeps ==
  ASSUME HeapAssumption, NEW F, NEW U, Lists(list, F), Disjoint(F, U), NoneTouch(F),
         IsFiniteSet(BytesOf(F)), grouped = Cardinality(BytesOf(F)),
         NEW e \in Pieces, Kept(e), \A a \in F \cup U : Apart(a, e), Insert(e)
  PROVE  /\ Lists(list', ToSet(list')) /\ Disjoint(ToSet(list'), U) /\ NoneTouch(ToSet(list'))
         /\ BytesOf(ToSet(list')) = BytesOf(F) \cup Bytes(e)
         /\ IsFiniteSet(BytesOf(ToSet(list')))
         /\ grouped' = Cardinality(BytesOf(ToSet(list')))
<1>1. PICK r \in 0..Len(list), l \in 0..Len(list) :
         /\ IsFirst(r, {j \in DOMAIN list : list[j].object = e.object + e.size})
         /\ IsFirst(l, {j \in DOMAIN list : list[j].object + list[j].size = e.object})
         /\ list' = Merged(e, l, r)
  BY DEF Insert
<1>2. PICK G, w : Joins(F, e, G, w) /\ Lists(Merged(e, l, r), (F \ G) \cup {w})
  <2>1. \A a \in F : Apart(a, e)
    OBVIOUS
  <2>2. QED
    BY <1>1, <2>1, MergedJoins
<1> DEFINE H == (F \ G) \cup {w}
<1>3. Lists(list', H) /\ ToSet(list') = H
  BY <1>1, <1>2 DEF Lists
<1>4. Disjoint(H, U) /\ NoneTouch(H)
  <2>1. Joins(F, e, G, w)
    BY <1>2
  <2>2. \A a \in F \cup U : Apart(a, e)
    OBVIOUS
  <2>3. H = (F \ G) \cup {w}
    OBVIOUS
  <2> HIDE DEF H
  <2>4. QED
    BY <2>1, <2>2, <2>3, JoinDisjoint
<1>5. ASSUME NEW a \in F \cup {w, e} PROVE Bytes(a) \subseteq Int
  <2>1. a \in Pieces
    BY <1>2 DEF Disjoint, Joins
  <2>2. QED
    BY <2>1 DEF Pieces, Bytes
<1>6. \A n \in Int : n \in Bytes(w) <=> n \in Bytes(e) \/ \E a \in G : n \in Bytes(a)
  BY <1>2 DEF Joins
<1>7. G \subseteq F
  BY <1>2 DEF Joins
<1>8. ASSUME NEW n PROVE n \in BytesOf(H) <=> n \in BytesOf(F) \/ n \in Bytes(e)
  <2>1. ASSUME n \in BytesOf(H) PROVE n \in BytesOf(F) \/ n \in Bytes(e)
    <3>1. PICK c \in H : n \in Bytes(c)
      BY <2>1, BytesOfIn
    <3>2. CASE c = w
      BY <3>1, <3>2, <1>5, <1>6, <1>7, BytesOfIn
    <3>3. CASE c # w
      BY <3>1, <3>3, BytesOfIn
    <3>4. QED
      BY <3>2, <3>3
  <2>2. ASSUME NEW c \in F, n \in Bytes(c) PROVE n \in BytesOf(H)
    <3>1. CASE c \in G
      BY <3>1, <2>2, <1>5, <1>6, BytesOfIn
    <3>2. CASE c \notin G
      BY <3>2, <2>2, BytesOfIn
    <3>3. QED
      BY <3>1, <3>2
  <2>3. ASSUME n \in Bytes(e) PROVE n \in BytesOf(H)
    BY <2>3, <1>5, <1>6, BytesOfIn
  <2>4. QED
    BY <2>1, <2>2, <2>3, BytesOfIn
<1>9. BytesOf(H) = BytesOf(F) \cup Bytes(e)
  BY <1>8
<1>10. ASSUME NEW n \in Bytes(e) PROVE n \notin BytesOf(F)
  <2>1. ASSUME NEW a \in F PROVE n \notin Bytes(a)
    <3>1. a \in Pieces /\ Kept(a) /\ Apart(a, e)
      BY DEF Disjoint
    <3>2. QED
      BY <3>1, KeptSize, ApartBytes
  <2>2. QED
    BY <2>1, BytesOfIn
<1>11. IsFiniteSet(Bytes(e)) /\ Cardinality(Bytes(e)) = e.size
  BY KeptSize, PieceCardinality
<1>12. IsFiniteSet(BytesOf(H)) /\ Cardinality(BytesOf(H)) = grouped + e.size
  <2> HIDE DEF H
  <2>1. QED
    BY <1>9, <1>10, <1>11, DisjointUnion
<1>13. grouped' = grouped + e.size
  BY DEF Insert
<1>14. QED
  BY <1>3, <1>4, <1>9, <1>12, <1>13

LEMMA FreeKeeps ==
  ASSUME HeapAssumption, HeapInv, NEW b, Free(b)
  PROVE  HeapInv'
<1> DEFINE F == ToSet(list)
           U == blocks \ {b}
<1>1. /\ b \in blocks /\ FreePiece(b) /\ blocks' = U /\ given' = given
      /\ Disjoint(F, blocks) /\ Lists(list, F) /\ NoneTouch(F)
      /\ BytesOf(F) \cup BytesOf(blocks) = GivenBytes
      /\ IsFiniteSet(BytesOf(F)) /\ grouped = Cardinality(BytesOf(F))
  BY DEF Free, HeapInv
<1>2. b \in Pieces /\ Kept(b)
  BY <1>1 DEF Disjoint
<1>3. Disjoint(F, U) /\ \A a \in F \cup U : Apart(a, b)
  BY <1>1 DEF Disjoint
<1>4. Insert(b)
  BY <1>1, <1>2 DEF FreePiece
<1> HIDE DEF F, U
<1>5. /\ Lists(list', ToSet(list')) /\ Disjoint(ToSet(list'), U) /\ NoneTouch(ToSet(list'))
      /\ BytesOf(ToSet(list')) = BytesOf(F) \cup Bytes(b)
      /\ IsFiniteSet(BytesOf(ToSet(list')))
      /\ grouped' = Cardinality(BytesOf(ToSet(list')))
  BY <1>1, <1>2, <1>3, <1>4, InsertKeeps
<1>6. BytesOf(blocks) = BytesOf(U) \cup Bytes(b)
  BY <1>1 DEF BytesOf, U
<1>7. BytesOf(ToSet(list')) \cup BytesOf(U) = GivenBytes
  BY <1>1, <1>5, <1>6
<1>8. GivenBytes' = GivenBytes /\ given' \subseteq Regions
  BY <1>1 DEF GivenBytes, HeapInv
<1>9. /\ BytesOf(ToSet(list))' = BytesOf(ToSet(list'))
      /\ BytesOf(blocks)' = BytesOf(U)
  BY <1>1 DEF BytesOf
<1>10. QED
  BY <1>1, <1>5, <1>7, <1>8, <1>9 DEF HeapInv

LEMMA GiveKeeps ==
  ASSUME HeapAssumption, HeapInv, NEW r \in Regions, Give(r)
  PROVE  HeapInv'
<1> DEFINE F == ToSet(list)
<1>1. /\ r \notin given /\ FreePiece(r) /\ blocks' = blocks /\ given' = given \cup {r}
      /\ Disjoint(F, blocks) /\ Lists(list, F) /\ NoneTouch(F)
      /\ BytesOf(F) \cup BytesOf(blocks) = GivenBytes
      /\ IsFiniteSet(BytesOf(F)) /\ grouped = Cardinality(BytesOf(F))
      /\ given \subseteq Regions
  BY DEF Give, HeapInv
<1>2. r \in Pieces /\ Regions \subseteq Pieces
  BY DEF HeapAssumption, Pieces
<1>3. given' \subseteq Regions
  BY <1>1
<1>4. CASE Kept(r)
  (* What is in use or free was given before, in regions apart from r.     *)
  <2>1. ASSUME NEW a \in F \cup blocks PROVE Apart(a, r)
    <3>1. a \in Pieces /\ Kept(a)
      BY <1>1 DEF Disjoint
    <3>2. ASSUME NEW n \in Bytes(a) PROVE n \notin Bytes(r)
      <4>1. n \in GivenBytes
        BY <1>1, BytesOfIn
      <4>2. PICK s \in given : Kept(s) /\ n \in Bytes(s)
        BY <4>1 DEF GivenBytes
      <4>3. s \in Pieces /\ Apart(s, r)
        BY <1>1, <1>2 DEF HeapAssumption
      <4>4. QED
        BY <4>2, <4>3, <1>2, <1>4, KeptSize, ApartBytes
    <3>3. QED
      BY <3>1, <3>2, <1>2, <1>4, KeptSize, ApartBytes
  <2>2. Insert(r)
    BY <1>1, <1>4 DEF FreePiece
  <2> HIDE DEF F
  <2>3. /\ Lists(list', ToSet(list')) /\ Disjoint(ToSet(list'), blocks)
        /\ NoneTouch(ToSet(list'))
        /\ BytesOf(ToSet(list')) = BytesOf(F) \cup Bytes(r)
        /\ IsFiniteSet(BytesOf(ToSet(list')))
        /\ grouped' = Cardinality(BytesOf(ToSet(list')))
    BY <1>1, <1>2, <1>4, <2>1, <2>2, InsertKeeps
  <2>4. GivenBytes' = GivenBytes \cup Bytes(r)
    <3>1. {s \in given' : Kept(s)} = {s \in given : Kept(s)} \cup {r}
      BY <1>1, <1>4
    <3>2. GivenBytes' = UNION {Bytes(s) : s \in {q \in given' : Kept(q)}}
      BY DEF GivenBytes
    <3>3. QED
      BY <3>1, <3>2 DEF GivenBytes
  <2>5. BytesOf(ToSet(list')) \cup BytesOf(blocks) = GivenBytes'
    BY <1>1, <2>3, <2>4
  <2>6. BytesOf(ToSet(list))' = BytesOf(ToSet(list')) /\ BytesOf(blocks)' = BytesOf(blocks)
    BY <1>1 DEF BytesOf
  <2>7. QED
    BY <1>1, <1>3, <2>3, <2>5, <2>6 DEF HeapInv
<1>5. CASE ~Kept(r)
  <2>1. list' = list /\ grouped' = grouped
    BY <1>1, <1>5 DEF FreePiece
  <2>2. {s \in given' : Kept(s)} = {s \in given : Kept(s)}
    BY <1>1, <1>5
  <2>3. GivenBytes' = GivenBytes
    BY <2>2 DEF GivenBytes
  <2>4. BytesOf(ToSet(list))' = BytesOf(ToSet(list)) /\ BytesOf(blocks)' = BytesOf(blocks)
    BY <1>1, <2>1 DEF BytesOf
  <2>5. QED
    BY <1>1, <1>3, <2>1, <2>3, <2>4 DEF HeapInv
<1>6. QED
  BY <1>4, <1>5

(* The heap keeps its invariant, from the empty heap on, for any regions   *)
(* and any sequence of alloc() and free().                                 *)
THEOREM HeapInvHolds == Spec => []HeapInv
<1>1. Init => HeapInv
  BY HeapAssumption, InitInv
<1>2. HeapInv /\ [Next]_vars => HeapInv'
  <2> SUFFICES ASSUME HeapInv, [Next]_vars PROVE HeapInv'
    OBVIOUS
  <2>1. CASE Next
    <3>1. ASSUME NEW bytes \in Requests, Alloc(bytes) PROVE HeapInv'
      BY <3>1, HeapAssumption, AllocKeeps
    <3>2. ASSUME NEW b \in blocks, Free(b) PROVE HeapInv'
      BY <3>2, HeapAssumption, FreeKeeps
    <3>3. ASSUME NEW r \in Regions, Give(r) PROVE HeapInv'
      BY <3>3, HeapAssumption, GiveKeeps
    <3>4. QED
      BY <2>1, <3>1, <3>2, <3>3 DEF Next
  <2>2. CASE UNCHANGED vars
    <3>1. list' = list /\ grouped' = grouped /\ blocks' = blocks /\ given' = given
      BY <2>2 DEF vars
    <3>2. /\ GivenBytes' = GivenBytes
          /\ BytesOf(ToSet(list))' = BytesOf(ToSet(list))
          /\ BytesOf(blocks)' = BytesOf(blocks)
      BY <3>1 DEF GivenBytes, BytesOf
    <3>3. QED
      BY <3>1, <3>2 DEF HeapInv
  <2>3. QED
    BY <2>1, <2>2
<1>3. QED
  BY <1>1, <1>2, PTL DEF Spec

(* Every free element holds its list node and every block its size word:   *)
(* neither reaches into the memory after it.                               *)
THEOREM HeapTypeOKHolds == Spec => []TypeOK
<1>1. HeapInv => TypeOK
  <2> SUFFICES ASSUME HeapInv PROVE TypeOK
    OBVIOUS
  <2>1. grouped \in Nat
    BY FS_CardinalityType DEF HeapInv
  <2>2. QED
    BY <2>1 DEF HeapInv, Lists, Disjoint, TypeOK
<1>2. QED
  BY <1>1, HeapInvHolds, PTL

(* alloc() never hands out a byte that is in use or that is not the        *)
(* heap's, and no sequence of alloc() and free() loses one.                *)
THEOREM MemoryAccountedHolds == Spec => []MemoryAccounted
<1>1. HeapInv => MemoryAccounted
  <2> SUFFICES ASSUME HeapInv PROVE MemoryAccounted
    OBVIOUS
  <2>1. \A i, j \in DOMAIN list : i # j => list[i] # list[j]
    BY DEF HeapInv, Lists, IsInjective
  <2>2. \A i \in DOMAIN list : list[i] \in ToSet(list)
    BY DEF ToSet
  <2>3. \A a, b \in ToSet(list) \cup blocks : a # b => Apart(a, b)
    BY DEF HeapInv, Disjoint
  <2>4. \A a \in ToSet(list) : a \notin blocks
    BY DEF HeapInv, Disjoint
  <2>5. FreeBytes \cup UsedBytes = GivenBytes
    BY DEF HeapInv, FreeBytes, UsedBytes, BytesOf
  <2>6. QED
    BY <2>1, <2>2, <2>3, <2>4, <2>5 DEF MemoryAccounted
<1>2. QED
  BY <1>1, HeapInvHolds, PTL

(* free() merges what touches, on both sides: the free memory is in as few *)
(* elements as it can be, and _grouped_size is its size.                   *)
THEOREM NeighboursMergedHolds == Spec => []NeighboursMerged
<1>1. HeapInv => NeighboursMerged
  <2> SUFFICES ASSUME HeapInv PROVE NeighboursMerged
    OBVIOUS
  <2>1. \A i \in DOMAIN list : list[i] \in ToSet(list)
    BY DEF ToSet
  <2>2. \A i, j \in DOMAIN list : list[i].object + list[i].size # list[j].object
    BY <2>1 DEF HeapInv, NoneTouch
  <2>3. grouped = Cardinality(FreeBytes)
    BY DEF HeapInv, FreeBytes, BytesOf
  <2>4. QED
    BY <2>2, <2>3 DEF NeighboursMerged
<1>2. QED
  BY <1>1, HeapInvHolds, PTL

=============================================================================
