---------------------------- MODULE AlarmProofs -----------------------------
(* What holds of the alarms for any number of them, any periods and any    *)
(* numbers of times: their calls are those that were asked for, none comes *)
(* before its time, and the relative ranks count every alarm down.         *)
(*                                                                         *)
(* Until is a recursive function, of lists of any length.  What holds of   *)
(* its values is shown by induction on the place in the list, as the lack  *)
(* of a least place where it fails (LeastNatural).                         *)
EXTENDS Alarm, SchedulingListProofs

(* The part of an alarm's state that the calls depend on, queued when it   *)
(* is in the queue.                                                        *)
CallsOK(a, queued) ==
    /\ times[a] \in Int /\ called[a] \in Nat
    /\ calling[a] \in 0..MaxCalls
    /\ a \in alive => ticks[a] \in Periods
    /\ asked[a] \in Times \cup {INFINITE}
    /\ a \notin alive => ~queued /\ calling[a] = 0
    /\ queued => ticks[a] > 0 /\ times[a] # 0
    /\ a \in alive /\ ticks[a] > 0 =>
         IF asked[a] = INFINITE THEN times[a] = INFINITE /\ queued
         ELSE /\ called[a] + calling[a] + times[a] = asked[a]
              /\ times[a] \in Nat
              /\ queued <=> times[a] > 0

(* The functions and the queue, without the values of the ranks.           *)
Shapes ==
    /\ requests \in Seq(Alarms) /\ IsInjective(requests)
    /\ times \in [Alarms -> Int] /\ called \in [Alarms -> Nat]
    /\ calling \in [Alarms -> 0..MaxCalls]
    /\ ticks \in [Alarms -> Periods \cup {Unset}] /\ asked \in [Alarms -> Times \cup {INFINITE}]
    /\ alive \in SUBSET Alarms

AlarmInv == Shapes /\ \A a \in Alarms : CallsOK(a, a \in ToSet(requests))

(* insert() puts one more alarm in the queue, wherever it belongs.         *)
LEMMA EnqueueFacts ==
  ASSUME NEW l \in Seq(Alarms), IsInjective(l), NEW rk, NEW k,
         NEW a \in Alarms, a \notin ToSet(l), Enqueue(l, rk, a, k)
  PROVE  /\ requests' \in Seq(Alarms) /\ IsInjective(requests')
         /\ ToSet(requests') = ToSet(l) \cup {a}
<1> DEFINE W == {i \in 1..Len(l) : \A j \in 1..i : Until(l, rk, j) <= k}
           n == Walked(l, rk, k) + 1
<1>1. Len(l) \in Nat /\ \A i \in 1..Len(l) : l[i] \in Alarms
  OBVIOUS
<1>2. n \in 1..Len(l) + 1
  <2>1. W \in SUBSET (1..Len(l)) /\ IsFiniteSet(1..Len(l)) /\ Cardinality(1..Len(l)) = Len(l)
    <3>1. W \in SUBSET (1..Len(l))
      OBVIOUS
    <3> HIDE DEF W
    <3>2. Len(l) \in Int /\ Len(l) >= 0
      BY <1>1
    <3>3. IsFiniteSet(1..Len(l)) /\ Cardinality(1..Len(l)) = Len(l)
      BY <3>2, FS_Interval
    <3>4. QED
      BY <3>1, <3>3
  <2> HIDE DEF W
  <2>2. Cardinality(W) \in Nat /\ Cardinality(W) <= Len(l)
    BY <2>1, <1>1, FS_Subset, FS_CardinalityType
  <2>3. QED
    BY <1>1, <2>2 DEF Walked, W
<1>3. requests' = InsertAt(l, n, a)
  BY DEF Enqueue
<1> HIDE DEF n
<1>4. QED
  BY <1>2, <1>3, InsertAtFacts

(* remove() takes the alarm out of the queue, and no other.                *)
LEMMA DequeueFacts ==
  ASSUME requests \in Seq(Alarms), IsInjective(requests), NEW a, Dequeue(a)
  PROVE  /\ requests' \in Seq(Alarms) /\ IsInjective(requests')
         /\ ToSet(requests') = ToSet(requests) \ {a}
<1>1. requests' = ListRemove(requests, a)
  BY DEF Dequeue
<1>2. QED
  BY <1>1, ListRemoveFacts

-----------------------------------------------------------------------------

LEMMA AlarmInitInv == Init => AlarmInv
<1> SUFFICES ASSUME Init PROVE AlarmInv
  OBVIOUS
<1>1. requests \in Seq(Alarms) /\ IsInjective(requests) /\ ToSet(requests) = {}
  BY DEF Init, IsInjective, ToSet
<1>2. QED
  BY <1>1, AlarmAssumption DEF Init, AlarmInv, Shapes, CallsOK, INFINITE

(* An alarm whose own state and place a step leaves alone.                 *)
Untouched(a) ==
    /\ times'[a] = times[a] /\ called'[a] = called[a] /\ calling'[a] = calling[a]
    /\ ticks'[a] = ticks[a] /\ asked'[a] = asked[a]
    /\ a \in alive' <=> a \in alive
    /\ a \in ToSet(requests') <=> a \in ToSet(requests)

LEMMA UntouchedKeeps ==
  ASSUME NEW a, CallsOK(a, a \in ToSet(requests)), Untouched(a)
  PROVE  CallsOK(a, a \in ToSet(requests))'
BY DEF CallsOK, Untouched

LEMMA CreateKeeps ==
  ASSUME AlarmInv, NEW a \in Alarms, NEW k \in Periods, NEW n \in Times \cup {INFINITE},
         Create(a, k, n)
  PROVE  AlarmInv'
<1>1. Shapes /\ (\A b \in Alarms : CallsOK(b, b \in ToSet(requests)))
  BY DEF AlarmInv
<1>2. a \notin alive /\ a \notin ToSet(requests) /\ calling[a] = 0
  BY <1>1 DEF Create, CallsOK
<1>3. k \in Nat /\ n \in Int /\ (n # INFINITE => n \in Nat \ {0})
  BY AlarmAssumption DEF INFINITE
<1>4. /\ times' = [times EXCEPT ![a] = n] /\ called' = [called EXCEPT ![a] = 0]
      /\ ticks' = [ticks EXCEPT ![a] = k] /\ asked' = [asked EXCEPT ![a] = n]
      /\ alive' = alive \cup {a}
  BY DEF Create
<1>5. CASE k > 0
  <2>1. Enqueue(requests, rank, a, k) /\ calling' = calling
    BY <1>3, <1>5 DEF Create
  <2>2. /\ requests' \in Seq(Alarms) /\ IsInjective(requests')
        /\ ToSet(requests') = ToSet(requests) \cup {a}
    BY <1>1, <1>2, <2>1, EnqueueFacts DEF Shapes
  <2>3. Shapes'
    BY <1>1, <1>3, <1>4, <2>1, <2>2 DEF Shapes
  <2>4. CallsOK(a, a \in ToSet(requests))'
    BY <1>1, <1>2, <1>3, <1>4, <1>5, <2>1, <2>2, AlarmAssumption DEF Shapes, CallsOK, INFINITE
  <2>5. ASSUME NEW b \in Alarms, b # a PROVE CallsOK(b, b \in ToSet(requests))'
    <3>1. Untouched(b)
      BY <1>1, <1>4, <2>1, <2>2, <2>5 DEF Shapes, Untouched
    <3>2. QED
      BY <1>1, <3>1, UntouchedKeeps
  <2>6. QED
    BY <2>3, <2>4, <2>5 DEF AlarmInv
<1>6. CASE k = 0
  <2>1. calling' = [calling EXCEPT ![a] = 1] /\ requests' = requests
    BY <1>3, <1>6 DEF Create, queue
  <2>2. Shapes'
    BY <1>1, <1>3, <1>4, <2>1, AlarmAssumption DEF Shapes
  <2>3. CallsOK(a, a \in ToSet(requests))'
    BY <1>1, <1>2, <1>3, <1>4, <1>6, <2>1, AlarmAssumption DEF Shapes, CallsOK, INFINITE
  <2>4. ASSUME NEW b \in Alarms, b # a PROVE CallsOK(b, b \in ToSet(requests))'
    <3>1. Untouched(b)
      BY <1>1, <1>4, <2>1, <2>4 DEF Shapes, Untouched
    <3>2. QED
      BY <1>1, <3>1, UntouchedKeeps
  <2>5. QED
    BY <2>2, <2>3, <2>4 DEF AlarmInv
<1>7. QED
  BY <1>3, <1>5, <1>6

LEMMA DeleteKeeps ==
  ASSUME AlarmInv, NEW a \in Alarms, Delete(a)
  PROVE  AlarmInv'
<1>1. Shapes /\ (\A b \in Alarms : CallsOK(b, b \in ToSet(requests)))
  BY DEF AlarmInv
<1>2. /\ alive' = alive \ {a} /\ calling' = calling /\ calling[a] = 0
      /\ ticks' = [ticks EXCEPT ![a] = Unset] /\ times' = [times EXCEPT ![a] = INFINITE]
      /\ asked' = [asked EXCEPT ![a] = INFINITE] /\ called' = [called EXCEPT ![a] = 0]
  BY DEF Delete
<1>3. /\ requests' \in Seq(Alarms) /\ IsInjective(requests')
      /\ ToSet(requests') = ToSet(requests) \ {a}
  BY <1>1, DequeueFacts DEF Shapes, Delete
<1>4. Shapes'
  BY <1>1, <1>2, <1>3 DEF Shapes, INFINITE
<1>5. CallsOK(a, a \in ToSet(requests))'
  BY <1>1, <1>2, <1>3 DEF Shapes, CallsOK, INFINITE
<1>6. ASSUME NEW b \in Alarms, b # a PROVE CallsOK(b, b \in ToSet(requests))'
  <2>1. Untouched(b)
    BY <1>1, <1>2, <1>3, <1>6 DEF Shapes, Untouched
  <2>2. QED
    BY <1>1, <2>1, UntouchedKeeps
<1>7. QED
  BY <1>4, <1>5, <1>6 DEF AlarmInv

LEMMA CallKeeps ==
  ASSUME AlarmInv, NEW a \in Alarms, Call(a)
  PROVE  AlarmInv'
<1>1. Shapes /\ (\A b \in Alarms : CallsOK(b, b \in ToSet(requests)))
  BY DEF AlarmInv
<1>2. /\ requests' = requests /\ ticks' = ticks /\ times' = times
      /\ alive' = alive /\ asked' = asked
      /\ calling[a] > 0 /\ calling' = [calling EXCEPT ![a] = @ - 1]
      /\ called' = IF asked[a] = INFINITE THEN called ELSE [called EXCEPT ![a] = @ + 1]
  BY DEF Call, queue, object
<1>3. calling[a] \in 0..MaxCalls /\ called[a] \in Nat /\ MaxCalls \in Nat
  BY <1>1, AlarmAssumption DEF Shapes
<1>4. Shapes'
  BY <1>1, <1>2, <1>3 DEF Shapes
<1>5. CallsOK(a, a \in ToSet(requests))'
  <2>1. /\ calling'[a] = calling[a] - 1
        /\ called'[a] = IF asked[a] = INFINITE THEN called[a] ELSE called[a] + 1
    BY <1>1, <1>2 DEF Shapes
  <2>2. a \in alive
    BY <1>1, <1>2 DEF CallsOK
  <2>3. QED
    BY <1>1, <1>2, <1>3, <2>1, <2>2 DEF CallsOK
<1>6. ASSUME NEW b \in Alarms, b # a PROVE CallsOK(b, b \in ToSet(requests))'
  <2>1. Untouched(b)
    BY <1>1, <1>2, <1>6 DEF Shapes, Untouched
  <2>2. QED
    BY <1>1, <2>1, UntouchedKeeps
<1>7. QED
  BY <1>4, <1>5, <1>6 DEF AlarmInv

(* handler() serves the head: one time less, one call more, and it stays   *)
(* in the queue as long as it has times left.                              *)
LEMMA ServeKeeps ==
  ASSUME AlarmInv, NEW rk, requests # << >>, calling[Head(requests)] < MaxCalls,
         Serve(rk), UNCHANGED <<ticks, alive, asked, called>>
  PROVE  AlarmInv'
<1>1. Shapes /\ (\A b \in Alarms : CallsOK(b, b \in ToSet(requests)))
  BY DEF AlarmInv
<1> PICK a \in Alarms : a = Head(requests)
  BY <1>1, HeadFacts DEF Shapes
<1>2. a \in ToSet(requests)
  BY <1>1, HeadFacts DEF Shapes
<1>3. /\ Tail(requests) \in Seq(Alarms) /\ IsInjective(Tail(requests))
      /\ ToSet(Tail(requests)) = ToSet(requests) \ {a}
  BY <1>1, TailFacts DEF Shapes
<1>4. /\ times' = [times EXCEPT ![a] = CountedDown(a)]
      /\ calling' = [calling EXCEPT ![a] = @ + 1]
      /\ ticks' = ticks /\ alive' = alive /\ asked' = asked /\ called' = called
      /\ \/ times'[a] # 0 /\ Enqueue(Tail(requests), rk, a, ticks[a])
         \/ times'[a] = 0 /\ requests' = Tail(requests)
  BY DEF Serve
<1>5. calling[a] \in 0..MaxCalls /\ calling[a] + 1 \in 0..MaxCalls
  BY <1>1, <1>2, AlarmAssumption DEF Shapes
<1>6. CountedDown(a) \in Int
  BY <1>1, <1>2 DEF Shapes, CountedDown, INFINITE
<1>7. /\ requests' \in Seq(Alarms) /\ IsInjective(requests')
      /\ ToSet(requests') = IF times'[a] # 0 THEN ToSet(requests) ELSE ToSet(requests) \ {a}
  <2>1. CASE times'[a] # 0
    <3>1. Enqueue(Tail(requests), rk, a, ticks[a]) /\ a \notin ToSet(Tail(requests))
      BY <1>3, <1>4, <2>1
    <3>2. /\ requests' \in Seq(Alarms) /\ IsInjective(requests')
          /\ ToSet(requests') = ToSet(Tail(requests)) \cup {a}
      BY <1>3, <3>1, EnqueueFacts
    <3>3. QED
      BY <1>2, <1>3, <2>1, <3>2
  <2>2. CASE times'[a] = 0
    BY <1>3, <1>4, <2>2
  <2>3. QED
    BY <2>1, <2>2
<1>8. Shapes'
  BY <1>1, <1>4, <1>5, <1>6, <1>7 DEF Shapes
<1>9. CallsOK(a, a \in ToSet(requests))'
  <2>1. /\ times'[a] = CountedDown(a) /\ calling'[a] = calling[a] + 1
        /\ ticks[a] > 0 /\ times[a] # 0 /\ a \in alive
        /\ a \in ToSet(requests') <=> times'[a] # 0
    BY <1>1, <1>2, <1>4, <1>7 DEF Shapes, CallsOK
  <2>2. /\ called[a] \in Nat /\ times[a] \in Int /\ asked[a] \in Times \cup {INFINITE}
        /\ IF asked[a] = INFINITE THEN times[a] = INFINITE
           ELSE called[a] + calling[a] + times[a] = asked[a] /\ times[a] \in Nat \ {0}
    BY <1>1, <2>1 DEF CallsOK
  <2>3. CASE asked[a] = INFINITE
    <3>1. times'[a] = INFINITE /\ a \in ToSet(requests')
      BY <2>1, <2>2, <2>3 DEF CountedDown, INFINITE
    <3>2. QED
      BY <1>1, <1>4, <1>5, <2>1, <2>2, <2>3, <3>1 DEF CallsOK, INFINITE
  <2>4. CASE asked[a] # INFINITE
    <3>1. times'[a] = times[a] - 1 /\ times'[a] \in Nat
      BY <2>1, <2>2, <2>4 DEF CountedDown, INFINITE
    <3>2. called'[a] + calling'[a] + times'[a] = asked'[a]
      <4>1. called'[a] = called[a] /\ asked'[a] = asked[a]
        OBVIOUS
      <4>2. called[a] \in Int /\ calling[a] \in Int /\ times[a] \in Int
        BY <1>1, <2>2 DEF Shapes
      <4>3. calling'[a] = calling[a] + 1 /\ called[a] + calling[a] + times[a] = asked[a]
        BY <2>1, <2>2, <2>4
      <4> QED
        BY ONLY <3>1, <4>1, <4>2, <4>3
    <3>3. QED
      BY <1>1, <1>4, <1>5, <2>1, <2>2, <2>4, <3>1, <3>2 DEF CallsOK
  <2>5. QED
    BY <2>3, <2>4
<1>10. ASSUME NEW b \in Alarms, b # a PROVE CallsOK(b, b \in ToSet(requests))'
  <2>1. Untouched(b)
    BY <1>1, <1>4, <1>7, <1>10 DEF Shapes, Untouched
  <2>2. QED
    BY <1>1, <2>1, UntouchedKeeps
<1>11. QED
  BY <1>8, <1>9, <1>10 DEF AlarmInv

LEMMA TickKeeps ==
  ASSUME AlarmInv, Tick
  PROVE  AlarmInv'
<1> DEFINE rk == [rank EXCEPT ![Head(requests)] = @ - 1]
<1>1. /\ requests # << >> /\ calling[Head(requests)] < MaxCalls
      /\ UNCHANGED <<ticks, alive, asked, called>>
      /\ Serve(rk) \/ UNCHANGED <<requests, times, calling>>
  BY DEF Tick
<1> HIDE DEF rk
<1>2. CASE Serve(rk)
  BY <1>1, <1>2, ServeKeeps
<1>3. CASE UNCHANGED <<requests, times, calling>>
  BY <1>1, <1>3 DEF AlarmInv, Shapes, CallsOK
<1>4. QED
  BY <1>1, <1>2, <1>3

(* The inductive invariant of the alarms' calls.                           *)
THEOREM AlarmInvariantHolds == Spec => []AlarmInv
<1>1. AlarmInv /\ [Next]_vars => AlarmInv'
  <2> SUFFICES ASSUME AlarmInv, [Next]_vars PROVE AlarmInv'
    OBVIOUS
  <2>1. ASSUME NEW a \in Alarms, NEW k \in Periods, NEW n \in Times \cup {INFINITE},
               Create(a, k, n)
        PROVE  AlarmInv'
    BY <2>1, CreateKeeps
  <2>2. ASSUME NEW a \in Alarms, Delete(a) PROVE AlarmInv'
    BY <2>2, DeleteKeeps
  <2>3. ASSUME NEW a \in Alarms, Call(a) PROVE AlarmInv'
    BY <2>3, CallKeeps
  <2>4. CASE Tick
    BY <2>4, TickKeeps
  <2>5. CASE UNCHANGED vars
    BY <2>5 DEF AlarmInv, Shapes, CallsOK, vars, queue, object
  <2>6. QED
    BY <2>1, <2>2, <2>3, <2>4, <2>5 DEF Next
<1>2. QED
  BY <1>1, AlarmInitInv, PTL DEF Spec

(* An alarm is called as often as it was asked for, however many others    *)
(* are created, destroyed and due at the same tick, and however late the   *)
(* calls are made: handler() loses no call and makes none up.              *)
THEOREM CalledAsAskedHolds == Spec => []CalledAsAsked
<1>1. AlarmInv => CalledAsAsked
  <2> SUFFICES ASSUME AlarmInv, NEW a \in alive, asked[a] # INFINITE, ticks[a] > 0
               PROVE  /\ called[a] + calling[a] + times[a] = asked[a]
                      /\ a \in ToSet(requests) <=> times[a] > 0
    BY DEF CalledAsAsked
  <2>1. CallsOK(a, a \in ToSet(requests))
    BY DEF AlarmInv, Shapes
  <2>2. QED
    BY <2>1 DEF CallsOK
<1>2. QED
  BY <1>1, AlarmInvariantHolds, PTL

-----------------------------------------------------------------------------
(* The sums of relative ranks                                              *)

(* f sums the ranks of l, from the front.                                  *)
Sums(l, rk, f) ==
    /\ f \in [0..Len(l) -> Int]
    /\ f[0] = 0
    /\ \A j \in 1..Len(l) : f[j] = f[j-1] + rk[l[j]]

(* By induction: the least length without such sums has a predecessor.     *)
LEMMA SumsExist ==
  ASSUME NEW l \in Seq(Alarms), NEW rk \in [Alarms -> Int]
  PROVE  \E f : Sums(l, rk, f)
<1> DEFINE UpTo(n, f) == f[0] = 0 /\ \A j \in 1..n : f[j] = f[j-1] + rk[l[j]]
           G(n) == \E f \in [0..n -> Int] : UpTo(n, f)
           T == {n \in 0..Len(l) : ~G(n)}
<1>1. Len(l) \in Nat /\ \A j \in 1..Len(l) : rk[l[j]] \in Int
  OBVIOUS
<1>2. G(0)
  <2> DEFINE z == [i \in 0..0 |-> 0]
  <2>1. z \in [0..0 -> Int] /\ UpTo(0, z)
    OBVIOUS
  <2> HIDE DEF z, UpTo
  <2>2. QED
    BY <2>1
<1>3. ASSUME NEW n \in 1..Len(l), G(n-1) PROVE G(n)
  <2>1. PICK f \in [0..n-1 -> Int] : UpTo(n-1, f)
    BY <1>3
  <2> DEFINE g == [i \in 0..n |-> IF i = n THEN f[n-1] + rk[l[n]] ELSE f[i]]
  <2>2. g \in [0..n -> Int]
    BY <1>1
  <2>3. UpTo(n, g)
    BY <2>1
  <2>4. QED
    BY <2>2, <2>3
<1> HIDE DEF G
<1>4. T = {}
  <2> SUFFICES ASSUME T # {} PROVE FALSE
    OBVIOUS
  <2>0. T \in SUBSET Nat
    BY <1>1
  <2>1. PICK n \in T : \A m \in T : n <= m
    BY <2>0, LeastNatural
  <2>2. n \in 1..Len(l) /\ n-1 \in 0..Len(l) /\ n-1 \notin T
    BY <1>1, <1>2, <2>1
  <2>3. QED
    BY <1>3, <2>1, <2>2
<1>5. G(Len(l))
  BY <1>1, <1>4
<1>6. QED
  BY <1>5 DEF Sums, G

(* Until is what its recursion says.                                       *)
LEMMA UntilSums ==
  ASSUME NEW l \in Seq(Alarms), NEW rk \in [Alarms -> Int]
  PROVE  /\ \A i \in 0..Len(l) : Until(l, rk, i) \in Int
         /\ Until(l, rk, 0) = 0
         /\ \A i \in 1..Len(l) : Until(l, rk, i) = Until(l, rk, i-1) + rk[l[i]]
<1> DEFINE F(f) == [j \in 0..Len(l) |-> IF j = 0 THEN 0 ELSE f[j-1] + rk[l[j]]]
           u == CHOOSE f : f = F(f)
<1>1. Len(l) \in Nat /\ \A j \in 1..Len(l) : rk[l[j]] \in Int
  OBVIOUS
<1>2. PICK f : Sums(l, rk, f)
  BY SumsExist
<1>3. f = F(f)
  BY <1>1, <1>2 DEF Sums
<1>4. u = F(u)
  BY <1>3
<1>5. \A i : Until(l, rk, i) = u[i]
  BY DEF Until
<1>6. \A i \in 0..Len(l) : Until(l, rk, i) = IF i = 0 THEN 0 ELSE Until(l, rk, i-1) + rk[l[i]]
  <2> HIDE DEF u
  <2>1. QED
    BY <1>4, <1>5
<1>7. \A i \in 0..Len(l) : Until(l, rk, i) = f[i]
  <2> DEFINE T == {i \in 0..Len(l) : Until(l, rk, i) # f[i]}
  <2> SUFFICES ASSUME T # {} PROVE FALSE
    OBVIOUS
  <2>0. T \in SUBSET Nat
    BY <1>1
  <2>1. PICK n \in T : \A m \in T : n <= m
    BY <2>0, LeastNatural
  <2>2. n \in 1..Len(l) /\ n-1 \in 0..Len(l) /\ n-1 \notin T
    BY <1>1, <1>2, <1>6, <2>1 DEF Sums
  <2>3. Until(l, rk, n) = Until(l, rk, n-1) + rk[l[n]] /\ f[n] = f[n-1] + rk[l[n]]
    BY <1>1, <1>2, <1>6, <2>2 DEF Sums
  <2>4. QED
    BY <2>1, <2>2, <2>3
<1>8. \A i \in 0..Len(l) : Until(l, rk, i) \in Int
  BY <1>2, <1>7 DEF Sums
<1>9. 0 \in 0..Len(l) /\ \A i \in 1..Len(l) : i \in 0..Len(l) /\ i # 0
  BY <1>1
<1>10. QED
  BY <1>6, <1>8, <1>9

(* No other function has those sums.                                       *)
LEMMA UntilUnique ==
  ASSUME NEW l \in Seq(Alarms), NEW rk \in [Alarms -> Int], NEW f, Sums(l, rk, f)
  PROVE  \A i \in 0..Len(l) : Until(l, rk, i) = f[i]
<1> DEFINE T == {i \in 0..Len(l) : Until(l, rk, i) # f[i]}
<1> SUFFICES ASSUME T # {} PROVE FALSE
  OBVIOUS
<1>1. Len(l) \in Nat
  OBVIOUS
<1>0. T \in SUBSET Nat
  BY <1>1
<1>2. PICK n \in T : \A m \in T : n <= m
  BY <1>0, LeastNatural
<1>3. n \in 1..Len(l) /\ n-1 \in 0..Len(l) /\ n-1 \notin T
  BY <1>1, <1>2, UntilSums DEF Sums
<1>4. Until(l, rk, n) = Until(l, rk, n-1) + rk[l[n]] /\ f[n] = f[n-1] + rk[l[n]]
  BY <1>3, UntilSums DEF Sums
<1>5. QED
  BY <1>2, <1>3, <1>4

(* No rank of l is negative: a queue before and after a tick.              *)
Ascending(l, rk) == \A x \in ToSet(l) : rk[x] >= 0

LEMMA UntilAscends ==
  ASSUME NEW l \in Seq(Alarms), NEW rk \in [Alarms -> Int], Ascending(l, rk)
  PROVE  \A i, j \in 0..Len(l) : i <= j => Until(l, rk, i) <= Until(l, rk, j)
<1> SUFFICES ASSUME NEW i \in 0..Len(l)
             PROVE  \A j \in 0..Len(l) : i <= j => Until(l, rk, i) <= Until(l, rk, j)
  OBVIOUS
<1> DEFINE T == {j \in i..Len(l) : ~(Until(l, rk, i) <= Until(l, rk, j))}
<1>1. Len(l) \in Nat
  OBVIOUS
<1>2. \A j \in 0..Len(l) : Until(l, rk, j) \in Int
  BY UntilSums
<1>3. T = {}
  <2> SUFFICES ASSUME T # {} PROVE FALSE
    OBVIOUS
  <2>0. T \in SUBSET Nat
    BY <1>1
  <2>1. PICK n \in T : \A m \in T : n <= m
    BY <2>0, LeastNatural
  <2>2. n # i
    BY <1>2, <2>1
  <2>3. n \in 1..Len(l) /\ n-1 \in i..Len(l) /\ n-1 \notin T
    BY <1>1, <2>1, <2>2
  <2>4. l[n] \in ToSet(l)
    BY <2>3 DEF ToSet
  <2>5. Until(l, rk, n) = Until(l, rk, n-1) + rk[l[n]] /\ rk[l[n]] >= 0 /\ rk[l[n]] \in Int
    BY <2>3, <2>4, UntilSums DEF Ascending
  <2>6. Until(l, rk, i) <= Until(l, rk, n-1)
    BY <2>3
  <2>7. Until(l, rk, i) \in Int /\ Until(l, rk, n-1) \in Int /\ n \in i..Len(l)
    BY <1>1, <1>2, <2>3
  <2>8. Until(l, rk, i) <= Until(l, rk, n)
    BY <2>5, <2>6, <2>7
  <2>9. QED
    BY <2>1, <2>8
<1>4. QED
  BY <1>1, <1>3

(* The countdown of each place of a list without repetitions.              *)
LEMMA CountdownAt ==
  ASSUME NEW l \in Seq(Alarms), IsInjective(l), NEW rk
  PROVE  /\ \A i \in 1..Len(l) : Countdown(l, rk, l[i]) = Until(l, rk, i)
         /\ \A a \in ToSet(l) : \E i \in 1..Len(l) : a = l[i]
<1>1. DOMAIN l = 1..Len(l)
  OBVIOUS
<1>2. ASSUME NEW i \in 1..Len(l) PROVE Countdown(l, rk, l[i]) = Until(l, rk, i)
  <2> DEFINE c == CHOOSE j \in DOMAIN l : l[j] = l[i]
  <2>1. c \in 1..Len(l) /\ l[c] = l[i]
    BY <1>1
  <2>2. c = i
    BY <1>1, <2>1 DEF IsInjective
  <2>3. l[i] \in ToSet(l)
    BY <1>1 DEF ToSet
  <2>4. QED
    BY <2>2, <2>3 DEF Countdown
<1>3. QED
  BY <1>1, <1>2 DEF ToSet

(* The sums of a list without repetitions are its countdowns.              *)
LEMMA CountdownsAreSums ==
  ASSUME NEW m \in Seq(Alarms), IsInjective(m), NEW qk \in [Alarms -> Int],
         NEW f, Sums(m, qk, f)
  PROVE  \A i \in 1..Len(m) : Countdown(m, qk, m[i]) = f[i]
<1>1. ASSUME NEW i \in 1..Len(m) PROVE Countdown(m, qk, m[i]) = f[i]
  <2>1. i \in 0..Len(m)
    OBVIOUS
  <2>2. Until(m, qk, i) = f[i]
    BY <2>1, UntilUnique
  <2>3. Countdown(m, qk, m[i]) = Until(m, qk, i)
    BY CountdownAt
  <2>4. QED
    BY <2>2, <2>3
<1>2. QED
  BY <1>1

(* The alarms that insert() walks past are those due no later than k.      *)
LEMMA WalkedFacts ==
  ASSUME NEW l \in Seq(Alarms), NEW rk \in [Alarms -> Int], NEW k \in Nat
  PROVE  /\ Walked(l, rk, k) \in 0..Len(l)
         /\ Until(l, rk, Walked(l, rk, k)) <= k
         /\ Walked(l, rk, k) < Len(l) => Until(l, rk, Walked(l, rk, k) + 1) > k
<1> DEFINE W == {i \in 1..Len(l) : \A j \in 1..i : Until(l, rk, j) <= k}
           n == Walked(l, rk, k)
           places == [i \in 1..Len(l) |-> i]
           due == [i \in 0..Len(l) |-> IF i = 0 THEN k ELSE Until(l, rk, i)]
<1>1. Len(l) \in Nat /\ \A i \in 0..Len(l) : Until(l, rk, i) \in Int
  BY UntilSums
<1>2. places \in Seq(Nat) /\ Len(places) = Len(l)
  BY <1>1
<1>3. W = Passed(places, due, 0)
  <2>1. ASSUME NEW j \in 1..Len(l) PROVE due[places[j]] = Until(l, rk, j) /\ due[0] = k
    BY <1>1
  <2>2. ASSUME NEW i \in 1..Len(l)
        PROVE  (\A j \in 1..i : Until(l, rk, j) <= k) <=> \A j \in 1..i : due[places[j]] <= due[0]
    <3>1. \A j \in 1..i : j \in 1..Len(l)
      BY <1>1
    <3> HIDE DEF places, due
    <3>2. QED
      BY <2>1, <3>1
  <2> HIDE DEF places, due
  <2>3. QED
    BY <1>2, <2>2 DEF Passed
<1>4. n = Cardinality(W)
  BY DEF Walked
<1> HIDE DEF places, due, W
<1>5. n \in 0..Len(l) /\ W = 1..n
  BY <1>2, <1>3, <1>4, PassedIsPrefix
<1> HIDE DEF n
<1>6. Until(l, rk, n) <= k
  <2>1. CASE n = 0
    BY <2>1, UntilSums
  <2>2. CASE n # 0
    <3>1. n \in W /\ n \in 1..n
      BY <1>1, <1>5, <2>2
    <3>2. QED
      BY <3>1 DEF W
  <2>3. QED
    BY <2>1, <2>2
<1>7. ASSUME n < Len(l) PROVE Until(l, rk, n + 1) > k
  <2>1. n + 1 \in 1..Len(l) /\ n + 1 \notin W
    BY <1>1, <1>5, <1>7
  <2>2. PICK j \in 1..n+1 : ~(Until(l, rk, j) <= k)
    BY <2>1 DEF W
  <2>3. j \notin 1..n
    BY <1>5, <2>2 DEF W
  <2>4. j = n + 1
    BY <1>1, <1>5, <2>3
  <2>5. QED
    BY <1>1, <2>1, <2>2, <2>4
<1>8. QED
  BY <1>5, <1>6, <1>7 DEF n

(* insert() leaves the others' countdowns as they are, and no rank below   *)
(* zero: what it walks past is taken off the new rank, and that one off    *)
(* the next.                                                               *)
LEMMA EnqueueCounts ==
  ASSUME NEW l \in Seq(Alarms), IsInjective(l), NEW rk \in [Alarms -> Int], Ascending(l, rk),
         NEW a \in Alarms, a \notin ToSet(l), NEW k \in Nat, Enqueue(l, rk, a, k)
  PROVE  /\ rank' \in [Alarms -> Int]
         /\ Ascending(requests', rank')
         /\ \A x \in Alarms :
              Countdown(requests', rank', x) = IF x = a THEN k ELSE Countdown(l, rk, x)
<1> DEFINE n == Walked(l, rk, k)
           mine == k - Until(l, rk, n)
           m == requests'
           f == [i \in 0..Len(l)+1 |-> IF i <= n THEN Until(l, rk, i)
                                       ELSE IF i = n + 1 THEN k ELSE Until(l, rk, i-1)]
<1>1. Len(l) \in Nat /\ (\A i \in 1..Len(l) : l[i] \in Alarms /\ l[i] \in ToSet(l))
  BY DEF ToSet
<1>2. \A i \in 0..Len(l) : Until(l, rk, i) \in Int
  BY UntilSums
<1>3. \A i \in 1..Len(l) : Until(l, rk, i) = Until(l, rk, i-1) + rk[l[i]]
  BY UntilSums
<1>4. n \in 0..Len(l) /\ Until(l, rk, n) <= k /\ (n < Len(l) => Until(l, rk, n + 1) > k)
  BY WalkedFacts
<1>5. m \in Seq(Alarms) /\ IsInjective(m) /\ ToSet(m) = ToSet(l) \cup {a}
  BY EnqueueFacts
<1>6. m = InsertAt(l, n + 1, a)
  BY DEF Enqueue
<1>7. rank' = [b \in Alarms |-> CASE b = a -> mine
                                  [] n < Len(l) /\ b = l[n + 1] -> rk[b] - mine
                                  [] OTHER -> rk[b]]
  BY DEF Enqueue
<1> HIDE DEF n
<1>8. Spliced(m, l, n + 1, a)
  BY <1>1, <1>4, <1>6, InsertAtElements
<1> HIDE DEF m
<1>9. mine \in Nat
  BY <1>2, <1>4
<1>10. \A i \in 1..Len(l) : l[i] # a
  BY <1>1
<1>11. /\ rank'[a] = mine
       /\ n < Len(l) => rank'[l[n+1]] = rk[l[n+1]] - mine
       /\ \A b \in Alarms : b # a /\ ~(n < Len(l) /\ b = l[n+1]) => rank'[b] = rk[b]
  BY <1>1, <1>4, <1>7, <1>10
<1> HIDE DEF mine
<1>12. rank' \in [Alarms -> Int]
  <2>1. \A b \in Alarms : rank'[b] \in Int
    BY <1>9, <1>11
  <2>2. QED
    BY <1>7, <2>1
<1>13. Sums(m, rank', f)
  <2>1. Len(m) = Len(l) + 1 /\ f \in [0..Len(m) -> Int] /\ f[0] = 0
    BY <1>1, <1>2, <1>4, <1>8, UntilSums DEF Spliced
  <2>2. ASSUME NEW j \in 1..Len(m) PROVE f[j] = f[j-1] + rank'[m[j]]
    <3>1. m[j] = IF j < n + 1 THEN l[j] ELSE IF j = n + 1 THEN a ELSE l[j-1]
      BY <1>8, <2>1 DEF Spliced
    <3>2. CASE j < n + 1
      <4>1. j \in 1..Len(l) /\ j <= n /\ m[j] = l[j]
        BY <1>1, <1>4, <3>1, <3>2
      <4>2. l[j] # a /\ ~(n < Len(l) /\ l[j] = l[n+1])
        BY <1>1, <1>4, <1>10, <4>1 DEF IsInjective
      <4>3. rank'[m[j]] = rk[l[j]]
        BY <1>1, <1>11, <4>1, <4>2
      <4>4. f[j] = Until(l, rk, j) /\ f[j-1] = Until(l, rk, j-1)
        BY <1>1, <1>4, <2>1, <4>1
      <4>5. QED
        BY <1>3, <4>1, <4>3, <4>4
    <3>3. CASE j = n + 1
      <4>1. f[j] = k /\ f[j-1] = Until(l, rk, n) /\ m[j] = a
        BY <1>1, <1>4, <2>1, <3>1, <3>3
      <4>2. QED
        BY <1>2, <1>4, <1>11, <4>1 DEF mine
    <3>4. CASE j = n + 2
      <4> HIDE DEF f
      <4>1. n < Len(l) /\ m[j] = l[n+1] /\ n + 1 \in 1..Len(l) /\ (n + 1) - 1 = n
        <5>1. n \in Nat /\ n < Len(l) /\ n + 1 \in 1..Len(l) /\ (n + 1) - 1 = n
          BY <1>1, <1>4, <2>1, <3>4
        <5>2. ~(j < n + 1) /\ j # n + 1 /\ j - 1 = n + 1
          BY <3>4, <5>1
        <5>3. m[j] = l[j-1]
          BY <3>1, <5>2
        <5>4. QED
          BY <5>1, <5>2, <5>3
      <4> USE DEF f
      <4>2. f[j] = Until(l, rk, n + 1) /\ f[j-1] = k
        BY <1>1, <1>4, <2>1, <3>4
      <4>3. Until(l, rk, n + 1) = Until(l, rk, n) + rk[l[n+1]]
        BY <1>3, <4>1
      <4>4. rank'[m[j]] = rk[l[n+1]] - mine /\ rk[l[n+1]] \in Int
        BY <1>1, <1>11, <4>1
      <4>5. Until(l, rk, n) \in Int /\ mine = k - Until(l, rk, n)
        BY <1>2, <1>4 DEF mine
      <4> HIDE DEF f
      <4>6. QED
        BY <4>2, <4>3, <4>4, <4>5
    <3>5. CASE j > n + 2
      <4>1. j - 1 \in 1..Len(l) /\ j - 1 > n + 1 /\ m[j] = l[j-1]
        BY <1>1, <1>4, <2>1, <3>1, <3>5
      <4>2. l[j-1] # a /\ ~(n < Len(l) /\ l[j-1] = l[n+1])
        BY <1>1, <1>4, <1>10, <4>1 DEF IsInjective
      <4>3. rank'[m[j]] = rk[l[j-1]]
        BY <1>1, <1>11, <4>1, <4>2
      <4>4. f[j] = Until(l, rk, j-1) /\ f[j-1] = Until(l, rk, (j-1)-1)
        BY <1>1, <1>4, <2>1, <3>5
      <4>5. QED
        BY <1>3, <4>1, <4>3, <4>4
    <3>6. QED
      BY <1>4, <3>2, <3>3, <3>4, <3>5
  <2>3. QED
    BY <2>1, <2>2 DEF Sums
<1> HIDE DEF f
<1>14. ASSUME NEW x \in ToSet(m) PROVE rank'[x] >= 0
  <2>1. CASE x = a
    BY <1>9, <1>11, <2>1
  <2>2. CASE n < Len(l) /\ x = l[n+1] /\ x # a
    <3>1. n + 1 \in 1..Len(l) /\ (n + 1) - 1 = n
      BY <1>1, <1>4, <2>2
    <3>2. Until(l, rk, n + 1) = Until(l, rk, n) + rk[l[n+1]] /\ rk[l[n+1]] \in Int
      BY <1>1, <1>3, <3>1
    <3>3. rank'[x] = rk[l[n+1]] - mine
      BY <1>11, <2>2
    <3>4. Until(l, rk, n) \in Int /\ Until(l, rk, n + 1) \in Int /\ Until(l, rk, n + 1) > k
      BY <1>2, <1>4, <2>2, <3>1
    <3>5. QED
      BY <3>2, <3>3, <3>4 DEF mine
  <2>3. CASE x # a /\ ~(n < Len(l) /\ x = l[n+1])
    <3>1. x \in ToSet(l)
      BY <1>5, <2>3
    <3>2. QED
      BY <1>11, <2>3, <3>1, HeadFacts DEF Ascending
  <2>4. QED
    BY <2>1, <2>2, <2>3
<1>15. \A i \in 1..Len(m) : Countdown(m, rank', m[i]) = f[i]
  BY <1>5, <1>12, <1>13, CountdownsAreSums
<1>16. ASSUME NEW x \in Alarms
       PROVE  Countdown(m, rank', x) = IF x = a THEN k ELSE Countdown(l, rk, x)
  <2>1. Len(m) = Len(l) + 1
    BY <1>8 DEF Spliced
  <2>2. CASE x = a
    <3>1. n + 1 \in 1..Len(m) /\ m[n+1] = a /\ f[n+1] = k
      BY <1>1, <1>4, <1>8, <2>1 DEF Spliced, f
    <3>2. QED
      BY <1>15, <2>2, <3>1
  <2>3. CASE x # a /\ x \in ToSet(l)
    <3>1. PICK i \in 1..Len(l) : x = l[i]
      BY <2>3, CountdownAt
    <3>2. Countdown(l, rk, x) = Until(l, rk, i)
      BY <3>1, CountdownAt
    <3>3. CASE i <= n
      <4>1. i \in 1..Len(m) /\ m[i] = x /\ f[i] = Until(l, rk, i)
        BY <1>1, <1>4, <1>8, <2>1, <3>1, <3>3 DEF Spliced, f
      <4>2. QED
        BY <1>15, <2>3, <3>2, <4>1
    <3>4. CASE i > n
      <4>1. i + 1 \in 1..Len(m) /\ (i + 1) - 1 = i /\ i + 1 > n + 1
        BY <1>1, <1>4, <2>1, <3>1, <3>4
      <4>2. m[i+1] = x /\ f[i+1] = Until(l, rk, i)
        BY <1>1, <1>4, <1>8, <2>1, <3>1, <4>1 DEF Spliced, f
      <4>3. QED
        BY <1>15, <2>3, <3>2, <4>1, <4>2
    <3>5. QED
      BY <1>4, <3>3, <3>4
  <2>4. CASE x # a /\ x \notin ToSet(l)
    BY <1>5, <2>4 DEF Countdown
  <2>5. QED
    BY <2>2, <2>3, <2>4
<1>17. QED
  BY <1>12, <1>14, <1>16 DEF m, Ascending

(* Ranks that agree on a list count the same.                              *)
LEMMA CountdownCongruence ==
  ASSUME NEW l \in Seq(Alarms), IsInjective(l), NEW rk \in [Alarms -> Int],
         NEW qk \in [Alarms -> Int], \A x \in ToSet(l) : qk[x] = rk[x]
  PROVE  \A x \in Alarms : Countdown(l, qk, x) = Countdown(l, rk, x)
<1> DEFINE f == [i \in 0..Len(l) |-> Until(l, rk, i)]
<1>1. Len(l) \in Nat /\ \A i \in 1..Len(l) : l[i] \in ToSet(l)
  BY DEF ToSet
<1>2. Sums(l, qk, f)
  BY <1>1, UntilSums DEF Sums
<1>3. \A i \in 1..Len(l) : Countdown(l, qk, l[i]) = f[i]
  <2> HIDE DEF f
  <2>1. QED
    BY <1>2, CountdownsAreSums
<1>4. ASSUME NEW x \in ToSet(l) PROVE Countdown(l, qk, x) = Countdown(l, rk, x)
  <2>1. PICK i \in 1..Len(l) : x = l[i]
    BY CountdownAt
  <2>2. Countdown(l, rk, l[i]) = Until(l, rk, i) /\ f[i] = Until(l, rk, i)
    BY <1>1, CountdownAt
  <2> HIDE DEF f
  <2>3. QED
    BY <1>3, <2>1, <2>2
<1>5. QED
  BY <1>4 DEF Countdown

(* remove() leaves the others' countdowns as they are: the rank it takes   *)
(* away is added to the next.                                              *)
LEMMA DequeueCounts ==
  ASSUME requests \in Seq(Alarms), IsInjective(requests), rank \in [Alarms -> Int],
         Ascending(requests, rank), NEW a \in Alarms, Dequeue(a)
  PROVE  /\ rank' \in [Alarms -> Int]
         /\ Ascending(requests', rank')
         /\ \A x \in Alarms :
              Countdown(requests', rank', x)
                = IF x = a THEN 0 ELSE Countdown(requests, rank, x)
<1> DEFINE l == requests
           m == requests'
           Follows(b) == \E i \in 2..Len(l) : l[i] = b /\ l[i-1] = a
<1>1. Len(l) \in Nat /\ DOMAIN l = 1..Len(l)
      /\ (\A i \in 1..Len(l) : l[i] \in Alarms /\ l[i] \in ToSet(l))
  BY DEF ToSet
<1>2. \A b \in Alarms : rank'[b] = IF Follows(b) THEN rank[b] + rank[a]
                                   ELSE IF b = a THEN 0 ELSE rank[b]
  BY DEF Dequeue
<1>3. rank' \in [Alarms -> Int]
  <2>1. \A b \in Alarms : rank[b] \in Int /\ rank'[b] \in Int
    BY <1>2
  <2>2. \E f : rank' = [b \in Alarms |-> f[b]]
    <3> DEFINE f == [b \in Alarms |-> IF Follows(b) THEN rank[b] + rank[a]
                                      ELSE IF b = a THEN 0 ELSE rank[b]]
    <3>1. rank' = f
      BY DEF Dequeue
    <3> HIDE DEF Follows
    <3>2. f = [b \in Alarms |-> f[b]]
      OBVIOUS
    <3>3. QED
      BY <3>1, <3>2
  <2>3. QED
    BY <2>1, <2>2
<1>4. m \in Seq(Alarms) /\ IsInjective(m) /\ ToSet(m) = ToSet(l) \ {a}
  BY DequeueFacts
<1>5. m = ListRemove(l, a)
  BY DEF Dequeue
<1>6. ASSUME NEW x \in ToSet(m) PROVE rank'[x] >= 0
  <2>1. x \in ToSet(l) /\ x \in Alarms /\ x # a
    BY <1>1, <1>4 DEF ToSet
  <2>2. Follows(x) => a \in ToSet(l)
    BY <1>1
  <2>3. rank[x] >= 0 /\ rank[x] \in Int /\ rank[a] \in Int /\ (a \in ToSet(l) => rank[a] >= 0)
    BY <2>1 DEF Ascending
  <2>4. QED
    BY <1>2, <2>1, <2>2, <2>3
<1>7. CASE a \notin ToSet(l)
  <2>1. m = l
    BY <1>5, <1>7 DEF ListRemove
  <2>2. \A b \in Alarms : ~Follows(b)
    BY <1>1, <1>7
  <2>3. \A x \in ToSet(l) : rank'[x] = rank[x]
    BY <1>1, <1>2, <1>7, <2>2 DEF ToSet
  <2>4. \A x \in Alarms : Countdown(l, rank', x) = Countdown(l, rank, x)
    BY <1>3, <2>3, CountdownCongruence
  <2>5. Countdown(l, rank', a) = 0
    BY <1>7 DEF Countdown
  <2>6. QED
    BY <1>3, <1>6, <2>1, <2>4, <2>5 DEF Ascending
<1>8. CASE a \in ToSet(l)
  <2> DEFINE p == CHOOSE i \in DOMAIN l : l[i] = a
             f == [i \in 0..Len(l)-1 |-> IF i < p THEN Until(l, rank, i) ELSE Until(l, rank, i+1)]
  <2>1. p \in 1..Len(l) /\ l[p] = a
    BY <1>1, <1>8 DEF ToSet
  <2>2. m = RemoveAt(l, p)
    BY <1>5, <1>8 DEF ListRemove
  <2> HIDE DEF p
  <2>3. /\ Len(m) = Len(l) - 1
        /\ \A i \in 1..Len(l)-1 : m[i] = IF i < p THEN l[i] ELSE l[i+1]
    BY <2>1, <2>2, RemoveAtElements
  <2> HIDE DEF m
  <2>4. ASSUME NEW i \in 1..Len(l) PROVE Follows(l[i]) <=> i = p + 1
    <3>1. ASSUME NEW j \in 2..Len(l), l[j] = l[i], l[j-1] = a PROVE i = p + 1
      <4>0. j \in 1..Len(l) /\ j - 1 \in 1..Len(l)
        BY <1>1
      <4>1. j = i /\ j - 1 = p
        BY <1>1, <2>1, <3>1, <4>0 DEF IsInjective
      <4>2. QED
        BY <2>1, <4>1
    <3>2. i = p + 1 => i \in 2..Len(l) /\ l[i-1] = a
      BY <1>1, <2>1
    <3>3. QED
      BY <3>1, <3>2
  <2> HIDE DEF Follows
  <2>5. \A i \in 0..Len(l) : Until(l, rank, i) \in Int
    BY UntilSums
  <2>6. \A i \in 1..Len(l) : Until(l, rank, i) = Until(l, rank, i-1) + rank[l[i]]
    BY UntilSums
  <2>7. \A i \in 1..Len(l) : l[i] = a <=> i = p
    BY <1>1, <2>1 DEF IsInjective
  <2>8. Sums(m, rank', f)
    <3>1. f \in [0..Len(m) -> Int] /\ f[0] = 0
      BY <1>1, <2>1, <2>3, <2>5, UntilSums
    <3>2. ASSUME NEW j \in 1..Len(m) PROVE f[j] = f[j-1] + rank'[m[j]]
      <4>1. CASE j < p
        <5>0. j \in 1..Len(l)-1 /\ j \in 1..Len(l) /\ j # p /\ j # p + 1
          BY <1>1, <2>1, <2>3, <4>1
        <5>1. m[j] = l[j]
          BY <2>3, <4>1, <5>0
        <5>2. rank'[m[j]] = rank[l[j]]
          BY <1>1, <1>2, <2>4, <2>7, <5>0, <5>1
        <5>3. f[j] = Until(l, rank, j) /\ f[j-1] = Until(l, rank, j-1)
          BY <1>1, <2>1, <2>3, <4>1
        <5>4. QED
          BY <2>6, <5>0, <5>2, <5>3
      <4>2. CASE j = p
        <5>1. p + 1 \in 1..Len(l) /\ m[j] = l[p+1] /\ (p + 1) - 1 = p /\ p - 1 \in 0..Len(l)
          BY <1>1, <2>1, <2>3, <4>2
        <5>2. rank'[m[j]] = rank[l[p+1]] + rank[a]
          BY <1>1, <1>2, <2>4, <5>1
        <5>3. f[j] = Until(l, rank, p+1) /\ f[j-1] = Until(l, rank, p-1)
          BY <1>1, <2>1, <2>3, <4>2
        <5>4. /\ Until(l, rank, p+1) = Until(l, rank, p) + rank[l[p+1]]
              /\ Until(l, rank, p) = Until(l, rank, p-1) + rank[a]
          BY <2>1, <2>6, <5>1
        <5>5. rank[l[p+1]] \in Int /\ rank[a] \in Int /\ Until(l, rank, p-1) \in Int
          BY <1>1, <2>5, <5>1
        <5> HIDE DEF f
        <5>6. QED
          BY <5>2, <5>3, <5>4, <5>5
      <4>3. CASE j > p
        <5>1. j + 1 \in 1..Len(l) /\ m[j] = l[j+1] /\ j + 1 # p /\ j + 1 # p + 1 /\ (j + 1) - 1 = j
          BY <1>1, <2>1, <2>3, <4>3
        <5>2. rank'[m[j]] = rank[l[j+1]]
          BY <1>1, <1>2, <2>4, <2>7, <5>1
        <5>3. f[j] = Until(l, rank, j+1) /\ f[j-1] = Until(l, rank, j)
          BY <1>1, <2>1, <2>3, <4>3
        <5> HIDE DEF f
        <5>4. QED
          BY <2>6, <5>1, <5>2, <5>3
      <4>4. QED
        BY <2>1, <4>1, <4>2, <4>3
    <3>3. QED
      BY <3>1, <3>2 DEF Sums
  <2>9. \A i \in 1..Len(m) : Countdown(m, rank', m[i]) = f[i]
    <3> HIDE DEF f
    <3>1. QED
      BY <1>3, <1>4, <2>8, CountdownsAreSums DEF m
  <2>10. ASSUME NEW x \in Alarms
         PROVE  Countdown(m, rank', x) = IF x = a THEN 0 ELSE Countdown(l, rank, x)
    <3>1. CASE x \in ToSet(l) /\ x # a
      <4>1. PICK i \in 1..Len(l) : x = l[i]
        BY <3>1, CountdownAt
      <4>2. Countdown(l, rank, x) = Until(l, rank, i) /\ i # p
        BY <2>1, <3>1, <4>1, CountdownAt
      <4>3. CASE i < p
        <5>0. i \in 1..Len(l)-1 /\ i \in 1..Len(m) /\ i \in 0..Len(l)-1
          BY <1>1, <2>1, <2>3, <4>1, <4>3
        <5>1. m[i] = x /\ f[i] = Until(l, rank, i)
          BY <2>3, <4>1, <4>3, <5>0
        <5> HIDE DEF f
        <5>2. QED
          BY <2>9, <3>1, <4>2, <5>0, <5>1
      <4>4. CASE i > p
        <5>1. i - 1 \in 1..Len(m) /\ (i - 1) + 1 = i /\ ~(i - 1 < p)
          BY <1>1, <2>1, <2>3, <4>1, <4>4
        <5>2. m[i-1] = x /\ f[i-1] = Until(l, rank, i)
          BY <1>1, <2>3, <4>1, <5>1
        <5> HIDE DEF f
        <5>3. QED
          BY <2>9, <3>1, <4>2, <5>1, <5>2
      <4>5. QED
        BY <2>1, <4>2, <4>3, <4>4
    <3>2. CASE ~(x \in ToSet(l) /\ x # a)
      BY <1>4, <3>2 DEF Countdown, m
    <3>3. QED
      BY <3>1, <3>2
  <2>11. QED
    BY <1>3, <1>6, <2>10 DEF m, Ascending
<1>9. QED
  BY <1>7, <1>8

(* The others' countdowns, once the head has left the queue.               *)
LEMMA TailCounts ==
  ASSUME NEW l \in Seq(Alarms), IsInjective(l), l # << >>, NEW rk \in [Alarms -> Int],
         NEW qk \in [Alarms -> Int], \A x \in Alarms : x # Head(l) => qk[x] = rk[x]
  PROVE  \A x \in Alarms :
            Countdown(Tail(l), qk, x)
              = IF x \in ToSet(l) /\ x # Head(l) THEN Countdown(l, rk, x) - rk[Head(l)] ELSE 0
<1> DEFINE m == Tail(l)
           f == [i \in 0..Len(l)-1 |-> Until(l, rk, i+1) - rk[Head(l)]]
<1>1. Len(l) \in Nat /\ Len(l) >= 1 /\ Head(l) = l[1] /\ Head(l) \in Alarms
      /\ (\A i \in 1..Len(l) : l[i] \in Alarms)
  OBVIOUS
<1>2. m \in Seq(Alarms) /\ Len(m) = Len(l) - 1 /\ \A i \in 1..Len(l)-1 : m[i] = l[i+1]
  BY <1>1
<1>3. IsInjective(m) /\ ToSet(m) = ToSet(l) \ {Head(l)}
  BY TailFacts
<1> HIDE DEF m
<1>4. \A i \in 0..Len(l) : Until(l, rk, i) \in Int
  BY UntilSums
<1>5. \A i \in 1..Len(l) : Until(l, rk, i) = Until(l, rk, i-1) + rk[l[i]]
  BY UntilSums
<1>6. Until(l, rk, 1) = rk[Head(l)] /\ rk[Head(l)] \in Int
  BY <1>1, UntilSums
<1>7. Sums(m, qk, f)
  <2>1. f \in [0..Len(m) -> Int] /\ f[0] = 0
    <3>1. \A i \in 0..Len(l)-1 : i+1 \in 0..Len(l) /\ Until(l, rk, i+1) - rk[Head(l)] \in Int
      BY <1>1, <1>4, <1>6
    <3>2. f \in [0..Len(l)-1 -> Int]
      BY <3>1
    <3>3. 0 \in 0..Len(l)-1 /\ f[0] = Until(l, rk, 0+1) - rk[Head(l)]
      BY <1>1
    <3>4. 0 + 1 = 1
      OBVIOUS
    <3> HIDE DEF f
    <3>5. QED
      BY <1>2, <1>6, <3>2, <3>3, <3>4
  <2>2. ASSUME NEW j \in 1..Len(m) PROVE f[j] = f[j-1] + qk[m[j]]
    <3>1. j + 1 \in 1..Len(l) /\ m[j] = l[j+1] /\ j + 1 # 1 /\ (j + 1) - 1 = j /\ 1 \in 1..Len(l)
      BY <1>1, <1>2
    <3>2. l[j+1] # Head(l)
      BY <1>1, <3>1 DEF IsInjective
    <3>3. qk[m[j]] = rk[l[j+1]] /\ rk[l[j+1]] \in Int
      BY <1>1, <3>1, <3>2
    <3>4. f[j] = Until(l, rk, j+1) - rk[Head(l)] /\ f[j-1] = Until(l, rk, j) - rk[Head(l)]
      <4>1. j \in 0..Len(l)-1 /\ j-1 \in 0..Len(l)-1 /\ (j-1)+1 = j
        BY <1>1, <1>2
      <4>2. QED
        BY <4>1
    <3>5. Until(l, rk, j+1) = Until(l, rk, j) + rk[l[j+1]] /\ Until(l, rk, j) \in Int
      BY <1>4, <1>5, <3>1, SMTT(20)
    <3> HIDE DEF f
    <3>6. QED
      BY <1>6, <3>3, <3>4, <3>5, SMTT(20)
  <2>3. QED
    BY <2>1, <2>2 DEF Sums
<1>8. \A i \in 1..Len(m) : Countdown(m, qk, m[i]) = f[i]
  <2> HIDE DEF f
  <2>1. QED
    BY <1>2, <1>3, <1>7, CountdownsAreSums, ZenonT(30)
<1>9. ASSUME NEW x \in Alarms, x \in ToSet(l), x # Head(l)
      PROVE  Countdown(m, qk, x) = Countdown(l, rk, x) - rk[Head(l)]
  <2>1. PICK i \in 1..Len(l) : x = l[i]
    BY <1>9, CountdownAt
  <2>2. Countdown(l, rk, x) = Until(l, rk, i) /\ i # 1
    BY <1>1, <1>9, <2>1, CountdownAt
  <2>3. i - 1 \in 1..Len(m) /\ (i - 1) + 1 = i
    BY <1>1, <1>2, <2>2
  <2>4. m[i-1] = x /\ f[i-1] = Until(l, rk, i) - rk[Head(l)]
    BY <1>1, <1>2, <2>1, <2>3
  <2>5. QED
    BY <1>8, <2>2, <2>3, <2>4
<1>10. \A x \in Alarms : ~(x \in ToSet(l) /\ x # Head(l)) => Countdown(m, qk, x) = 0
  BY <1>3 DEF Countdown
<1>11. QED
  BY <1>9, <1>10 DEF m

(* A tick counts all of them down.                                         *)
LEMMA DecrementCounts ==
  ASSUME NEW l \in Seq(Alarms), IsInjective(l), l # << >>, NEW rk \in [Alarms -> Int]
  PROVE  \A x \in Alarms :
            Countdown(l, [rk EXCEPT ![Head(l)] = @ - 1], x)
              = IF x \in ToSet(l) THEN Countdown(l, rk, x) - 1 ELSE 0
<1> DEFINE qk == [rk EXCEPT ![Head(l)] = @ - 1]
           f == [i \in 0..Len(l) |-> IF i = 0 THEN 0 ELSE Until(l, rk, i) - 1]
<1>1. Len(l) \in Nat /\ Len(l) >= 1 /\ Head(l) = l[1] /\ Head(l) \in Alarms
      /\ 1 \in 1..Len(l) /\ (\A i \in 1..Len(l) : l[i] \in Alarms)
  OBVIOUS
<1>2. /\ qk \in [Alarms -> Int] /\ qk[Head(l)] = rk[Head(l)] - 1
      /\ \A x \in Alarms : x # Head(l) => qk[x] = rk[x]
  BY <1>1
<1> HIDE DEF qk
<1>3. \A i \in 0..Len(l) : Until(l, rk, i) \in Int
  BY UntilSums
<1>4. \A i \in 1..Len(l) : Until(l, rk, i) = Until(l, rk, i-1) + rk[l[i]]
  BY UntilSums
<1>5. Until(l, rk, 1) = rk[Head(l)] /\ rk[Head(l)] \in Int
  BY <1>1, UntilSums
<1>6. Sums(l, qk, f)
  <2>1. f \in [0..Len(l) -> Int] /\ f[0] = 0
    BY <1>1, <1>3
  <2>2. ASSUME NEW j \in 1..Len(l) PROVE f[j] = f[j-1] + qk[l[j]]
    <3>1. CASE j = 1
      BY <1>1, <1>2, <1>5, <3>1
    <3>2. CASE j # 1
      <4>1. j - 1 \in 0..Len(l) /\ j - 1 # 0 /\ j # 0 /\ l[j] # Head(l)
        BY <1>1, <3>2 DEF IsInjective
      <4>2. f[j] = Until(l, rk, j) - 1 /\ f[j-1] = Until(l, rk, j-1) - 1
        BY <1>1, <4>1
      <4>3. qk[l[j]] = rk[l[j]] /\ rk[l[j]] \in Int /\ Until(l, rk, j-1) \in Int
        BY <1>1, <1>2, <1>3, <4>1
      <4> HIDE DEF f
      <4>4. QED
        BY <1>4, <4>2, <4>3
    <3>3. QED
      BY <3>1, <3>2
  <2>3. QED
    BY <2>1, <2>2 DEF Sums
<1>7. \A i \in 1..Len(l) : Countdown(l, qk, l[i]) = f[i]
  <2> HIDE DEF f
  <2>1. QED
    BY <1>2, <1>6, CountdownsAreSums
<1>8. ASSUME NEW x \in ToSet(l) PROVE Countdown(l, qk, x) = Countdown(l, rk, x) - 1
  <2>1. PICK i \in 1..Len(l) : x = l[i]
    BY CountdownAt
  <2>2. Countdown(l, rk, x) = Until(l, rk, i) /\ f[i] = Until(l, rk, i) - 1
    BY <1>1, <2>1, CountdownAt
  <2>3. QED
    BY <1>7, <2>1, <2>2
<1>9. \A x \in Alarms : x \notin ToSet(l) => Countdown(l, qk, x) = 0
  BY DEF Countdown
<1>10. QED
  BY <1>8, <1>9 DEF qk

(* The head waits for its rank, the others for no less.                    *)
LEMMA HeadCounts ==
  ASSUME NEW l \in Seq(Alarms), IsInjective(l), NEW rk \in [Alarms -> Int], Ascending(l, rk)
  PROVE  /\ \A x \in Alarms : Countdown(l, rk, x) \in Nat
         /\ l # << >> => /\ Countdown(l, rk, Head(l)) = rk[Head(l)]
                         /\ \A x \in ToSet(l) : Countdown(l, rk, x) >= rk[Head(l)]
<1>1. Len(l) \in Nat /\ (l # << >> => Len(l) >= 1 /\ Head(l) = l[1] /\ 1 \in 1..Len(l))
  OBVIOUS
<1>2. \A i \in 0..Len(l) : Until(l, rk, i) \in Int
  BY UntilSums
<1>3. l # << >> => Until(l, rk, 1) = rk[Head(l)]
  BY <1>1, UntilSums
<1>4. ASSUME NEW x \in ToSet(l)
      PROVE  Countdown(l, rk, x) \in Nat /\ Countdown(l, rk, x) >= rk[Head(l)]
  <2>1. PICK i \in 1..Len(l) : x = l[i]
    BY CountdownAt
  <2>2. Countdown(l, rk, x) = Until(l, rk, i) /\ l # << >>
    BY <2>1, CountdownAt
  <2>3. Until(l, rk, 0) <= Until(l, rk, i) /\ Until(l, rk, 1) <= Until(l, rk, i)
    <3>1. i \in 0..Len(l) /\ 0 \in 0..Len(l) /\ 1 \in 0..Len(l) /\ 0 <= i /\ 1 <= i
      BY <1>1
    <3>2. QED
      BY <3>1, UntilAscends
  <2>4. QED
    BY <1>1, <1>2, <1>3, <2>2, <2>3, UntilSums
<1>5. l # << >> => Countdown(l, rk, Head(l)) = rk[Head(l)]
  BY <1>1, <1>3, CountdownAt
<1>6. QED
  BY <1>4, <1>5 DEF Countdown


-----------------------------------------------------------------------------
(* The countdowns of the queue, from step to step                          *)

(* The relative ranks of a queue between two steps, and what they promise  *)
(* each waiting alarm: age and countdown make up its period.               *)
CountsOK ==
    /\ rank \in [Alarms -> Int] /\ Ascending(requests, rank)
    /\ ticks \in [Alarms -> Periods] /\ age \in [Alarms -> 0..MaxAge]
    /\ \A a \in ToSet(requests) : age[a] + Countdown(requests, rank, a) >= ticks[a]

LEMMA CountsInit == Init => CountsOK
<1> SUFFICES ASSUME Init PROVE CountsOK
  OBVIOUS
<1>1. ToSet(requests) = {}
  BY DEF Init, ToSet
<1>2. Unset \in Periods /\ MaxAge \in Nat
  BY AlarmAssumption DEF Unset
<1>3. QED
  BY <1>1, <1>2 DEF Init, CountsOK, Ascending

(* What Create does to the countdowns.                                     *)
LEMMA CreateCounts ==
  ASSUME AlarmInv, CountsOK, NEW a \in Alarms, NEW k \in Periods, NEW n, Create(a, k, n)
  PROVE  /\ a \notin ToSet(requests)
         /\ rank' \in [Alarms -> Int] /\ Ascending(requests', rank')
         /\ \/ /\ k > 0
               /\ Enqueue(requests, rank, a, k)
               /\ ToSet(requests') = ToSet(requests) \cup {a}
               /\ \A x \in Alarms : Countdown(requests', rank', x)
                                      = IF x = a THEN k ELSE Countdown(requests, rank, x)
            \/ k = 0 /\ UNCHANGED queue
<1>1. a \notin ToSet(requests) /\ requests \in Seq(Alarms) /\ IsInjective(requests)
  BY DEF Create, AlarmInv, Shapes, CallsOK
<1>2. k \in Nat /\ rank \in [Alarms -> Int] /\ Ascending(requests, rank)
  BY AlarmAssumption DEF CountsOK
<1>3. CASE k > 0 /\ Enqueue(requests, rank, a, k)
  BY <1>1, <1>2, <1>3, EnqueueFacts, EnqueueCounts
<1>4. CASE k = 0 /\ UNCHANGED queue
  BY <1>1, <1>2, <1>4 DEF queue
<1>5. QED
  BY <1>3, <1>4 DEF Create

(* What a tick does to them: it takes one off each, or, when the head has  *)
(* none left, nothing; a head that is served waits for its period again or *)
(* leaves.                                                                 *)
LEMMA TickCounts ==
  ASSUME AlarmInv, CountsOK, Tick
  PROVE  LET a     == Head(requests)
             c(x)  == Countdown(requests, rank, x)
             c2(x) == Countdown(requests', rank', x)
         IN  /\ a \in ToSet(requests) /\ c(a) \in Nat
             /\ rank' \in [Alarms -> Int] /\ Ascending(requests', rank')
             /\ ToSet(requests') \subseteq ToSet(requests)
             /\ \/ /\ c(a) > 1
                   /\ requests' = requests
                   /\ \A x \in Alarms : c2(x) = IF x \in ToSet(requests) THEN c(x) - 1 ELSE 0
                   /\ calling' = calling
                   /\ age' = [b \in Alarms |-> IF b \in ToSet(requests) THEN Older(age[b]) ELSE 0]
                \/ /\ c(a) <= 1
                   /\ \A x \in Alarms : x # a =>
                        c2(x) = IF x \in ToSet(requests) THEN c(x) - c(a) ELSE 0
                   /\ calling' = [calling EXCEPT ![a] = @ + 1]
                   /\ age' = [b \in Alarms |->
                                IF b \in ToSet(requests) /\ b # a THEN Older(age[b]) ELSE 0]
                   /\ \/ /\ ticks[a] > 0 /\ c2(a) = ticks[a]
                         /\ Enqueue(Tail(requests), [rank EXCEPT ![a] = @ - 1], a, ticks[a])
                      \/ requests' = Tail(requests) /\ c2(a) = 0
<1> DEFINE a  == Head(requests)
           rk == [rank EXCEPT ![a] = @ - 1]
           m  == Tail(requests)
<1>1. /\ requests \in Seq(Alarms) /\ IsInjective(requests) /\ requests # << >>
      /\ rank \in [Alarms -> Int] /\ Ascending(requests, rank)
      /\ ticks \in [Alarms -> Periods]
  BY DEF AlarmInv, Shapes, CountsOK, Tick
<1>2. /\ a \in ToSet(requests) /\ a \in Alarms
      /\ m \in Seq(Alarms) /\ IsInjective(m) /\ ToSet(m) = ToSet(requests) \ {a}
  BY <1>1, HeadFacts, TailFacts
<1>3. /\ Countdown(requests, rank, a) = rank[a] /\ rank[a] \in Nat
      /\ rk \in [Alarms -> Int] /\ rk[a] = rank[a] - 1
      /\ \A x \in Alarms : x # a => rk[x] = rank[x]
  BY <1>1, <1>2, HeadCounts
<1>4. ticks[a] \in Nat /\ ticks[a] > 0
  BY <1>1, <1>2, AlarmAssumption DEF AlarmInv, CallsOK
<1>5. /\ Due(rk) <=> rank[a] <= 1
      /\ \/ Due(rk) /\ Serve(rk)
         \/ ~Due(rk) /\ rank' = rk /\ UNCHANGED <<requests, times, calling>>
      /\ age' = [b \in Alarms |->
                   IF b \in ToSet(requests) /\ ~(b = a /\ Due(rk)) THEN Older(age[b]) ELSE 0]
  <2>1. Due(rk) <=> rk[a] <= 0
    BY DEF Due
  <2> HIDE DEF rk
  <2>2. Due(rk) <=> rank[a] <= 1
    BY <1>3, <2>1
  <2>3. QED
    BY <2>2 DEF Tick, rk
<1> HIDE DEF rk, a, m
<1>6. CASE ~Due(rk)
  <2>1. rank[a] > 1 /\ rank' = rk /\ requests' = requests /\ calling' = calling
    BY <1>3, <1>5, <1>6
  <2>2. \A x \in Alarms : Countdown(requests, rk, x)
                            = IF x \in ToSet(requests) THEN Countdown(requests, rank, x) - 1 ELSE 0
    BY <1>1, DecrementCounts DEF rk, a
  <2>3. Ascending(requests, rk)
    <3> SUFFICES ASSUME NEW x \in ToSet(requests) PROVE rk[x] >= 0
      BY DEF Ascending
    <3>1. x \in Alarms /\ rank[x] >= 0
      BY <1>1, HeadFacts DEF Ascending
    <3>2. QED
      BY <1>3, <2>1, <3>1
  <2>4. age' = [b \in Alarms |-> IF b \in ToSet(requests) THEN Older(age[b]) ELSE 0]
    BY <1>5, <1>6
  <2>5. QED
    BY <1>2, <1>3, <2>1, <2>2, <2>3, <2>4 DEF a
<1>7. CASE Due(rk)
  <2>1. /\ rank[a] <= 1
        /\ calling' = [calling EXCEPT ![a] = @ + 1]
        /\ \/ Enqueue(m, rk, a, ticks[a])
           \/ requests' = m /\ rank' = rk
    BY <1>5, <1>7 DEF Serve, a, m
  <2>2. age' = [b \in Alarms |-> IF b \in ToSet(requests) /\ b # a THEN Older(age[b]) ELSE 0]
    BY <1>5, <1>7
  <2>3. \A x \in Alarms : Countdown(m, rk, x)
                            = IF x \in ToSet(requests) /\ x # a
                              THEN Countdown(requests, rank, x) - Countdown(requests, rank, a) ELSE 0
    <3>1. a = Head(requests) /\ m = Tail(requests)
      BY DEF a, m
    <3>2. \A x \in Alarms : x # Head(requests) => rk[x] = rank[x]
      BY <1>3, <3>1
    <3>3. \A x \in Alarms :
             Countdown(Tail(requests), rk, x)
               = IF x \in ToSet(requests) /\ x # Head(requests)
                 THEN Countdown(requests, rank, x) - rank[Head(requests)] ELSE 0
      BY <1>1, <1>3, <3>2, TailCounts
    <3>4. QED
      BY <1>3, <3>1, <3>3
  <2>4. Ascending(m, rk)
    <3> SUFFICES ASSUME NEW x \in ToSet(m) PROVE rk[x] >= 0
      BY DEF Ascending
    <3>1. x \in Alarms /\ rank[x] >= 0 /\ x # a
      BY <1>1, <1>2, HeadFacts DEF Ascending
    <3>2. QED
      BY <1>3, <3>1
  <2>5. CASE Enqueue(m, rk, a, ticks[a])
    <3>1. /\ rank' \in [Alarms -> Int] /\ Ascending(requests', rank')
          /\ \A x \in Alarms : Countdown(requests', rank', x)
                                 = IF x = a THEN ticks[a] ELSE Countdown(m, rk, x)
      BY <1>2, <1>3, <1>4, <2>4, <2>5, EnqueueCounts
    <3>2. ToSet(requests') = ToSet(requests)
      <4>1. a \notin ToSet(m)
        BY <1>2
      <4>2. ToSet(requests') = ToSet(m) \cup {a}
        BY <1>2, <2>5, <4>1, EnqueueFacts
      <4>3. QED
        BY <1>2, <4>2
    <3>3. /\ Countdown(requests', rank', a) = ticks[a]
          /\ \A x \in Alarms : x # a => Countdown(requests', rank', x)
                 = IF x \in ToSet(requests)
                   THEN Countdown(requests, rank, x) - Countdown(requests, rank, a) ELSE 0
      BY <1>2, <2>3, <3>1
    <3>4. QED
      BY <1>2, <1>3, <1>4, <2>1, <2>2, <2>5, <3>1, <3>2, <3>3 DEF a, m, rk
  <2>6. CASE requests' = m /\ rank' = rk
    <3>1. /\ Countdown(requests', rank', a) = 0
          /\ \A x \in Alarms : x # a => Countdown(requests', rank', x)
                 = IF x \in ToSet(requests)
                   THEN Countdown(requests, rank, x) - Countdown(requests, rank, a) ELSE 0
      BY <1>2, <2>3, <2>6
    <3>2. QED
      BY <1>2, <1>3, <2>1, <2>2, <2>4, <2>6, <3>1 DEF a, m
  <2>7. QED
    BY <2>1, <2>5, <2>6
<1>8. QED
  BY <1>6, <1>7

LEMMA CreateKeepsCounts ==
  ASSUME AlarmInv, CountsOK, NEW a \in Alarms, NEW k \in Periods, NEW n, Create(a, k, n)
  PROVE  CountsOK'
<1>1. /\ ticks \in [Alarms -> Periods] /\ age \in [Alarms -> 0..MaxAge] /\ MaxAge \in Nat
      /\ ticks' = [ticks EXCEPT ![a] = k] /\ age' = [age EXCEPT ![a] = 0] /\ k \in Nat
      /\ ToSet(requests) \subseteq Alarms
      /\ \A x \in ToSet(requests) : age[x] + Countdown(requests, rank, x) >= ticks[x]
  BY AlarmAssumption, HeadFacts DEF CountsOK, Create, AlarmInv, Shapes
<1>2. ticks' \in [Alarms -> Periods] /\ age' \in [Alarms -> 0..MaxAge]
  BY <1>1
<1>3. ASSUME NEW x \in ToSet(requests')
      PROVE  age'[x] + Countdown(requests', rank', x) >= ticks'[x]
  <2>1. CASE x = a
    <3>1. Countdown(requests', rank', a) = k
      BY <1>3, <2>1, CreateCounts DEF queue
    <3>2. QED
      BY <1>1, <2>1, <3>1
  <2>2. CASE x # a
    <3>1. x \in ToSet(requests) /\ Countdown(requests', rank', x) = Countdown(requests, rank, x)
      BY <1>1, <1>3, <2>2, CreateCounts DEF queue
    <3>2. QED
      BY <1>1, <2>2, <3>1
  <2>3. QED
    BY <2>1, <2>2
<1>4. QED
  BY <1>2, <1>3, CreateCounts DEF CountsOK

LEMMA DeleteKeepsCounts ==
  ASSUME AlarmInv, CountsOK, NEW a \in Alarms, Delete(a)
  PROVE  CountsOK'
<1>1. /\ ticks \in [Alarms -> Periods] /\ age \in [Alarms -> 0..MaxAge] /\ MaxAge \in Nat
      /\ ticks' = [ticks EXCEPT ![a] = Unset] /\ age' = [age EXCEPT ![a] = 0] /\ Unset \in Periods
      /\ ToSet(requests) \subseteq Alarms
      /\ \A x \in ToSet(requests) : age[x] + Countdown(requests, rank, x) >= ticks[x]
  BY AlarmAssumption, HeadFacts DEF CountsOK, Delete, AlarmInv, Shapes, Unset
<1>2. ticks' \in [Alarms -> Periods] /\ age' \in [Alarms -> 0..MaxAge]
  BY <1>1
<1>3. /\ rank' \in [Alarms -> Int] /\ Ascending(requests', rank')
      /\ ToSet(requests') = ToSet(requests) \ {a}
      /\ \A x \in Alarms : Countdown(requests', rank', x)
                             = IF x = a THEN 0 ELSE Countdown(requests, rank, x)
  BY DequeueFacts, DequeueCounts DEF Delete, AlarmInv, Shapes, CountsOK
<1>4. ASSUME NEW x \in ToSet(requests')
      PROVE  age'[x] + Countdown(requests', rank', x) >= ticks'[x]
  BY <1>1, <1>3
<1>5. QED
  BY <1>2, <1>3, <1>4 DEF CountsOK

LEMMA TickKeepsCounts ==
  ASSUME AlarmInv, CountsOK, Tick
  PROVE  CountsOK'
<1> DEFINE a == Head(requests)
<1>1. /\ ticks \in [Alarms -> Periods] /\ ticks' = ticks
      /\ age \in [Alarms -> 0..MaxAge] /\ MaxAge \in Nat
      /\ ToSet(requests) \subseteq Alarms
      /\ \A x \in Alarms : ticks[x] \in Nat /\ ticks[x] <= MaxAge
      /\ \A x \in ToSet(requests) : age[x] + Countdown(requests, rank, x) >= ticks[x]
  BY AlarmAssumption, HeadFacts DEF CountsOK, Tick, AlarmInv, Shapes
<1>2. \A x \in Alarms : Older(age[x]) \in 0..MaxAge /\ (Older(age[x]) = age[x] + 1 \/ Older(age[x]) = MaxAge)
  BY <1>1 DEF Older
<1>3. \A x \in Alarms : Countdown(requests, rank, x) \in Nat
  BY HeadCounts DEF CountsOK, AlarmInv, Shapes
<1>4. /\ a \in ToSet(requests)
      /\ rank' \in [Alarms -> Int] /\ Ascending(requests', rank')
      /\ ToSet(requests') \subseteq ToSet(requests)
  BY TickCounts
<1>5. \A x \in ToSet(requests') :
        \/ /\ Countdown(requests', rank', x) \in Nat
           /\ Countdown(requests', rank', x) >= Countdown(requests, rank, x) - 1
           /\ age'[x] = Older(age[x])
        \/ age'[x] = 0 /\ Countdown(requests', rank', x) = ticks[x]
  <2> SUFFICES ASSUME NEW x \in ToSet(requests')
               PROVE  \/ /\ Countdown(requests', rank', x) \in Nat
                         /\ Countdown(requests', rank', x) >= Countdown(requests, rank, x) - 1
                         /\ age'[x] = Older(age[x])
                      \/ age'[x] = 0 /\ Countdown(requests', rank', x) = ticks[x]
    OBVIOUS
  <2>1. x \in ToSet(requests) /\ x \in Alarms /\ a \in Alarms
    BY <1>1, <1>4
  <2>2. Countdown(requests', rank', x) \in Nat
    BY <1>4, <2>1, TickKeeps, HeadCounts DEF AlarmInv, Shapes
  <2>3. CASE x # a
    <3>1. \/ Countdown(requests', rank', x) = Countdown(requests, rank, x) - 1
          \/ /\ Countdown(requests, rank, a) <= 1
             /\ Countdown(requests', rank', x)
                  = Countdown(requests, rank, x) - Countdown(requests, rank, a)
      BY <2>1, <2>3, TickCounts
    <3>2. age'[x] = Older(age[x])
      BY <2>1, <2>3, TickCounts
    <3>3. QED
      BY <1>3, <2>1, <2>2, <3>1, <3>2
  <2>4. CASE x = a
    <3>1. \/ /\ Countdown(requests', rank', a) = Countdown(requests, rank, a) - 1
             /\ age'[a] = Older(age[a])
          \/ age'[a] = 0 /\ (Countdown(requests', rank', a) = ticks[a] \/ requests' = Tail(requests))
      BY <2>1, TickCounts
    <3>2. requests' # Tail(requests)
      <4>1. requests \in Seq(Alarms) /\ IsInjective(requests) /\ requests # << >>
        BY DEF AlarmInv, Shapes, Tick
      <4>2. ToSet(Tail(requests)) = ToSet(requests) \ {a}
        BY <4>1, TailFacts
      <4>3. QED
        BY <2>4, <4>2
    <3>3. QED
      BY <1>3, <2>1, <2>2, <2>4, <3>1, <3>2
  <2>5. QED
    BY <2>3, <2>4
<1>6. age' \in [Alarms -> 0..MaxAge]
  <2>1. \A x \in Alarms : (IF x \in ToSet(requests) THEN Older(age[x]) ELSE 0) \in 0..MaxAge
    BY <1>1, <1>2
  <2>2. \/ age' = [b \in Alarms |-> IF b \in ToSet(requests) THEN Older(age[b]) ELSE 0]
        \/ age' = [b \in Alarms |-> IF b \in ToSet(requests) /\ b # a THEN Older(age[b]) ELSE 0]
    BY TickCounts
  <2> HIDE DEF a
  <2>3. QED
    BY <1>1, <2>1, <2>2
<1>7. ASSUME NEW x \in ToSet(requests')
      PROVE  age'[x] + Countdown(requests', rank', x) >= ticks'[x]
  <2>1. x \in ToSet(requests) /\ x \in Alarms
    BY <1>1, <1>4
  <2>2. /\ age[x] \in Nat /\ ticks[x] \in Nat /\ ticks[x] <= MaxAge
        /\ age[x] + Countdown(requests, rank, x) >= ticks[x]
        /\ Countdown(requests, rank, x) \in Nat
    BY <1>1, <1>3, <2>1
  <2>3. QED
    BY <1>1, <1>2, <1>5, <2>1, <2>2
<1>8. QED
  BY <1>1, <1>4, <1>6, <1>7 DEF CountsOK

(* The inductive invariant of the queue of relative ranks.                 *)
THEOREM CountsInvariantHolds == Spec => [](AlarmInv /\ CountsOK)
<1>1. AlarmInv /\ CountsOK /\ [Next]_vars => CountsOK'
  <2> SUFFICES ASSUME AlarmInv, CountsOK, [Next]_vars PROVE CountsOK'
    OBVIOUS
  <2>1. ASSUME NEW a \in Alarms, NEW k \in Periods, NEW n \in Times \cup {INFINITE},
               Create(a, k, n)
        PROVE  CountsOK'
    BY <2>1, CreateKeepsCounts
  <2>2. ASSUME NEW a \in Alarms, Delete(a) PROVE CountsOK'
    BY <2>2, DeleteKeepsCounts
  <2>3. ASSUME NEW a \in Alarms, Call(a) PROVE CountsOK'
    BY <2>3 DEF Call, CountsOK, queue, object
  <2>4. CASE Tick
    BY <2>4, TickKeepsCounts
  <2>5. CASE UNCHANGED vars
    BY <2>5 DEF CountsOK, vars, queue, object
  <2>6. QED
    BY <2>1, <2>2, <2>3, <2>4, <2>5 DEF Next
<1>2. QED
  BY <1>1, CountsInit, AlarmInvariantHolds, PTL DEF Spec

(* The fields of the alarms keep their types, no rank of a waiting alarm   *)
(* is ever below zero.                                                     *)
THEOREM AlarmTypeOKHolds == Spec => []TypeOK
<1>1. AlarmInv /\ CountsOK => TypeOK
  BY DEF AlarmInv, Shapes, CountsOK, TypeOK, Ascending
<1>2. QED
  BY <1>1, CountsInvariantHolds, PTL

(* An alarm is served when its period has passed, whatever is inserted     *)
(* before it or removed from before it while it waits.                     *)
THEOREM NeverEarlyHolds == Spec => NeverEarly
<1> DEFINE Early(a) == Serves(a) => age[a] + 1 >= ticks[a]
<1>1. AlarmInv /\ CountsOK /\ [Next]_vars => [\A a \in Alarms : Early(a)]_vars
  <2> SUFFICES ASSUME AlarmInv, CountsOK, Next, NEW b \in Alarms, Serves(b)
               PROVE  age[b] + 1 >= ticks[b]
    OBVIOUS
  <2>1. /\ b \in ToSet(requests) /\ calling'[b] > calling[b]
        /\ calling \in [Alarms -> 0..MaxCalls] /\ MaxCalls \in Nat
    BY AlarmAssumption DEF Serves, AlarmInv, Shapes
  <2>2. ASSUME NEW a \in Alarms, NEW k \in Periods, NEW n, Create(a, k, n) PROVE FALSE
    <3>1. a # b
      BY <2>1, <2>2, CreateCounts
    <3>2. calling'[b] = calling[b]
      BY <2>1, <2>2, <3>1 DEF Create
    <3>3. QED
      BY <2>1, <3>2
  <2>3. ASSUME NEW a \in Alarms, Delete(a) \/ Call(a) PROVE FALSE
    <3>1. calling'[b] <= calling[b]
      BY <2>1, <2>3 DEF Delete, Call
    <3>2. calling'[b] \in Int /\ calling[b] \in Int
      BY <2>1, <2>3 DEF Delete, Call
    <3>3. QED
      BY <2>1, <3>1, <3>2
  <2>4. CASE Tick
    <3>1. b = Head(requests) /\ Countdown(requests, rank, b) <= 1 /\ Countdown(requests, rank, b) \in Nat
      <4>1. calling' # calling
        BY <2>1
      <4>2. /\ Countdown(requests, rank, Head(requests)) \in Nat
            /\ Countdown(requests, rank, Head(requests)) <= 1
            /\ calling' = [calling EXCEPT ![Head(requests)] = @ + 1]
        BY <2>4, <4>1, TickCounts
      <4>3. QED
        BY <2>1, <4>2
    <3>2. age[b] \in Nat /\ ticks[b] \in Nat /\ age[b] + Countdown(requests, rank, b) >= ticks[b]
      <4>1. age[b] \in 0..MaxAge /\ ticks[b] \in Periods
        BY DEF CountsOK
      <4>2. QED
        <5>1. age[b] + Countdown(requests, rank, b) >= ticks[b]
          BY <2>1 DEF CountsOK
        <5>2. age[b] \in Nat /\ ticks[b] \in Nat
          BY <4>1, AlarmAssumption
        <5>3. QED
          BY <5>1, <5>2
    <3>3. QED
      BY <3>1, <3>2
  <2>5. QED
    BY <2>2, <2>3, <2>4 DEF Next
<1>2. QED
  BY <1>1, CountsInvariantHolds, PTL DEF Spec, NeverEarly

-----------------------------------------------------------------------------
(* The queue of relative ranks is a list of countdowns                     *)

LEMMA ClockOperators ==
  /\ \A l, c, a : Clock!OrderedInsert(l, c, a) = OrderedInsert(l, c, a)
  /\ \A l, a : Clock!ListRemove(l, a) = ListRemove(l, a)
  /\ \A l : Clock!ToSet(l) = ToSet(l)
<1>1. \A l, i, a : Clock!InsertAt(l, i, a) = InsertAt(l, i, a)
  BY DEF Clock!InsertAt, InsertAt
<1>2. \A l, c, a : Clock!Passed(l, c, a) = Passed(l, c, a)
  BY DEF Clock!Passed, Passed
<1>3. \A S : Clock!Cardinality(S) = Cardinality(S)
  BY DEF Clock!Cardinality, Cardinality
<1>4. \A l, c, a : Clock!OrderedInsert(l, c, a) = OrderedInsert(l, c, a)
  BY <1>1, <1>2, <1>3 DEF Clock!OrderedInsert, OrderedInsert
<1>5. \A l, a : Clock!ListRemove(l, a) = ListRemove(l, a)
  BY DEF Clock!ListRemove, Clock!RemoveAt, Clock!ToSet, ListRemove, RemoveAt, ToSet
<1>6. \A l : Clock!ToSet(l) = ToSet(l)
  BY DEF Clock!ToSet, ToSet
<1>7. QED
  BY <1>4, <1>5, <1>6

(* insert() walks past the alarms that are due no later.                   *)
LEMMA EnqueueOrders ==
  ASSUME NEW l \in Seq(Alarms), IsInjective(l), NEW rk \in [Alarms -> Int], Ascending(l, rk),
         NEW a \in Alarms, a \notin ToSet(l), NEW k \in Nat, Enqueue(l, rk, a, k),
         NEW c, c = [x \in Alarms |-> Countdown(requests', rank', x)]
  PROVE  requests' = OrderedInsert(l, c, a)
<1>1. c[a] = k /\ \A x \in Alarms : x # a => c[x] = Countdown(l, rk, x)
  BY EnqueueCounts
<1>2. Len(l) \in Nat /\ \A j \in 1..Len(l) : l[j] \in Alarms /\ l[j] # a
  BY DEF ToSet
<1>3. \A j \in 1..Len(l) : c[l[j]] = Until(l, rk, j)
  BY <1>1, <1>2, CountdownAt
<1>4. ASSUME NEW i \in 1..Len(l)
      PROVE  (\A j \in 1..i : Until(l, rk, j) <= k) <=> \A j \in 1..i : c[l[j]] <= c[a]
  <2>1. \A j \in 1..i : j \in 1..Len(l)
    BY <1>2
  <2>2. QED
    BY <1>1, <1>3, <2>1
<1>5. Walked(l, rk, k) = Cardinality(Passed(l, c, a))
  BY <1>4 DEF Walked, Passed
<1>6. QED
  BY <1>5 DEF Enqueue, OrderedInsert

(* A step that leaves the queue alone is none of the clock's.              *)
LEMMA ClockStutters ==
  ASSUME UNCHANGED queue
  PROVE  UNCHANGED Clock!clock
BY DEF queue, Clock!clock

LEMMA CreateRequests ==
  ASSUME AlarmInv, CountsOK, NEW a \in Alarms, NEW k \in Periods, NEW n, Create(a, k, n)
  PROVE  [Clock!Next]_(Clock!clock)
<1> DEFINE left  == [x \in Alarms |-> Countdown(requests, rank, x)]
           left2 == [x \in Alarms |-> Countdown(requests', rank', x)]
<1>1. CASE k > 0 /\ Enqueue(requests, rank, a, k)
  <2>1. k \in Periods \ {0} /\ k \in Nat
    BY <1>1, AlarmAssumption
  <2>2. /\ a \notin ToSet(requests)
        /\ \A x \in Alarms : Countdown(requests', rank', x)
                               = IF x = a THEN k ELSE Countdown(requests, rank, x)
    BY <1>1, <2>1, CreateCounts, EnqueueCounts DEF AlarmInv, Shapes, CountsOK
  <2>3. left2 = [left EXCEPT ![a] = k]
    BY <2>2
  <2>4. requests' = OrderedInsert(requests, left2, a)
    BY <1>1, <2>1, <2>2, EnqueueOrders DEF AlarmInv, Shapes, CountsOK
  <2>5. Clock!Request(a, k)
    BY <2>2, <2>3, <2>4, ClockOperators DEF Clock!Request, Clock!Enqueued
  <2>6. QED
    BY <2>1, <2>5 DEF Clock!Next
<1>2. CASE UNCHANGED queue
  BY <1>2, ClockStutters
<1>3. QED
  BY <1>1, <1>2 DEF Create

LEMMA DeleteCancels ==
  ASSUME AlarmInv, CountsOK, NEW a \in Alarms, Delete(a)
  PROVE  [Clock!Next]_(Clock!clock)
<1> DEFINE left  == [x \in Alarms |-> Countdown(requests, rank, x)]
           left2 == [x \in Alarms |-> Countdown(requests', rank', x)]
<1>1. /\ requests' = ListRemove(requests, a)
      /\ \A x \in Alarms : Countdown(requests', rank', x)
                             = IF x = a THEN 0 ELSE Countdown(requests, rank, x)
  BY DequeueCounts DEF Delete, Dequeue, AlarmInv, Shapes, CountsOK
<1>2. left2 = [left EXCEPT ![a] = 0]
  BY <1>1
<1>3. CASE a \in ToSet(requests)
  <2>1. Clock!Cancel(a)
    BY <1>1, <1>2, <1>3, ClockOperators DEF Clock!Cancel
  <2>2. QED
    BY <2>1 DEF Clock!Next
<1>4. CASE a \notin ToSet(requests)
  <2>1. requests' = requests /\ left2 = left
    BY <1>1, <1>2, <1>4 DEF ListRemove, Countdown
  <2>2. QED
    BY <2>1 DEF Clock!clock
<1>5. QED
  BY <1>3, <1>4

LEMMA TickCountsDown ==
  ASSUME AlarmInv, CountsOK, Tick
  PROVE  [Clock!Next]_(Clock!clock)
<1> DEFINE a     == Head(requests)
           left  == [x \in Alarms |-> Countdown(requests, rank, x)]
           left2 == [x \in Alarms |-> Countdown(requests', rank', x)]
           cnt   == IF left[a] = 0 THEN left
                    ELSE [x \in Alarms |-> IF x \in ToSet(requests) THEN left[x] - 1 ELSE 0]
<1>1. /\ requests \in Seq(Alarms) /\ IsInjective(requests) /\ requests # << >>
      /\ rank \in [Alarms -> Int] /\ Ascending(requests, rank) /\ ticks \in [Alarms -> Periods]
  BY DEF AlarmInv, Shapes, CountsOK, Tick
<1>2. /\ a \in ToSet(requests) /\ a \in Alarms
      /\ Countdown(requests, rank, a) = rank[a] /\ rank[a] \in Nat
      /\ \A x \in Alarms : Countdown(requests, rank, x) \in Nat
      /\ \A x \in Alarms : x \notin ToSet(requests) => Countdown(requests, rank, x) = 0
  BY <1>1, HeadFacts, HeadCounts DEF Countdown
<1>3. Clock!Counted = cnt
  BY ClockOperators DEF Clock!Counted
<1>4. left[a] = rank[a]
  BY <1>2
<1>5. CASE rank[a] > 1
  <2>1. /\ requests' = requests
        /\ \A x \in Alarms : Countdown(requests', rank', x)
             = IF x \in ToSet(requests) THEN Countdown(requests, rank, x) - 1 ELSE 0
    BY <1>2, <1>5, TickCounts
  <2>2. left2 = cnt
    BY <1>2, <1>4, <1>5, <2>1
  <2>3. cnt[a] > 0
    BY <1>2, <1>4, <1>5
  <2> HIDE DEF cnt
  <2>4. Clock!Tick
    BY <1>1, <1>3, <2>1, <2>2, <2>3 DEF Clock!Tick
  <2>5. QED
    BY <2>4 DEF Clock!Next
<1>6. CASE rank[a] <= 1
  <2>1. /\ \A x \in Alarms : x # a => Countdown(requests', rank', x)
             = IF x \in ToSet(requests)
               THEN Countdown(requests, rank, x) - rank[a] ELSE 0
        /\ \/ /\ ticks[a] > 0 /\ Countdown(requests', rank', a) = ticks[a]
              /\ Enqueue(Tail(requests), [rank EXCEPT ![a] = @ - 1], a, ticks[a])
           \/ requests' = Tail(requests) /\ Countdown(requests', rank', a) = 0
    BY <1>2, <1>6, TickCounts
  <2>2. cnt[a] = 0 /\ cnt = [cnt EXCEPT ![a] = 0]
    BY <1>2, <1>4, <1>6
  <2>3. \A x \in Alarms : x # a => Countdown(requests', rank', x) = cnt[x]
    BY <1>2, <1>4, <1>6, <2>1
  <2>4. cnt \in [Alarms -> Int]
    BY <1>2
  <2> HIDE DEF cnt
  <2>5. CASE requests' = Tail(requests) /\ Countdown(requests', rank', a) = 0
    <3>1. left2 = [cnt EXCEPT ![a] = 0]
      BY <2>2, <2>3, <2>4, <2>5
    <3>2. Clock!Tick
      BY <1>1, <1>3, <2>2, <2>5, <3>1 DEF Clock!Tick
    <3>3. QED
      BY <3>2 DEF Clock!Next
  <2>6. CASE /\ ticks[a] > 0 /\ Countdown(requests', rank', a) = ticks[a]
             /\ Enqueue(Tail(requests), [rank EXCEPT ![a] = @ - 1], a, ticks[a])
    <3> DEFINE m  == Tail(requests)
               rk == [rank EXCEPT ![a] = @ - 1]
               k  == ticks[a]
    <3>1. left2 = [cnt EXCEPT ![a] = k]
      BY <2>3, <2>4, <2>6
    <3>2. k \in Nat /\ k \in Periods \ {0}
      <4>1. k \in Periods /\ k > 0
        BY <1>1, <1>2, <2>6
      <4> HIDE DEF k
      <4>2. QED
        BY <4>1, AlarmAssumption
    <3>3. m \in Seq(Alarms) /\ IsInjective(m) /\ ToSet(m) = ToSet(requests) \ {a}
      BY <1>1, TailFacts
    <3>4. rk \in [Alarms -> Int] /\ \A x \in Alarms : x # a => rk[x] = rank[x]
      BY <1>1
    <3>5. Ascending(m, rk)
      <4> SUFFICES ASSUME NEW x \in ToSet(m) PROVE rk[x] >= 0
        BY DEF Ascending
      <4>1. x \in Alarms /\ rank[x] >= 0 /\ x # a
        BY <1>1, <3>3, HeadFacts DEF Ascending
      <4> HIDE DEF rk
      <4>2. QED
        BY <3>4, <4>1
    <3>6. Enqueue(m, rk, a, k)
      BY <2>6
    <3> HIDE DEF rk, m, k
    <3>7. requests' = OrderedInsert(m, left2, a)
      BY <1>2, <3>2, <3>3, <3>4, <3>5, <3>6, EnqueueOrders
    <3>8. Clock!Enqueued(Tail(requests), Clock!Counted, a, k)
      BY <1>3, <3>1, <3>7, ClockOperators DEF Clock!Enqueued, m
    <3>9. Clock!Tick
      BY <1>1, <1>3, <2>2, <3>2, <3>8 DEF Clock!Tick
    <3>10. QED
      BY <3>9 DEF Clock!Next
  <2>7. QED
    BY <2>1, <2>5, <2>6
<1>7. QED
  BY <1>2, <1>5, <1>6

(* The queue of relative ranks does what a list of countdowns would do: a  *)
(* tick takes one off every countdown, an alarm that comes or goes changes *)
(* no other's, and the first one at zero is served.                        *)
THEOREM RequestsCountDownHolds == Spec => RequestsCountDown
<1>1. Init => Clock!Init
  <2> SUFFICES ASSUME Init PROVE Clock!Init
    OBVIOUS
  <2>1. requests = << >> /\ ToSet(requests) = {}
    BY DEF Init, ToSet
  <2>2. \A x : Countdown(requests, rank, x) = 0
    BY <2>1 DEF Countdown
  <2>3. QED
    BY <2>1, <2>2 DEF Clock!Init
<1>2. AlarmInv /\ CountsOK /\ [Next]_vars => [Clock!Next]_(Clock!clock)
  <2> SUFFICES ASSUME AlarmInv, CountsOK, [Next]_vars PROVE [Clock!Next]_(Clock!clock)
    OBVIOUS
  <2>1. ASSUME NEW a \in Alarms, NEW k \in Periods, NEW n \in Times \cup {INFINITE},
               Create(a, k, n)
        PROVE  [Clock!Next]_(Clock!clock)
    BY <2>1, CreateRequests
  <2>2. ASSUME NEW a \in Alarms, Delete(a) PROVE [Clock!Next]_(Clock!clock)
    BY <2>2, DeleteCancels
  <2>3. ASSUME NEW a \in Alarms, Call(a) PROVE [Clock!Next]_(Clock!clock)
    BY <2>3, ClockStutters DEF Call
  <2>4. CASE Tick
    BY <2>4, TickCountsDown
  <2>5. CASE UNCHANGED vars
    BY <2>5, ClockStutters DEF vars
  <2>6. QED
    BY <2>1, <2>2, <2>3, <2>4, <2>5 DEF Next
<1>3. QED
  BY <1>1, <1>2, CountsInvariantHolds, PTL DEF Spec, RequestsCountDown, Clock!Spec

=============================================================================
