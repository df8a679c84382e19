--------------------------- MODULE SemaphoreProofs ---------------------------
(***************************************************************************)
(* The synchronizers, for any number of them and of threads: what a        *)
(* semaphore's value counts, what its users hold, in which order its queue *)
(* is served, and that it implements a TokenPool.  A step of Synchronizers *)
(* is a step of Thread or none, so the invariant of ThreadProofs is        *)
(* available throughout.                                                   *)
(***************************************************************************)
EXTENDS SemaphorePool, ThreadProofs

-----------------------------------------------------------------------------
(* The invariant                                                           *)

(* What is always so at queue q.                                           *)
Counts(q) == q \in Semaphores \cap alive =>
    Len(queue[q]) = IF value[q] < 0 THEN -value[q] ELSE 0

Excludes(q) == q \in Guards \cap alive =>
    Cardinality(inside[q]) + (IF value[q] > 0 THEN value[q] ELSE 0) = Initial[q]

Held(q) == q \in Mutexes \cap alive =>
    (locked[q] \/ queue[q] # << >> => inside[q] # {})

(* A thread in the queue is not also inside.                               *)
Outside(q) == q \in Locks => \A t \in ToSet(queue[q]) : t \notin inside[q]

(* A synchronizer that is destroyed is being emptied, or is empty; and no  *)
(* other is emptied, a condition excepted.                                 *)
Dead(q) ==
    /\ q \notin alive => /\ queue[q] # << >> => q = waking
                         /\ q \in Locks => inside[q] = {}
    /\ q = waking /\ q \in alive => q \in Conditions

At(q) == Counts(q) /\ Excludes(q) /\ Held(q) /\ Outside(q) /\ Dead(q)

SyncInv == Parts /\ SyncTypeOK /\ \A q \in Queues : At(q)

-----------------------------------------------------------------------------
(* The queues in a step                                                    *)

(* The executing thread joins queue q.                                     *)
Arrives(q) ==
    /\ cpu \in Threads /\ cpu \notin ToSet(queue[q])
    /\ Len(queue'[q]) = Len(queue[q]) + 1
    /\ ToSet(queue'[q]) = ToSet(queue[q]) \cup {cpu}
    /\ \A r \in Queues : r # q => queue'[r] = queue[r]

(* The head of queue q leaves it.                                          *)
Departs(q) ==
    /\ queue[q] # << >>
    /\ Head(queue[q]) \in ToSet(queue[q]) /\ Head(queue[q]) \in Threads
    /\ Len(queue'[q]) = Len(queue[q]) - 1
    /\ ToSet(queue'[q]) = ToSet(queue[q]) \ {Head(queue[q])}
    /\ \A r \in Queues : r # q => queue'[r] = queue[r]

(* What the invariant says of the queues. *)
LEMMA QueueFacts ==
  ASSUME Parts, NEW q \in Queues
  PROVE  /\ queue[q] \in Seq(Threads) /\ IsInjective(queue[q])
         /\ ToSet(queue[q]) \subseteq Threads
         /\ Len(queue[q]) \in Nat
         /\ Len(queue[q]) = 0 <=> queue[q] = << >>
         /\ queue[q] = << >> <=> ToSet(queue[q]) = {}
         /\ cpu \in Threads /\ cpu = Running /\ cpu \notin ToSet(queue[q])
<1>1. queue[q] \in Seq(Threads) /\ IsInjective(queue[q])
  BY DEF Parts, WaitPart, WaitersQueued
<1>2. \A t \in ToSet(queue[q]) : state[t] = "waiting"
  BY DEF Parts, WaitPart, WaitersQueued
<1>3. cpu \in Threads /\ cpu = Running /\ state[cpu] = "running"
  BY SchedBasics DEF Parts
<1>4. Len(queue[q]) \in Nat /\ (Len(queue[q]) = 0 <=> queue[q] = << >>)
  BY <1>1
<1>5. ToSet(queue[q]) \subseteq Threads /\ (queue[q] = << >> <=> ToSet(queue[q]) = {})
  BY <1>1, HeadFacts
<1>6. QED
  BY <1>1, <1>2, <1>3, <1>4, <1>5

LEMMA SleepArrives ==
  ASSUME Parts, NEW q \in Queues, Sleep(q)
  PROVE  Arrives(q) /\ Application /\ waking' = waking
<1>1. /\ queue[q] \in Seq(Threads) /\ cpu = Running /\ cpu \in Threads
      /\ cpu \notin ToSet(queue[q])
  BY QueueFacts
<1>2. rank \in [Threads -> Int] /\ queue \in [Queues -> Seq(Threads)]
  BY SchedBasics DEF Parts, WaitPart
<1> DEFINE l == OrderedInsert(queue[q], rank, cpu)
<1>3. /\ Len(l) = Len(queue[q]) + 1
      /\ ToSet(l) = ToSet(queue[q]) \cup {cpu}
  BY <1>1, <1>2, OrderedInsertFacts
<1>4. Application /\ waking' = waking /\ queue' = [queue EXCEPT ![q] = l]
  BY <1>1 DEF Sleep, mode
<1> HIDE DEF l
<1>5. \A r \in Queues : queue'[r] = IF r = q THEN l ELSE queue[r]
  BY <1>2, <1>4
<1>6. QED
  BY <1>1, <1>3, <1>4, <1>5 DEF Arrives

LEMMA AwakenDeparts ==
  ASSUME Parts, NEW q \in Queues, queue[q] # << >>, Awaken(q)
  PROVE  Departs(q)
<1>1. queue[q] \in Seq(Threads) /\ IsInjective(queue[q]) /\ Len(queue[q]) \in Nat
  BY QueueFacts
<1>2. Head(queue[q]) \in ToSet(queue[q]) /\ Head(queue[q]) \in Threads
  BY <1>1, HeadFacts
<1>3. ToSet(Tail(queue[q])) = ToSet(queue[q]) \ {Head(queue[q])}
  BY <1>1, TailFacts
<1>4. Len(Tail(queue[q])) = Len(queue[q]) - 1
  BY <1>1
<1>5. queue' = [queue EXCEPT ![q] = Tail(@)] /\ queue \in [Queues -> Seq(Threads)]
  BY DEF Awaken, Parts, WaitPart
<1>6. \A r \in Queues : queue'[r] = IF r = q THEN Tail(queue[q]) ELSE queue[r]
  BY <1>5
<1>7. QED
  BY <1>2, <1>3, <1>4, <1>6 DEF Departs

LEMMA WakeupDeparts ==
  ASSUME Parts, NEW q \in Queues, Wakeup(q)
  PROVE  /\ Enabled /\ waking' = waking
         /\ queue[q] # << >> => Departs(q)
         /\ queue[q] = << >> => queue' = queue
<1>1. CASE queue[q] # << >>
  BY <1>1, AwakenDeparts DEF Wakeup, mode
<1>2. CASE queue[q] = << >>
  BY <1>2 DEF Wakeup, mode, waits
<1>3. QED
  BY <1>1, <1>2

(* What the threads do by themselves to queue q: nothing; or the loop of   *)
(* wakeup_all() takes its head; or a thread that waits in it is destroyed, *)
(* and then it is no semaphore's.                                          *)
Drifts(q) ==
    \/ queue'[q] = queue[q]
    \/ q = waking /\ Departs(q)
    \/ q \notin Semaphores /\ queue[q] # << >> /\ ToSet(queue'[q]) \subseteq ToSet(queue[q])

LEMMA DeleteDrifts ==
  ASSUME Parts, NEW t \in Threads, Delete(t), NEW q \in Queues,
         state'[t] \in {"free", "finishing"} /\ state'[t] # state[t] => EndsClean(t)
  PROVE  Drifts(q)
<1>1. /\ queue \in [Queues -> Seq(Threads)] /\ waiting \in [Threads -> Queues \cup {Null}]
      /\ WaitersQueued
  BY DEF Parts, WaitPart
<1>2. state \in [Threads -> States \cup {"free"}]
  BY SchedBasics DEF Parts
<1>3. queue' = Unqueued(t) /\ state' = [state EXCEPT ![t] = "free"] /\ state[t] # "free"
  BY DEF Delete
<1>4. EndsClean(t)
  BY <1>2, <1>3
<1>5. CASE state[t] # "waiting"
  BY <1>3, <1>5 DEF Unqueued, Drifts
<1>6. CASE state[t] = "waiting"
  <2>1. waiting[t] \in Queues /\ t \in ToSet(queue[waiting[t]])
    BY <1>1, <1>6 DEF WaitersQueued
  <2>2. queue' = [queue EXCEPT ![waiting[t]] = ListRemove(@, t)]
    BY <1>3, <1>6 DEF Unqueued
  <2>3. CASE q # waiting[t]
    BY <1>1, <2>2, <2>3 DEF Drifts
  <2>4. CASE q = waiting[t]
    <3>1. queue[q] \in Seq(Threads) /\ IsInjective(queue[q])
      BY QueueFacts
    <3>2. ToSet(ListRemove(queue[q], t)) = ToSet(queue[q]) \ {t}
      BY <3>1, ListRemoveFacts
    <3>3. queue'[q] = ListRemove(queue[q], t)
      BY <1>1, <2>2, <2>4
    <3>4. queue[q] # << >>
      BY <2>1, <2>4, QueueFacts
    <3>5. q \notin Semaphores
      BY <1>4, <1>6, <2>4 DEF EndsClean
    <3>6. QED
      BY <3>2, <3>3, <3>4, <3>5 DEF Drifts
  <2>5. QED
    BY <2>3, <2>4
<1>7. QED
  BY <1>5, <1>6

LEMMA ThreadStepDrifts ==
  ASSUME Parts, ThreadStep
  PROVE  /\ \A q \in Queues : Drifts(q)
         /\ UNCHANGED sync
         /\ \/ waking' = waking
            \/ waking' = Null /\ waking # Null /\ queue[waking] = << >>
         /\ waking \in Queues \cup {Null}
<1>1. UNCHANGED sync
  BY DEF ThreadStep
<1>2. waking \in Queues \cup {Null}
  BY DEF Parts, ModePart
<1>3. ASSUME NEW t \in Threads, Operation(t)
      PROVE  waking' = waking /\ \A q \in Queues : Drifts(q)
  <2>1. CASE Delete(t)
    BY <2>1, DeleteDrifts DEF Delete, mode, ThreadStep
  <2>2. CASE \E r \in Ranks, st \in {"beginning", "ready", "suspended"} : Create(t, r, st)
    BY <2>2 DEF Create, mode, Drifts
  <2>3. CASE \/ \E p \in Ranks : Priority(t, p)
             \/ Suspend(t) \/ Resume(t)
    BY <2>3 DEF Priority, Suspend, Resume, mode, waits, Drifts
  <2>4. CASE Join(t)
    BY <2>4 DEF Join, BlockJoiner, vars, mode, waits, Drifts
  <2>5. CASE Pass(t)
    BY <2>5 DEF Pass, vars, mode, waits, Drifts
  <2>6. QED
    BY <1>3, <2>1, <2>2, <2>3, <2>4, <2>5 DEF Operation
<1>4. ASSUME Yield \/ Exit \/ JoinReturn \/ TimeSlice \/ IdleYield \/ Reboot
      PROVE  queue' = queue /\ waking' = waking
  <2>1. CASE Yield \/ IdleYield
    BY <2>1 DEF Yield, IdleYield, YieldThread, mode, waits
  <2>2. CASE Exit
    BY <2>2 DEF Exit, mode, waits
  <2>3. CASE JoinReturn
    BY <2>3 DEF JoinReturn, mode, waits
  <2>4. CASE TimeSlice \/ Reboot
    BY <2>4 DEF TimeSlice, Reboot, mode, waits
  <2>5. QED
    BY <1>4, <2>1, <2>2, <2>3, <2>4
<1>5. CASE WakeupAllTurn
  <2>1. /\ waking \in Queues /\ queue[waking] # << >> /\ Awaken(waking)
        /\ waking' = waking
    BY <1>2, <1>5 DEF WakeupAllTurn, mode
  <2>2. Departs(waking)
    BY <2>1, AwakenDeparts
  <2>3. \A q \in Queues : Drifts(q)
    BY <2>2 DEF Drifts, Departs
  <2>4. QED
    BY <1>1, <1>2, <2>1, <2>3
<1>6. CASE WakeupAllEnd
  BY <1>1, <1>2, <1>6 DEF WakeupAllEnd, waits, Drifts
<1>7. CASE Yield \/ Exit \/ JoinReturn \/ TimeSlice \/ IdleYield \/ Reboot
  BY <1>1, <1>2, <1>4, <1>7 DEF Drifts
<1>8. CASE \E t \in Threads : Operation(t)
  BY <1>1, <1>2, <1>3, <1>8
<1>9. QED
  BY <1>5, <1>6, <1>7, <1>8 DEF ThreadStep, System

-----------------------------------------------------------------------------
(* The steps                                                               *)

(* Every step is one of Thread's, or one that Thread does not see. *)
LEMMA StepsOfThread == SyncNext => [Next]_vars
<1>1. ASSUME NEW s \in Semaphores, P(s) \/ V(s) PROVE [Next]_vars
  <2>1. s \in Queues
    BY SynchronizerAssumption
  <2>2. Sleep(s) \/ Wakeup(s) \/ UNCHANGED vars
    BY <1>1 DEF P, V
  <2>3. QED
    BY <2>1, <2>2 DEF Next, Synchronization
<1>2. ASSUME NEW m \in Mutexes, Lock(m) \/ Unlock(m) PROVE [Next]_vars
  <2>1. m \in Queues
    BY SynchronizerAssumption
  <2>2. Sleep(m) \/ Wakeup(m) \/ UNCHANGED vars
    BY <1>2 DEF Lock, Unlock
  <2>3. QED
    BY <2>1, <2>2 DEF Next, Synchronization
<1>3. ASSUME NEW c \in Conditions, Wait(c) \/ Signal(c) \/ Broadcast(c) PROVE [Next]_vars
  <2>1. c \in Queues
    BY SynchronizerAssumption
  <2>2. QED
    BY <1>3, <2>1 DEF Wait, Signal, Broadcast, Next, Synchronization
<1>4. ASSUME NEW q \in Queues, Destroy(q) \/ Construct(q) PROVE [Next]_vars
  BY <1>4 DEF Destroy, Construct, Next, Synchronization
<1>5. ThreadStep => Next
  BY DEF ThreadStep, Next
<1>6. QED
  BY <1>1, <1>2, <1>3, <1>4, <1>5 DEF SyncNext

(* Queue r and its synchronizer are not touched. *)
Same(r) ==
    /\ queue'[r] = queue[r]
    /\ r \in alive' <=> r \in alive
    /\ r \in Semaphores => value'[r] = value[r]
    /\ r \in Mutexes => locked'[r] = locked[r]
    /\ r \in Locks => inside'[r] = inside[r]

LEMMA SameKeeps ==
  ASSUME NEW r \in Queues, At(r), Same(r),
         \/ waking' = waking
         \/ waking' = Null /\ waking # Null /\ queue[waking] = << >>
  PROVE  At(r)'
<1>1. r # Null
  BY ThreadAssumption
<1>2. Counts(r)'
  BY DEF At, Same, Counts
<1>3. Excludes(r)'
  BY SynchronizerAssumption DEF At, Same, Excludes, Locks
<1>4. Held(r)'
  BY DEF At, Same, Held, Locks
<1>5. Outside(r)'
  BY DEF At, Same, Outside
<1>6. Dead(r)'
  BY <1>1 DEF At, Same, Dead
<1>7. QED
  BY <1>2, <1>3, <1>4, <1>5, <1>6 DEF At

(* What is inside a lock is a finite set of threads. *)
LEMMA InsideFinite ==
  ASSUME SyncTypeOK, NEW l \in Locks
  PROVE  /\ inside[l] \subseteq Threads /\ IsFiniteSet(inside[l])
         /\ Cardinality(inside[l]) \in Nat
  BY ThreadAssumption, FS_Subset, FS_CardinalityType DEF SyncTypeOK

(* A semaphore is no mutex and no condition, and so on. *)
LEMMA Kinds ==
  /\ Semaphores \subseteq Queues /\ Mutexes \subseteq Queues /\ Conditions \subseteq Queues
  /\ Guards \subseteq Semaphores /\ Locks \subseteq Queues
  /\ \A q : q \in Semaphores => q \notin Mutexes /\ q \notin Conditions
  /\ \A q : q \in Mutexes => q \notin Semaphores /\ q \notin Conditions
  /\ Null \notin Queues
  BY SynchronizerAssumption, ThreadAssumption DEF Locks

(* The n tokens more that are taken from l, if it is a semaphore. *)
TokensMoved(l, n) ==
    /\ taken' \in [Semaphores -> Int]
    /\ \A r \in Semaphores : taken'[r] = IF r = l THEN taken[r] + n ELSE taken[r]

LEMMA TakeFacts ==
  ASSUME SyncTypeOK, NEW l, NEW n \in Int, TakeTokens(l, n)
  PROVE  TokensMoved(l, n)
  BY DEF SyncTypeOK, TakeTokens, TokensMoved

(* The executing thread enters lock l, or is not counted there. *)
LEMMA EnterFacts ==
  ASSUME SyncTypeOK, NEW l, Enter(l, {cpu}), MayEnter(l), cpu \in Threads
  PROVE  /\ inside' \in [Locks -> SUBSET Threads]
         /\ \A r \in Locks : r # l => inside'[r] = inside[r]
         /\ l \in Locks => /\ inside'[l] = inside[l] \cup {cpu}
                           /\ Cardinality(inside'[l]) = Cardinality(inside[l]) + 1
         /\ TokensMoved(l, 1)
<1> TokensMoved(l, 1)
  <2>1. TakeTokens(l, Cardinality({cpu})) /\ Cardinality({cpu}) = 1
    BY FS_Singleton DEF Enter
  <2>2. TakeTokens(l, 1)
    BY <2>1
  <2>3. QED
    BY <2>2, TakeFacts
<1>1. inside \in [Locks -> SUBSET Threads]
  BY DEF SyncTypeOK
<1>2. CASE l \in Locks
  <2>1. inside' = [inside EXCEPT ![l] = @ \cup {cpu}] /\ cpu \notin inside[l]
    BY <1>2 DEF Enter, MayEnter
  <2>2. inside'[l] = inside[l] \cup {cpu}
    BY <1>1, <1>2, <2>1
  <2>3. Cardinality(inside[l] \cup {cpu}) = Cardinality(inside[l]) + 1
    BY <1>2, <2>1, InsideFinite, FS_AddElement
  <2>4. QED
    BY <1>1, <1>2, <2>1, <2>2, <2>3
<1>3. CASE l \notin Locks
  BY <1>1, <1>3 DEF Enter
<1>4. QED
  BY <1>2, <1>3

(* It leaves, and those of T enter in its place, none of them inside.      *)
LEMMA LeaveFacts ==
  ASSUME SyncTypeOK, NEW l, NEW T, T \subseteq Threads, Leave(l, T), MayLeave(l),
         T = {} \/ \E t : T = {t}, l \in Locks => \A t \in T : t \notin inside[l]
  PROVE  /\ inside' \in [Locks -> SUBSET Threads]
         /\ \A r \in Locks : r # l => inside'[r] = inside[r]
         /\ l \in Locks => /\ inside'[l] = (inside[l] \ {cpu}) \cup T
                           /\ Cardinality(inside'[l])
                                = Cardinality(inside[l]) - (IF T = {} THEN 1 ELSE 0)
         /\ TokensMoved(l, IF T = {} THEN -1 ELSE 0)
<1> TokensMoved(l, IF T = {} THEN -1 ELSE 0)
  <2> DEFINE n == IF T = {} THEN -1 ELSE 0
  <2>1. CASE T = {}
    <3>1. Cardinality(T) = 0
      BY <2>1, FS_EmptySet
    <3>2. Cardinality(T) - 1 = n
      BY <2>1, <3>1
    <3>3. QED
      BY <3>2, TakeFacts DEF Leave
  <2>2. CASE T # {}
    <3>1. PICK t : T = {t}
      BY <2>2
    <3>2. Cardinality(T) = 1
      BY <3>1, FS_Singleton
    <3>3. Cardinality(T) - 1 = n
      BY <2>2, <3>2
    <3>4. QED
      BY <3>3, TakeFacts DEF Leave
  <2>3. QED
    BY <2>1, <2>2
<1>1. inside \in [Locks -> SUBSET Threads]
  BY DEF SyncTypeOK
<1>2. CASE l \in Locks
  <2>1. inside' = [inside EXCEPT ![l] = (@ \ {cpu}) \cup T] /\ cpu \in inside[l]
    BY <1>2 DEF Leave, MayLeave
  <2>2. inside'[l] = (inside[l] \ {cpu}) \cup T
    BY <1>1, <1>2, <2>1
  <2> DEFINE rest == inside[l] \ {cpu}
  <2>3. IsFiniteSet(rest) /\ Cardinality(rest) = Cardinality(inside[l]) - 1
    BY <1>2, <2>1, InsideFinite, FS_RemoveElement
  <2>4. CASE T = {}
    BY <1>1, <1>2, <2>1, <2>2, <2>3, <2>4
  <2>5. CASE T # {}
    <3>1. PICK t : T = {t}
      BY <2>5
    <3>2. t \notin rest
      BY <1>2, <3>1
    <3>3. Cardinality(rest \cup {t}) = Cardinality(rest) + 1
      BY <2>3, <3>2, FS_AddElement
    <3>4. Cardinality(inside[l]) \in Nat
      BY <1>2, InsideFinite
    <3>5. Cardinality(inside'[l]) = Cardinality(inside[l])
      BY <2>2, <2>3, <3>1, <3>3, <3>4
    <3>6. QED
      BY <1>1, <1>2, <2>1, <2>2, <2>5, <3>4, <3>5
  <2>6. QED
    BY <2>4, <2>5
<1>3. CASE l \notin Locks
  BY <1>1, <1>3 DEF Leave
<1>4. QED
  BY <1>2, <1>3

-----------------------------------------------------------------------------
(* The steps of a semaphore                                                *)

LEMMA PKeeps ==
  ASSUME SyncInv, NEW s \in Semaphores, P(s)
  PROVE  SyncTypeOK' /\ \A q \in Queues : At(q)'
<1>1. /\ s \in Queues /\ s \in alive /\ MayEnter(s) /\ alive' = alive /\ locked' = locked
      /\ value \in [Semaphores -> Int] /\ value' = [value EXCEPT ![s] = @ - 1]
      /\ \A r \in Semaphores : r # s => value'[r] = value[r]
      /\ value'[s] = value[s] - 1 /\ value[s] \in Int
      /\ s \notin Mutexes
  BY Kinds DEF P, SyncInv, SyncTypeOK
<1>2. Parts /\ SyncTypeOK /\ At(s) /\ \A q \in Queues : At(q)
  BY <1>1 DEF SyncInv
<1>3. CASE Dry(s) /\ Sleep(s) /\ UNCHANGED <<inside, taken>>
  <2>1. /\ value[s] < 1 /\ Arrives(s) /\ waking' = waking /\ Application /\ inside' = inside
        /\ taken' = taken
    BY <1>1, <1>2, <1>3, SleepArrives DEF Dry
  <2>2. waking' = Null /\ waking = Null
    BY <2>1 DEF Application, Enabled
  <2>3. Counts(s)'
    BY <1>1, <1>2, <2>1, QueueFacts DEF At, Counts, Arrives
  <2>4. Excludes(s)'
    BY <1>1, <1>2, <2>1 DEF At, Excludes
  <2>5. Outside(s)'
    BY <1>1, <1>2, <2>1 DEF At, Outside, Arrives, MayEnter
  <2>6. Dead(s)'
    BY <1>1, <2>2, Kinds DEF Dead
  <2>7. At(s)'
    BY <1>1, <2>3, <2>4, <2>5, <2>6 DEF At, Held
  <2>8. \A q \in Queues : q # s => At(q)'
    BY <1>1, <1>2, <2>1, SameKeeps DEF Same, Arrives
  <2>9. SyncTypeOK'
    BY <1>1, <1>2, <2>1 DEF SyncTypeOK
  <2>10. QED
    BY <2>7, <2>8, <2>9
<1>4. CASE ~Dry(s) /\ Application /\ Enter(s, {cpu}) /\ UNCHANGED vars
  <2>1. /\ ~(value[s] < 1) /\ queue' = queue /\ waking' = waking /\ waking = Null
        /\ cpu \in Threads
    BY <1>1, <1>2, <1>4, QueueFacts DEF Dry, vars, waits, mode, Application, Enabled
  <2>2. /\ inside' \in [Locks -> SUBSET Threads]
        /\ \A r \in Locks : r # s => inside'[r] = inside[r]
        /\ s \in Locks => /\ inside'[s] = inside[s] \cup {cpu}
                          /\ Cardinality(inside'[s]) = Cardinality(inside[s]) + 1
        /\ TokensMoved(s, 1)
    BY <1>1, <1>2, <1>4, <2>1, EnterFacts
  <2>3. Counts(s)' /\ queue[s] = << >>
    BY <1>1, <1>2, <2>1, QueueFacts DEF At, Counts
  <2>4. Excludes(s)'
    <3>1. CASE s \in Guards
      <4>1. Cardinality(inside[s]) \in Nat
        BY <1>2, <3>1, InsideFinite DEF Locks
      <4>2. QED
        BY <1>1, <1>2, <2>1, <2>2, <3>1, <4>1 DEF At, Excludes, Locks
    <3>2. CASE s \notin Guards
      BY <3>2 DEF Excludes
    <3>3. QED
      BY <3>1, <3>2
  <2>5. Outside(s)'
    BY <1>1, <1>2, <2>1, <2>3, QueueFacts DEF Outside
  <2>6. Dead(s)'
    BY <1>1, <2>1, Kinds DEF Dead
  <2>7. At(s)'
    BY <1>1, <2>3, <2>4, <2>5, <2>6 DEF At, Held
  <2>8. \A q \in Queues : q # s => At(q)'
    BY <1>1, <1>2, <2>1, <2>2, SameKeeps DEF Same
  <2>9. SyncTypeOK'
    BY <1>1, <1>2, <2>2 DEF SyncTypeOK, TokensMoved
  <2>10. QED
    BY <2>7, <2>8, <2>9
<1>5. QED
  BY <1>3, <1>4 DEF P

LEMMA VKeeps ==
  ASSUME SyncInv, NEW s \in Semaphores, V(s)
  PROVE  SyncTypeOK' /\ \A q \in Queues : At(q)'
<1>1. /\ s \in Queues /\ s \in alive /\ MayLeave(s) /\ alive' = alive /\ locked' = locked
      /\ value \in [Semaphores -> Int] /\ value' = [value EXCEPT ![s] = @ + 1]
      /\ \A r \in Semaphores : r # s => value'[r] = value[r]
      /\ value'[s] = value[s] + 1 /\ value[s] \in Int
      /\ s \notin Mutexes
  BY Kinds DEF V, SyncInv, SyncTypeOK
<1>2. Parts /\ SyncTypeOK /\ At(s) /\ \A q \in Queues : At(q)
  BY <1>1 DEF SyncInv
<1>3. CASE SomeoneWaits(s) /\ Wakeup(s) /\ Leave(s, Woken(s))
  <2> DEFINE t == Head(queue[s])
  <2>1. value[s] < 0 /\ queue[s] # << >> /\ Enabled /\ waking' = waking
    <3>1. value[s] < 0
      BY <1>3 DEF SomeoneWaits
    <3>2. Len(queue[s]) # 0
      BY <1>1, <1>2, <3>1 DEF At, Counts
    <3>3. queue[s] # << >>
      BY <1>1, <1>2, <3>2, QueueFacts
    <3>4. QED
      BY <1>1, <1>2, <1>3, <3>1, <3>3, WakeupDeparts
  <2>2. Departs(s)
    BY <1>1, <1>2, <1>3, <2>1, WakeupDeparts
  <2>3. t \in ToSet(queue[s]) /\ t \in Threads /\ Woken(s) = {t} /\ waking = Null
    BY <2>1, <2>2 DEF Departs, Woken, Enabled
  <2> HIDE DEF t
  <2>4. s \in Locks => t \notin inside[s]
    BY <1>2, <2>3 DEF At, Outside
  <2>5. Leave(s, {t}) /\ {t} \subseteq Threads
    BY <1>3, <2>3
  <2>6. /\ inside' \in [Locks -> SUBSET Threads]
        /\ \A r \in Locks : r # s => inside'[r] = inside[r]
        /\ s \in Locks => /\ inside'[s] = (inside[s] \ {cpu}) \cup {t}
                          /\ Cardinality(inside'[s])
                               = Cardinality(inside[s]) - (IF {t} = {} THEN 1 ELSE 0)
        /\ TokensMoved(s, IF {t} = {} THEN -1 ELSE 0)
    BY <1>1, <1>2, <2>4, <2>5, LeaveFacts
  <2>7. Counts(s)'
    BY <1>1, <1>2, <2>1, <2>2, QueueFacts DEF At, Counts, Departs
  <2>8. Excludes(s)'
    <3>1. CASE s \in Guards
      <4>1. Cardinality(inside[s]) \in Nat /\ Cardinality(inside'[s]) = Cardinality(inside[s])
        BY <1>2, <2>6, <3>1, InsideFinite DEF Locks
      <4>2. QED
        BY <1>1, <1>2, <2>1, <3>1, <4>1 DEF At, Excludes
    <3>2. CASE s \notin Guards
      BY <3>2 DEF Excludes
    <3>3. QED
      BY <3>1, <3>2
  <2>9. Outside(s)'
    BY <1>2, <2>2, <2>6 DEF At, Outside, Departs, t
  <2>10. Dead(s)'
    BY <1>1, <2>1, <2>3, Kinds DEF Dead
  <2>11. At(s)'
    BY <1>1, <2>7, <2>8, <2>9, <2>10 DEF At, Held
  <2>12. \A q \in Queues : q # s => At(q)'
    BY <1>1, <1>2, <2>1, <2>2, <2>6, SameKeeps DEF Same, Departs
  <2>13. SyncTypeOK'
    BY <1>1, <1>2, <2>6 DEF SyncTypeOK, TokensMoved
  <2>14. QED
    BY <2>11, <2>12, <2>13
<1>4. CASE ~SomeoneWaits(s) /\ Enabled /\ Leave(s, {}) /\ UNCHANGED vars
  <2>1. /\ ~(value[s] < 0) /\ queue' = queue /\ waking' = waking /\ waking = Null
    BY <1>1, <1>4 DEF SomeoneWaits, vars, waits, mode, Enabled
  <2>2. /\ inside' \in [Locks -> SUBSET Threads]
        /\ \A r \in Locks : r # s => inside'[r] = inside[r]
        /\ s \in Locks => /\ inside'[s] = (inside[s] \ {cpu}) \cup {}
                          /\ Cardinality(inside'[s])
                               = Cardinality(inside[s]) - (IF {} = {} THEN 1 ELSE 0)
        /\ TokensMoved(s, IF {} = {} THEN -1 ELSE 0)
    BY <1>1, <1>2, <1>4, LeaveFacts
  <2>3. Counts(s)' /\ queue[s] = << >>
    BY <1>1, <1>2, <2>1, QueueFacts DEF At, Counts
  <2>4. Excludes(s)'
    <3>1. CASE s \in Guards
      <4>1. /\ Cardinality(inside[s]) \in Nat
            /\ Cardinality(inside'[s]) = Cardinality(inside[s]) - 1
        BY <1>2, <2>2, <3>1, InsideFinite DEF Locks
      <4>2. QED
        BY <1>1, <1>2, <2>1, <3>1, <4>1 DEF At, Excludes
    <3>2. CASE s \notin Guards
      BY <3>2 DEF Excludes
    <3>3. QED
      BY <3>1, <3>2
  <2>5. Outside(s)'
    BY <1>1, <1>2, <2>1, <2>3, QueueFacts DEF Outside
  <2>6. Dead(s)'
    BY <1>1, <2>1, Kinds DEF Dead
  <2>7. At(s)'
    BY <1>1, <2>3, <2>4, <2>5, <2>6 DEF At, Held
  <2>8. \A q \in Queues : q # s => At(q)'
    BY <1>1, <1>2, <2>1, <2>2, SameKeeps DEF Same
  <2>9. SyncTypeOK'
    BY <1>1, <1>2, <2>2 DEF SyncTypeOK, TokensMoved
  <2>10. QED
    BY <2>7, <2>8, <2>9
<1>5. QED
  BY <1>3, <1>4 DEF V

-----------------------------------------------------------------------------
(* The steps of a mutex and of a condition                                 *)

LEMMA LockKeeps ==
  ASSUME SyncInv, NEW m \in Mutexes, Lock(m)
  PROVE  SyncTypeOK' /\ \A q \in Queues : At(q)'
<1>1. /\ m \in Queues /\ m \in Locks /\ m \in alive /\ MayEnter(m)
      /\ alive' = alive /\ value' = value
      /\ locked \in [Mutexes -> BOOLEAN] /\ locked' = [locked EXCEPT ![m] = TRUE]
      /\ \A r \in Mutexes : r # m => locked'[r] = locked[r]
      /\ m \notin Semaphores /\ m \notin Guards
  BY Kinds DEF Lock, SyncInv, SyncTypeOK, Locks
<1>2. Parts /\ SyncTypeOK /\ At(m) /\ \A q \in Queues : At(q)
  BY <1>1 DEF SyncInv
<1>3. Counts(m)' /\ Excludes(m)'
  BY <1>1 DEF Counts, Excludes
<1>4. CASE locked[m] /\ Sleep(m) /\ UNCHANGED <<inside, taken>>
  <2>1. /\ Arrives(m) /\ waking' = waking /\ Application /\ inside' = inside
        /\ taken' = taken
    BY <1>1, <1>2, <1>4, SleepArrives
  <2>2. waking' = Null
    BY <2>1 DEF Application, Enabled
  <2>3. Held(m)'
    BY <1>1, <1>2, <1>4, <2>1 DEF At, Held
  <2>4. Outside(m)'
    BY <1>1, <1>2, <2>1 DEF At, Outside, Arrives, MayEnter
  <2>5. Dead(m)'
    BY <1>1, <2>2, Kinds DEF Dead
  <2>6. \A q \in Queues : q # m => At(q)'
    BY <1>1, <1>2, <2>1, SameKeeps DEF Same, Arrives
  <2>7. SyncTypeOK'
    BY <1>1, <1>2, <2>1 DEF SyncTypeOK
  <2>8. QED
    BY <1>3, <2>3, <2>4, <2>5, <2>6, <2>7 DEF At
<1>5. CASE ~locked[m] /\ Application /\ Enter(m, {cpu}) /\ UNCHANGED vars
  <2>1. /\ queue' = queue /\ waking' = waking /\ waking = Null /\ cpu \in Threads
        /\ cpu \notin ToSet(queue[m])
    BY <1>1, <1>2, <1>5, QueueFacts DEF vars, waits, mode, Application, Enabled
  <2>2. /\ inside' \in [Locks -> SUBSET Threads]
        /\ \A r \in Locks : r # m => inside'[r] = inside[r]
        /\ inside'[m] = inside[m] \cup {cpu}
        /\ TokensMoved(m, 1)
    BY <1>1, <1>2, <1>5, <2>1, EnterFacts
  <2>3. Held(m)'
    BY <2>2 DEF Held
  <2>4. Outside(m)'
    BY <1>2, <2>1, <2>2 DEF At, Outside
  <2>5. Dead(m)'
    BY <1>1, <2>1, Kinds DEF Dead
  <2>6. \A q \in Queues : q # m => At(q)'
    BY <1>1, <1>2, <2>1, <2>2, SameKeeps DEF Same
  <2>7. SyncTypeOK'
    BY <1>1, <1>2, <2>2 DEF SyncTypeOK, TokensMoved
  <2>8. QED
    BY <1>3, <2>3, <2>4, <2>5, <2>6, <2>7 DEF At
<1>6. QED
  BY <1>4, <1>5 DEF Lock

LEMMA UnlockKeeps ==
  ASSUME SyncInv, NEW m \in Mutexes, Unlock(m)
  PROVE  SyncTypeOK' /\ \A q \in Queues : At(q)'
<1>1. /\ m \in Queues /\ m \in Locks /\ m \in alive /\ MayLeave(m)
      /\ alive' = alive /\ value' = value
      /\ locked \in [Mutexes -> BOOLEAN] /\ locked' = [locked EXCEPT ![m] = FALSE]
      /\ \A r \in Mutexes : r # m => locked'[r] = locked[r]
      /\ ~locked'[m] /\ m \notin Semaphores /\ m \notin Guards
  BY Kinds DEF Unlock, SyncInv, SyncTypeOK, Locks
<1>2. Parts /\ SyncTypeOK /\ At(m) /\ \A q \in Queues : At(q)
  BY <1>1 DEF SyncInv
<1>3. Counts(m)' /\ Excludes(m)'
  BY <1>1 DEF Counts, Excludes
<1>4. Wakeup(m) /\ Leave(m, Woken(m))
  BY DEF Unlock
<1>5. /\ waking' = waking /\ waking = Null
      /\ queue[m] # << >> => Departs(m)
      /\ queue[m] = << >> => queue' = queue
  BY <1>1, <1>2, <1>4, WakeupDeparts DEF Enabled
<1>6. \A r \in Queues : r # m => queue'[r] = queue[r]
  BY <1>1, <1>5 DEF Departs
<1>7. Dead(m)'
  BY <1>1, <1>5, Kinds DEF Dead
<1>8. CASE queue[m] = << >>
  <2>1. Woken(m) = {} /\ queue'[m] = << >> /\ ToSet(queue[m]) = {}
    BY <1>1, <1>2, <1>5, <1>8, QueueFacts DEF Woken
  <2>2. Leave(m, {})
    BY <1>4, <2>1
  <2>3. /\ inside' \in [Locks -> SUBSET Threads]
        /\ \A r \in Locks : r # m => inside'[r] = inside[r]
        /\ TokensMoved(m, IF {} = {} THEN -1 ELSE 0)
    BY <1>1, <1>2, <2>2, LeaveFacts
  <2>4. Held(m)' /\ Outside(m)'
    BY <1>1, <1>5, <1>8, <2>1 DEF Held, Outside
  <2>5. At(m)'
    BY <1>3, <1>7, <2>4 DEF At
  <2>6. \A q \in Queues : q # m => At(q)'
    BY <1>1, <1>2, <1>5, <1>6, <2>3, SameKeeps DEF Same
  <2>7. SyncTypeOK'
    BY <1>1, <1>2, <2>3 DEF SyncTypeOK, TokensMoved
  <2>8. QED
    BY <2>5, <2>6, <2>7
<1>9. CASE queue[m] # << >>
  <2> DEFINE t == Head(queue[m])
  <2>1. Departs(m) /\ Woken(m) = {t} /\ t \in ToSet(queue[m]) /\ t \in Threads
    BY <1>5, <1>9 DEF Woken, Departs
  <2> HIDE DEF t
  <2>2. Leave(m, {t}) /\ {t} \subseteq Threads /\ t \notin inside[m]
    BY <1>1, <1>2, <1>4, <2>1 DEF At, Outside
  <2>3. /\ inside' \in [Locks -> SUBSET Threads]
        /\ \A r \in Locks : r # m => inside'[r] = inside[r]
        /\ inside'[m] = (inside[m] \ {cpu}) \cup {t}
        /\ TokensMoved(m, IF {t} = {} THEN -1 ELSE 0)
    BY <1>1, <1>2, <2>2, LeaveFacts
  <2>4. Held(m)'
    BY <2>3 DEF Held
  <2>5. Outside(m)'
    BY <1>2, <2>1, <2>3 DEF At, Outside, Departs, t
  <2>6. At(m)'
    BY <1>3, <1>7, <2>4, <2>5 DEF At
  <2>7. \A q \in Queues : q # m => At(q)'
    BY <1>1, <1>2, <1>5, <1>6, <2>3, SameKeeps DEF Same
  <2>8. SyncTypeOK'
    BY <1>1, <1>2, <2>3 DEF SyncTypeOK, TokensMoved
  <2>9. QED
    BY <2>6, <2>7, <2>8
<1>10. QED
  BY <1>8, <1>9

LEMMA ConditionKeeps ==
  ASSUME SyncInv, NEW c \in Conditions, Wait(c) \/ Signal(c) \/ Broadcast(c)
  PROVE  SyncTypeOK' /\ \A q \in Queues : At(q)'
<1>1. /\ c \in Queues /\ c \in alive /\ c \notin Semaphores /\ c \notin Mutexes
      /\ c \notin Locks /\ c \notin Guards
      /\ value' = value /\ locked' = locked /\ alive' = alive /\ inside' = inside
      /\ taken' = taken
  BY Kinds DEF Wait, Signal, Broadcast, sync, Locks
<1>2. Parts /\ SyncTypeOK /\ \A q \in Queues : At(q)
  BY DEF SyncInv
<1>3. At(c)'
  BY <1>1 DEF At, Counts, Excludes, Held, Outside, Dead
<1>4. \A r \in Queues : r # c => queue'[r] = queue[r]
  <2>1. CASE Wait(c)
    BY <1>1, <1>2, <2>1, SleepArrives DEF Wait, Arrives
  <2>2. CASE Signal(c)
    BY <1>1, <1>2, <2>2, WakeupDeparts DEF Signal, Departs
  <2>3. CASE Broadcast(c)
    BY <2>3 DEF Broadcast, WakeupAll, waits
  <2>4. QED
    BY <2>1, <2>2, <2>3
<1>5. waking = Null /\ waking' \in {Null, c}
  <2>1. CASE Wait(c)
    BY <1>1, <1>2, <2>1, SleepArrives DEF Wait, Application, Enabled
  <2>2. CASE Signal(c)
    BY <1>1, <1>2, <2>2, WakeupDeparts DEF Signal, Enabled
  <2>3. CASE Broadcast(c)
    BY <2>3 DEF Broadcast, WakeupAll, Enabled
  <2>4. QED
    BY <2>1, <2>2, <2>3
<1>6. ASSUME NEW q \in Queues, q # c PROVE At(q)'
  <2>1. Counts(q)' /\ Excludes(q)' /\ Held(q)' /\ Outside(q)'
    BY <1>1, <1>2, <1>4, <1>6 DEF At, Counts, Excludes, Held, Outside
  <2>2. Dead(q)'
    BY <1>1, <1>2, <1>4, <1>5, <1>6, Kinds DEF At, Dead
  <2>3. QED
    BY <2>1, <2>2 DEF At
<1>7. SyncTypeOK'
  BY <1>1, <1>2 DEF SyncTypeOK
<1>8. QED
  BY <1>3, <1>6, <1>7

-----------------------------------------------------------------------------
(* Construction and destruction, and the threads                           *)

LEMMA DestroyKeeps ==
  ASSUME SyncInv, NEW d \in Queues, Destroy(d)
  PROVE  SyncTypeOK' /\ \A q \in Queues : At(q)'
<1>1. /\ d \in alive /\ alive' = alive \ {d} /\ value' = value /\ locked' = locked
      /\ taken' = taken
      /\ inside' = IF d \in Locks THEN [inside EXCEPT ![d] = {}] ELSE inside
      /\ waking = Null /\ waking' = d /\ queue' = queue
  BY DEF Destroy, WakeupAll, Enabled, waits
<1>2. SyncTypeOK /\ \A q \in Queues : At(q)
  BY DEF SyncInv
<1>3. /\ inside' \in [Locks -> SUBSET Threads]
      /\ \A r \in Locks : inside'[r] = IF r = d THEN {} ELSE inside[r]
  BY <1>1, <1>2 DEF SyncTypeOK
<1>4. SyncTypeOK'
  BY <1>1, <1>2, <1>3 DEF SyncTypeOK
<1>5. At(d)'
  BY <1>1, <1>3 DEF At, Counts, Excludes, Held, Outside, Dead
<1>6. ASSUME NEW q \in Queues, q # d PROVE At(q)'
  <2>1. Counts(q)' /\ Held(q)' /\ Outside(q)'
    BY <1>1, <1>2, <1>3, <1>6 DEF At, Counts, Held, Outside, Locks
  <2>2. Excludes(q)'
    BY <1>1, <1>2, <1>3, <1>6 DEF At, Excludes, Locks
  <2>3. Dead(q)'
    BY <1>1, <1>2, <1>3, <1>6, Kinds DEF At, Dead
  <2>4. QED
    BY <2>1, <2>2, <2>3 DEF At
<1>7. QED
  BY <1>4, <1>5, <1>6

LEMMA ConstructKeeps ==
  ASSUME SyncInv, NEW d \in Queues, Construct(d)
  PROVE  SyncTypeOK' /\ \A q \in Queues : At(q)'
<1>1. /\ d \notin alive /\ alive' = alive \cup {d} /\ inside' = inside
      /\ value' = IF d \in Semaphores THEN [value EXCEPT ![d] = Initial[d]] ELSE value
      /\ locked' = IF d \in Mutexes THEN [locked EXCEPT ![d] = FALSE] ELSE locked
      /\ taken' = IF d \in Semaphores THEN [taken EXCEPT ![d] = 0] ELSE taken
      /\ waking = Null /\ waking' = waking /\ queue' = queue
  BY DEF Construct, Application, Enabled, vars, waits, mode
<1>2. SyncTypeOK /\ Parts /\ \A q \in Queues : At(q)
  BY DEF SyncInv
<1>3. /\ \A r \in Semaphores : value'[r] = IF r = d THEN Initial[r] ELSE value[r]
      /\ value' \in [Semaphores -> Int]
      /\ Initial \in [Semaphores -> Nat]
  BY <1>1, <1>2, SynchronizerAssumption DEF SyncTypeOK
<1>4. /\ \A r \in Mutexes : locked'[r] = IF r = d THEN FALSE ELSE locked[r]
      /\ locked' \in [Mutexes -> BOOLEAN]
  BY <1>1, <1>2 DEF SyncTypeOK
<1>5. SyncTypeOK'
  BY <1>1, <1>2, <1>3, <1>4 DEF SyncTypeOK
<1>6. queue[d] = << >> /\ (d \in Locks => inside[d] = {})
  BY <1>1, <1>2, Kinds DEF At, Dead
<1>7. At(d)'
  <2>1. Counts(d)'
    BY <1>1, <1>2, <1>3, <1>6, QueueFacts DEF Counts
  <2>2. Excludes(d)'
    <3>1. CASE d \in Guards
      <4>1. d \in Semaphores /\ inside'[d] = {} /\ value'[d] = Initial[d] /\ Initial[d] \in Nat
        BY <1>1, <1>3, <1>6, <3>1, Kinds DEF Locks
      <4>2. Cardinality({}) = 0
        BY FS_EmptySet
      <4>3. QED
        BY <4>1, <4>2 DEF Excludes
    <3>2. CASE d \notin Guards
      BY <3>2 DEF Excludes
    <3>3. QED
      BY <3>1, <3>2
  <2>3. Held(d)' /\ Outside(d)'
    BY <1>1, <1>2, <1>4, <1>6 DEF Held, Outside, At
  <2>4. Dead(d)'
    BY <1>1, Kinds DEF Dead
  <2>5. QED
    BY <2>1, <2>2, <2>3, <2>4 DEF At
<1>8. \A q \in Queues : q # d => At(q)'
  BY <1>1, <1>2, <1>3, <1>4, SameKeeps DEF Same
<1>9. QED
  BY <1>5, <1>7, <1>8

LEMMA ThreadStepKeeps ==
  ASSUME SyncInv, ThreadStep
  PROVE  SyncTypeOK' /\ \A q \in Queues : At(q)'
<1>1. /\ \A q \in Queues : Drifts(q)
      /\ value' = value /\ locked' = locked /\ alive' = alive /\ inside' = inside
      /\ taken' = taken
      /\ \/ waking' = waking
         \/ waking' = Null /\ waking # Null /\ queue[waking] = << >>
  BY ThreadStepDrifts DEF SyncInv, sync
<1>2. SyncTypeOK /\ Parts /\ \A q \in Queues : At(q)
  BY DEF SyncInv
<1>3. SyncTypeOK'
  BY <1>1, <1>2 DEF SyncTypeOK
<1>4. ASSUME NEW q \in Queues PROVE At(q)'
  <2>1. CASE queue'[q] = queue[q]
    BY <1>1, <1>2, <2>1, SameKeeps DEF Same
  <2>2. CASE queue'[q] # queue[q]
    <3>1. queue[q] # << >> /\ ToSet(queue'[q]) \subseteq ToSet(queue[q])
      BY <1>1, <2>2 DEF Drifts, Departs
    <3>2. q \in Semaphores => q = waking
      BY <1>1, <2>2 DEF Drifts
    <3>3. q = waking /\ q \in alive => q \in Conditions
      BY <1>2 DEF At, Dead
    <3>4. q \in Semaphores => q \notin alive
      BY <3>2, <3>3, Kinds
    <3>5. Counts(q)' /\ Excludes(q)'
      BY <1>1, <3>4, Kinds DEF Counts, Excludes
    <3>6. Held(q)' /\ Outside(q)'
      BY <1>1, <1>2, <3>1 DEF At, Held, Outside
    <3>7. Dead(q)'
      BY <1>1, <1>2, <3>1, Kinds DEF At, Dead
    <3>8. QED
      BY <3>5, <3>6, <3>7 DEF At
  <2>3. QED
    BY <2>1, <2>2
<1>5. QED
  BY <1>3, <1>4

-----------------------------------------------------------------------------
(* The theorems                                                            *)

LEMMA SyncInitInv == SyncInit => SyncInv
<1> SUFFICES ASSUME SyncInit PROVE SyncInv
  OBVIOUS
<1>1. Init /\ value = Initial /\ locked = [m \in Mutexes |-> FALSE] /\ alive = Queues
      /\ inside = [l \in Locks |-> {}] /\ taken = [s \in Semaphores |-> 0]
  BY DEF SyncInit
<1>2. Parts
  BY <1>1, InitInv, InvIsParts
<1>3. Initial \in [Semaphores -> Nat]
  BY SynchronizerAssumption
<1>4. SyncTypeOK
  BY <1>1, <1>3 DEF SyncTypeOK
<1>5. waking = Null /\ \A q \in Queues : queue[q] = << >>
  BY <1>1 DEF Init
<1>6. ASSUME NEW q \in Queues PROVE At(q)
  <2>1. Len(queue[q]) = 0 /\ ToSet(queue[q]) = {}
    BY <1>2, <1>5, QueueFacts
  <2>2. Counts(q)
    BY <1>1, <1>3, <2>1 DEF Counts
  <2>3. Excludes(q)
    <3>1. CASE q \in Guards
      <4>1. inside[q] = {} /\ value[q] = Initial[q] /\ Initial[q] \in Nat
        BY <1>1, <1>3, <3>1, Kinds DEF Locks
      <4>2. Cardinality({}) = 0
        BY FS_EmptySet
      <4>3. QED
        BY <4>1, <4>2 DEF Excludes
    <3>2. CASE q \notin Guards
      BY <3>2 DEF Excludes
    <3>3. QED
      BY <3>1, <3>2
  <2>4. Held(q) /\ Outside(q) /\ Dead(q)
    BY <1>1, <1>5, <2>1, ThreadAssumption DEF Held, Outside, Dead
  <2>5. QED
    BY <2>2, <2>3, <2>4 DEF At
<1>7. QED
  BY <1>2, <1>4, <1>6 DEF SyncInv

LEMMA SyncStepKeeps ==
  ASSUME Allow = {}, SyncInv, [SyncNext]_syncvars
  PROVE  SyncInv'
<1>1. CASE UNCHANGED syncvars
  <2>1. /\ Parts'
        /\ queue' = queue /\ waking' = waking /\ value' = value /\ locked' = locked
        /\ alive' = alive /\ inside' = inside /\ taken' = taken
    BY <1>1, OnlySame DEF syncvars, sync, vars, waits, mode, SyncInv
  <2>2. \A q \in Queues : At(q)'
    BY <2>1, SameKeeps DEF SyncInv, Same
  <2>3. QED
    BY <2>1, <2>2 DEF SyncInv, SyncTypeOK
<1>2. CASE SyncNext
  <2>1. Parts'
    <3>1. [Next]_vars /\ Parts
      BY <1>2, StepsOfThread DEF SyncInv
    <3>2. QED
      BY <3>1, StepKeeps, OnlySame
  <2>2. SyncTypeOK' /\ \A q \in Queues : At(q)'
    <3>1. CASE \E s \in Semaphores : P(s) \/ V(s)
      BY <3>1, PKeeps, VKeeps
    <3>2. CASE \E m \in Mutexes : Lock(m) \/ Unlock(m)
      BY <3>2, LockKeeps, UnlockKeeps
    <3>3. CASE \E c \in Conditions : Wait(c) \/ Signal(c) \/ Broadcast(c)
      BY <3>3, ConditionKeeps
    <3>4. CASE \E q \in Queues : Destroy(q) \/ Construct(q)
      BY <3>4, DestroyKeeps, ConstructKeeps
    <3>5. CASE ThreadStep
      BY <3>5, ThreadStepKeeps
    <3>6. QED
      BY <1>2, <3>1, <3>2, <3>3, <3>4, <3>5 DEF SyncNext
  <2>3. QED
    BY <2>1, <2>2 DEF SyncInv
<1>3. QED
  BY <1>1, <1>2

(* The inductive invariant holds in every behaviour of the synchronizers.  *)
THEOREM SyncInvariantHolds ==
  ASSUME Allow = {}
  PROVE  SyncSpec => []SyncInv
<1>1. SyncInv /\ [SyncNext]_syncvars => SyncInv'
  BY SyncStepKeeps
<1>2. QED
  BY <1>1, SyncInitInv, PTL DEF SyncSpec

(* Synchronizers use threads as Thread says they may be used: whatever is  *)
(* proved of Thread is true of them.                                       *)
THEOREM SynchronizersUseThreads == SyncSpec => Spec
<1>1. SyncInit => Init
  BY DEF SyncInit
<1>2. [SyncNext]_syncvars => [Next]_vars
  BY StepsOfThread DEF syncvars
<1>3. QED
  BY <1>1, <1>2, PTL DEF SyncSpec, Spec

(* No sequence of operations leaves a value, a lock or the record of who   *)
(* is inside outside its type, for any number of threads and queues.       *)
THEOREM SyncTypeOKHolds ==
  ASSUME Allow = {}
  PROVE  SyncSpec => []SyncTypeOK
<1>1. SyncInv => SyncTypeOK
  BY DEF SyncInv
<1>2. QED
  BY <1>1, SyncInvariantHolds, PTL

(* A semaphore that threads wait for counts them with a negative value:    *)
(* p() and v() never disagree with the queue.                              *)
THEOREM SemaphoreCountsHolds ==
  ASSUME Allow = {}
  PROVE  SyncSpec => []SemaphoreCounts
<1>1. SyncInv => SemaphoreCounts
  BY Kinds DEF SyncInv, At, Counts, SemaphoreCounts
<1>2. QED
  BY <1>1, SyncInvariantHolds, PTL

(* The users of a semaphore that call p(), then v(), are never more than   *)
(* it was constructed for, and it loses no token.                          *)
THEOREM GuardsExcludeHolds ==
  ASSUME Allow = {}
  PROVE  SyncSpec => []GuardsExclude
<1>1. SyncInv => GuardsExclude
  BY Kinds DEF SyncInv, At, Excludes, GuardsExclude
<1>2. QED
  BY <1>1, SyncInvariantHolds, PTL

(* No thread waits for a mutex that nobody holds, whose unlock() would     *)
(* wake it.                                                                *)
THEOREM MutexWaitersHaveHolderHolds ==
  ASSUME Allow = {}
  PROVE  SyncSpec => []MutexWaitersHaveHolder
<1>1. SyncInv => MutexWaitersHaveHolder
  BY Kinds DEF SyncInv, At, Held, MutexWaitersHaveHolder
<1>2. QED
  BY <1>1, SyncInvariantHolds, PTL

-----------------------------------------------------------------------------
(* The refinement                                                          *)

LEMMA WatchedFacts ==
  ASSUME SyncInv
  PROVE  /\ Watched \in Queues /\ Watched \in Semaphores
         /\ Watched \notin Mutexes /\ Watched \notin Conditions
         /\ Initial[Watched] \in Nat /\ value[Watched] \in Int /\ taken[Watched] \in Int
         /\ Parts /\ At(Watched) /\ cpu \in Threads
         /\ Len(queue[Watched]) \in Nat
         /\ queue[Watched] = << >> <=> ToSet(queue[Watched]) = {}
         /\ Len(queue[Watched]) = 0 <=> queue[Watched] = << >>
  BY WatchedAssumption, SynchronizerAssumption, Kinds, QueueFacts DEF SyncInv, SyncTypeOK

(* A step that touches another synchronizer, or none, is not seen. *)
LEMMA NotSeen ==
  ASSUME queue'[Watched] = queue[Watched], value'[Watched] = value[Watched],
         taken'[Watched] = taken[Watched], Watched \in alive' <=> Watched \in alive
  PROVE  UNCHANGED Pool!pool
  BY DEF Pool!pool

LEMMA PImplements ==
  ASSUME SyncInv, NEW s \in Semaphores, P(s)
  PROVE  [Pool!Next]_(Pool!pool)
<1>1. /\ s \in Queues /\ s \in alive /\ alive' = alive
      /\ value' = [value EXCEPT ![s] = @ - 1] /\ value \in [Semaphores -> Int]
      /\ \/ Dry(s) /\ Sleep(s) /\ taken' = taken
         \/ ~Dry(s) /\ Enter(s, {cpu}) /\ UNCHANGED vars
      /\ MayEnter(s) /\ SyncTypeOK
  BY Kinds DEF P, SyncInv, SyncTypeOK
<1>2. Dry(s) => Arrives(s)
  BY <1>1, SleepArrives DEF SyncInv
<1>3. ~Dry(s) => queue' = queue /\ TokensMoved(s, 1)
  BY <1>1, EnterFacts, WatchedFacts DEF vars, waits
<1>4. CASE s # Watched
  <2>1. /\ queue'[Watched] = queue[Watched] /\ value'[Watched] = value[Watched]
        /\ taken'[Watched] = taken[Watched]
    BY <1>1, <1>2, <1>3, <1>4, WatchedFacts DEF Arrives, TokensMoved
  <2>2. QED
    BY <1>1, <2>1, NotSeen
<1>5. CASE s = Watched /\ Dry(s)
  <2>1. /\ Arrives(Watched) /\ value[Watched] < 1 /\ value'[Watched] = value[Watched] - 1
        /\ taken' = taken
    BY <1>1, <1>2, <1>5 DEF Dry
  <2>2. Pool!Block(cpu) /\ cpu \in Threads
    BY <1>1, <1>5, <2>1, WatchedFacts DEF Pool!Block, Arrives
  <2>3. QED
    BY <2>2 DEF Pool!Next
<1>6. CASE s = Watched /\ ~Dry(s)
  <2>1. /\ ~(value[Watched] < 1) /\ value'[Watched] = value[Watched] - 1 /\ queue' = queue
        /\ taken'[Watched] = taken[Watched] + 1
    BY <1>1, <1>3, <1>6 DEF Dry, TokensMoved
  <2>2. queue[Watched] = << >>
    BY <1>1, <1>6, <2>1, WatchedFacts DEF At, Counts
  <2>3. Pool!Take
    BY <1>1, <1>6, <2>1, <2>2, WatchedFacts DEF Pool!Take
  <2>4. QED
    BY <2>3 DEF Pool!Next
<1>7. QED
  BY <1>4, <1>5, <1>6

LEMMA VImplements ==
  ASSUME SyncInv, NEW s \in Semaphores, V(s)
  PROVE  [Pool!Next]_(Pool!pool)
<1>1. /\ s \in Queues /\ s \in alive /\ alive' = alive
      /\ value' = [value EXCEPT ![s] = @ + 1] /\ value \in [Semaphores -> Int]
      /\ \/ SomeoneWaits(s) /\ Wakeup(s) /\ Leave(s, Woken(s))
         \/ ~SomeoneWaits(s) /\ Leave(s, {}) /\ UNCHANGED vars
      /\ Parts /\ At(s) /\ MayLeave(s) /\ SyncTypeOK
  BY Kinds DEF V, SyncInv, SyncTypeOK
<1>2. SomeoneWaits(s) => Departs(s)
  <2> SUFFICES ASSUME SomeoneWaits(s) PROVE Departs(s)
    OBVIOUS
  <2>1. Len(queue[s]) # 0
    BY <1>1 DEF SomeoneWaits, At, Counts
  <2>2. queue[s] # << >>
    BY <1>1, <2>1, QueueFacts
  <2>3. QED
    BY <1>1, <2>2, WakeupDeparts
<1>3. ~SomeoneWaits(s) => queue' = queue /\ TokensMoved(s, -1)
  <2> SUFFICES ASSUME ~SomeoneWaits(s) PROVE queue' = queue /\ TokensMoved(s, -1)
    OBVIOUS
  <2>1. TokensMoved(s, IF {} = {} THEN -1 ELSE 0)
    BY <1>1, LeaveFacts
  <2>2. QED
    BY <1>1, <2>1 DEF vars, waits
<1>3a. SomeoneWaits(s) => TokensMoved(s, 0)
  <2> SUFFICES ASSUME SomeoneWaits(s) PROVE TokensMoved(s, 0)
    OBVIOUS
  <2> DEFINE t == Head(queue[s])
  <2>1. Woken(s) = {t} /\ t \in ToSet(queue[s]) /\ t \in Threads
    BY <1>2 DEF Departs, Woken
  <2> HIDE DEF t
  <2>2. Leave(s, {t}) /\ {t} \subseteq Threads /\ (s \in Locks => t \notin inside[s])
    BY <1>1, <2>1 DEF At, Outside
  <2>3. TokensMoved(s, IF {t} = {} THEN -1 ELSE 0)
    BY <1>1, <2>2, LeaveFacts
  <2>4. QED
    BY <2>3
<1>4. CASE s # Watched
  <2>1. /\ queue'[Watched] = queue[Watched] /\ value'[Watched] = value[Watched]
        /\ taken'[Watched] = taken[Watched]
    BY <1>3a, <1>1, <1>2, <1>3, <1>4, WatchedFacts DEF Departs, TokensMoved
  <2>2. QED
    BY <1>1, <2>1, NotSeen
<1>5. CASE s = Watched /\ SomeoneWaits(s)
  <2>1. /\ Departs(Watched) /\ value[Watched] < 0 /\ value'[Watched] = value[Watched] + 1
        /\ taken'[Watched] = taken[Watched]
    BY <1>3a, <1>1, <1>2, <1>5, WatchedFacts DEF SomeoneWaits, TokensMoved
  <2>2. Pool!Grant(Head(queue[Watched])) /\ Head(queue[Watched]) \in Threads
    BY <1>1, <1>5, <2>1, WatchedFacts DEF Pool!Grant, Departs
  <2>3. QED
    BY <2>2 DEF Pool!Next
<1>6. CASE s = Watched /\ ~SomeoneWaits(s)
  <2>1. /\ ~(value[Watched] < 0) /\ value'[Watched] = value[Watched] + 1 /\ queue' = queue
        /\ taken'[Watched] = taken[Watched] - 1
    BY <1>1, <1>3, <1>6, WatchedFacts DEF SomeoneWaits, TokensMoved
  <2>2. queue[Watched] = << >>
    BY <1>1, <1>6, <2>1, WatchedFacts DEF At, Counts
  <2>3. Pool!Return
    BY <1>1, <1>6, <2>1, <2>2, WatchedFacts DEF Pool!Return
  <2>4. QED
    BY <2>3 DEF Pool!Next
<1>7. QED
  BY <1>4, <1>5, <1>6

LEMMA OthersImplement ==
  ASSUME SyncInv,
         \/ \E m \in Mutexes : Lock(m) \/ Unlock(m)
         \/ \E c \in Conditions : Wait(c) \/ Signal(c) \/ Broadcast(c)
  PROVE  [Pool!Next]_(Pool!pool)
<1>1. /\ Parts /\ Watched \in Queues /\ Watched \notin Mutexes /\ Watched \notin Conditions
      /\ \A m \in Mutexes : m \notin Semaphores
  BY WatchedFacts, Kinds
<1>2. ASSUME NEW q \in Queues, q # Watched, Sleep(q) \/ Wakeup(q)
      PROVE  queue'[Watched] = queue[Watched]
  BY <1>1, <1>2, SleepArrives, WakeupDeparts DEF Arrives, Departs
<1>3. ASSUME NEW m \in Mutexes, Lock(m) \/ Unlock(m) PROVE UNCHANGED Pool!pool
  <2>1. m \in Queues /\ m # Watched /\ value' = value /\ alive' = alive /\ taken' = taken
    BY <1>1, <1>3, Kinds DEF Lock, Unlock, Enter, Leave, TakeTokens
  <2>2. Sleep(m) \/ Wakeup(m) \/ queue' = queue
    BY <1>3 DEF Lock, Unlock, vars, waits
  <2>3. QED
    BY <1>2, <2>1, <2>2, NotSeen
<1>4. ASSUME NEW c \in Conditions, Wait(c) \/ Signal(c) \/ Broadcast(c)
      PROVE  UNCHANGED Pool!pool
  <2>1. c \in Queues /\ c # Watched /\ value' = value /\ alive' = alive /\ taken' = taken
    BY <1>1, <1>4, Kinds DEF Wait, Signal, Broadcast, sync
  <2>2. Sleep(c) \/ Wakeup(c) \/ queue' = queue
    BY <1>4 DEF Wait, Signal, Broadcast, WakeupAll, waits
  <2>3. QED
    BY <1>2, <2>1, <2>2, NotSeen
<1>5. QED
  BY <1>3, <1>4

LEMMA LifeImplements ==
  ASSUME SyncInv, NEW q \in Queues, Destroy(q) \/ Construct(q)
  PROVE  [Pool!Next]_(Pool!pool)
<1>1. CASE Destroy(q)
  <2>1. /\ q \in alive /\ alive' = alive \ {q} /\ value' = value /\ queue' = queue
        /\ taken' = taken
    BY <1>1 DEF Destroy, WakeupAll, waits
  <2>2. CASE q # Watched
    BY <2>1, <2>2, NotSeen
  <2>3. CASE q = Watched
    <3>1. Pool!Close
      BY <2>1, <2>3 DEF Pool!Close
    <3>2. QED
      BY <3>1 DEF Pool!Next
  <2>4. QED
    BY <2>2, <2>3
<1>2. CASE Construct(q)
  <2>1. /\ q \notin alive /\ alive' = alive \cup {q} /\ queue' = queue /\ waking = Null
        /\ value' = IF q \in Semaphores THEN [value EXCEPT ![q] = Initial[q]] ELSE value
        /\ taken' = IF q \in Semaphores THEN [taken EXCEPT ![q] = 0] ELSE taken
        /\ value \in [Semaphores -> Int] /\ taken \in [Semaphores -> Int]
    BY <1>2 DEF Construct, Application, Enabled, vars, waits, SyncInv, SyncTypeOK
  <2>2. CASE q # Watched
    <3>1. value'[Watched] = value[Watched] /\ taken'[Watched] = taken[Watched]
      BY <2>1, <2>2, WatchedFacts
    <3>2. QED
      BY <2>1, <2>2, <3>1, NotSeen
  <2>3. CASE q = Watched
    <3>1. /\ value'[Watched] = Initial[Watched] /\ Initial[Watched] \in Nat
          /\ taken'[Watched] = 0
      BY <2>1, <2>3, WatchedFacts
    <3>2. queue[Watched] = << >>
      BY <2>1, <2>3, WatchedFacts, Kinds DEF At, Dead
    <3>3. Pool!Reopen
      BY <2>1, <2>3, <3>1, <3>2, WatchedFacts DEF Pool!Reopen
    <3>4. QED
      BY <3>3 DEF Pool!Next
  <2>4. QED
    BY <2>2, <2>3
<1>3. QED
  BY <1>1, <1>2

LEMMA ThreadStepImplements ==
  ASSUME SyncInv, ThreadStep
  PROVE  [Pool!Next]_(Pool!pool)
<1>1. Drifts(Watched) /\ value' = value /\ alive' = alive /\ taken' = taken
  BY ThreadStepDrifts, WatchedFacts DEF sync
<1>2. CASE queue'[Watched] = queue[Watched]
  BY <1>1, <1>2, NotSeen
<1>3. CASE Watched = waking /\ Departs(Watched)
  <2>1. Watched \notin alive
    BY <1>3, WatchedFacts DEF At, Dead
  <2>2. Pool!Release(Head(queue[Watched])) /\ Head(queue[Watched]) \in Threads
    BY <1>1, <1>3, <2>1 DEF Pool!Release, Departs
  <2>3. QED
    BY <2>2 DEF Pool!Next
<1>4. QED
  BY <1>1, <1>2, <1>3, WatchedFacts DEF Drifts

(* Every semaphore is a pool of tokens: every step of the threads, of the  *)
(* scheduler and of the other synchronizers is one of the pool or changes  *)
(* nothing in it.                                                          *)
THEOREM SemaphoreIsPoolHolds ==
  ASSUME Allow = {}
  PROVE  SyncSpec => SemaphoreIsPool
<1>1. SyncInit => Pool!Init
  <2> SUFFICES ASSUME SyncInit PROVE Pool!Init
    OBVIOUS
  <2>1. /\ SyncInv /\ value = Initial /\ alive = Queues /\ queue[Watched] = << >>
        /\ taken[Watched] = 0
    BY SyncInitInv, WatchedFacts DEF SyncInit, Init
  <2>2. QED
    BY <2>1, WatchedFacts DEF Pool!Init
<1>2. SyncInv /\ [SyncNext]_syncvars => [Pool!Next]_(Pool!pool)
  <2> SUFFICES ASSUME SyncInv, [SyncNext]_syncvars PROVE [Pool!Next]_(Pool!pool)
    OBVIOUS
  <2>1. CASE UNCHANGED syncvars
    BY <2>1, NotSeen DEF syncvars, sync, vars, waits
  <2>2. CASE SyncNext
    BY <2>2, PImplements, VImplements, OthersImplement, LifeImplements, ThreadStepImplements
       DEF SyncNext
  <2>3. QED
    BY <2>1, <2>2
<1>3. QED
  BY <1>1, <1>2, SyncInvariantHolds, PTL DEF SyncSpec, SemaphoreIsPool, Pool!Spec

-----------------------------------------------------------------------------
(* The order in a queue                                                    *)

(* What a step does to queue q: nothing; or its head leaves; or the        *)
(* executing thread joins it, where its rank says; or a thread in it is    *)
(* destroyed.                                                              *)
LEMMA QueueMoves ==
  ASSUME Parts, [Next]_vars, NEW q \in Queues
  PROVE  \/ queue'[q] = queue[q]
         \/ queue[q] # << >> /\ queue'[q] = Tail(queue[q])
         \/ cpu \in Threads /\ queue'[q] = OrderedInsert(queue[q], rank, cpu)
         \/ \E t \in Threads : state'[t] = "free" /\ queue'[q] = ListRemove(queue[q], t)
<1>1. queue \in [Queues -> Seq(Threads)] /\ cpu \in Threads /\ cpu = Running /\ WaitersQueued
      /\ state \in [Threads -> States \cup {"free"}] /\ waking \in Queues \cup {Null}
  BY QueueFacts DEF Parts, WaitPart, SchedPart, ModePart
<1>2. CASE UNCHANGED vars
  BY <1>2 DEF vars, waits
<1>3. ASSUME NEW r \in Queues, queue[r] # << >>, Awaken(r)
      PROVE  queue'[q] = queue[q] \/ (queue[q] # << >> /\ queue'[q] = Tail(queue[q]))
  BY <1>1, <1>3 DEF Awaken
<1>4. ASSUME NEW r \in Queues, Sleep(r)
      PROVE  queue'[q] = queue[q] \/ queue'[q] = OrderedInsert(queue[q], rank, cpu)
  <2>1. queue' = [queue EXCEPT ![r] = OrderedInsert(@, rank, cpu)]
    BY <1>1, <1>4 DEF Sleep
  <2>2. QED
    BY <1>1, <2>1
<1>5. ASSUME NEW t \in Threads, Delete(t)
      PROVE  queue'[q] = queue[q] \/ (state'[t] = "free" /\ queue'[q] = ListRemove(queue[q], t))
  <2>1. queue' = Unqueued(t) /\ state'[t] = "free"
    BY <1>1, <1>5 DEF Delete
  <2>2. CASE state[t] = "waiting"
    <3>1. waiting[t] \in Queues /\ queue' = [queue EXCEPT ![waiting[t]] = ListRemove(@, t)]
      BY <1>1, <2>1, <2>2 DEF Unqueued, WaitersQueued
    <3>2. QED
      BY <1>1, <2>1, <3>1
  <2>3. CASE state[t] # "waiting"
    BY <2>1, <2>3 DEF Unqueued
  <2>4. QED
    BY <2>2, <2>3
<1>6. ASSUME NEW t \in Threads, Operation(t), ~Delete(t) PROVE queue' = queue
  <2>1. CASE \E r \in Ranks, st \in {"beginning", "ready", "suspended"} : Create(t, r, st)
    BY <2>1 DEF Create
  <2>2. CASE \E p \in Ranks : Priority(t, p)
    BY <2>2 DEF Priority, waits
  <2>3. CASE Suspend(t) \/ Resume(t)
    BY <2>3 DEF Suspend, Resume, waits
  <2>4. CASE Join(t)
    BY <2>4 DEF Join, BlockJoiner, vars, waits
  <2>5. CASE Pass(t)
    BY <2>5 DEF Pass, vars, waits
  <2>6. QED
    BY <1>6, <2>1, <2>2, <2>3, <2>4, <2>5 DEF Operation
<1>7. ASSUME NEW r \in Queues, Wakeup(r) \/ WakeupAll(r)
      PROVE  queue'[q] = queue[q] \/ (queue[q] # << >> /\ queue'[q] = Tail(queue[q]))
  <2>1. CASE Wakeup(r)
    BY <1>3, <2>1 DEF Wakeup, waits
  <2>2. CASE WakeupAll(r)
    BY <2>2 DEF WakeupAll, waits
  <2>3. QED
    BY <1>7, <2>1, <2>2
<1>8. CASE Yield \/ IdleYield
  BY <1>8 DEF Yield, IdleYield, YieldThread, waits
<1>9. CASE Exit \/ JoinReturn \/ TimeSlice \/ Reboot
  BY <1>9 DEF Exit, JoinReturn, TimeSlice, Reboot, waits
<1>10. CASE WakeupAllTurn
  <2>1. waking \in Queues /\ queue[waking] # << >> /\ Awaken(waking)
    BY <1>1, <1>10 DEF WakeupAllTurn
  <2>2. QED
    BY <1>3, <2>1
<1>11. CASE WakeupAllEnd
  BY <1>11 DEF WakeupAllEnd, waits
<1>12. CASE Next
  <2>1. CASE \E t \in Threads : Operation(t)
    BY <1>5, <1>6, <2>1
  <2>2. CASE \E r \in Queues : Synchronization(r)
    BY <1>1, <1>4, <1>7, <2>2 DEF Synchronization
  <2>3. CASE Yield \/ Exit \/ System
    BY <1>8, <1>9, <1>10, <1>11, <2>3 DEF System
  <2>4. QED
    BY <1>12, <2>1, <2>2, <2>3 DEF Next
<1>13. QED
  BY <1>2, <1>12

(* Nobody overtakes: of two threads in a queue, the one that was before    *)
(* the other still is, and a thread that comes stands behind those of no   *)
(* worse rank.                                                             *)
THEOREM FirstComeFirstServedHolds ==
  ASSUME Allow = {}
  PROVE  SyncSpec => FirstComeFirstServed
<1>1. \A q, t, u : Before(q, t, u) <=> Ahead(queue[q], t, u)
  BY DEF Before, Ahead
<1>2. (\A q, t, u : Before(q, t, u) <=> Ahead(queue[q], t, u))'
  BY DEF Before, Ahead
<1> DEFINE Stays(q, t, u) ==
             Before(q, t, u) /\ t \in ToSet(queue'[q]) => Before(q, t, u)' \/ state'[u] = "free"
           Follows(q, t, u) ==
             t \in ToSet(queue[q]) /\ u \notin ToSet(queue[q]) /\ rank[t] <= rank[u]
               /\ t \in ToSet(queue'[q]) /\ u \in ToSet(queue'[q]) => Before(q, t, u)'
<1>3. SyncInv /\ [SyncNext]_syncvars =>
        \A q \in Queues : \A t, u \in ToSet(queue[q]) \cup ToSet(queue'[q]) :
          Stays(q, t, u) /\ Follows(q, t, u)
  <2> SUFFICES ASSUME SyncInv, [SyncNext]_syncvars, NEW q \in Queues, NEW t, NEW u
               PROVE  Stays(q, t, u) /\ Follows(q, t, u)
    OBVIOUS
  <2>1. Parts /\ [Next]_vars
    BY StepsOfThread DEF SyncInv, syncvars
  <2>2. /\ queue[q] \in Seq(Threads) /\ IsInjective(queue[q]) /\ Sorted(queue[q], rank)
        /\ rank \in [Threads -> Int]
    BY <2>1, QueueFacts, SchedBasics DEF Parts, WaitPart
  <2>3. CASE queue'[q] = queue[q]
    BY <1>1, <1>2, <2>3
  <2>4. CASE queue[q] # << >> /\ queue'[q] = Tail(queue[q])
    <3>1. Stays(q, t, u)
      BY <1>1, <1>2, <2>2, <2>4, AheadInTail
    <3>2. ToSet(queue'[q]) \subseteq ToSet(queue[q])
      BY <2>2, <2>4, TailFacts
    <3>3. QED
      BY <3>1, <3>2
  <2>5. CASE cpu \in Threads /\ queue'[q] = OrderedInsert(queue[q], rank, cpu)
    <3> DEFINE k == Cardinality(Passed(queue[q], rank, cpu)) + 1
    <3>1. k \in 1..Len(queue[q])+1 /\ queue'[q] = InsertAt(queue[q], k, cpu)
      <4>1. Cardinality(Passed(queue[q], rank, cpu)) \in 0..Len(queue[q]) /\ Len(queue[q]) \in Nat
        BY <2>2, PassedIsPrefix
      <4>2. QED
        BY <2>5, <4>1 DEF OrderedInsert
    <3> HIDE DEF k
    <3>2. Stays(q, t, u)
      BY <1>1, <1>2, <2>2, <2>5, <3>1, AheadInserted
    <3>3. ToSet(queue'[q]) = ToSet(queue[q]) \cup {cpu}
      BY <2>2, <2>5, <3>1, InsertAtFacts
    <3>4. Follows(q, t, u)
      BY <1>2, <2>2, <2>5, <3>3, InsertsBehind
    <3>5. QED
      BY <3>2, <3>4
  <2>6. CASE \E e \in Threads : state'[e] = "free" /\ queue'[q] = ListRemove(queue[q], e)
    <3>1. PICK e \in Threads : state'[e] = "free" /\ queue'[q] = ListRemove(queue[q], e)
      BY <2>6
    <3>2. ToSet(queue'[q]) = ToSet(queue[q]) \ {e}
      BY <2>2, <3>1, ListRemoveFacts
    <3>3. Stays(q, t, u)
      BY <1>1, <1>2, <2>2, <3>1, <3>2, AheadRemoved
    <3>4. QED
      BY <3>2, <3>3
  <2>7. QED
    BY <2>1, <2>3, <2>4, <2>5, <2>6, QueueMoves
<1>4. SyncInv /\ [SyncNext]_syncvars =>
        [ \A q \in Queues : \A t, u \in ToSet(queue[q]) \cup ToSet(queue'[q]) :
            /\ Before(q, t, u) /\ t \in ToSet(queue'[q]) => Before(q, t, u)'
                  \/ state'[u] = "free"
            /\ t \in ToSet(queue[q]) /\ u \notin ToSet(queue[q]) /\ rank[t] <= rank[u]
                  /\ t \in ToSet(queue'[q]) /\ u \in ToSet(queue'[q])
                  => Before(q, t, u)' ]_syncvars
  BY <1>3
<1>5. QED
  BY <1>4, SyncInvariantHolds, PTL DEF SyncSpec, FirstComeFirstServed

=============================================================================
