---------------------------- MODULE ThreadProofs ----------------------------
(***************************************************************************)
(* The invariants of Thread, for any number of threads, queues and ranks   *)
(* and for any scheduling criterion, as long as the application is         *)
(* disciplined: Allow = {}.                                                *)
(***************************************************************************)
EXTENDS Thread, SchedulingListProofs

-----------------------------------------------------------------------------
(* The ready list of scheduler s holds what thread states st say may run.  *)
Ready == {"ready", "running"}

MayRun(st) == {t \in Threads : st[t] \in Ready}

ReadyOK(s, st, rk) ==
    SchedListOK(s, Threads, rk) /\ ToSet(s.list) = MayRun(st)

(* What an operation has established before it dispatches: prev executes,  *)
(* nothing else is RUNNING, and prev stays so unless it is replaced.       *)
Dispatchable(prev, next, st, ctx) ==
    /\ prev \in Threads /\ next \in Threads
    /\ st \in [Threads -> States \cup {"free"}]
    /\ ctx \in [Threads -> Threads \cup {Null}]
    /\ cpu = prev
    /\ st[next] \in Ready
    /\ \A t \in Threads : st[t] = "running" => t = prev
    /\ prev = next => st[prev] = "running"
    /\ \A t \in Threads : ctx[t] = IF t = prev THEN Null ELSE t

(* Such a dispatch leaves next executing and the only RUNNING thread, and  *)
(* changes no thread that may not run. *)
LEMMA DispatchFacts ==
  ASSUME NEW prev, NEW next, NEW st, NEW ctx,
         Dispatchable(prev, next, st, ctx), Dispatch(prev, next, st, ctx)
  PROVE  /\ state' \in [Threads -> States \cup {"free"}]
         /\ context' \in [Threads -> Threads \cup {Null}]
         /\ cpu' = next
         /\ \A t \in Threads : state'[t] = "running" <=> t = next
         /\ \A t \in Threads : context'[t] = IF t = next THEN Null ELSE t
         /\ MayRun(state') = MayRun(st)
         /\ \A t \in Threads : st[t] \notin Ready => state'[t] = st[t]
<1>1. CASE prev = next
  BY <1>1 DEF Dispatch, Dispatchable, MayRun
<1>2. CASE prev # next
  <2>1. /\ state' = [st EXCEPT ![prev] = IF @ = "running" THEN "ready" ELSE @,
                              ![next] = "running"]
        /\ context' = [ctx EXCEPT ![prev] = cpu, ![next] = Null]
        /\ cpu' = ctx[next]
    BY <1>2 DEF Dispatch
  <2>2. \A t \in Threads :
          state'[t] = IF t = next THEN "running"
                      ELSE IF t = prev /\ st[t] = "running" THEN "ready" ELSE st[t]
    BY <1>2, <2>1 DEF Dispatchable
  <2>3. state' \in [Threads -> States \cup {"free"}]
    BY <2>1 DEF Dispatchable, States
  <2>4. \A t \in Threads : state'[t] = "running" <=> t = next
    BY <2>2 DEF Dispatchable
  <2>5. /\ context' \in [Threads -> Threads \cup {Null}]
        /\ cpu' = next
        /\ \A t \in Threads : context'[t] = IF t = next THEN Null ELSE t
    BY <1>2, <2>1 DEF Dispatchable
  <2>6. \A t \in Threads : st[t] \notin Ready => state'[t] = st[t]
    BY <2>2 DEF Dispatchable, Ready
  <2>7. \A t \in Threads : state'[t] \in Ready <=> st[t] \in Ready
    BY <2>2 DEF Dispatchable, Ready
  <2>8. MayRun(state') = MayRun(st)
    BY <2>7 DEF MayRun
  <2>9. QED
    BY <2>3, <2>4, <2>5, <2>6, <2>8
<1>3. QED
  BY <1>1, <1>2

-----------------------------------------------------------------------------
(* What every operation leaves behind when it ends, on thread states st.   *)
Switched(st, rk) ==
    /\ state' \in [Threads -> States \cup {"free"}]
    /\ context' \in [Threads -> Threads \cup {Null}]
    /\ SchedListOK(scheduler', Threads, rk)
    /\ ToSet(scheduler'.list) = MayRun(state')
    /\ cpu' = scheduler'.chosen
    /\ \A t \in Threads : state'[t] = "running" <=> t = scheduler'.chosen
    /\ \A t \in Threads : context'[t] = IF t = scheduler'.chosen THEN Null ELSE t
    /\ MayRun(state') = MayRun(st)
    /\ \A t \in Threads : st[t] \notin Ready => state'[t] = st[t]

LEMMA SwitchFacts ==
  ASSUME NEW prev, NEW s, NEW st, NEW rk, NEW ctx,
         ReadyOK(s, st, rk), Dispatchable(prev, s.chosen, st, ctx),
         scheduler' = s, Dispatch(prev, s.chosen, st, ctx)
  PROVE  Switched(st, rk)
  BY DispatchFacts DEF ReadyOK, Switched

(* reschedule() switches, if it does, to a thread of the best rank. *)
LEMMA RescheduleFacts ==
  ASSUME NEW preempt \in BOOLEAN, Null \notin Threads,
         NEW s, NEW st, NEW rk \in [Threads -> Int], NEW ctx,
         ReadyOK(s, st, rk), Dispatchable(s.chosen, s.chosen, st, ctx),
         RescheduleIf(preempt, s, rk, st, ctx)
  PROVE  /\ Switched(st, rk)
         /\ preempt => \A x \in ToSet(s.list) : rk[scheduler'.chosen] <= rk[x]
<1> DEFINE c == IF preempt THEN SchedChoose(s, rk) ELSE s
<1>1. scheduler' = c /\ Dispatch(s.chosen, c.chosen, st, ctx)
  BY DEF RescheduleIf
<1>2. /\ SchedListOK(c, Threads, rk)
      /\ ToSet(c.list) = ToSet(s.list)
      /\ preempt => \A x \in ToSet(s.list) : rk[c.chosen] <= rk[x]
  BY SchedChooseFacts DEF ReadyOK
<1> HIDE DEF c
<1>3. ReadyOK(c, st, rk) /\ c.chosen \in MayRun(st)
  BY <1>2 DEF ReadyOK, SchedListOK
<1>4. Dispatchable(s.chosen, c.chosen, st, ctx)
  BY <1>3 DEF Dispatchable, MayRun
<1>5. QED
  BY <1>1, <1>2, <1>3, <1>4, SwitchFacts

(* A thread that cannot run is what the operation made it. *)
LEMMA BlockedFacts ==
  ASSUME NEW st, NEW rk, Switched(st, rk), NEW t \in Threads, NEW w, w \notin Ready
  PROVE  state'[t] = w <=> st[t] = w
  BY DEF Switched, MayRun

(* What an insertion into the ready list s makes of it: m.                 *)
Inserted(s, rk, t, m) ==
    /\ SchedListOK(m, Threads, rk)
    /\ ToSet(m.list) = ToSet(s.list) \cup {t}
    /\ m.chosen = s.chosen

LEMMA InsertThread ==
  ASSUME Null \notin Threads, NEW rk \in [Threads -> Int],
         NEW s, SchedListOK(s, Threads, rk), NEW t \in Threads, t \notin ToSet(s.list)
  PROVE  Inserted(s, rk, t, SchedInsert(s, rk, t))
<1>1. SchedListOK(SchedInsert(s, rk, t), Threads, rk)
  BY SchedInsertFacts
<1>2. ToSet(SchedInsert(s, rk, t).list) = ToSet(s.list) \cup {t}
  BY SchedInsertFacts, Z3
<1>3. SchedInsert(s, rk, t).chosen = s.chosen
  BY SchedInsertFacts
<1>4. QED
  BY <1>1, <1>2, <1>3 DEF Inserted

-----------------------------------------------------------------------------
(* The parts of the invariant                                              *)

SchedPart ==
    /\ state \in [Threads -> States \cup {"free"}]
    /\ context \in [Threads -> Threads \cup {Null}]
    /\ ReadyOK(scheduler, state, rank)
    /\ RunningExecutes

WaitPart ==
    /\ queue \in [Queues -> Seq(Threads)]
    /\ waiting \in [Threads -> Queues \cup {Null}]
    /\ WaitersQueued
    /\ \A q \in Queues : Sorted(queue[q], rank)

JoinPart ==
    /\ joining \in [Threads -> Threads \cup {Null}]
    /\ joinee \in [Threads -> Threads \cup {Null}]
    /\ JoinersKnown
    /\ JoinsExist

CountPart ==
    /\ thread_count = Cardinality(Live)
    /\ Schedulable(Idle)
    /\ halted => thread_count <= 1

ModePart ==
    /\ rank \in [Threads -> Ranks \cup {IdleRank}]
    /\ waking \in Queues \cup {Null}
    /\ halted \in BOOLEAN
    /\ criterion \in Criteria
    /\ waking # Null => ~halted

(* There are finitely many live threads. *)
LEMMA LiveFinite == IsFiniteSet(Live) /\ Cardinality(Live) \in Nat
  BY ThreadAssumption, FS_Subset, FS_CardinalityType DEF Live

LEMMA InvParts ==
  Inv <=> SchedPart /\ WaitPart /\ JoinPart /\ CountPart /\ ModePart
<1>1. MayRun(state) = {t \in Threads : Schedulable(t)}
  BY DEF MayRun, Schedulable, Ready
<1>2. SchedPart => /\ state \in [Threads -> States \cup {"free"}]
                   /\ context \in [Threads -> Threads \cup {Null}]
                   /\ scheduler \in [list : Seq(Threads), chosen : Threads]
                   /\ cpu \in Threads \cup {Null}
                   /\ ReadyListed /\ RunningExecutes
                   /\ Running \in ToSet(scheduler.list)
                   /\ Sorted(scheduler.list, rank)
  BY <1>1 DEF SchedPart, ReadyOK, SchedListOK, ReadyListed, RunningExecutes, Running
<1>3. /\ TypeOK /\ ReadyListed /\ RunningExecutes
      /\ Running \in ToSet(scheduler.list) /\ ListsSorted
      => SchedPart
  BY <1>1 DEF TypeOK, SchedPart, ReadyOK, SchedListOK, ReadyListed, ListsSorted, Running
<1>4. Inv => SchedPart /\ WaitPart /\ JoinPart /\ CountPart /\ ModePart
  BY <1>3 DEF Inv, TypeOK, ListsSorted, WaitPart, JoinPart, CountPart, ModePart
<1>5. SchedPart /\ WaitPart /\ JoinPart /\ CountPart /\ ModePart => Inv
  BY <1>2, LiveFinite
     DEF Inv, TypeOK, ListsSorted, WaitPart, JoinPart, CountPart, ModePart
<1>6. QED
  BY <1>4, <1>5

(* Every operation that ends by switching keeps the scheduler's part. *)
LEMMA SwitchedPart ==
  ASSUME NEW st, Switched(st, rank')
  PROVE  SchedPart'
  BY DEF Switched, SchedPart, ReadyOK, RunningExecutes, Running

(* Waiting threads, when no thread starts or stops waiting. *)
LEMMA WaitUnchanged ==
  ASSUME WaitPart, queue' = queue, waiting' \in [Threads -> Queues \cup {Null}],
         \A t \in Threads : state'[t] = "waiting" <=> state[t] = "waiting",
         \A t \in Threads :
           state[t] = "waiting" => rank'[t] = rank[t] /\ waiting'[t] = waiting[t]
  PROVE  WaitPart'
<1>2. WaitersQueued'
  BY DEF WaitPart, WaitersQueued
<1>3. ASSUME NEW q \in Queues PROVE Sorted(queue[q], rank')
  <2>1. queue[q] \in Seq(Threads) /\ Sorted(queue[q], rank)
    BY DEF WaitPart
  <2>2. \A x \in ToSet(queue[q]) : rank[x] = rank'[x]
    BY DEF WaitPart, WaitersQueued
  <2>3. QED
    BY <2>1, <2>2, SortedCongruence
<1>4. QED
  BY <1>2, <1>3 DEF WaitPart

(* Joining threads, when no side of a pending join() finishes or goes, and *)
(* the joiners stay suspended. *)
LEMMA JoinUnchanged ==
  ASSUME JoinPart, UNCHANGED joins,
         \A t \in Threads : joinee[t] # Null =>
            /\ state'[t] # "free" /\ state'[joinee[t]] # "free"
            /\ state'[joinee[t]] = "finishing" <=> state[joinee[t]] = "finishing",
         \A t \in Threads : Joining(t) => state'[t] = "suspended"
  PROVE  JoinPart'
<1>1. joining' = joining /\ joinee' = joinee
  BY DEF joins
<1>2. \A t \in Threads : Joining(t)' <=> Joining(t)
  BY <1>1 DEF Joining, JoinPart
<1>3. JoinersKnown'
  BY <1>1, <1>2 DEF JoinPart, JoinersKnown
<1>4. JoinsExist'
  BY <1>1 DEF JoinPart, JoinsExist
<1>5. QED
  BY <1>1, <1>3, <1>4 DEF JoinPart

(* The count of threads, when none finishes, comes or goes. *)
LEMMA CountUnchanged ==
  ASSUME CountPart, UNCHANGED <<thread_count, halted>>, Schedulable(Idle)',
         \A t \in Threads : state'[t] = "finishing" <=> state[t] = "finishing",
         \A t \in Threads : state'[t] = "free" <=> state[t] = "free"
  PROVE  CountPart'
<1>1. Live' = Live
  BY DEF Live
<1>2. QED
  BY <1>1 DEF CountPart

(* What the invariant says of the scheduler, in the terms of the lemmas.   *)
LEMMA SchedBasics ==
  ASSUME SchedPart, CountPart, ModePart
  PROVE  /\ Null \notin Threads /\ Idle \in Threads
         /\ rank \in [Threads -> Int]
         /\ \A r \in Ranks \cup {IdleRank} : r \in Int
         /\ state \in [Threads -> States \cup {"free"}]
         /\ context \in [Threads -> Threads \cup {Null}]
         /\ SchedListOK(scheduler, Threads, rank)
         /\ ToSet(scheduler.list) = MayRun(state)
         /\ scheduler.list \in Seq(Threads)
         /\ Running = scheduler.chosen /\ cpu = Running
         /\ Running \in Threads /\ Running \in MayRun(state)
         /\ state[Running] = "running"
         /\ Idle \in MayRun(state)
         /\ \A t \in Threads : state[t] = "running" <=> t = Running
         /\ \A t \in Threads : context[t] = IF t = Running THEN Null ELSE t
         /\ criterion.preemptive \in BOOLEAN
<1>1. /\ Ranks \subseteq Nat /\ IdleRank \in Nat /\ Null \notin Threads /\ Idle \in Threads
      /\ Criteria \subseteq [preemptive : BOOLEAN, timed : BOOLEAN]
  BY ThreadAssumption
<1>2. criterion.preemptive \in BOOLEAN
  BY <1>1 DEF ModePart
<1>3. rank \in [Threads -> Int] /\ \A r \in Ranks \cup {IdleRank} : r \in Int
  <2>1. \A r \in Ranks \cup {IdleRank} : r \in Int
    BY <1>1
  <2>2. rank \in [Threads -> Ranks \cup {IdleRank}]
    BY DEF ModePart
  <2>3. QED
    BY <2>1, <2>2
<1>4. SchedListOK(scheduler, Threads, rank) /\ ToSet(scheduler.list) = MayRun(state)
  BY DEF SchedPart, ReadyOK
<1>5. /\ Running = scheduler.chosen /\ Running \in Threads /\ Running \in MayRun(state)
      /\ scheduler.list \in Seq(Threads)
  BY <1>4 DEF SchedListOK, Running
<1>6. Idle \in MayRun(state)
  BY <1>1 DEF CountPart, Schedulable, MayRun, Ready
<1>7. QED
  BY <1>1, <1>2, <1>3, <1>4, <1>5, <1>6 DEF SchedPart, RunningExecutes

(* The step of an operation that lets threads st run and no others, and    *)
(* neither blocks nor ends a wait or a join, keeps every part.             *)
LEMMA SwitchedKeeps ==
  ASSUME SchedPart, WaitPart, JoinPart, CountPart, ModePart,
         NEW st, Switched(st, rank'),
         queue' = queue, waiting' \in [Threads -> Queues \cup {Null}],
         \A t \in Threads :
           state[t] = "waiting" => rank'[t] = rank[t] /\ waiting'[t] = waiting[t],
         rank' \in [Threads -> Ranks \cup {IdleRank}],
         UNCHANGED <<joins, halted, criterion, thread_count>>,
         waking' \in {waking, Null},
         st[Idle] \in Ready,
         \A t \in Threads : \A w \in {"waiting", "finishing", "free"} :
            st[t] = w <=> state[t] = w,
         \A t \in Threads : Joining(t) => st[t] = "suspended"
  PROVE  SchedPart' /\ WaitPart' /\ JoinPart' /\ CountPart' /\ ModePart'
<1>0. \A w \in {"waiting", "finishing", "free", "suspended"} : w \notin Ready
  BY DEF Ready
<1>1. \A t \in Threads : \A w \in {"waiting", "finishing", "free"} :
         state'[t] = w <=> state[t] = w
  BY <1>0, BlockedFacts
<1>2. \A t \in Threads : Joining(t) => state'[t] = "suspended"
  BY <1>0, BlockedFacts
<1>3. SchedPart'
  BY SwitchedPart
<1>4. WaitPart'
  BY <1>1, WaitUnchanged
<1>5. JoinPart'
  <2>1. \A t \in Threads : joinee[t] # Null =>
            /\ joinee[t] \in Threads /\ state[t] # "free" /\ state[joinee[t]] # "free"
    BY DEF JoinPart, JoinsExist
  <2>2. QED
    BY <1>1, <1>2, <2>1, JoinUnchanged
<1>6. Schedulable(Idle)'
  BY ThreadAssumption DEF Switched, MayRun, Schedulable, Ready
<1>7. CountPart'
  BY <1>1, <1>6, CountUnchanged
<1>8. ModePart'
  BY DEF ModePart
<1>9. QED
  BY <1>3, <1>4, <1>5, <1>7, <1>8

-----------------------------------------------------------------------------
(* The initial states                                                      *)

LEMMA InitInv == Init => Inv
<1> SUFFICES ASSUME Init PROVE Inv
  OBVIOUS
<1>1. /\ Main \in Threads /\ Idle \in Threads /\ Main # Idle
      /\ Null \notin Threads /\ Null \notin Queues
      /\ Ranks \subseteq Nat /\ 0 \in Ranks /\ IdleRank \in Nat /\ 0 < IdleRank
  BY ThreadAssumption
<1>2. /\ scheduler = [list |-> <<Main, Idle>>, chosen |-> Main]
      /\ scheduler.list = <<Main, Idle>> /\ scheduler.chosen = Main
  BY DEF Init
<1>3. \A t \in Threads :
        /\ state[t] = IF t = Main THEN "running" ELSE IF t = Idle THEN "ready" ELSE "free"
        /\ rank[t] = IF t = Idle THEN IdleRank ELSE 0
        /\ joinee[t] = Null /\ joining[t] = Null /\ waiting[t] = Null
        /\ context[t] = IF t = Main THEN Null ELSE t
  <2> TAKE t \in Threads
  <2>1. state[t] = CASE t = Main -> "running" [] t = Idle -> "ready" [] OTHER -> "free"
    BY DEF Init
  <2>2. state[t] = IF t = Main THEN "running" ELSE IF t = Idle THEN "ready" ELSE "free"
    BY <1>1, <2>1
  <2>3. /\ rank[t] = IF t = Idle THEN IdleRank ELSE 0
        /\ joinee[t] = Null /\ joining[t] = Null /\ waiting[t] = Null
        /\ context[t] = IF t = Main THEN Null ELSE t
    BY DEF Init
  <2>4. QED
    BY <2>2, <2>3
<1>4. SchedPart
  <2>1. /\ state \in [Threads -> States \cup {"free"}]
        /\ context \in [Threads -> Threads \cup {Null}]
    BY <1>1 DEF Init, States
  <2>2. ToSet(scheduler.list) = {Main, Idle} /\ IsInjective(scheduler.list)
    BY <1>1, <1>2 DEF ToSet, IsInjective
  <2>3. Sorted(scheduler.list, rank)
    BY <1>1, <1>2, <1>3 DEF Sorted
  <2>4. SchedListOK(scheduler, Threads, rank)
    BY <1>1, <1>2, <2>2, <2>3 DEF SchedListOK
  <2>5. MayRun(state) = {Main, Idle}
    BY <1>1, <1>3 DEF MayRun, Ready
  <2>6. cpu = Main
    BY DEF Init
  <2>7. RunningExecutes
    BY <1>1, <1>2, <1>3, <2>6 DEF RunningExecutes, Running
  <2>8. QED
    BY <2>1, <2>2, <2>4, <2>5, <2>7 DEF SchedPart, ReadyOK
<1>5. WaitPart
  <2>1. \A q \in Queues : queue[q] = << >>
    BY DEF Init
  <2>2. queue \in [Queues -> Seq(Threads)] /\ waiting \in [Threads -> Queues \cup {Null}]
    BY DEF Init
  <2>3. IsInjective(<< >>) /\ ToSet(<< >>) = {} /\ Sorted(<< >>, rank)
    BY DEF IsInjective, ToSet, Sorted
  <2>4. \A t \in Threads : state[t] # "waiting"
    BY <1>3
  <2>5. QED
    BY <2>1, <2>2, <2>3, <2>4 DEF WaitPart, WaitersQueued
<1>6. JoinPart
  <2>1. joining \in [Threads -> Threads \cup {Null}] /\ joinee \in [Threads -> Threads \cup {Null}]
    BY DEF Init
  <2>2. QED
    BY <1>3, <2>1 DEF JoinPart, JoinersKnown, JoinsExist, Joining
<1>7. CountPart
  <2>1. Live = {Main, Idle}
    BY <1>1, <1>3 DEF Live
  <2>2. Cardinality({Main, Idle}) = 2
    <3>1. Cardinality({Main}) = 1 /\ IsFiniteSet({Main})
      BY FS_Singleton
    <3>2. {Main, Idle} = {Main} \cup {Idle}
      OBVIOUS
    <3>3. Idle \notin {Main}
      BY <1>1
    <3>4. Cardinality({Main} \cup {Idle}) = Cardinality({Main}) + 1
      BY <3>1, <3>3, FS_AddElement
    <3>5. QED
      BY <3>1, <3>2, <3>4
  <2>3. state[Idle] = "ready"
    BY <1>1, <1>3
  <2>4. QED
    BY <2>1, <2>2, <2>3 DEF CountPart, Init, Schedulable
<1>8. ModePart
  BY <1>1 DEF ModePart, Init
<1>9. QED
  BY <1>4, <1>5, <1>6, <1>7, <1>8, InvParts

-----------------------------------------------------------------------------
(* Preemption: the property of one step, and the two ways to have it.      *)

Preempts ==
    criterion.preemptive /\ (\E t \in Threads : Unblocks(t) \/ Vacates(t)) => RunsBest'

BestChosen(rk) == \A x \in ToSet(scheduler'.list) : rk[scheduler'.chosen] <= rk[x]

LEMMA BestPreempts ==
  ASSUME criterion.preemptive => BestChosen(rank')
  PROVE  Preempts /\ (criterion.preemptive => RunsBest')
  BY DEF Preempts, BestChosen, RunsBest, Running

LEMMA NothingToPreempt ==
  ASSUME MayRun(state') \subseteq MayRun(state), Running \in MayRun(state')
  PROVE  Preempts
<1>1. ASSUME NEW t \in Threads PROVE ~Unblocks(t) /\ ~Vacates(t)
  BY DEF Unblocks, Vacates, Schedulable, MayRun, Ready
<1>2. QED
  BY <1>1 DEF Preempts

-----------------------------------------------------------------------------
(* The ways an operation ends                                              *)

Parts == SchedPart /\ WaitPart /\ JoinPart /\ CountPart /\ ModePart

(* Threads st, in which nothing but the executing thread is RUNNING.       *)
Steady(st) ==
    /\ st \in [Threads -> States \cup {"free"}]
    /\ \A t \in Threads : st[t] = "running" => t = Running

(* A dispatch to the chosen thread of scheduler s.                         *)
LEMMA EndsInDispatch ==
  ASSUME Parts, NEW s, NEW st, NEW rk, Steady(st), ReadyOK(s, st, rk),
         Running = s.chosen => st[Running] = "running",
         scheduler' = s, Dispatch(Running, s.chosen, st, context)
  PROVE  Switched(st, rk)
<1>1. s.chosen \in MayRun(st)
  BY DEF ReadyOK, SchedListOK
<1>2. Dispatchable(Running, s.chosen, st, context)
  BY <1>1, SchedBasics DEF Parts, Steady, Dispatchable, MayRun
<1>3. QED
  BY <1>2, SwitchFacts

(* A call of reschedule().                                                 *)
LEMMA EndsInReschedule ==
  ASSUME Parts, NEW preempt \in BOOLEAN, NEW s, NEW st, NEW rk \in [Threads -> Int],
         Steady(st), ReadyOK(s, st, rk), s.chosen = Running, st[Running] = "running",
         NEW ctx \in [Threads -> Threads \cup {Null}],
         \A t \in Threads : ctx[t] = IF t = Running THEN Null ELSE t,
         RescheduleIf(preempt, s, rk, st, ctx)
  PROVE  /\ Switched(st, rk)
         /\ preempt => BestChosen(rk)
<1>1. Dispatchable(s.chosen, s.chosen, st, ctx)
  BY SchedBasics DEF Parts, Steady, Dispatchable, Ready
<1>2. /\ Switched(st, rk)
      /\ preempt => \A x \in ToSet(s.list) : rk[scheduler'.chosen] <= rk[x]
  BY <1>1, SchedBasics, RescheduleFacts DEF Parts
<1>3. QED
  BY <1>2 DEF BestChosen, Switched, ReadyOK

LEMMA SteadyNow == ASSUME Parts PROVE Steady(state) /\ ReadyOK(scheduler, state, rank)
  BY SchedBasics DEF Parts, Steady, ReadyOK

(* The parts say nothing but of the variables.                             *)
LEMMA OnlySame == ASSUME Parts, UNCHANGED vars PROVE Parts' /\ Preempts
<1>1. MayRun(state') = MayRun(state) /\ Running \in MayRun(state)
  BY SchedBasics DEF vars, Parts
<1>2. QED
  BY <1>1, NothingToPreempt DEF vars, waits, joins, mode, Parts, SchedPart, WaitPart, JoinPart, CountPart, ModePart,
         RunningExecutes, Running, WaitersQueued, JoinersKnown, JoinsExist, Joining, Live,
         Schedulable

(* An operation that only switches.                                        *)
LEMMA OnlySwitched ==
  ASSUME Parts, Switched(state, rank), UNCHANGED <<rank, thread_count, waits, joins>>,
         UNCHANGED <<halted, criterion>>, waking' \in {waking, Null}
  PROVE  Parts' /\ Preempts
<1>1. state[Idle] \in Ready /\ \A t \in Threads : Joining(t) => state[t] = "suspended"
  BY SchedBasics DEF Parts, MayRun, JoinPart, JoinersKnown
<1>2. waiting \in [Threads -> Queues \cup {Null}] /\ rank \in [Threads -> Ranks \cup {IdleRank}]
  BY DEF Parts, WaitPart, ModePart
<1>3. Switched(state, rank')
  OBVIOUS
<1>4. Preempts
  BY SchedBasics, NothingToPreempt DEF Parts, Switched
<1>5. QED
  BY <1>1, <1>2, <1>3, <1>4, SwitchedKeeps DEF Parts, waits

-----------------------------------------------------------------------------
(* The operations that only switch                                         *)

LEMMA YieldKeeps == ASSUME Parts, YieldThread
  PROVE  Parts' /\ Preempts
<1> DEFINE s == SchedChooseAnother(scheduler, rank)
<1>0. /\ SchedListOK(scheduler, Threads, rank) /\ rank \in [Threads -> Int]
      /\ ToSet(scheduler.list) = MayRun(state)
  BY SchedBasics DEF Parts
<1>1. ReadyOK(s, state, rank)
  <2>1. SchedListOK(s, Threads, rank) /\ ToSet(s.list) = ToSet(scheduler.list)
    BY <1>0, SchedChooseAnotherFacts
  <2>2. QED
    BY <1>0, <2>1 DEF ReadyOK
<1>2. scheduler' = s /\ Dispatch(Running, s.chosen, state, context)
  BY DEF YieldThread
<1> HIDE DEF s
<1>3. Switched(state, rank)
  BY <1>1, <1>2, SchedBasics, SteadyNow, EndsInDispatch DEF Parts
<1>4. QED
  BY <1>3, OnlySwitched DEF YieldThread, mode

LEMMA PassKeeps == ASSUME Parts, NEW t \in Threads, Pass(t)
  PROVE  Parts' /\ Preempts
<1> DEFINE s == SchedChooseObject(scheduler, rank, t)
<1>1. CASE t \in ToSet(scheduler.list)
  <2>1. ReadyOK(s, state, rank)
    BY <1>1, SchedBasics, SchedChooseObjectFacts DEF Parts, ReadyOK
  <2>2. scheduler' = s /\ Dispatch(Running, s.chosen, state, context)
    BY <1>1 DEF Pass
  <2> HIDE DEF s
  <2>3. Switched(state, rank)
    BY <2>1, <2>2, SchedBasics, SteadyNow, EndsInDispatch DEF Parts
  <2>4. QED
    BY <1>1, <2>3, OnlySwitched DEF Pass, mode
<1>2. CASE t \notin ToSet(scheduler.list)
  <2>1. UNCHANGED vars
    BY <1>2 DEF Pass
  <2>2. QED
    BY <2>1, OnlySame
<1>3. QED
  BY <1>1, <1>2

LEMMA TimeSliceKeeps == ASSUME Parts, TimeSlice
  PROVE  Parts' /\ Preempts
<1>1. RescheduleIf(TRUE, scheduler, rank, state, context)
  BY DEF TimeSlice
<1>2. Switched(state, rank)
  BY <1>1, SchedBasics, SteadyNow, EndsInReschedule DEF Parts
<1>3. QED
  BY <1>2, OnlySwitched DEF TimeSlice, mode

LEMMA WakeupAllEndKeeps ==
  ASSUME Parts, WakeupAllEnd
  PROVE  Parts' /\ Preempts /\ (criterion.preemptive => RunsBest')
<1>1. RescheduleIf(criterion.preemptive, scheduler, rank, state, context)
  BY DEF WakeupAllEnd, Reschedule
<1>2. Switched(state, rank) /\ (criterion.preemptive => BestChosen(rank))
  BY <1>1, SchedBasics, SteadyNow, EndsInReschedule DEF Parts
<1>3. criterion.preemptive => BestChosen(rank')
  BY <1>2 DEF WakeupAllEnd
<1>4. QED
  BY <1>2, <1>3, OnlySwitched, BestPreempts DEF WakeupAllEnd

(* reschedule() alone: nothing to resume, nothing to wake. *)
LEMMA RescheduleKeeps ==
  ASSUME Parts, Reschedule(scheduler, state), UNCHANGED <<rank, thread_count, waits, joins, mode>>
  PROVE  Parts' /\ Preempts
<1>1. RescheduleIf(criterion.preemptive, scheduler, rank, state, context)
  BY DEF Reschedule
<1>2. Switched(state, rank)
  BY <1>1, SchedBasics, SteadyNow, EndsInReschedule DEF Parts
<1>3. QED
  BY <1>2, OnlySwitched DEF mode

LEMMA PriorityKeeps ==
  ASSUME Parts, Allow = {}, NEW t \in Threads, NEW p \in Ranks, Priority(t, p)
  PROVE  Parts' /\ Preempts
<1> DEFINE rk == [rank EXCEPT ![t] = p]
           s1 == SchedRemove(scheduler, t)
           s2 == SchedInsert(s1, rk, t)
<1>1. /\ state[t] = "ready" /\ rank' = rk
      /\ RescheduleIf(criterion.preemptive, s2, rk, state, context)
      /\ UNCHANGED <<thread_count, waits, joins, mode>>
  BY DEF Priority, Reranked
<1>2. /\ SchedListOK(scheduler, Threads, rank) /\ rank \in [Threads -> Int]
      /\ ToSet(scheduler.list) = MayRun(state)
      /\ Running = scheduler.chosen /\ Running # t /\ Running \in MayRun(state)
      /\ state[Running] = "running" /\ p \in Int /\ t \in MayRun(state)
      /\ Null \notin Threads /\ criterion.preemptive \in BOOLEAN
      /\ context \in [Threads -> Threads \cup {Null}]
      /\ \A u \in Threads : context[u] = IF u = Running THEN Null ELSE u
  BY <1>1, SchedBasics DEF Parts, MayRun, Ready
<1>3. rk \in [Threads -> Int] /\ \A u \in Threads : u # t => rk[u] = rank[u]
  BY <1>2
<1> HIDE DEF rk
<1>4. /\ SchedListOK(s1, Threads, rank) /\ ToSet(s1.list) = MayRun(state) \ {t}
      /\ s1.chosen = Running
  BY <1>2, SchedRemoveFacts
<1> HIDE DEF s1
<1>5. SchedListOK(s1, Threads, rk)
  <2>1. s1.list \in Seq(Threads) /\ Sorted(s1.list, rank)
    BY <1>4 DEF SchedListOK
  <2>2. \A x \in ToSet(s1.list) : rank[x] = rk[x]
    BY <1>3, <1>4 DEF MayRun
  <2>3. Sorted(s1.list, rk)
    BY <2>1, <2>2, SortedCongruence
  <2>4. QED
    BY <1>4, <2>3 DEF SchedListOK
<1>6. /\ SchedListOK(s2, Threads, rk) /\ ToSet(s2.list) = ToSet(s1.list) \cup {t}
      /\ s2.chosen = Running
  <2>1. t \notin ToSet(s1.list) /\ Null \notin Threads /\ rk \in [Threads -> Int]
    BY <1>2, <1>3, <1>4
  <2>2. Inserted(s1, rk, t, s2)
    BY <1>5, <2>1, InsertThread
  <2>3. QED
    BY <1>4, <2>2 DEF Inserted
<1> HIDE DEF s2
<1>7. ReadyOK(s2, state, rk)
  BY <1>2, <1>4, <1>6 DEF ReadyOK
<1>8. Switched(state, rk)
  BY <1>1, <1>2, <1>3, <1>6, <1>7, SteadyNow, EndsInReschedule
<1>9. rank' \in [Threads -> Ranks \cup {IdleRank}]
  BY <1>1 DEF Parts, ModePart, rk
<1>10. /\ state[Idle] \in Ready /\ \A u \in Threads : Joining(u) => state[u] = "suspended"
       /\ \A u \in Threads : state[u] = "waiting" => u # t
       /\ waiting \in [Threads -> Queues \cup {Null}]
  BY <1>1, SchedBasics DEF Parts, MayRun, WaitPart, JoinPart, JoinersKnown
<1>11. Switched(state, rank') /\ queue' = queue /\ waiting' = waiting
  BY <1>1, <1>8 DEF waits
<1>12. \A u \in Threads : state[u] = "waiting" => rank'[u] = rank[u] /\ waiting'[u] = waiting[u]
  BY <1>1, <1>3, <1>10, <1>11
<1>13. UNCHANGED <<joins, halted, criterion, thread_count>> /\ waking' \in {waking, Null}
  BY <1>1 DEF mode
<1>14. Preempts
  BY <1>2, <1>8, NothingToPreempt DEF Switched
<1>15. QED
  BY <1>9, <1>10, <1>11, <1>12, <1>13, <1>14, SwitchedKeeps DEF Parts

(* suspend(), whatever its caller does about joins. *)
LEMMA SuspendFacts ==
  ASSUME Parts, NEW t \in Threads, t # Idle,
         state[t] \notin {"free", "waiting", "finishing"}, SuspendThread(t)
  PROVE  /\ Switched([state EXCEPT ![t] = "suspended"], rank)
         /\ t = Running => BestChosen(rank)
<1> DEFINE s  == SchedRemove(scheduler, t)
           st == [state EXCEPT ![t] = "suspended"]
<1>1. /\ SchedListOK(scheduler, Threads, rank) /\ rank \in [Threads -> Int]
      /\ ToSet(scheduler.list) = MayRun(state)
      /\ Running = scheduler.chosen /\ state[Running] = "running"
      /\ Idle \in MayRun(state)
      /\ state \in [Threads -> States \cup {"free"}]
      /\ \A u \in Threads : state[u] = "running" <=> u = Running
  BY SchedBasics DEF Parts
<1>2. /\ SchedListOK(s, Threads, rank) /\ ToSet(s.list) = MayRun(state) \ {t}
      /\ t = Running => \A x \in ToSet(s.list) : rank[s.chosen] <= rank[x]
  <2>1. ToSet(scheduler.list) \ {t} # {}
    BY <1>1
  <2>2. QED
    BY <1>1, <2>1, SchedRemoveFacts
<1>3. scheduler' = s /\ Dispatch(Running, s.chosen, st, context)
  BY DEF SuspendThread
<1> HIDE DEF s
<1>4. MayRun(st) = MayRun(state) \ {t}
  BY <1>1 DEF MayRun, Ready
<1>5. ReadyOK(s, st, rank)
  BY <1>2, <1>4 DEF ReadyOK
<1>6. Steady(st)
  BY <1>1 DEF Steady, States
<1>7. s.chosen # t
  BY <1>2 DEF SchedListOK
<1>8. Running = s.chosen => st[Running] = "running"
  BY <1>1, <1>7
<1> HIDE DEF st
<1>9. Switched(st, rank)
  BY <1>3, <1>5, <1>6, <1>8, EndsInDispatch
<1>10. t = Running => BestChosen(rank)
  BY <1>2, <1>3 DEF BestChosen
<1>11. QED
  BY <1>9, <1>10 DEF st

LEMMA SuspendKeeps ==
  ASSUME Parts, Allow = {}, NEW t \in Threads, Suspend(t)
  PROVE  Parts' /\ Preempts
<1> DEFINE st == [state EXCEPT ![t] = "suspended"]
<1>1. /\ t # Idle /\ state[t] \notin {"free", "waiting", "finishing"} /\ SuspendThread(t)
      /\ UNCHANGED <<rank, thread_count, waits, joins, mode>>
  BY DEF Suspend
<1>2. Switched(st, rank') /\ (t = Running => BestChosen(rank'))
  BY <1>1, SuspendFacts
<1>3. /\ state[Idle] \in Ready /\ \A u \in Threads : Joining(u) => state[u] = "suspended"
      /\ waiting \in [Threads -> Queues \cup {Null}] /\ Idle \in Threads
      /\ rank \in [Threads -> Ranks \cup {IdleRank}]
      /\ state \in [Threads -> States \cup {"free"}]
  BY SchedBasics DEF Parts, MayRun, WaitPart, JoinPart, JoinersKnown, ModePart
<1>4. /\ st[Idle] \in Ready /\ \A u \in Threads : Joining(u) => st[u] = "suspended"
      /\ \A u \in Threads : \A w \in {"waiting", "finishing", "free"} :
            st[u] = w <=> state[u] = w
  BY <1>1, <1>3
<1> HIDE DEF st
<1>5. /\ queue' = queue /\ waiting' = waiting /\ rank' = rank
      /\ UNCHANGED <<joins, halted, criterion, thread_count>> /\ waking' \in {waking, Null}
  BY <1>1 DEF mode, waits
<1>6. Preempts
  <2>1. CASE t = Running
    BY <1>2, <2>1, BestPreempts
  <2>2. CASE t # Running
    <3>1. MayRun(st) \subseteq MayRun(state) /\ Running \in MayRun(st)
      BY <1>3, <2>2, SchedBasics DEF st, Parts, MayRun, Ready
    <3>2. QED
      BY <1>2, <3>1, NothingToPreempt DEF Switched
  <2>3. QED
    BY <2>1, <2>2
<1>7. QED
  BY <1>2, <1>3, <1>4, <1>5, <1>6, SwitchedKeeps DEF Parts

(* A thread that is put back into the ready list and announced to          *)
(* reschedule(). *)
LEMMA ReadyFacts ==
  ASSUME Parts, NEW t \in Threads, state[t] \notin Ready,
         Reschedule(SchedInsert(scheduler, rank, t), [state EXCEPT ![t] = "ready"])
  PROVE  /\ Switched([state EXCEPT ![t] = "ready"], rank)
         /\ criterion.preemptive => BestChosen(rank)
<1> DEFINE s  == SchedInsert(scheduler, rank, t)
           st == [state EXCEPT ![t] = "ready"]
<1>1. /\ SchedListOK(scheduler, Threads, rank) /\ rank \in [Threads -> Int]
      /\ ToSet(scheduler.list) = MayRun(state) /\ Null \notin Threads
      /\ Running = scheduler.chosen /\ state[Running] = "running"
      /\ state \in [Threads -> States \cup {"free"}]
      /\ \A u \in Threads : state[u] = "running" <=> u = Running
      /\ criterion.preemptive \in BOOLEAN
      /\ context \in [Threads -> Threads \cup {Null}]
      /\ \A u \in Threads : context[u] = IF u = Running THEN Null ELSE u
      /\ Running \in Threads
  BY SchedBasics DEF Parts
<1>2. t \notin MayRun(state) /\ t # Running
  BY <1>1 DEF MayRun, Ready
<1>3. /\ SchedListOK(s, Threads, rank) /\ ToSet(s.list) = MayRun(state) \cup {t}
      /\ s.chosen = Running
  <2>1. Inserted(scheduler, rank, t, s)
    BY <1>1, <1>2, InsertThread
  <2>2. QED
    BY <1>1, <2>1 DEF Inserted
<1>4. RescheduleIf(criterion.preemptive, s, rank, st, context)
  BY DEF Reschedule
<1> HIDE DEF s
<1>5. MayRun(st) = MayRun(state) \cup {t}
  BY <1>1 DEF MayRun, Ready
<1>6. ReadyOK(s, st, rank)
  BY <1>3, <1>5 DEF ReadyOK
<1>7. Steady(st) /\ st[Running] = "running"
  BY <1>1, <1>2 DEF Steady, States
<1> HIDE DEF st
<1>8. Switched(st, rank) /\ (criterion.preemptive => BestChosen(rank))
  BY <1>1, <1>3, <1>4, <1>6, <1>7, EndsInReschedule
<1>9. QED
  BY <1>8 DEF st

LEMMA ResumeKeeps ==
  ASSUME Parts, Allow = {}, NEW t \in Threads, Resume(t)
  PROVE  Parts' /\ Preempts
<1>1. /\ ~Joining(t) /\ UNCHANGED <<rank, thread_count, waits, joins, mode>>
  BY DEF Resume
<1>2. CASE state[t] = "suspended"
  <2> DEFINE st == [state EXCEPT ![t] = "ready"]
  <2>1. state[t] \notin Ready
    BY <1>2 DEF Ready
  <2>2. Reschedule(SchedInsert(scheduler, rank, t), st)
    BY <1>2 DEF Resume
  <2>3. Switched(st, rank) /\ (criterion.preemptive => BestChosen(rank))
    BY <2>1, <2>2, ReadyFacts
  <2>4. /\ state[Idle] \in Ready /\ \A u \in Threads : Joining(u) => state[u] = "suspended"
        /\ waiting \in [Threads -> Queues \cup {Null}] /\ Idle \in Threads
        /\ rank \in [Threads -> Ranks \cup {IdleRank}]
        /\ state \in [Threads -> States \cup {"free"}]
    BY SchedBasics DEF Parts, MayRun, WaitPart, JoinPart, JoinersKnown, ModePart
  <2>5. /\ st[Idle] \in Ready /\ \A u \in Threads : Joining(u) => st[u] = "suspended"
        /\ \A u \in Threads : \A w \in {"waiting", "finishing", "free"} :
              st[u] = w <=> state[u] = w
    BY <1>1, <1>2, <2>4 DEF Ready
  <2> HIDE DEF st
  <2>6. /\ queue' = queue /\ waiting' = waiting /\ rank' = rank
        /\ UNCHANGED <<joins, halted, criterion, thread_count>> /\ waking' \in {waking, Null}
    BY <1>1 DEF mode, waits
  <2>7. Switched(st, rank') /\ (criterion.preemptive => BestChosen(rank'))
    BY <2>3, <2>6
  <2>8. QED
    BY <2>7, <2>4, <2>5, <2>6, SwitchedKeeps, BestPreempts DEF Parts
<1>3. CASE state[t] # "suspended"
  BY <1>1, <1>3, RescheduleKeeps DEF Resume
<1>4. QED
  BY <1>2, <1>3

(* A flow that executes again leaves the join() it was in.                 *)
LEMMA JoinReturnKeeps ==
  ASSUME Parts, JoinReturn
  PROVE  Parts' /\ state[joinee[cpu]] = "finishing"
<1>1. /\ joinee[cpu] # Null /\ joinee' = [joinee EXCEPT ![cpu] = Null]
      /\ UNCHANGED <<state, rank, scheduler, context, cpu, thread_count, waits, joining, mode>>
  BY DEF JoinReturn
<1>2. /\ cpu \in Threads /\ state[cpu] = "running"
      /\ joinee \in [Threads -> Threads \cup {Null}]
      /\ JoinersKnown /\ JoinsExist /\ joining \in [Threads -> Threads \cup {Null}]
  BY SchedBasics DEF Parts, JoinPart
<1>3. state[joinee[cpu]] = "finishing"
  BY <1>1, <1>2 DEF JoinersKnown, Joining
<1>4. JoinPart'
  <2>1. \A t \in Threads : Joining(t)' <=> Joining(t)
    BY <1>1, <1>2, <1>3 DEF Joining
  <2>2. \A u \in Threads : joining[u] # Null => joining[u] # cpu
    BY <1>2, <1>3 DEF JoinersKnown, Joining
  <2>3. JoinersKnown'
    <3>1. \A t \in Threads :
            Joining(t)' => joining'[joinee'[t]] = t /\ state'[t] = "suspended"
      BY <1>1, <1>2, <2>1 DEF JoinersKnown, Joining
    <3>2. \A u \in Threads :
            joining'[u] # Null => joinee'[joining'[u]] = u /\ Joining(joining'[u])
      BY <1>1, <1>2, <2>2 DEF JoinersKnown
    <3>3. \A u \in Threads :
            joining'[u] # Null => joinee'[joining'[u]] = u /\ Joining(joining[u])'
      BY <1>1, <1>2, <2>1, <3>2
    <3>4. \A u \in Threads :
            joining'[u] # Null => joinee'[joining'[u]] = u /\ Joining(joining[u])'
                                  /\ joining'[u] = joining[u]
      BY <1>1, <3>3
    <3>5. QED
      BY <3>1, <3>4 DEF JoinersKnown, Joining
  <2>4. JoinsExist'
    BY <1>1, <1>2 DEF JoinsExist
  <2>5. QED
    BY <1>1, <1>2, <2>3, <2>4 DEF JoinPart
<1>5. SchedPart' /\ WaitPart' /\ CountPart' /\ ModePart'
  BY <1>1 DEF Parts, SchedPart, WaitPart, CountPart, ModePart, RunningExecutes, Running,
              WaitersQueued, Live, Schedulable, waits, mode
<1>6. QED
  BY <1>3, <1>4, <1>5 DEF Parts

LEMMA WakeupAllKeeps == ASSUME Parts, NEW q \in Queues, WakeupAll(q) PROVE Parts'
  BY DEF WakeupAll, Application, Enabled, waits, joins, Parts, SchedPart, WaitPart, JoinPart,
         CountPart, ModePart, RunningExecutes, Running, WaitersQueued, JoinersKnown, JoinsExist,
         Joining, Live, Schedulable

LEMMA RebootKeeps == ASSUME Parts, Reboot PROVE Parts'
  BY DEF Reboot, LastThread, Enabled, waits, joins, Parts, SchedPart, WaitPart, JoinPart,
         CountPart, ModePart, RunningExecutes, Running, WaitersQueued, JoinersKnown, JoinsExist,
         Joining, Live, Schedulable

-----------------------------------------------------------------------------
(* join() and exit()                                                       *)

LEMMA JoinKeeps == ASSUME Parts, Allow = {}, NEW t \in Threads, Join(t)
  PROVE  Parts' /\ Preempts
<1> DEFINE st == [state EXCEPT ![Running] = "suspended"]
<1>1. CASE UNCHANGED vars
  BY <1>1, OnlySame
<1>2. CASE /\ state[t] # "finishing"
           /\ joining' = [joining EXCEPT ![t] = Running]
           /\ joinee' = [joinee EXCEPT ![cpu] = t]
           /\ SuspendThread(Running)
           /\ UNCHANGED <<rank, thread_count, waits, mode>>
  <2>1. /\ t # cpu /\ state[t] # "free" /\ joining[t] = Null
        /\ cpu # Idle /\ joinee[cpu] = Null
    BY DEF Join, Application
  <2>2. /\ cpu = Running /\ Running \in Threads /\ state[Running] = "running"
        /\ state[Idle] \in Ready /\ Null \notin Threads
        /\ state \in [Threads -> States \cup {"free"}]
        /\ Idle \in Threads
    BY SchedBasics DEF Parts, MayRun
  <2>3. Switched(st, rank) /\ BestChosen(rank)
    BY <1>2, <2>1, <2>2, SuspendFacts
  <2>4. /\ st[Idle] \in Ready /\ st[Running] = "suspended"
        /\ \A u \in Threads : \A w \in {"waiting", "finishing", "free"} :
              st[u] = w <=> state[u] = w
        /\ \A u \in Threads : state[u] = "suspended" => st[u] = "suspended"
    BY <2>1, <2>2
  <2> HIDE DEF st
  <2>5. /\ \A u \in Threads : \A w \in {"waiting", "finishing", "free"} :
              state'[u] = w <=> state[u] = w
        /\ \A u \in Threads : state[u] = "suspended" => state'[u] = "suspended"
        /\ state'[Running] = "suspended"
    <3>1. \A w \in {"waiting", "finishing", "free", "suspended"} : w \notin Ready
      BY DEF Ready
    <3>2. \A u \in Threads : \A w \in {"waiting", "finishing", "free", "suspended"} :
             state'[u] = w <=> st[u] = w
      BY <2>3, <3>1, BlockedFacts
    <3>3. QED
      BY <2>2, <2>4, <3>2
  <2>6. SchedPart'
    <3>1. Switched(st, rank')
      BY <1>2, <2>3
    <3>2. QED
      BY <3>1, SwitchedPart
  <2>7. WaitPart'
    <3>1. /\ queue' = queue /\ waiting' = waiting /\ rank' = rank
          /\ waiting \in [Threads -> Queues \cup {Null}]
      BY <1>2 DEF waits, Parts, WaitPart
    <3>2. QED
      BY <2>5, <3>1, WaitUnchanged DEF Parts
  <2>8. JoinPart'
    <3>1. /\ joining \in [Threads -> Threads \cup {Null}]
          /\ joinee \in [Threads -> Threads \cup {Null}]
          /\ JoinersKnown /\ JoinsExist
      BY DEF Parts, JoinPart
    <3>2. /\ \A u \in Threads : joining'[u] = IF u = t THEN cpu ELSE joining[u]
          /\ \A u \in Threads : joinee'[u] = IF u = cpu THEN t ELSE joinee[u]
      BY <1>2, <2>2, <3>1
    <3>3. \A u \in Threads : Joining(u)' <=> (Joining(u) \/ u = cpu)
      BY <1>2, <2>2, <2>5, <3>1, <3>2 DEF Joining
    <3>4. \A u \in Threads : Joining(u) => joinee[u] # t /\ u # cpu
      BY <2>1, <2>2, <3>1 DEF JoinersKnown, Joining
    <3>5. \A u \in Threads : joining[u] # Null => joining[u] # cpu
      BY <2>1, <2>2, <3>1 DEF JoinersKnown
    <3>6. \A u \in Threads :
            Joining(u)' => joining'[joinee'[u]] = u /\ state'[u] = "suspended"
      BY <2>1, <2>2, <2>5, <3>1, <3>2, <3>3, <3>4 DEF JoinersKnown, Joining
    <3>7. \A u \in Threads : joining'[u] # Null =>
             /\ joinee'[joining'[u]] = u /\ joining'[u] \in Threads
             /\ Joining(joining'[u]) \/ joining'[u] = cpu
      BY <2>1, <2>2, <3>1, <3>2, <3>5 DEF JoinersKnown
    <3>8. JoinersKnown'
      <4>1. \A u \in Threads : joining'[u] # Null =>
               joinee'[joining'[u]] # Null /\ state'[joinee'[joining'[u]]] # "finishing"
        BY <1>2, <2>2, <2>5, <3>1, <3>2, <3>7 DEF Joining
      <4>2. QED
        BY <3>6, <3>7, <4>1 DEF JoinersKnown, Joining
    <3>9. JoinsExist'
      BY <2>1, <2>2, <2>5, <3>1, <3>2 DEF JoinsExist
    <3>10. QED
      BY <1>2, <2>2, <3>1, <3>8, <3>9 DEF JoinPart
  <2>9. CountPart'
    <3>1. Schedulable(Idle)'
      BY <2>2, <2>3, <2>4 DEF Switched, MayRun, Schedulable, Ready
    <3>2. UNCHANGED <<thread_count, halted>>
      BY <1>2 DEF mode
    <3>3. QED
      BY <2>5, <3>1, <3>2, CountUnchanged DEF Parts
  <2>10. ModePart'
    BY <1>2 DEF Parts, ModePart, mode
  <2>11. Preempts
    BY <1>2, <2>3, BestPreempts
  <2>12. QED
    BY <2>6, <2>7, <2>8, <2>9, <2>10, <2>11 DEF Parts
<1>3. QED
  BY <1>1, <1>2 DEF Join, BlockJoiner

(* exit(): the thread that joined the exiting one becomes ready.           *)
LEMMA ExitKeeps == ASSUME Parts, Exit
  PROVE  Parts' /\ Preempts
<1> DEFINE thr == Running
           j   == joining[thr]
           s1  == SchedRemove(scheduler, thr)
           s2  == IF j = Null THEN s1 ELSE SchedInsert(s1, rank, j)
           s3  == SchedChoose(s2, rank)
           st1 == [state EXCEPT ![thr] = "finishing"]
           st2 == IF j = Null THEN st1 ELSE [st1 EXCEPT ![j] = "ready"]
<1>1. /\ thread_count' = thread_count - 1
      /\ joining' = [joining EXCEPT ![thr] = Null]
      /\ scheduler' = s3 /\ Dispatch(thr, s3.chosen, st2, context)
      /\ UNCHANGED <<rank, waits, joinee, mode>>
      /\ cpu # Idle /\ joinee[cpu] = Null /\ ~halted
  BY DEF Exit, Application, Enabled
<1>2. /\ SchedListOK(scheduler, Threads, rank) /\ rank \in [Threads -> Int]
      /\ ToSet(scheduler.list) = MayRun(state) /\ Null \notin Threads
      /\ thr = scheduler.chosen /\ state[thr] = "running" /\ cpu = thr /\ thr \in Threads
      /\ Idle \in MayRun(state)
      /\ state \in [Threads -> States \cup {"free"}]
      /\ \A u \in Threads : state[u] = "running" <=> u = thr
  BY SchedBasics DEF Parts
<1>3. /\ JoinersKnown /\ JoinsExist
      /\ joining \in [Threads -> Threads \cup {Null}]
      /\ joinee \in [Threads -> Threads \cup {Null}]
  BY DEF Parts, JoinPart
<1>4. j # Null => j \in Threads /\ state[j] = "suspended" /\ joinee[j] = thr
  BY <1>2, <1>3 DEF JoinersKnown
<1> HIDE DEF j
<1>5. SchedListOK(s1, Threads, rank) /\ ToSet(s1.list) = MayRun(state) \ {thr}
  <2>1. ToSet(scheduler.list) \ {thr} # {}
    BY <1>1, <1>2
  <2>2. QED
    BY <1>2, <2>1, SchedRemoveFacts
<1> HIDE DEF s1
<1>6. /\ SchedListOK(s2, Threads, rank)
      /\ ToSet(s2.list) = IF j = Null THEN MayRun(state) \ {thr} ELSE (MayRun(state) \ {thr}) \cup {j}
  <2>1. CASE j = Null
    BY <1>5, <2>1
  <2>2. CASE j # Null
    <3>1. j \in Threads /\ j \notin ToSet(s1.list)
      BY <1>4, <1>5, <2>2 DEF MayRun, Ready
    <3>2. Inserted(s1, rank, j, SchedInsert(s1, rank, j))
      BY <1>2, <1>5, <3>1, InsertThread
    <3>3. QED
      BY <1>5, <2>2, <3>2 DEF Inserted
  <2>3. QED
    BY <2>1, <2>2
<1> HIDE DEF s2
<1>7. /\ SchedListOK(s3, Threads, rank) /\ ToSet(s3.list) = ToSet(s2.list)
      /\ \A x \in ToSet(s3.list) : rank[s3.chosen] <= rank[x]
  BY <1>2, <1>6, SchedChooseFacts
<1> HIDE DEF s3
<1>8. \A u \in Threads : st2[u] = IF u = thr THEN "finishing"
                                  ELSE IF u = j THEN "ready" ELSE state[u]
  BY <1>2, <1>4
<1>9. st2 \in [Threads -> States \cup {"free"}]
  BY <1>2, <1>4 DEF States
<1> HIDE DEF st2, st1
<1>10. MayRun(st2) = IF j = Null THEN MayRun(state) \ {thr} ELSE (MayRun(state) \ {thr}) \cup {j}
  BY <1>2, <1>4, <1>8 DEF MayRun, Ready
<1>11. ReadyOK(s3, st2, rank) /\ Steady(st2) /\ s3.chosen # thr
  <2>1. s3.chosen \in ToSet(s2.list)
    BY <1>7 DEF SchedListOK
  <2>2. thr # j
    BY <1>2, <1>4
  <2>3. QED
    BY <1>2, <1>4, <1>6, <1>7, <1>8, <1>9, <1>10, <2>1, <2>2 DEF ReadyOK, Steady
<1>12. Switched(st2, rank)
  BY <1>1, <1>11, EndsInDispatch
<1>13. /\ \A u \in Threads : \A w \in {"waiting", "free"} : state'[u] = w <=> state[u] = w
       /\ \A u \in Threads : state'[u] = "finishing" <=> state[u] = "finishing" \/ u = thr
       /\ \A u \in Threads : u # j /\ state[u] = "suspended" => state'[u] = "suspended"
  <2>1. \A w \in {"waiting", "finishing", "free", "suspended"} : w \notin Ready
    BY DEF Ready
  <2>2. \A u \in Threads : \A w \in {"waiting", "finishing", "free", "suspended"} :
           state'[u] = w <=> st2[u] = w
    BY <1>12, <2>1, BlockedFacts
  <2>3. thr # j
    BY <1>2, <1>4
  <2>4. QED
    BY <1>2, <1>4, <1>8, <2>2, <2>3
<1>14. SchedPart'
  <2>1. Switched(st2, rank')
    BY <1>1, <1>12
  <2>2. QED
    BY <2>1, SwitchedPart
<1>15. WaitPart'
  <2>1. /\ queue' = queue /\ waiting' = waiting /\ rank' = rank
        /\ waiting \in [Threads -> Queues \cup {Null}]
    BY <1>1 DEF waits, Parts, WaitPart
  <2>2. QED
    BY <1>13, <2>1, WaitUnchanged DEF Parts
<1>16. JoinPart'
  <2>1. \A u \in Threads : joining'[u] = IF u = thr THEN Null ELSE joining[u]
    BY <1>1, <1>2, <1>3
  <2>2. \A u \in Threads : Joining(u)' <=> Joining(u) /\ joinee[u] # thr
    BY <1>1, <1>3, <1>13 DEF Joining
  <2>3. \A u \in Threads : joinee[u] = thr /\ Joining(u) => u = j
    BY <1>2, <1>3 DEF JoinersKnown, j
  <2>4. \A u \in Threads :
          Joining(u)' => joining'[joinee'[u]] = u /\ state'[u] = "suspended"
    <3>1. TAKE u \in Threads
    <3>2. HAVE Joining(u)'
    <3>3. Joining(u) /\ joinee[u] # thr /\ joinee[u] \in Threads
      BY <1>3, <2>2, <3>2 DEF Joining
    <3>4. joining[joinee[u]] = u /\ state[u] = "suspended"
      BY <1>3, <3>3 DEF JoinersKnown
    <3>5. u # j
      BY <1>2, <1>4, <3>3, <3>4
    <3>6. QED
      BY <1>1, <1>13, <2>1, <3>3, <3>4, <3>5
  <2>5. \A u \in Threads : joining'[u] # Null =>
           /\ joinee'[joining'[u]] = u /\ joining'[u] \in Threads
           /\ state'[u] # "finishing"
    <3>1. TAKE u \in Threads
    <3>2. HAVE joining'[u] # Null
    <3>3. u # thr /\ joining'[u] = joining[u] /\ joining[u] \in Threads
      BY <1>3, <2>1, <3>2
    <3>4. joinee[joining[u]] = u /\ Joining(joining[u])
      BY <1>3, <3>2, <3>3 DEF JoinersKnown
    <3>5. QED
      BY <1>1, <1>13, <3>3, <3>4 DEF Joining
  <2>6. JoinersKnown'
    <3>1. \A u \in Threads : joining'[u] # Null =>
             joinee'[joining'[u]] = u /\ joinee'[joining'[u]] # Null
             /\ state'[joinee'[joining'[u]]] # "finishing"
      BY <1>2, <2>5
    <3>2. QED
      BY <2>4, <3>1 DEF JoinersKnown, Joining
  <2>7. JoinsExist'
    BY <1>1, <1>3, <1>13 DEF JoinsExist
  <2>8. QED
    BY <1>1, <1>3, <2>1, <2>6, <2>7 DEF JoinPart
<1>17. CountPart'
  <2>1. Live' = Live \ {thr} /\ thr \in Live
    BY <1>2, <1>13 DEF Live
  <2>2. Cardinality(Live') = Cardinality(Live) - 1
    BY <2>1, LiveFinite, FS_RemoveElement
  <2>3. Schedulable(Idle)'
    <3>1. Idle \in MayRun(st2)
      BY <1>1, <1>2, <1>10
    <3>2. QED
      BY <1>12, <3>1 DEF Switched, MayRun, Schedulable, Ready
  <2>4. ~halted'
    BY <1>1 DEF mode
  <2>5. QED
    BY <1>1, <2>2, <2>3, <2>4 DEF Parts, CountPart
<1>18. ModePart'
  BY <1>1 DEF Parts, ModePart, mode
<1>19. Preempts
  BY <1>1, <1>7, BestPreempts DEF BestChosen
<1>20. QED
  BY <1>14, <1>15, <1>16, <1>17, <1>18, <1>19 DEF Parts

-----------------------------------------------------------------------------
(* Sleeping and waking                                                     *)

LEMMA SleepKeeps == ASSUME Parts, NEW q \in Queues, Sleep(q)
  PROVE  Parts' /\ Preempts
<1> DEFINE thr == Running
           s   == SchedRemove(scheduler, thr)
           st  == [state EXCEPT ![thr] = "waiting"]
<1>1. /\ scheduler' = s /\ Dispatch(thr, s.chosen, st, context)
      /\ queue' = [queue EXCEPT ![q] = OrderedInsert(@, rank, thr)]
      /\ waiting' = [waiting EXCEPT ![thr] = q]
      /\ UNCHANGED <<rank, thread_count, joins, mode>>
      /\ cpu # Idle /\ joinee[cpu] = Null
  BY DEF Sleep, Application
<1>2. /\ SchedListOK(scheduler, Threads, rank) /\ rank \in [Threads -> Int]
      /\ ToSet(scheduler.list) = MayRun(state)
      /\ thr = scheduler.chosen /\ state[thr] = "running" /\ thr \in Threads /\ cpu = thr
      /\ Idle \in MayRun(state) /\ Idle \in Threads /\ state[Idle] \in Ready
      /\ state \in [Threads -> States \cup {"free"}]
      /\ \A u \in Threads : state[u] = "running" <=> u = thr
  BY SchedBasics DEF Parts, MayRun
<1> HIDE DEF thr
<1>3. /\ SchedListOK(s, Threads, rank) /\ ToSet(s.list) = MayRun(state) \ {thr}
      /\ \A x \in ToSet(s.list) : rank[s.chosen] <= rank[x]
  <2>1. ToSet(scheduler.list) \ {thr} # {}
    BY <1>1, <1>2
  <2>2. SchedListOK(s, Threads, rank) /\ ToSet(s.list) = MayRun(state) \ {thr}
    BY <1>2, <2>1, SchedRemoveFacts
  <2>3. \A x \in ToSet(scheduler.list) \ {thr} : rank[s.chosen] <= rank[x]
    BY <1>2, <2>1, SchedRemoveFacts
  <2>4. QED
    BY <1>2, <2>2, <2>3
<1> HIDE DEF s
<1>4. /\ MayRun(st) = MayRun(state) \ {thr}
      /\ Steady(st) /\ st[thr] = "waiting" /\ st[Idle] \in Ready
      /\ \A u \in Threads : u # thr => st[u] = state[u]
  <2>1. \A u \in Threads : st[u] = IF u = thr THEN "waiting" ELSE state[u]
    BY <1>2
  <2>2. MayRun(st) = MayRun(state) \ {thr}
    BY <1>2, <2>1 DEF MayRun, Ready
  <2>3. st \in [Threads -> States \cup {"free"}]
    BY <1>2 DEF States
  <2>4. Steady(st)
    BY <1>2, <2>1, <2>3 DEF Steady, thr
  <2>5. QED
    BY <1>1, <1>2, <2>1, <2>2, <2>4
<1> HIDE DEF st
<1>5. Switched(st, rank)
  <2>1. ReadyOK(s, st, rank) /\ s.chosen # thr
    BY <1>3, <1>4 DEF ReadyOK, SchedListOK
  <2>2. QED
    BY <1>1, <1>4, <2>1, EndsInDispatch DEF thr
<1>6. /\ \A u \in Threads : \A w \in {"finishing", "free"} : state'[u] = w <=> state[u] = w
      /\ \A u \in Threads : state'[u] = "waiting" <=> state[u] = "waiting" \/ u = thr
      /\ \A u \in Threads : state[u] = "suspended" => state'[u] = "suspended"
  <2>1. \A w \in {"waiting", "finishing", "free", "suspended"} : w \notin Ready
    BY DEF Ready
  <2>2. \A u \in Threads : \A w \in {"waiting", "finishing", "free", "suspended"} :
           state'[u] = w <=> st[u] = w
    BY <1>5, <2>1, BlockedFacts
  <2>3. QED
    BY <1>2, <1>4, <2>2
<1>7. SchedPart'
  <2>1. Switched(st, rank')
    BY <1>1, <1>5
  <2>2. QED
    BY <2>1, SwitchedPart
<1>8. WaitPart'
  <2>1. /\ queue \in [Queues -> Seq(Threads)] /\ waiting \in [Threads -> Queues \cup {Null}]
        /\ WaitersQueued /\ \A r \in Queues : Sorted(queue[r], rank)
    BY DEF Parts, WaitPart
  <2>2. queue[q] \in Seq(Threads) /\ IsInjective(queue[q]) /\ thr \notin ToSet(queue[q])
    BY <1>2, <2>1 DEF WaitersQueued
  <2> DEFINE l == OrderedInsert(queue[q], rank, thr)
  <2>3. /\ l \in Seq(Threads) /\ ToSet(l) = ToSet(queue[q]) \cup {thr}
        /\ IsInjective(l) /\ Sorted(l, rank)
    BY <1>2, <2>1, <2>2, OrderedInsertFacts, SMTT(20)
  <2> HIDE DEF l
  <2>4. \A r \in Queues : queue'[r] = IF r = q THEN l ELSE queue[r]
    BY <1>1, <2>1 DEF l
  <2>5. \A u \in Threads : waiting'[u] = IF u = thr THEN q ELSE waiting[u]
    BY <1>1, <1>2, <2>1
  <2>6. queue' \in [Queues -> Seq(Threads)] /\ waiting' \in [Threads -> Queues \cup {Null}]
    BY <1>1, <2>1, <2>3 DEF l
  <2>7. \A r \in Queues : ToSet(queue'[r])
                          = {u \in Threads : state'[u] = "waiting" /\ waiting'[u] = r}
    <3>1. TAKE r \in Queues
    <3>2. ToSet(queue[r]) = {u \in Threads : state[u] = "waiting" /\ waiting[u] = r}
      BY <2>1 DEF WaitersQueued
    <3>3. CASE r = q
      BY <1>2, <1>6, <2>3, <2>4, <2>5, <3>2, <3>3
    <3>4. CASE r # q
      BY <1>2, <1>6, <2>4, <2>5, <3>2, <3>4
    <3>5. QED
      BY <3>3, <3>4
  <2>8. WaitersQueued'
    BY <1>2, <1>6, <2>1, <2>3, <2>4, <2>5, <2>7 DEF WaitersQueued
  <2>9. \A r \in Queues : Sorted(queue'[r], rank')
    BY <1>1, <2>1, <2>3, <2>4
  <2>10. QED
    BY <2>6, <2>8, <2>9 DEF WaitPart
<1>9. JoinPart'
  <2>1. \A u \in Threads : Joining(u) => state[u] = "suspended"
    BY DEF Parts, JoinPart, JoinersKnown
  <2>2. \A u \in Threads : joinee[u] # Null =>
          joinee[u] \in Threads /\ state[u] # "free" /\ state[joinee[u]] # "free"
    BY DEF Parts, JoinPart, JoinsExist
  <2>3. QED
    BY <1>1, <1>6, <2>1, <2>2, JoinUnchanged DEF Parts
<1>10. CountPart'
  <2>1. Schedulable(Idle)'
    BY <1>2, <1>4, <1>5 DEF Switched, MayRun, Schedulable, Ready
  <2>2. QED
    BY <1>1, <1>6, <2>1, CountUnchanged DEF Parts, mode
<1>11. ModePart'
  BY <1>1 DEF Parts, ModePart, mode
<1>12. Preempts
  BY <1>1, <1>3, BestPreempts DEF BestChosen
<1>13. QED
  BY <1>7, <1>8, <1>9, <1>10, <1>11, <1>12 DEF Parts

(* The head of a queue waits in it.                                        *)
LEMMA HeadWaits ==
  ASSUME Parts, NEW q \in Queues, queue[q] # << >>
  PROVE  /\ Head(queue[q]) \in Threads
         /\ state[Head(queue[q])] = "waiting" /\ waiting[Head(queue[q])] = q
<1>1. queue[q] \in Seq(Threads) /\ Head(queue[q]) \in ToSet(queue[q])
  BY HeadFacts DEF Parts, WaitPart
<1>2. QED
  BY <1>1 DEF Parts, WaitPart, WaitersQueued

(* A step that wakes it, and lets nobody else wait or stop waiting. *)
LEMMA AwakenKeeps ==
  ASSUME Parts, NEW q \in Queues, queue[q] # << >>, Awaken(q), rank' = rank,
         \A u \in Threads :
           state'[u] = "waiting" <=> state[u] = "waiting" /\ u # Head(queue[q])
  PROVE  WaitPart'
<1> DEFINE t == Head(queue[q])
           l == Tail(queue[q])
<1>1. /\ queue \in [Queues -> Seq(Threads)] /\ waiting \in [Threads -> Queues \cup {Null}]
      /\ WaitersQueued /\ \A r \in Queues : Sorted(queue[r], rank)
  BY DEF Parts, WaitPart
<1>2. t \in Threads /\ state[t] = "waiting" /\ waiting[t] = q
  BY HeadWaits
<1>3. /\ queue' = [queue EXCEPT ![q] = l]
      /\ waiting' = [waiting EXCEPT ![t] = Null]
  BY DEF Awaken
<1>4. /\ l \in Seq(Threads) /\ ToSet(l) = ToSet(queue[q]) \ {t}
      /\ IsInjective(l) /\ Sorted(l, rank)
  <2>1. queue[q] \in Seq(Threads) /\ IsInjective(queue[q]) /\ Sorted(queue[q], rank)
    BY <1>1 DEF WaitersQueued
  <2>2. QED
    BY <2>1, TailFacts
<1>5. \A u \in Threads : state'[u] = "waiting" <=> state[u] = "waiting" /\ u # t
  OBVIOUS
<1> HIDE DEF l, t
<1>6. \A r \in Queues : queue'[r] = IF r = q THEN l ELSE queue[r]
  BY <1>1, <1>3
<1>7. \A u \in Threads : waiting'[u] = IF u = t THEN Null ELSE waiting[u]
  BY <1>1, <1>2, <1>3
<1>8. queue' \in [Queues -> Seq(Threads)] /\ waiting' \in [Threads -> Queues \cup {Null}]
  BY <1>1, <1>3, <1>4
<1>9. \A r \in Queues : ToSet(queue'[r])
                        = {u \in Threads : state'[u] = "waiting" /\ waiting'[u] = r}
  <2>1. TAKE r \in Queues
  <2>2. ToSet(queue[r]) = {u \in Threads : state[u] = "waiting" /\ waiting[u] = r}
    BY <1>1 DEF WaitersQueued
  <2>3. CASE r = q
    BY <1>4, <1>5, <1>6, <1>7, <2>2, <2>3
  <2>4. CASE r # q
    BY <1>2, <1>5, <1>6, <1>7, <2>2, <2>4
  <2>5. QED
    BY <2>3, <2>4
<1>10. WaitersQueued'
  BY <1>1, <1>4, <1>5, <1>6, <1>7, <1>9 DEF WaitersQueued
<1>11. QED
  BY <1>1, <1>4, <1>6, <1>8, <1>10 DEF WaitPart

(* Waking the head of a queue, in a step after which the ready list is as  *)
(* the states say, keeps the other parts. *)
LEMMA WokenKeeps ==
  ASSUME Parts, NEW q \in Queues, queue[q] # << >>, Awaken(q),
         UNCHANGED <<rank, thread_count, joins, mode>>,
         SchedPart',
         Switched([state EXCEPT ![Head(queue[q])] = "ready"], rank)
         \/ state' = [state EXCEPT ![Head(queue[q])] = "ready"]
  PROVE  Parts'
<1> DEFINE t  == Head(queue[q])
           st == [state EXCEPT ![t] = "ready"]
<1>1. t \in Threads /\ state[t] = "waiting"
  BY HeadWaits
<1>2. /\ state \in [Threads -> States \cup {"free"}]
      /\ Idle \in Threads /\ state[Idle] \in Ready
  BY SchedBasics DEF Parts, MayRun
<1>3. Switched(st, rank) \/ state' = st
  OBVIOUS
<1> HIDE DEF t
<1>4. \A u \in Threads : st[u] = IF u = t THEN "ready" ELSE state[u]
  BY <1>2
<1>5. /\ \A u \in Threads : \A w \in {"finishing", "free"} : state'[u] = w <=> state[u] = w
      /\ \A u \in Threads : state'[u] = "waiting" <=> state[u] = "waiting" /\ u # t
      /\ \A u \in Threads : state[u] = "suspended" => state'[u] = "suspended"
      /\ state'[Idle] \in Ready
  <2>1. \A w \in {"waiting", "finishing", "free", "suspended"} : w \notin Ready
    BY DEF Ready
  <2>2. \A u \in Threads : \A w \in {"waiting", "finishing", "free", "suspended"} :
           state'[u] = w <=> st[u] = w
    <3>1. CASE Switched(st, rank)
      <4> HIDE DEF st
      <4>1. QED
        BY <2>1, <3>1, BlockedFacts
    <3>2. CASE state' = st
      BY <3>2
    <3>3. QED
      BY <1>3, <3>1, <3>2
  <2>3. Idle \in MayRun(st)
    BY <1>2, <1>4 DEF MayRun, Ready
  <2>4. state'[Idle] \in Ready
    <3> HIDE DEF st
    <3>1. QED
      BY <1>2, <1>3, <2>3 DEF Switched, MayRun
  <2>5. QED
    BY <1>1, <1>4, <2>2, <2>4
<1>6. WaitPart'
  BY <1>5, AwakenKeeps DEF t
<1>7. JoinPart'
  <2>1. \A u \in Threads : Joining(u) => state[u] = "suspended"
    BY DEF Parts, JoinPart, JoinersKnown
  <2>2. \A u \in Threads : joinee[u] # Null =>
          joinee[u] \in Threads /\ state[u] # "free" /\ state[joinee[u]] # "free"
    BY DEF Parts, JoinPart, JoinsExist
  <2>3. QED
    BY <1>5, <2>1, <2>2, JoinUnchanged DEF Parts
<1>8. CountPart'
  <2>1. Schedulable(Idle)'
    BY <1>5 DEF Schedulable, Ready
  <2>2. QED
    BY <1>5, <2>1, CountUnchanged DEF Parts, mode
<1>9. ModePart'
  BY DEF Parts, ModePart, mode
<1>10. QED
  BY <1>6, <1>7, <1>8, <1>9 DEF Parts

LEMMA WakeupKeeps == ASSUME Parts, NEW q \in Queues, Wakeup(q)
  PROVE  Parts' /\ Preempts
<1>1. UNCHANGED <<rank, thread_count, joins, mode>>
  BY DEF Wakeup
<1>2. CASE queue[q] # << >>
  <2> DEFINE t == Head(queue[q])
  <2>1. /\ Awaken(q)
        /\ Reschedule(SchedInsert(scheduler, rank, t), [state EXCEPT ![t] = "ready"])
    BY <1>2 DEF Wakeup
  <2>2. t \in Threads /\ state[t] \notin Ready
    BY <1>2, HeadWaits DEF Ready
  <2>3. /\ Switched([state EXCEPT ![t] = "ready"], rank)
        /\ criterion.preemptive => BestChosen(rank)
    BY <2>1, <2>2, ReadyFacts
  <2>4. SchedPart'
    <3> DEFINE st == [state EXCEPT ![t] = "ready"]
    <3>1. Switched(st, rank')
      BY <1>1, <2>3
    <3> HIDE DEF st
    <3>2. QED
      BY <3>1, SwitchedPart
  <2>5. Preempts
    BY <1>1, <2>3, BestPreempts
  <2>6. QED
    BY <1>1, <1>2, <2>1, <2>3, <2>4, <2>5, WokenKeeps
<1>3. CASE queue[q] = << >>
  BY <1>1, <1>3, RescheduleKeeps DEF Wakeup
<1>4. QED
  BY <1>2, <1>3

LEMMA WakeupAllTurnKeeps == ASSUME Parts, WakeupAllTurn PROVE Parts'
<1> DEFINE t == Head(queue[waking])
           s == SchedInsert(scheduler, rank, t)
<1>1. /\ waking \in Queues /\ queue[waking] # << >> /\ Awaken(waking)
      /\ scheduler' = s
      /\ state' = [state EXCEPT ![t] = "ready"]
      /\ UNCHANGED <<rank, context, cpu, thread_count, joins, mode>>
  BY DEF WakeupAllTurn, Parts, ModePart
<1>2. t \in Threads /\ state[t] = "waiting"
  BY <1>1, HeadWaits
<1> HIDE DEF t
<1>3. /\ SchedListOK(scheduler, Threads, rank) /\ rank \in [Threads -> Int]
      /\ ToSet(scheduler.list) = MayRun(state) /\ Null \notin Threads
      /\ Running = scheduler.chosen /\ cpu = Running /\ state[Running] = "running"
      /\ state \in [Threads -> States \cup {"free"}]
      /\ \A u \in Threads : state[u] = "running" <=> u = Running
      /\ context \in [Threads -> Threads \cup {Null}]
      /\ \A u \in Threads : context[u] = IF u = Running THEN Null ELSE u
  BY SchedBasics DEF Parts
<1>4. t \notin MayRun(state) /\ t # Running
  BY <1>2, <1>3 DEF MayRun, Ready
<1>5. Inserted(scheduler, rank, t, s)
  BY <1>2, <1>3, <1>4, InsertThread
<1> HIDE DEF s
<1>6. MayRun(state') = MayRun(state) \cup {t}
  BY <1>1, <1>2, <1>3 DEF MayRun, Ready
<1>7. SchedPart'
  <2>1. ReadyOK(scheduler, state, rank)'
    BY <1>1, <1>3, <1>5, <1>6 DEF ReadyOK, Inserted
  <2>2. Running' = Running
    BY <1>1, <1>3, <1>5 DEF Inserted, Running
  <2>3. RunningExecutes'
    BY <1>1, <1>2, <1>3, <1>4, <2>2 DEF RunningExecutes
  <2>4. /\ state' \in [Threads -> States \cup {"free"}]
        /\ context' \in [Threads -> Threads \cup {Null}]
    BY <1>1, <1>3 DEF States
  <2>5. QED
    BY <2>1, <2>3, <2>4 DEF SchedPart
<1>8. QED
  BY <1>1, <1>7, WokenKeeps DEF t

-----------------------------------------------------------------------------
(* Construction and destruction                                            *)

(* Nothing joins a thread that does not exist, or that nothing is said to  *)
(* join. *)
LEMMA NoJoiner ==
  ASSUME JoinPart, NEW t \in Threads, \A u \in Threads : joinee[u] # t
  PROVE  joining[t] = Null
  BY DEF JoinPart, JoinersKnown

LEMMA CreateKeeps ==
  ASSUME Parts, NEW t \in Threads, NEW r \in Ranks,
         NEW b \in {"beginning", "ready", "suspended"}, Create(t, r, b)
  PROVE  Parts' /\ Preempts
<1> DEFINE rk == [rank EXCEPT ![t] = r]
           s1 == SchedInsert(scheduler, rk, t)
           s2 == IF b = "ready" THEN s1 ELSE SchedRemove(s1, t)
           st == [state EXCEPT ![t] = b]
           cx == [context EXCEPT ![t] = t]
<1>1. /\ state[t] = "free" /\ rank' = rk
      /\ waiting' = [waiting EXCEPT ![t] = Null]
      /\ joining' = [joining EXCEPT ![t] = Null]
      /\ thread_count' = thread_count + 1
      /\ RescheduleIf(criterion.preemptive, s2, rk, st, cx)
      /\ UNCHANGED <<queue, joinee, mode>> /\ ~halted
  BY DEF Create, Application, Enabled
<1>2. /\ SchedListOK(scheduler, Threads, rank) /\ rank \in [Threads -> Int] /\ r \in Int
      /\ ToSet(scheduler.list) = MayRun(state) /\ Null \notin Threads
      /\ Running = scheduler.chosen /\ Running \in MayRun(state) /\ Running \in Threads
      /\ state[Running] = "running"
      /\ Idle \in Threads /\ state[Idle] \in Ready /\ Idle \in MayRun(state)
      /\ state \in [Threads -> States \cup {"free"}]
      /\ \A u \in Threads : state[u] = "running" <=> u = Running
      /\ context \in [Threads -> Threads \cup {Null}]
      /\ \A u \in Threads : context[u] = IF u = Running THEN Null ELSE u
      /\ criterion.preemptive \in BOOLEAN
  BY SchedBasics DEF Parts, MayRun
<1>3. t \notin MayRun(state) /\ t # Running /\ t # Idle
  BY <1>1, <1>2 DEF MayRun, Ready
<1>4. rk \in [Threads -> Int] /\ \A u \in Threads : u # t => rk[u] = rank[u]
  BY <1>2
<1>5. /\ \A u \in Threads : st[u] = IF u = t THEN b ELSE state[u]
      /\ st \in [Threads -> States \cup {"free"}]
      /\ \A u \in Threads : cx[u] = IF u = Running THEN Null ELSE u
      /\ cx \in [Threads -> Threads \cup {Null}]
  BY <1>2, <1>3 DEF States
<1> HIDE DEF rk, st, cx
<1>6. SchedListOK(scheduler, Threads, rk)
  <2>1. scheduler.list \in Seq(Threads) /\ Sorted(scheduler.list, rank)
    BY <1>2 DEF SchedListOK
  <2>2. \A x \in ToSet(scheduler.list) : rank[x] = rk[x]
    BY <1>2, <1>3, <1>4 DEF MayRun
  <2>3. Sorted(scheduler.list, rk)
    BY <2>1, <2>2, SortedCongruence
  <2>4. QED
    BY <1>2, <2>3 DEF SchedListOK
<1>7. SchedListOK(s1, Threads, rk) /\ ToSet(s1.list) = MayRun(state) \cup {t} /\ s1.chosen = Running
  <2>1. Inserted(scheduler, rk, t, s1)
    BY <1>2, <1>3, <1>4, <1>6, InsertThread
  <2>2. QED
    BY <1>2, <2>1 DEF Inserted
<1> HIDE DEF s1
<1>8. /\ SchedListOK(s2, Threads, rk) /\ s2.chosen = Running
      /\ ToSet(s2.list) = IF b = "ready" THEN MayRun(state) \cup {t} ELSE MayRun(state)
  <2>1. CASE b = "ready"
    BY <1>7, <2>1
  <2>2. CASE b # "ready"
    <3>1. ToSet(s1.list) \ {t} # {} /\ t # s1.chosen
      BY <1>2, <1>3, <1>7
    <3>2. /\ SchedListOK(SchedRemove(s1, t), Threads, rk)
          /\ ToSet(SchedRemove(s1, t).list) = ToSet(s1.list) \ {t}
          /\ SchedRemove(s1, t).chosen = s1.chosen
      BY <1>7, <3>1, SchedRemoveFacts
    <3>3. (MayRun(state) \cup {t}) \ {t} = MayRun(state)
      BY <1>3
    <3>4. QED
      BY <1>7, <2>2, <3>2, <3>3
  <2>3. QED
    BY <2>1, <2>2
<1> HIDE DEF s2
<1>9. MayRun(st) = IF b = "ready" THEN MayRun(state) \cup {t} ELSE MayRun(state)
  BY <1>3, <1>5 DEF MayRun, Ready
<1>10. ReadyOK(s2, st, rk) /\ Steady(st) /\ st[Running] = "running"
  BY <1>2, <1>3, <1>5, <1>8, <1>9 DEF ReadyOK, Steady
<1>11. Switched(st, rk) /\ (criterion.preemptive => BestChosen(rk))
  BY <1>1, <1>2, <1>4, <1>5, <1>8, <1>10, EndsInReschedule
<1>12. /\ \A u \in Threads : \A w \in {"waiting", "finishing"} : state'[u] = w <=> state[u] = w
       /\ \A u \in Threads : state'[u] = "free" <=> state[u] = "free" /\ u # t
       /\ \A u \in Threads : state[u] = "suspended" => state'[u] = "suspended"
  <2>1. \A w \in {"waiting", "finishing", "free", "suspended"} : w \notin Ready
    BY DEF Ready
  <2>2. \A u \in Threads : \A w \in {"waiting", "finishing", "free", "suspended"} :
           state'[u] = w <=> st[u] = w
    BY <1>11, <2>1, BlockedFacts
  <2>3. QED
    BY <1>1, <1>5, <2>2
<1>13. SchedPart'
  <2>1. Switched(st, rank')
    BY <1>1, <1>11
  <2>2. QED
    BY <2>1, SwitchedPart
<1>14. WaitPart'
  <2>1. waiting \in [Threads -> Queues \cup {Null}]
    BY DEF Parts, WaitPart
  <2>2. waiting' \in [Threads -> Queues \cup {Null}] /\ queue' = queue
    BY <1>1, <2>1
  <2>3. \A u \in Threads :
          state[u] = "waiting" => rank'[u] = rank[u] /\ waiting'[u] = waiting[u]
    BY <1>1, <1>4, <2>1
  <2>4. QED
    BY <1>12, <2>2, <2>3, WaitUnchanged DEF Parts
<1>15. JoinPart'
  <2>1. /\ \A u \in Threads : joinee[u] # Null =>
            /\ joinee[u] \in Threads /\ state[u] # "free" /\ state[joinee[u]] # "free"
        /\ \A u \in Threads : Joining(u) => state[u] = "suspended"
        /\ joining \in [Threads -> Threads \cup {Null}]
    BY DEF Parts, JoinPart, JoinsExist, JoinersKnown
  <2>2. \A u \in Threads : joinee[u] # t
    BY <1>1, <1>2, <2>1
  <2>3. UNCHANGED joins
    <3>1. joining[t] = Null
      BY <2>2, NoJoiner DEF Parts
    <3>2. QED
      BY <1>1, <2>1, <3>1 DEF joins
  <2>4. QED
    BY <1>12, <2>1, <2>2, <2>3, JoinUnchanged DEF Parts
<1>16. CountPart'
  <2>1. Live' = Live \cup {t} /\ t \notin Live
    BY <1>1, <1>12 DEF Live
  <2>2. Cardinality(Live') = Cardinality(Live) + 1
    BY <2>1, LiveFinite, FS_AddElement
  <2>3. Schedulable(Idle)'
    <3>1. Idle \in MayRun(st)
      BY <1>2, <1>9
    <3>2. QED
      BY <1>11, <3>1 DEF Switched, MayRun, Schedulable, Ready
  <2>4. QED
    BY <1>1, <2>2, <2>3 DEF Parts, CountPart, mode
<1>17. ModePart'
  BY <1>1 DEF Parts, ModePart, mode, rk
<1>18. Preempts
  BY <1>1, <1>11, BestPreempts
<1>19. QED
  BY <1>13, <1>14, <1>15, <1>16, <1>17, <1>18 DEF Parts

LEMMA DeleteKeeps == ASSUME Parts, Allow = {}, NEW t \in Threads, Delete(t)
  PROVE  Parts' /\ Preempts
<1> DEFINE blocked == state[t] \in {"beginning", "suspended", "waiting"}
           s1 == IF blocked THEN SchedInsert(scheduler, rank, t) ELSE scheduler
           s2 == SchedRemove(s1, t)
<1>1. /\ t # Idle /\ state[t] \notin {"free", "running"}
      /\ joinee[t] = Null /\ \A u \in Threads : joinee[u] # t
      /\ queue' = IF state[t] = "waiting"
                  THEN [queue EXCEPT ![waiting[t]] = ListRemove(@, t)] ELSE queue
      /\ scheduler' = s2
      /\ thread_count' = IF state[t] = "finishing" THEN thread_count ELSE thread_count - 1
      /\ state' = [state EXCEPT ![t] = "free"]
      /\ joinee' = [joinee EXCEPT ![t] = Null]
      /\ UNCHANGED <<rank, context, cpu, waiting, joining, mode>> /\ ~halted
  BY DEF Delete, Unlinked, Unqueued, Discounted, Application, Enabled
<1>2. /\ SchedListOK(scheduler, Threads, rank) /\ rank \in [Threads -> Int]
      /\ ToSet(scheduler.list) = MayRun(state) /\ Null \notin Threads
      /\ Running = scheduler.chosen /\ Running \in MayRun(state) /\ Running \in Threads
      /\ cpu = Running /\ state[Running] = "running"
      /\ Idle \in Threads /\ state[Idle] \in Ready
      /\ state \in [Threads -> States \cup {"free"}]
      /\ \A u \in Threads : state[u] = "running" <=> u = Running
      /\ context \in [Threads -> Threads \cup {Null}]
      /\ \A u \in Threads : context[u] = IF u = Running THEN Null ELSE u
  BY SchedBasics DEF Parts, MayRun
<1>3. t # Running
  BY <1>1, <1>2
<1>4. \A u \in Threads : state'[u] = IF u = t THEN "free" ELSE state[u]
  BY <1>1, <1>2
<1>5. SchedListOK(s1, Threads, rank) /\ ToSet(s1.list) \ {t} = MayRun(state) \ {t} /\ s1.chosen = Running
  <2>1. CASE blocked
    <3>1. t \notin MayRun(state)
      BY <2>1 DEF MayRun, Ready
    <3>2. Inserted(scheduler, rank, t, s1)
      BY <1>2, <2>1, <3>1, InsertThread
    <3>3. QED
      BY <1>2, <3>2 DEF Inserted
  <2>2. CASE ~blocked
    BY <1>2, <2>2
  <2>3. QED
    BY <2>1, <2>2
<1> HIDE DEF s1
<1>6. /\ SchedListOK(s2, Threads, rank) /\ ToSet(s2.list) = MayRun(state) \ {t}
      /\ s2.chosen = Running
  <2>1. ToSet(s1.list) \ {t} # {} /\ t # s1.chosen
    BY <1>2, <1>3, <1>5
  <2>2. QED
    BY <1>5, <2>1, SchedRemoveFacts
<1> HIDE DEF s2
<1>7. SchedPart'
  <2>1. MayRun(state') = MayRun(state) \ {t}
    BY <1>4 DEF MayRun, Ready
  <2>2. ReadyOK(scheduler, state, rank)'
    BY <1>1, <1>6, <2>1 DEF ReadyOK
  <2>3. Running' = Running
    BY <1>1, <1>2, <1>6 DEF Running
  <2>4. RunningExecutes'
    BY <1>1, <1>2, <1>3, <1>4, <2>3 DEF RunningExecutes
  <2>5. /\ state' \in [Threads -> States \cup {"free"}]
        /\ context' \in [Threads -> Threads \cup {Null}]
    BY <1>1, <1>2
  <2>6. QED
    BY <2>2, <2>4, <2>5 DEF SchedPart
<1>8. WaitPart'
  <2>1. /\ queue \in [Queues -> Seq(Threads)] /\ waiting \in [Threads -> Queues \cup {Null}]
        /\ WaitersQueued /\ \A q \in Queues : Sorted(queue[q], rank)
    BY DEF Parts, WaitPart
  <2>2. CASE state[t] # "waiting"
    <3>1. queue' = queue /\ waiting' = waiting /\ rank' = rank
      BY <1>1, <2>2
    <3>2. \A u \in Threads : state'[u] = "waiting" <=> state[u] = "waiting"
      BY <1>4, <2>2
    <3>3. QED
      BY <2>1, <3>1, <3>2, WaitUnchanged DEF Parts
  <2>3. CASE state[t] = "waiting"
    <3> DEFINE w == waiting[t]
               l == ListRemove(queue[w], t)
    <3>1. w \in Queues /\ queue' = [queue EXCEPT ![w] = l]
      BY <1>1, <2>1, <2>3 DEF WaitersQueued
    <3>2. queue[w] \in Seq(Threads) /\ IsInjective(queue[w]) /\ Sorted(queue[w], rank)
      BY <2>1, <3>1 DEF WaitersQueued
    <3>3. /\ l \in Seq(Threads) /\ ToSet(l) = ToSet(queue[w]) \ {t}
          /\ IsInjective(l) /\ Sorted(l, rank)
      BY <3>2, ListRemoveFacts
    <3> HIDE DEF l
    <3>4. \A q \in Queues : queue'[q] = IF q = w THEN l ELSE queue[q]
      BY <2>1, <3>1
    <3>5. queue' \in [Queues -> Seq(Threads)]
      BY <2>1, <3>1, <3>3
    <3>6. \A u \in Threads : state'[u] = "waiting" <=> state[u] = "waiting" /\ u # t
      BY <1>4
    <3>7. \A q \in Queues : ToSet(queue'[q])
                            = {u \in Threads : state'[u] = "waiting" /\ waiting[u] = q}
      <4>1. TAKE q \in Queues
      <4>2. ToSet(queue[q]) = {u \in Threads : state[u] = "waiting" /\ waiting[u] = q}
        BY <2>1 DEF WaitersQueued
      <4>3. CASE q = w
        BY <3>3, <3>4, <3>6, <4>2, <4>3
      <4>4. CASE q # w
        BY <3>4, <3>6, <4>2, <4>4
      <4>5. QED
        BY <4>3, <4>4
    <3>8. WaitersQueued'
      BY <1>1, <2>1, <3>3, <3>4, <3>6, <3>7 DEF WaitersQueued
    <3>9. \A q \in Queues : Sorted(queue'[q], rank')
      BY <1>1, <2>1, <3>3, <3>4
    <3>10. QED
      BY <1>1, <2>1, <3>5, <3>8, <3>9 DEF WaitPart
  <2>4. QED
    BY <2>2, <2>3
<1>9. JoinPart'
  <2>1. /\ \A u \in Threads : joinee[u] # Null =>
            /\ joinee[u] \in Threads /\ state[u] # "free" /\ state[joinee[u]] # "free"
        /\ \A u \in Threads : Joining(u) => state[u] = "suspended"
        /\ joinee \in [Threads -> Threads \cup {Null}]
    BY DEF Parts, JoinPart, JoinsExist, JoinersKnown
  <2>2. UNCHANGED joins
    BY <1>1, <2>1 DEF joins
  <2>3. \A u \in Threads : Joining(u) => u # t
    BY <1>1 DEF Joining
  <2>4. QED
    BY <1>1, <1>4, <2>1, <2>2, <2>3, JoinUnchanged DEF Parts
<1>10. CountPart'
  <2>1. Live' = Live \ {t}
    BY <1>4 DEF Live
  <2>2. t \in Live <=> state[t] # "finishing"
    BY <1>1 DEF Live
  <2>3. Cardinality(Live') = IF state[t] = "finishing" THEN Cardinality(Live) ELSE Cardinality(Live) - 1
    BY <2>1, <2>2, LiveFinite, FS_RemoveElement
  <2>4. Schedulable(Idle)'
    BY <1>1, <1>2, <1>4 DEF Schedulable, Ready
  <2>5. QED
    BY <1>1, <2>3, <2>4 DEF Parts, CountPart, mode
<1>11. ModePart'
  BY <1>1 DEF Parts, ModePart, mode
<1>12. Preempts
  <2>1. MayRun(state') \subseteq MayRun(state) /\ Running \in MayRun(state')
    BY <1>2, <1>3, <1>4 DEF MayRun, Ready
  <2>2. QED
    BY <2>1, NothingToPreempt
<1>13. QED
  BY <1>7, <1>8, <1>9, <1>10, <1>11, <1>12 DEF Parts

-----------------------------------------------------------------------------
(* The theorems                                                            *)

(* One step, whichever it is. *)
LEMMA StepKeeps ==
  ASSUME Allow = {}, Parts, Next
  PROVE  Parts' /\ (waking = Null => Preempts)
                /\ (waking # Null /\ waking' = Null /\ criterion.preemptive => RunsBest')
<1>1. CASE \E t \in Threads : Operation(t)
  <2>1. PICK t \in Threads : Operation(t)
    BY <1>1
  <2>2. Parts' /\ Preempts
    BY <2>1, CreateKeeps, DeleteKeeps, PriorityKeeps, SuspendKeeps, JoinKeeps, PassKeeps,
       ResumeKeeps DEF Operation
  <2>3. waking = Null
    BY <2>1 DEF Operation, Create, Delete, Priority, Suspend, Join, Pass, Resume,
                Application, Enabled
  <2>4. QED
    BY <2>2, <2>3
<1>2. CASE \E q \in Queues : Synchronization(q)
  <2>1. PICK q \in Queues : Synchronization(q)
    BY <1>2
  <2>2. waking = Null
    BY <2>1 DEF Synchronization, Sleep, Wakeup, WakeupAll, Application, Enabled
  <2>3. CASE Sleep(q) \/ Wakeup(q)
    BY <2>2, <2>3, SleepKeeps, WakeupKeeps
  <2>4. CASE WakeupAll(q)
    <3>1. MayRun(state') = MayRun(state) /\ Running \in MayRun(state)
      BY <2>4, SchedBasics DEF WakeupAll, Parts
    <3>2. QED
      BY <2>2, <2>4, <3>1, NothingToPreempt, WakeupAllKeeps
  <2>5. QED
    BY <2>1, <2>3, <2>4 DEF Synchronization
<1>3. CASE Yield \/ IdleYield
  BY <1>3, YieldKeeps DEF Yield, IdleYield, Application, Enabled
<1>4. CASE Exit
  BY <1>4, ExitKeeps DEF Exit, Application, Enabled
<1>5. CASE WakeupAllTurn
  <2>1. waking # Null /\ waking' # Null
    BY <1>5 DEF WakeupAllTurn, mode
  <2>2. QED
    BY <1>5, <2>1, WakeupAllTurnKeeps
<1>6. CASE WakeupAllEnd
  BY <1>6, WakeupAllEndKeeps
<1>7. CASE JoinReturn \/ Reboot
  <2>1. state' = state /\ waking = Null
    BY <1>7 DEF JoinReturn, Reboot, Enabled
  <2>2. Preempts
    BY <2>1, SchedBasics, NothingToPreempt DEF Parts
  <2>3. QED
    BY <1>7, <2>1, <2>2, JoinReturnKeeps, RebootKeeps
<1>8. CASE TimeSlice
  BY <1>8, TimeSliceKeeps DEF TimeSlice, Enabled
<1>9. QED
  BY <1>1, <1>2, <1>3, <1>4, <1>5, <1>6, <1>7, <1>8 DEF Next, System

LEMMA InvIsParts == Inv <=> Parts
  BY InvParts DEF Parts

(* The inductive invariant holds: whatever a disciplined application       *)
(* calls, in whatever order, and whenever the time slicer interrupts it.   *)
THEOREM InvariantHolds ==
  ASSUME Allow = {}
  PROVE  Spec => []Inv
<1>1. Init => Inv
  BY InitInv
<1>2. Inv /\ [Next]_vars => Inv'
  <2> SUFFICES ASSUME Inv, [Next]_vars PROVE Inv'
    OBVIOUS
  <2>1. Parts
    BY InvIsParts
  <2>2. Parts'
    BY <2>1, StepKeeps, OnlySame
  <2>3. (Inv <=> Parts)'
    BY InvIsParts, PTL
  <2>4. QED
    BY <2>2, <2>3
<1>3. QED
  BY <1>1, <1>2, PTL DEF Spec

(* No operation leaves a field of a thread, the scheduler or a context     *)
(* outside its type, whatever queues and ranks there are: a null pointer   *)
(* in particular never becomes the chosen thread.                          *)
THEOREM TypeOKHolds ==
  ASSUME Allow = {}
  PROVE  Spec => []TypeOK
<1>1. Inv => TypeOK
  BY DEF Inv
<1>2. QED
  BY <1>1, InvariantHolds, PTL

(* The ready list is exactly the threads that may run, each linked once,   *)
(* so every insert() and remove() of thread.cc is matched to a state.      *)
THEOREM ReadyListedHolds ==
  ASSUME Allow = {}
  PROVE  Spec => []ReadyListed
<1>1. Inv => ReadyListed
  BY DEF Inv
<1>2. QED
  BY <1>1, InvariantHolds, PTL

(* What running() names is what the processor executes, and no context is  *)
(* saved over another thread's. *)
THEOREM RunningExecutesHolds ==
  ASSUME Allow = {}
  PROVE  Spec => []RunningExecutes
<1>1. Inv => RunningExecutes
  BY DEF Inv
<1>2. QED
  BY <1>1, InvariantHolds, PTL

(* _waiting leads ~Thread() to the queue the thread is in. *)
THEOREM WaitersQueuedHolds ==
  ASSUME Allow = {}
  PROVE  Spec => []WaitersQueued
<1>1. Inv => WaitersQueued
  BY DEF Inv
<1>2. QED
  BY <1>1, InvariantHolds, PTL

(* No joiner is forgotten, none is resumed that left its join(). *)
THEOREM JoinersKnownHolds ==
  ASSUME Allow = {}
  PROVE  Spec => []JoinersKnown
<1>1. Inv => JoinersKnown
  BY DEF Inv
<1>2. QED
  BY <1>1, InvariantHolds, PTL

(* Lists stay in the order of the ranks, though ranks change. *)
THEOREM ListsSortedHolds ==
  ASSUME Allow = {}
  PROVE  Spec => []ListsSorted
<1>1. Inv => ListsSorted
  BY DEF Inv
<1>2. QED
  BY <1>1, InvariantHolds, PTL

(* _thread_count drops to one only with the last application thread, so    *)
(* the reboot of idle() cuts none of them off. *)
THEOREM RebootsWhenDoneHolds ==
  ASSUME Allow = {}
  PROVE  Spec => []RebootsWhenDone
<1>1. Inv => RebootsWhenDone
  <2> SUFFICES ASSUME Inv, halted, NEW t \in Threads \ {Idle}
               PROVE  state[t] \in {"free", "finishing"}
    BY DEF RebootsWhenDone
  <2>1. Cardinality(Live) <= 1
    BY DEF Inv
  <2>2. Idle \in Live
    BY ThreadAssumption DEF Inv, Live, Schedulable
  <2>3. Cardinality(Live \ {Idle}) = 0 /\ IsFiniteSet(Live \ {Idle})
    <3>1. /\ Cardinality(Live \ {Idle}) = Cardinality(Live) - 1
          /\ IsFiniteSet(Live \ {Idle})
      BY <2>2, LiveFinite, FS_RemoveElement
    <3>2. Cardinality(Live \ {Idle}) \in Nat
      BY <3>1, FS_CardinalityType
    <3>3. QED
      BY <2>1, <3>1, <3>2, LiveFinite
  <2>4. Live \ {Idle} = {}
    BY <2>3, FS_EmptySet
  <2>5. QED
    BY <2>4 DEF Live
<1>2. QED
  BY <1>1, InvariantHolds, PTL

(* A preemptive criterion lets no better thread wait for the processor     *)
(* when one becomes ready or the running one blocks or exits. *)
THEOREM PreemptsForRankHolds ==
  ASSUME Allow = {}
  PROVE  Spec => PreemptsForRank
<1>1. Inv /\ [Next]_vars
      => [/\ criterion.preemptive
          /\ waking' = Null
          /\ \/ waking # Null
             \/ \E t \in Threads : Unblocks(t) \/ Vacates(t)
          => RunsBest']_vars
  <2> SUFFICES ASSUME Inv, Next, criterion.preemptive, waking' = Null,
                      waking # Null \/ \E t \in Threads : Unblocks(t) \/ Vacates(t)
               PROVE  RunsBest'
    OBVIOUS
  <2>1. Parts
    BY InvIsParts
  <2>2. CASE waking = Null
    BY <2>1, <2>2, StepKeeps DEF Preempts
  <2>3. CASE waking # Null
    BY <2>1, <2>3, StepKeeps
  <2>4. QED
    BY <2>2, <2>3
<1>2. QED
  BY <1>1, InvariantHolds, PTL DEF Spec, PreemptsForRank

(* join() returns only once the joined thread has exited. *)
THEOREM JoinReturnsAfterExitHolds ==
  ASSUME Allow = {}
  PROVE  Spec => JoinReturnsAfterExit
<1>1. Inv /\ [Next]_vars
      => [\A t \in Threads :
             joinee[t] # Null /\ joinee'[t] # joinee[t] => state[joinee[t]] = "finishing"]_vars
  <2> SUFFICES ASSUME Inv, Next, NEW t \in Threads, joinee[t] # Null, joinee'[t] # joinee[t]
               PROVE  state[joinee[t]] = "finishing"
    OBVIOUS
  <2>1. Parts /\ joinee \in [Threads -> Threads \cup {Null}]
    BY InvIsParts DEF Inv, TypeOK
  <2>2. joinee' # joinee
    OBVIOUS
  <2>3. CASE \E u \in Threads : Operation(u)
    <3>1. PICK u \in Threads : Operation(u)
      BY <2>3
    <3>2. ~Join(u)
      BY <2>1 DEF Join, BlockJoiner, Application, vars, joins
    <3>3. ~Delete(u)
      BY <2>1 DEF Delete
    <3>4. QED
      BY <2>2, <3>1, <3>2, <3>3
         DEF Operation, Create, Priority, Suspend, Pass, Resume, joins, vars
  <2>4. CASE JoinReturn
    <3>1. state[joinee[cpu]] = "finishing"
      BY <2>1, <2>4, JoinReturnKeeps
    <3>2. t = cpu
      BY <2>1, <2>4 DEF JoinReturn
    <3>3. QED
      BY <3>1, <3>2
  <2>5. CASE ~JoinReturn /\ ~\E u \in Threads : Operation(u)
    BY <2>2, <2>5
       DEF Next, Synchronization, Sleep, Wakeup, WakeupAll, Yield, YieldThread, Exit, System,
           WakeupAllTurn, WakeupAllEnd, TimeSlice, IdleYield, Reboot, joins
  <2>6. QED
    BY <2>3, <2>4, <2>5
<1>2. QED
  BY <1>1, InvariantHolds, PTL DEF Spec, JoinReturnsAfterExit

=============================================================================
