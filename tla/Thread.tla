------------------------------- MODULE Thread -------------------------------
(***************************************************************************)
(* EPOS threads: src/abstraction/thread.cc and include/thread.h, over the  *)
(* scheduler of include/scheduler.h, on one processor.                     *)
(*                                                                         *)
(* Every operation runs with interrupts disabled from its lock() to the    *)
(* dispatch() or unlock() that ends it, so each is one action.  The loop   *)
(* of wakeup_all() is a step per thread, and no other action is enabled    *)
(* until it ends.                                                          *)
(*                                                                         *)
(* The code calls the thread that the scheduler has chosen running().  The *)
(* processor knows nothing of it: it executes whatever flow of control the *)
(* last switch_context() loaded.  cpu is that flow, named by the thread it *)
(* was created for, and context[t] the flow saved in t's _context.         *)
(***************************************************************************)
EXTENDS SchedulingList

CONSTANTS
    Threads,      \* the memory for Thread objects
    Main, Idle,   \* the two threads Thread::init() creates
    Queues,       \* the wait queues, one for each synchronizer
    Ranks,        \* the ranks an application gives its threads
    IdleRank,     \* Criterion::IDLE
    Criteria,     \* the scheduling criteria the kernel may be built with
    Allow         \* the calls below that the code accepts and does not check

(* The calls a disciplined application avoids.  The proofs and the runs of *)
(* the invariants exclude them; each run that shows what goes wrong allows *)
(* one of them.                                                            *)
Undisciplined ==
    {"priority_running",   \* priority() on the running thread
     "priority_blocked",   \* priority() on a thread that is not ready
     "suspend_blocked",    \* suspend() on a waiting or finished thread
     "resume_joiner",      \* resume() on a thread blocked in join()
     "second_join",        \* join() on a thread that another one is joining
     "delete_joined"}      \* destroying either side of a pending join()

ASSUME ThreadAssumption ==
    /\ IsFiniteSet(Threads)
    /\ Main \in Threads /\ Idle \in Threads /\ Main # Idle
    /\ Null \notin Threads /\ Null \notin Queues
    /\ Ranks \subseteq Nat /\ 0 \in Ranks
    /\ IdleRank \in Nat /\ \A r \in Ranks : r < IdleRank
    /\ Criteria \subseteq [preemptive : BOOLEAN, timed : BOOLEAN]
    /\ Allow \subseteq Undisciplined

(* Constant in every behaviour: Traits<Thread>::Criterion, whose member    *)
(* preemptive tells whether reschedule() chooses, and whose member timed   *)
(* whether a Scheduler_Timer calls time_slicer().                          *)
VARIABLE criterion

VARIABLES
    state,         \* Thread::_state, "free" where no object is constructed
    rank,          \* the rank in Thread::_link
    scheduler,     \* Thread::_scheduler: the ready list and its chosen thread
    queue,         \* the wait queue of each synchronizer
    waiting,       \* Thread::_waiting
    joining,       \* Thread::_joining
    thread_count,  \* Thread::_thread_count
    context,       \* the flow saved in each _context, Null when it is stale
    cpu,           \* the flow the processor executes
    joinee,        \* the thread whose join() a flow has called and not left
    waking,        \* the queue wakeup_all() is emptying
    halted         \* the machine has rebooted

waits == <<queue, waiting>>
joins == <<joining, joinee>>
mode  == <<waking, halted, criterion>>
vars  == <<state, rank, scheduler, context, cpu, thread_count, waits, joins, mode>>

States == {"beginning", "ready", "running", "suspended", "waiting", "finishing"}

(* Thread::running() *)
Running == scheduler.chosen

TypeOK ==
    /\ state \in [Threads -> States \cup {"free"}]
    /\ rank \in [Threads -> Ranks \cup {IdleRank}]
    /\ scheduler \in [list : Seq(Threads), chosen : Threads]
    /\ queue \in [Queues -> Seq(Threads)]
    /\ waiting \in [Threads -> Queues \cup {Null}]
    /\ joining \in [Threads -> Threads \cup {Null}]
    /\ thread_count \in Nat
    /\ context \in [Threads -> Threads \cup {Null}]
    /\ cpu \in Threads \cup {Null}
    /\ joinee \in [Threads -> Threads \cup {Null}]
    /\ waking \in Queues \cup {Null}
    /\ halted \in BOOLEAN
    /\ criterion \in Criteria

-----------------------------------------------------------------------------
(* Who executes                                                            *)

(* Interrupts are enabled: an operation may begin, called by the executing *)
(* flow or by an interrupt handler that borrows it.                        *)
Enabled == ~halted /\ waking = Null /\ cpu # Null

(* The executing flow is an application thread, in no unfinished join().   *)
Application == Enabled /\ cpu # Idle /\ joinee[cpu] = Null

(* t has called join() and the thread it joined has not finished.          *)
Joining(t) == joinee[t] # Null /\ state[joinee[t]] # "finishing"

-----------------------------------------------------------------------------
(* dispatch() and reschedule()                                             *)

(* Thread::dispatch(prev, next), on thread states st: switch_context()     *)
(* saves the executing flow in the context of prev and loads next's.       *)
Dispatch(prev, next, st, ctx) ==
    IF prev = next
    THEN state' = st /\ context' = ctx /\ UNCHANGED cpu
    ELSE /\ state' = [st EXCEPT ![prev] = IF @ = "running" THEN "ready" ELSE @,
                                ![next] = "running"]
         /\ context' = [ctx EXCEPT ![prev] = cpu, ![next] = Null]
         /\ cpu' = ctx[next]

(* Thread::reschedule(preempt), on scheduler s.                            *)
RescheduleIf(preempt, s, rk, st, ctx) ==
    LET chosen == IF preempt THEN SchedChoose(s, rk) ELSE s
    IN  /\ scheduler' = chosen
        /\ Dispatch(s.chosen, chosen.chosen, st, ctx)

(* A fault: the meaning of preempt inverted.                               *)
RescheduleInverted(s, st) == RescheduleIf(~criterion.preemptive, s, rank, st, context)

Reschedule(s, st) == RescheduleIf(criterion.preemptive, s, rank, st, context)

-----------------------------------------------------------------------------
(* Construction and destruction                                            *)

Init ==
    /\ state = [t \in Threads |->
                   CASE t = Main -> "running" [] t = Idle -> "ready" [] OTHER -> "free"]
    /\ rank = [t \in Threads |-> IF t = Idle THEN IdleRank ELSE 0]
    /\ scheduler = [list |-> <<Main, Idle>>, chosen |-> Main]
    /\ queue = [q \in Queues |-> << >>]
    /\ waiting = [t \in Threads |-> Null]
    /\ joining = [t \in Threads |-> Null]
    /\ thread_count = 2
    /\ context = [t \in Threads |-> IF t = Main THEN Null ELSE t]
    /\ cpu = Main
    /\ joinee = [t \in Threads |-> Null]
    /\ waking = Null
    /\ halted = FALSE
    /\ criterion \in Criteria

(* Thread::Thread() and common_constructor().                              *)
Create(t, r, st) ==
    LET rk == [rank EXCEPT ![t] = r]
        s  == SchedInsert(scheduler, rk, t)
    IN  /\ Application
        /\ state[t] = "free"
        /\ rank' = rk
        /\ waiting' = [waiting EXCEPT ![t] = Null]
        /\ joining' = [joining EXCEPT ![t] = Null]
        /\ thread_count' = thread_count + 1
        /\ RescheduleIf(criterion.preemptive,
                        IF st = "ready" THEN s ELSE SchedRemove(s, t),
                        rk,
                        [state EXCEPT ![t] = st],
                        [context EXCEPT ![t] = t])
        /\ UNCHANGED <<queue, joinee, mode>>

(* What ~Thread() does for a thread in each state: threads out of the ready *)
(* list are put back into it, for one removal to serve them all ...        *)
Unlinked(t) ==
    SchedRemove(IF state[t] \in {"beginning", "suspended", "waiting"}
                THEN SchedInsert(scheduler, rank, t)
                ELSE scheduler, t)

(* ... a waiting thread leaves its queue ...                               *)
LeftQueued(t) == queue   \* a fault: it stays there

Unqueued(t) ==
    IF state[t] = "waiting" THEN [queue EXCEPT ![waiting[t]] = ListRemove(@, t)] ELSE queue

(* ... and a finished thread has been discounted by exit() already.        *)
DiscountedTwice(t) == thread_count - 1   \* a fault: it has not

Discounted(t) == IF state[t] = "finishing" THEN thread_count ELSE thread_count - 1

(* Thread::~Thread().  A thread that destroys itself never returns from    *)
(* the exit(-1) in there: that is Exit.                                    *)
Delete(t) ==
    /\ Application
    /\ t # Idle
    /\ state[t] \notin {"free", "running"}
    /\ \/ joinee[t] = Null /\ \A u \in Threads : joinee[u] # t
       \/ "delete_joined" \in Allow
    /\ queue' = Unqueued(t)
    /\ scheduler' = Unlinked(t)
    /\ thread_count' = Discounted(t)
    /\ state' = [state EXCEPT ![t] = "free"]
    /\ joinee' = [joinee EXCEPT ![t] = Null]
    /\ UNCHANGED <<rank, context, cpu, waiting, joining, mode>>

-----------------------------------------------------------------------------
(* Methods                                                                 *)

(* priority() takes t out of the ready list and inserts it with its new    *)
(* rank.                                                                   *)
RerankedInPlace(t, rk) == scheduler   \* a fault: it stays where it is

Reranked(t, rk) == SchedInsert(SchedRemove(scheduler, t), rk, t)

(* Thread::priority(p)                                                     *)
Priority(t, p) ==
    LET rk == [rank EXCEPT ![t] = p]
    IN  /\ Application
        /\ t # Idle
        /\ \/ state[t] = "ready"
           \/ state[t] = "running" /\ "priority_running" \in Allow
           \/ state[t] \notin {"free", "ready", "running"} /\ "priority_blocked" \in Allow
        /\ rank' = rk
        /\ RescheduleIf(criterion.preemptive, Reranked(t, rk), rk, state, context)
        /\ UNCHANGED <<thread_count, waits, joins, mode>>

(* Thread::suspend(), with t removed from the ready list.                  *)
(* A fault: prev is read after the removal, which may have changed it.     *)
SuspendThreadLate(t) ==
    LET s == SchedRemove(scheduler, t)
    IN  /\ scheduler' = s
        /\ Dispatch(s.chosen, s.chosen, [state EXCEPT ![t] = "suspended"], context)

SuspendThread(t) ==
    LET s == SchedRemove(scheduler, t)
    IN  /\ scheduler' = s
        /\ Dispatch(Running, s.chosen, [state EXCEPT ![t] = "suspended"], context)

Suspend(t) ==
    /\ Application
    /\ t # Idle
    /\ \/ state[t] \notin {"free", "waiting", "finishing"}
       \/ state[t] # "free" /\ "suspend_blocked" \in Allow
    /\ SuspendThread(t)
    /\ UNCHANGED <<rank, thread_count, waits, joins, mode>>

(* join() on a thread that has not exited suspends the caller.             *)
(* A fault: _joining is set after the suspension, to another running().    *)
BlockJoinerLate(t) ==
    /\ SuspendThread(Running)
    /\ joining' = [joining EXCEPT ![t] = scheduler'.chosen]
    /\ joinee' = [joinee EXCEPT ![cpu] = t]
    /\ UNCHANGED <<rank, thread_count, waits, mode>>

BlockJoiner(t) ==
    /\ joining' = [joining EXCEPT ![t] = Running]
    /\ joinee' = [joinee EXCEPT ![cpu] = t]
    /\ SuspendThread(Running)
    /\ UNCHANGED <<rank, thread_count, waits, mode>>

(* Thread::join()                                                          *)
Join(t) ==
    /\ Application
    /\ t \notin {cpu, Idle}
    /\ state[t] # "free"
    /\ \/ joining[t] = Null
       \/ "second_join" \in Allow
    /\ \/ state[t] # "finishing" /\ BlockJoiner(t)
       \/ state[t] = "finishing" /\ UNCHANGED vars

(* The joiner executes again: it reads the exit status of the thread it    *)
(* joined and leaves join().                                               *)
JoinReturn ==
    /\ Enabled
    /\ joinee[cpu] # Null
    /\ joinee' = [joinee EXCEPT ![cpu] = Null]
    /\ UNCHANGED <<state, rank, scheduler, context, cpu, thread_count, waits, joining, mode>>

(* Thread::pass(): t gets the processor, if it is ready.                   *)
(* A fault: choose(t) does not look for t in the list.                     *)
PassUnchecked(t) ==
    LET s == SchedChooseObject(scheduler, rank, t)
    IN  /\ Application
        /\ t # Idle
        /\ state[t] # "free"
        /\ scheduler' = s
        /\ Dispatch(Running, s.chosen, state, context)
        /\ UNCHANGED <<rank, thread_count, waits, joins, mode>>

Pass(t) ==
    LET s == SchedChooseObject(scheduler, rank, t)
    IN  /\ Application
        /\ t # Idle
        /\ state[t] # "free"
        /\ \/ /\ t \in ToSet(scheduler.list)
              /\ scheduler' = s
              /\ Dispatch(Running, s.chosen, state, context)
              /\ UNCHANGED <<rank, thread_count, waits, joins, mode>>
           \/ /\ t \notin ToSet(scheduler.list)
              /\ UNCHANGED vars

(* Thread::resume(), by a thread or by a Thread_Handler.                   *)
(* A fault: the state of t is not looked at.                               *)
ResumeUnchecked(t) ==
    /\ Enabled
    /\ t # Idle
    /\ state[t] # "free"
    /\ ~Joining(t) \/ "resume_joiner" \in Allow
    /\ Reschedule(SchedInsert(scheduler, rank, t), [state EXCEPT ![t] = "ready"])
    /\ UNCHANGED <<rank, thread_count, waits, joins, mode>>

Resume(t) ==
    /\ Enabled
    /\ t # Idle
    /\ state[t] # "free"
    /\ ~Joining(t) \/ "resume_joiner" \in Allow
    /\ IF state[t] = "suspended"
       THEN Reschedule(SchedInsert(scheduler, rank, t), [state EXCEPT ![t] = "ready"])
       ELSE Reschedule(scheduler, state)
    /\ UNCHANGED <<rank, thread_count, waits, joins, mode>>

(* Thread::yield()                                                         *)
YieldThread ==
    LET s == SchedChooseAnother(scheduler, rank)
    IN  /\ scheduler' = s
        /\ Dispatch(Running, s.chosen, state, context)
        /\ UNCHANGED <<rank, thread_count, waits, joins, mode>>

Yield == Application /\ YieldThread

(* Thread::exit(): the thread that joined the exiting one is ready again.  *)
Exit ==
    LET thr == Running
        j   == joining[thr]
        s1  == SchedRemove(scheduler, thr)
        s2  == IF j = Null THEN s1 ELSE SchedInsert(s1, rank, j)
        s3  == SchedChoose(s2, rank)
        st1 == [state EXCEPT ![thr] = "finishing"]
    IN  /\ Application
        /\ thread_count' = thread_count - 1
        /\ joining' = [joining EXCEPT ![thr] = Null]
        /\ scheduler' = s3
        /\ Dispatch(thr, s3.chosen,
                    IF j = Null THEN st1 ELSE [st1 EXCEPT ![j] = "ready"], context)
        /\ UNCHANGED <<rank, waits, joinee, mode>>

-----------------------------------------------------------------------------
(* Sleeping and waking, for the synchronizers                              *)

(* Thread::sleep(q)                                                        *)
Sleep(q) ==
    LET thr == Running
        s   == SchedRemove(scheduler, thr)
    IN  /\ Application
        /\ scheduler' = s
        /\ queue' = [queue EXCEPT ![q] = OrderedInsert(@, rank, thr)]
        /\ waiting' = [waiting EXCEPT ![thr] = q]
        /\ Dispatch(thr, s.chosen, [state EXCEPT ![thr] = "waiting"], context)
        /\ UNCHANGED <<rank, thread_count, joins, mode>>

(* The head of q leaves it and is ready again.                             *)
Awaken(q) ==
    LET t == Head(queue[q])
    IN  /\ queue' = [queue EXCEPT ![q] = Tail(@)]
        /\ waiting' = [waiting EXCEPT ![t] = Null]

(* Thread::wakeup(q), by a thread or by the handler of an alarm.           *)
Wakeup(q) ==
    LET t == Head(queue[q])
    IN  /\ Enabled
        /\ \/ /\ queue[q] # << >>
              /\ Awaken(q)
              /\ Reschedule(SchedInsert(scheduler, rank, t), [state EXCEPT ![t] = "ready"])
           \/ /\ queue[q] = << >>
              /\ Reschedule(scheduler, state)
              /\ UNCHANGED <<waits>>
        /\ UNCHANGED <<rank, thread_count, joins, mode>>

(* Thread::wakeup_all(q): its loop begins ...                              *)
WakeupAll(q) ==
    /\ Enabled
    /\ waking' = q
    /\ UNCHANGED <<state, rank, scheduler, context, cpu, thread_count, waits, joins, halted, criterion>>

(* ... wakes a thread in each turn ...                                     *)
WakeupAllTurn ==
    LET t == Head(queue[waking])
    IN  /\ waking # Null
        /\ queue[waking] # << >>
        /\ Awaken(waking)
        /\ scheduler' = SchedInsert(scheduler, rank, t)
        /\ state' = [state EXCEPT ![t] = "ready"]
        /\ UNCHANGED <<rank, context, cpu, thread_count, joins, mode>>

(* ... and ends with the queue empty.                                      *)
WakeupAllEnd ==
    /\ waking # Null
    /\ queue[waking] = << >>
    /\ waking' = Null
    /\ Reschedule(scheduler, state)
    /\ UNCHANGED <<rank, thread_count, waits, joins, halted, criterion>>

-----------------------------------------------------------------------------
(* The timer and the idle thread                                           *)

(* Thread::time_slicer(), called by the Scheduler_Timer.                   *)
TimeSlice ==
    /\ criterion.timed
    /\ Enabled
    /\ RescheduleIf(TRUE, scheduler, rank, state, context)
    /\ UNCHANGED <<rank, thread_count, waits, joins, mode>>

(* What idle() looks at, and two ways to be off by one.                    *)
LastThreadsTwo  == thread_count <= 2
LastThreadsZero == thread_count <= 0
LastThread      == thread_count <= 1

ContendedByTwo == Len(scheduler.list) > 2
Contended      == Len(scheduler.list) > 1

(* Thread::idle(): an interrupt has ended the halt().                      *)
IdleYield ==
    /\ Enabled
    /\ cpu = Idle
    /\ ~LastThread
    /\ Contended
    /\ YieldThread

(* Thread::idle(): the last thread has exited.                             *)
Reboot ==
    /\ Enabled
    /\ cpu = Idle
    /\ LastThread
    /\ halted' = TRUE
    /\ UNCHANGED <<state, rank, scheduler, context, cpu, thread_count, waits, joins, waking, criterion>>

-----------------------------------------------------------------------------

Operation(t) ==
    \/ \E r \in Ranks, st \in {"beginning", "ready", "suspended"} : Create(t, r, st)
    \/ Delete(t)
    \/ \E p \in Ranks : Priority(t, p)
    \/ Suspend(t)
    \/ Join(t)
    \/ Pass(t)
    \/ Resume(t)

Synchronization(q) == Sleep(q) \/ Wakeup(q) \/ WakeupAll(q)

System == WakeupAllTurn \/ WakeupAllEnd \/ JoinReturn \/ TimeSlice \/ IdleYield \/ Reboot

Next ==
    \/ \E t \in Threads : Operation(t)
    \/ \E q \in Queues : Synchronization(q)
    \/ Yield \/ Exit
    \/ System

Spec == Init /\ [][Next]_vars

-----------------------------------------------------------------------------
(* Properties                                                              *)

Schedulable(t) == state[t] \in {"ready", "running"}

(* The ready list holds the ready threads and the running one, each once:  *)
(* no operation leaves a thread that may run out of the list, a thread     *)
(* that may not run in it, or a list element linked twice.                 *)
ReadyListed ==
    /\ IsInjective(scheduler.list)
    /\ ToSet(scheduler.list) = {t \in Threads : Schedulable(t)}

(* running() is the flow the processor executes, it is the only thread in  *)
(* state RUNNING, and every other thread's context holds its own flow: no  *)
(* switch_context() saved a flow in the context of another thread.         *)
RunningExecutes ==
    /\ cpu = Running
    /\ \A t \in Threads : state[t] = "running" <=> t = Running
    /\ \A t \in Threads : context[t] = IF t = Running THEN Null ELSE t

(* A waiting thread is in the queue its _waiting names, once, and in no    *)
(* other; nothing else is in a queue.  ~Thread() relies on it to take the  *)
(* thread out.                                                             *)
WaitersQueued ==
    /\ \A t \in Threads : state[t] = "waiting" => waiting[t] \in Queues
    /\ \A q \in Queues :
          /\ IsInjective(queue[q])
          /\ ToSet(queue[q]) = {t \in Threads : state[t] = "waiting" /\ waiting[t] = q}

(* A thread blocked in join() is the _joining of the thread it waits for,  *)
(* so the exit of that thread finds it: no joiner is forgotten.  And a     *)
(* _joining is a thread that is still in that join(): exit() makes ready   *)
(* no thread that left it.                                                 *)
JoinersKnown ==
    /\ \A t \in Threads :
          Joining(t) => joining[joinee[t]] = t /\ state[t] = "suspended"
    /\ \A u \in Threads :
          joining[u] # Null => joinee[joining[u]] = u /\ Joining(joining[u])

(* The idle thread reboots the machine only when every other thread has    *)
(* finished or has been destroyed: _thread_count misses no thread.         *)
RebootsWhenDone ==
    halted => \A t \in Threads \ {Idle} : state[t] \in {"free", "finishing"}

(* The ready list and the wait queues are in ascending order of the        *)
(* current ranks, whatever has been inserted, removed and re-ranked.       *)
ListsSorted ==
    /\ Sorted(scheduler.list, rank)
    /\ \A q \in Queues : Sorted(queue[q], rank)

(* The inductive invariant behind these.  Besides them it says that the    *)
(* idle thread may always run, which is why the ready list is never empty, *)
(* what the chosen pointer and _thread_count are, and that no join() is    *)
(* pending on or by an object that does not exist.                         *)
Live == {t \in Threads : state[t] \notin {"free", "finishing"}}

JoinsExist ==
    \A t \in Threads :
        /\ state[t] = "free" => joinee[t] = Null
        /\ joinee[t] # Null => state[joinee[t]] # "free"

Inv ==
    /\ TypeOK
    /\ ReadyListed
    /\ RunningExecutes
    /\ WaitersQueued
    /\ ListsSorted
    /\ Schedulable(Idle)
    /\ Running \in ToSet(scheduler.list)
    /\ thread_count = Cardinality(Live)
    /\ JoinersKnown
    /\ JoinsExist
    /\ halted => thread_count <= 1
    /\ waking # Null => ~halted

(* The chosen thread has the best rank of the ready list.                  *)
RunsBest == \A t \in ToSet(scheduler.list) : rank[Running] <= rank[t]

Unblocks(t) == ~Schedulable(t) /\ Schedulable(t)'
Vacates(t)  == t = Running /\ ~Schedulable(t)'

(* When a thread becomes ready, or the running one blocks or exits, the    *)
(* thread that runs after it is one of the best rank: a preemptive         *)
(* criterion leaves no better thread waiting for the processor.            *)
PreemptsForRank ==
    [][ /\ criterion.preemptive
        /\ waking' = Null
        /\ \/ waking # Null
           \/ \E t \in Threads : Unblocks(t) \/ Vacates(t)
        => RunsBest' ]_vars

(* join() returns only after the joined thread has exited, and while its   *)
(* stack, where the exit status is read, still exists.                     *)
JoinReturnsAfterExit ==
    [][ \A t \in Threads :
          joinee[t] # Null /\ joinee'[t] # joinee[t] => state[joinee[t]] = "finishing" ]_vars

(* Under a timed criterion and with a single rank, no ready thread is      *)
(* starved of the processor, whatever the others do.                       *)
ReadyThreadsRun ==
    \A t \in Threads \ {Idle} :
        criterion.timed /\ state[t] = "ready" ~> state[t] # "ready"

(* The idle thread does not keep the processor from a ready thread, even   *)
(* when the criterion is not preemptive and resume() only queues it.       *)
IdleGivesWay == cpu = Idle /\ Len(scheduler.list) > 1 ~> cpu # Idle

(* Once every application thread has finished, the machine reboots.        *)
LastExitReboots ==
    (\A t \in Threads \ {Idle} : state[t] \in {"free", "finishing"}) ~> halted

=============================================================================
