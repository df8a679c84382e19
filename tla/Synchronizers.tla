--------------------------- MODULE Synchronizers ---------------------------
(***************************************************************************)
(* Semaphore, Mutex and Condition (include/synchronizer.h, semaphore.h,    *)
(* mutex.h, condition.h) over the threads of Thread.                       *)
(*                                                                         *)
(* Each operation runs from begin_atomic() to the end of the sleep(), of   *)
(* the wakeup() or to the end_atomic() with interrupts disabled: it is one *)
(* action, a step of Thread or one that Thread does not see.  v(), signal()*)
(* and broadcast() are also called by interrupt handlers, in whatever flow *)
(* executes; p(), lock() and wait() only by threads.                       *)
(***************************************************************************)
EXTENDS Thread, FiniteSetsExt

CONSTANTS
    Semaphores, Mutexes, Conditions,
    Guards,      \* the semaphores every user of which calls p(), then v()
    Initial,     \* the value each semaphore is constructed with
    MaxValue     \* the bound of a semaphore's value in the model

ASSUME SynchronizerAssumption ==
    /\ Queues = Semaphores \cup Mutexes \cup Conditions
    /\ Semaphores \cap Mutexes = {}
    /\ Conditions \cap (Semaphores \cup Mutexes) = {}
    /\ Guards \subseteq Semaphores
    /\ Initial \in [Semaphores -> Nat]
    /\ MaxValue \in Nat

VARIABLES
    value,    \* Semaphore::_value
    locked,   \* Mutex::_locked
    alive,    \* the synchronizers that exist
    inside,   \* the threads a lock() or p() has let in, until unlock() or v()
    taken     \* the p() that have returned with a token, less the v()

sync     == <<value, locked, alive, inside, taken>>
syncvars == <<vars, sync>>

Locks == Mutexes \cup Guards

SyncTypeOK ==
    /\ value \in [Semaphores -> Int]
    /\ locked \in [Mutexes -> BOOLEAN]
    /\ alive \in SUBSET Queues
    /\ inside \in [Locks -> SUBSET Threads]
    /\ taken \in [Semaphores -> Int]

SyncInit ==
    /\ Init
    /\ value = Initial
    /\ locked = [m \in Mutexes |-> FALSE]
    /\ alive = Queues
    /\ inside = [l \in Locks |-> {}]
    /\ taken = [s \in Semaphores |-> 0]

(* The thread that a wakeup() of q makes ready: its lock() or p() returns  *)
(* without another look at the synchronizer.  A fault: the head of an      *)
(* empty queue is taken for a thread.                                      *)
WokenUnchecked(q) == {HeadOf(queue[q])}
Woken(q) == IF queue[q] = << >> THEN {} ELSE {Head(queue[q])}

(* The threads of S enter l; the executing one leaves it and they enter.   *)
TakeTokens(l, n) ==
    taken' = IF l \in Semaphores THEN [taken EXCEPT ![l] = @ + n] ELSE taken

Enter(l, S) ==
    /\ inside' = IF l \in Locks THEN [inside EXCEPT ![l] = @ \cup S] ELSE inside
    /\ TakeTokens(l, Cardinality(S))

Leave(l, S) ==
    /\ inside' = IF l \in Locks THEN [inside EXCEPT ![l] = (@ \ {cpu}) \cup S] ELSE inside
    /\ TakeTokens(l, Cardinality(S) - 1)

(* The users of a lock do not take it twice, and give back only what they  *)
(* took.                                                                   *)
MayEnter(l) == l \in Locks => cpu \notin inside[l]
MayLeave(l) == l \in Locks => Application /\ cpu \in inside[l]

-----------------------------------------------------------------------------
(* Semaphore                                                               *)

(* The values that CPU::fdec() finds when p() blocks.  A fault: what it    *)
(* returns is taken for the value after the decrement.                     *)
DryBelowZero(s) == value[s] < 0
Dry(s)          == value[s] < 1

P(s) ==
    /\ s \in alive
    /\ MayEnter(s)
    /\ value' = [value EXCEPT ![s] = @ - 1]
    /\ \/ Dry(s) /\ Sleep(s) /\ UNCHANGED <<inside, taken>>
       \/ ~Dry(s) /\ Application /\ Enter(s, {cpu}) /\ UNCHANGED vars
    /\ UNCHANGED <<locked, alive>>

(* The value that finc() must have found for v() to wake a thread.  A      *)
(* fault: it is compared after the increment.                              *)
SomeoneWaitsAfter(s) == value[s] + 1 < 0
SomeoneWaits(s)      == value[s] < 0

V(s) ==
    /\ s \in alive
    /\ value[s] < MaxValue
    /\ MayLeave(s)
    /\ value' = [value EXCEPT ![s] = @ + 1]
    /\ \/ SomeoneWaits(s) /\ Wakeup(s) /\ Leave(s, Woken(s))
       \/ ~SomeoneWaits(s) /\ Enabled /\ Leave(s, {}) /\ UNCHANGED vars
    /\ UNCHANGED <<locked, alive>>

-----------------------------------------------------------------------------
(* Mutex                                                                   *)

(* CPU::tsl() sets _locked and returns the value it found.                 *)
Lock(m) ==
    /\ m \in alive
    /\ MayEnter(m)
    /\ locked' = [locked EXCEPT ![m] = TRUE]
    /\ \/ locked[m] /\ Sleep(m) /\ UNCHANGED <<inside, taken>>
       \/ ~locked[m] /\ Application /\ Enter(m, {cpu}) /\ UNCHANGED vars
    /\ UNCHANGED <<value, alive>>

(* A fault: unlock() opens the mutex and wakes nobody.                     *)
UnlockSilently(m) ==
    /\ m \in alive
    /\ MayLeave(m)
    /\ locked' = [locked EXCEPT ![m] = FALSE]
    /\ Leave(m, {})
    /\ UNCHANGED <<vars, value, alive>>

Unlock(m) ==
    /\ m \in alive
    /\ MayLeave(m)
    /\ locked' = [locked EXCEPT ![m] = FALSE]
    /\ Wakeup(m)
    /\ Leave(m, Woken(m))
    /\ UNCHANGED <<value, alive>>

-----------------------------------------------------------------------------
(* Condition                                                               *)

Wait(c)      == c \in alive /\ Sleep(c) /\ UNCHANGED sync
Signal(c)    == c \in alive /\ Wakeup(c) /\ UNCHANGED sync
Broadcast(c) == c \in alive /\ WakeupAll(c) /\ UNCHANGED sync

-----------------------------------------------------------------------------
(* Construction and destruction                                            *)

(* ~Synchronizer_Common() wakes every thread: their p(), lock() or wait()  *)
(* returns, and they hold nothing.                                         *)
Destroy(q) ==
    /\ q \in alive
    /\ Application
    /\ WakeupAll(q)
    /\ alive' = alive \ {q}
    /\ inside' = IF q \in Locks THEN [inside EXCEPT ![q] = {}] ELSE inside
    /\ UNCHANGED <<value, locked, taken>>

Construct(q) ==
    /\ q \notin alive
    /\ Application
    /\ alive' = alive \cup {q}
    /\ value' = IF q \in Semaphores THEN [value EXCEPT ![q] = Initial[q]] ELSE value
    /\ locked' = IF q \in Mutexes THEN [locked EXCEPT ![q] = FALSE] ELSE locked
    /\ taken' = IF q \in Semaphores THEN [taken EXCEPT ![q] = 0] ELSE taken
    /\ UNCHANGED <<vars, inside>>

-----------------------------------------------------------------------------
(* The threads                                                             *)

(* A thread that ends or is destroyed holds nothing.  Nor does it wait for *)
(* a semaphore: ~Thread() takes it out of the queue and leaves _value as   *)
(* it is, so that a later v() would wake nobody.                           *)
EndsClean(t) ==
    /\ \A l \in Locks : t \notin inside[l]
    /\ state[t] = "waiting" => waiting[t] \notin Semaphores

ThreadStep ==
    /\ \/ \E t \in Threads : Operation(t)
       \/ Yield \/ Exit
       \/ System
    /\ \A t \in Threads :
          state'[t] \in {"free", "finishing"} /\ state'[t] # state[t] => EndsClean(t)
    /\ UNCHANGED sync

SyncNext ==
    \/ \E s \in Semaphores : P(s) \/ V(s)
    \/ \E m \in Mutexes : Lock(m) \/ Unlock(m)
    \/ \E c \in Conditions : Wait(c) \/ Signal(c) \/ Broadcast(c)
    \/ \E q \in Queues : Destroy(q) \/ Construct(q)
    \/ ThreadStep

SyncSpec == SyncInit /\ [][SyncNext]_syncvars

(* The timer interrupt stays pending while interrupts are disabled and is  *)
(* taken when they are enabled again, so the time slicer is not put off    *)
(* for ever by operations that disable them for a while; and the idle loop *)
(* goes on whenever a handler that borrowed it returns: strong fairness.   *)
(* The loop of wakeup_all() runs to its end without any further input.     *)
SyncFairSpec ==
    /\ SyncSpec
    /\ SF_syncvars(TimeSlice /\ UNCHANGED sync)
    /\ SF_syncvars(IdleYield /\ UNCHANGED sync)
    /\ SF_syncvars(Reboot /\ UNCHANGED sync)
    /\ WF_syncvars(waking # Null /\ ThreadStep)

-----------------------------------------------------------------------------
(* Properties                                                              *)

(* A negative value counts the waiting threads, so every v() that finds    *)
(* one finds a thread to wake; and no thread waits at a value of tokens.   *)
SemaphoreCounts ==
    \A s \in Semaphores \cap alive :
        Len(queue[s]) = IF value[s] < 0 THEN -value[s] ELSE 0

(* No more threads are inside a guard than it was constructed for, and no  *)
(* token is lost: those that are not free are inside.                      *)
GuardsExclude ==
    \A s \in Guards \cap alive :
        Cardinality(inside[s]) + (IF value[s] > 0 THEN value[s] ELSE 0) = Initial[s]

(* A thread waits for a mutex only while another is inside, whose unlock() *)
(* wakes it: nobody is forgotten at an open mutex.                         *)
MutexWaitersHaveHolder ==
    \A m \in Mutexes \cap alive : queue[m] # << >> => inside[m] # {}

(* At most one thread is between lock() and unlock() of a mutex.           *)
MutualExclusion == \A m \in Mutexes : Cardinality(inside[m]) <= 1

(* Waiting threads are served by rank and, within a rank, in the order     *)
(* they came: nobody enters a queue before one of no worse rank, and       *)
(* nobody is woken before those ahead of it.                               *)
Before(q, t, u) == \E i, j \in 1..Len(queue[q]) : i < j /\ queue[q][i] = t /\ queue[q][j] = u

FirstComeFirstServed ==
    [][ \A q \in Queues : \A t, u \in ToSet(queue[q]) \cup ToSet(queue'[q]) :
          /\ Before(q, t, u) /\ t \in ToSet(queue'[q]) => Before(q, t, u)'
                \/ state'[u] = "free"
          /\ t \in ToSet(queue[q]) /\ u \notin ToSet(queue[q]) /\ rank[t] <= rank[u]
                /\ t \in ToSet(queue'[q]) /\ u \in ToSet(queue'[q]) => Before(q, t, u)' ]_syncvars

(* If nobody stays inside a guard for ever, nobody waits at it for ever:   *)
(* v() hands the token to the head of the queue, and no later p() takes it *)
(* from there.                                                             *)
GuardsServe ==
    \A s \in Guards :
        (\A t \in Threads : []<>(t \notin inside[s]))
        => \A t \in Threads : []<>(t \notin ToSet(queue[s]))

=============================================================================
