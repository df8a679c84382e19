------------------------------- MODULE Alarm -------------------------------
(***************************************************************************)
(* Alarms: include/alarm.h and src/abstraction/alarm.cc, over the relative *)
(* queue of include/utility/queue.h and list.h.                            *)
(*                                                                         *)
(* _requests orders the waiting alarms by the time that is left to them;   *)
(* the rank of an alarm is the number of ticks it waits after the one      *)
(* before it.  handler(), called by the timer, serves one alarm at a tick. *)
(* It takes the alarm out, or puts it back for its next period, with       *)
(* interrupts disabled, and calls the alarm's handler with interrupts      *)
(* enabled: the call is an action of its own, and further ticks, other     *)
(* threads and other calls come before it.                                 *)
(***************************************************************************)
EXTENDS SchedulingList

CONSTANTS
    Alarms,     \* the memory for Alarm objects
    Periods,    \* what ticks() makes of the times asked for
    Times,      \* the numbers of times asked for, INFINITE besides
    MaxCalls,   \* the bound of the calls of one alarm that are under way
    MaxAge      \* where the count of an alarm's age stops

INFINITE == -1

ASSUME AlarmAssumption ==
    /\ Periods \subseteq Nat /\ Periods # {}
    /\ Times \subseteq Nat \ {0}
    /\ MaxCalls \in Nat \ {0}
    /\ MaxAge \in Nat /\ \A k \in Periods : k <= MaxAge

VARIABLES
    requests,   \* Alarm::_requests
    rank,       \* the rank in each alarm's _link
    ticks,      \* Alarm::_ticks
    times,      \* Alarm::_times
    alive,      \* the alarms that exist
    calling,    \* the calls of each alarm's handler that are still to be made
    asked,      \* the constructor's parameter times
    called,     \* the calls made so far, of an alarm with a finite number
    age         \* the ticks since the alarm was last inserted

queue  == <<requests, rank>>
object == <<ticks, times, alive, asked>>
vars   == <<queue, object, calling, called, age>>

TypeOK ==
    /\ requests \in Seq(Alarms)
    /\ rank \in [Alarms -> Int]
    /\ ticks \in [Alarms -> Periods]
    /\ times \in [Alarms -> Int]
    /\ alive \in SUBSET Alarms
    /\ calling \in [Alarms -> 0..MaxCalls]
    /\ asked \in [Alarms -> Times \cup {INFINITE}]
    /\ called \in [Alarms -> Nat]
    /\ age \in [Alarms -> 0..MaxAge]
    /\ \A a \in ToSet(requests) : rank[a] >= 0

-----------------------------------------------------------------------------
(* Relative_Queue                                                          *)

(* The ticks until the i-th alarm of l is due: its rank added to those of  *)
(* the alarms before it.                                                   *)
Until(l, rk, i) ==
    LET upto[j \in 0..Len(l)] == IF j = 0 THEN 0 ELSE upto[j - 1] + rk[l[j]]
    IN  upto[i]

(* The number of alarms that insert() walks past.                          *)
Walked(l, rk, k) ==
    Cardinality({i \in 1..Len(l) : \A j \in 1..i : Until(l, rk, j) <= k})

(* Ordered_List::insert(e), relative, of a with rank k: the ranks walked   *)
(* past are taken off k, what remains is taken off the next rank.          *)
(* A fault: the next rank stays as it is.                                  *)
EnqueueKeepingNext(l, rk, a, k) ==
    LET n == Walked(l, rk, k)
    IN  /\ requests' = InsertAt(l, n + 1, a)
        /\ rank' = [rk EXCEPT ![a] = k - Until(l, rk, n)]

Enqueue(l, rk, a, k) ==
    LET n    == Walked(l, rk, k)
        mine == k - Until(l, rk, n)
    IN  /\ requests' = InsertAt(l, n + 1, a)
        /\ rank' = [b \in Alarms |-> CASE b = a -> mine
                                       [] n < Len(l) /\ b = l[n + 1] -> rk[b] - mine
                                       [] OTHER -> rk[b]]

(* Ordered_List::remove(obj), relative: the rank of a is added to the next *)
(* one's.  Two faults: it is not, or it is subtracted.                     *)
DequeueKeepingNext(a) ==
    /\ requests' = ListRemove(requests, a)
    /\ UNCHANGED rank

DequeueSubtracting(a) ==
    /\ requests' = ListRemove(requests, a)
    /\ rank' = [b \in Alarms |->
                  IF \E i \in 2..Len(requests) : requests[i] = b /\ requests[i - 1] = a
                  THEN rank[b] - rank[a]
                  ELSE rank[b]]

Dequeue(a) ==
    /\ requests' = ListRemove(requests, a)
    /\ rank' = [b \in Alarms |->
                  IF \E i \in 2..Len(requests) : requests[i] = b /\ requests[i - 1] = a
                  THEN rank[b] + rank[a]
                  ELSE IF b = a THEN 0 ELSE rank[b]]

-----------------------------------------------------------------------------

Unset == CHOOSE k \in Periods : TRUE

Init ==
    /\ requests = << >>
    /\ rank = [a \in Alarms |-> 0]
    /\ ticks = [a \in Alarms |-> Unset]
    /\ times = [a \in Alarms |-> INFINITE]
    /\ alive = {}
    /\ calling = [a \in Alarms |-> 0]
    /\ asked = [a \in Alarms |-> INFINITE]
    /\ called = [a \in Alarms |-> 0]
    /\ age = [a \in Alarms |-> 0]

(* Alarm::Alarm(): a time below half a tick calls the handler at once.     *)
Create(a, k, n) ==
    /\ a \notin alive
    /\ alive' = alive \cup {a}
    /\ ticks' = [ticks EXCEPT ![a] = k]
    /\ times' = [times EXCEPT ![a] = n]
    /\ asked' = [asked EXCEPT ![a] = n]
    /\ called' = [called EXCEPT ![a] = 0]
    /\ age' = [age EXCEPT ![a] = 0]
    /\ \/ k > 0 /\ Enqueue(requests, rank, a, k) /\ UNCHANGED calling
       \/ k = 0 /\ calling' = [calling EXCEPT ![a] = 1] /\ UNCHANGED queue

(* Alarm::~Alarm().  handler() still uses an alarm it is about to call, so *)
(* its owner must not destroy it yet.  The fields of an alarm that does    *)
(* not exist have no meaning, here their initial values.                   *)
Delete(a) ==
    /\ a \in alive
    /\ calling[a] = 0
    /\ alive' = alive \ {a}
    /\ Dequeue(a)
    /\ ticks' = [ticks EXCEPT ![a] = Unset]
    /\ times' = [times EXCEPT ![a] = INFINITE]
    /\ asked' = [asked EXCEPT ![a] = INFINITE]
    /\ called' = [called EXCEPT ![a] = 0]
    /\ age' = [age EXCEPT ![a] = 0]
    /\ UNCHANGED calling

(* _times after a call, and a fault: it is not counted.                    *)
Uncounted(a)   == times[a]
CountedDown(a) == IF times[a] = INFINITE THEN INFINITE ELSE times[a] - 1

(* promote() <= 0, and a fault: the head is served a tick too early.       *)
DueEarly(rk) == rk[Head(requests)] <= 1
Due(rk)      == rk[Head(requests)] <= 0

(* handler() serves the head of the queue, whose rank is now in rk.        *)
Serve(rk) ==
    LET a == Head(requests)
    IN  /\ times' = [times EXCEPT ![a] = CountedDown(a)]
        /\ calling' = [calling EXCEPT ![a] = @ + 1]
        /\ \/ times'[a] # 0 /\ Enqueue(Tail(requests), rk, a, ticks[a])
           \/ times'[a] = 0 /\ requests' = Tail(requests) /\ rank' = rk

Older(n) == IF n < MaxAge THEN n + 1 ELSE n

(* Alarm::handler(), up to int_enable().                                   *)
Tick ==
    LET a  == Head(requests)
        rk == [rank EXCEPT ![a] = @ - 1]
    IN  /\ requests # << >>
        /\ calling[a] < MaxCalls
        /\ \/ Due(rk) /\ Serve(rk)
           \/ ~Due(rk) /\ rank' = rk /\ UNCHANGED <<requests, times, calling>>
        /\ age' = [b \in Alarms |->
                     IF b \in ToSet(requests) /\ ~(b = a /\ Due(rk)) THEN Older(age[b]) ELSE 0]
        /\ UNCHANGED <<ticks, alive, asked, called>>

(* (alarm->_handler)(), by the flow that the tick interrupted.             *)
Call(a) ==
    /\ calling[a] > 0
    /\ calling' = [calling EXCEPT ![a] = @ - 1]
    /\ called' = IF asked[a] = INFINITE THEN called ELSE [called EXCEPT ![a] = @ + 1]
    /\ UNCHANGED <<queue, object, age>>

Next ==
    \/ \E a \in Alarms :
          \/ \E k \in Periods, n \in Times \cup {INFINITE} : Create(a, k, n)
          \/ Delete(a)
          \/ Call(a)
    \/ Tick

Spec == Init /\ [][Next]_vars

(* The timer goes on ticking, and the flows it interrupts go on running.   *)
FairSpec == Spec /\ SF_vars(Tick) /\ \A a \in Alarms : WF_vars(Call(a))

-----------------------------------------------------------------------------
(* Properties                                                              *)

(* The tick takes a out of the queue for a call.                           *)
Serves(a) == a \in ToSet(requests) /\ calling'[a] > calling[a]

(* No alarm is served before its period has passed, whatever is inserted   *)
(* before it and removed from before it in the meantime.                   *)
NeverEarly ==
    [][ \A a \in Alarms : Serves(a) => age[a] + 1 >= ticks[a] ]_vars

(* An alarm is called as often as it was asked for: every call made, under *)
(* way or still in the queue is one of them, and none is lost.             *)
CalledAsAsked ==
    \A a \in alive :
        asked[a] # INFINITE /\ ticks[a] > 0 =>
            /\ called[a] + calling[a] + times[a] = asked[a]
            /\ a \in ToSet(requests) <=> times[a] > 0

(* The ticks until alarm a of l is due.                                    *)
Countdown(l, rk, a) ==
    IF a \in ToSet(l) THEN Until(l, rk, CHOOSE i \in DOMAIN l : l[i] = a) ELSE 0

(* The queue of relative ranks is a list of countdowns.                    *)

Clock == INSTANCE AlarmClock WITH
    Periods <- Periods \ {0},
    order <- requests,
    left  <- [a \in Alarms |-> Countdown(requests, rank, a)]

RequestsCountDown == Clock!Spec

(* Every waiting alarm is served or destroyed sooner or later, however     *)
(* many others come and go.                                                *)
AlarmsServed ==
    \A a \in Alarms : a \in ToSet(requests) /\ age[a] > 0 ~> a \notin ToSet(requests) \/ age[a] = 0

(* A periodic thread runs once in every period: the test of the periodic   *)
(* threads prints "every 100 ms" of an alarm with that period.             *)
PeriodKept ==
    [][ \A a \in Alarms : Serves(a) => age[a] + 1 <= ticks[a] ]_vars

=============================================================================
