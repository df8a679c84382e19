----------------------------- MODULE AlarmClock -----------------------------
(***************************************************************************)
(* What the queue of alarm requests promises, without relative offsets: a  *)
(* countdown for each waiting alarm.  A tick counts all of them down, and  *)
(* the first one to reach zero leaves, at most one at a tick.  A tick that *)
(* serves an alarm whose countdown had reached zero before is lost to the  *)
(* others: they all wait one tick longer.                                  *)
(***************************************************************************)
EXTENDS SchedulingList

CONSTANTS Alarms, Periods

VARIABLES
    order,   \* the waiting alarms, by countdown and then by arrival
    left     \* the countdowns

clock == <<order, left>>

Init ==
    /\ order = << >>
    /\ left = [a \in Alarms |-> 0]

(* Alarm a is to wait for k ticks, given the others' order and countdowns. *)
Enqueued(l, c, a, k) ==
    /\ left' = [c EXCEPT ![a] = k]
    /\ order' = OrderedInsert(l, left', a)

Request(a, k) ==
    /\ a \notin ToSet(order)
    /\ Enqueued(order, left, a, k)

Cancel(a) ==
    /\ a \in ToSet(order)
    /\ order' = ListRemove(order, a)
    /\ left' = [left EXCEPT ![a] = 0]

(* The countdowns after a tick.                                            *)
Counted ==
    IF left[Head(order)] = 0
    THEN left
    ELSE [a \in Alarms |-> IF a \in ToSet(order) THEN left[a] - 1 ELSE 0]

Tick ==
    /\ order # << >>
    /\ LET a == Head(order)
       IN  \/ Counted[a] > 0 /\ left' = Counted /\ UNCHANGED order
           \/ Counted[a] = 0 /\ left' = [Counted EXCEPT ![a] = 0] /\ order' = Tail(order)
           \/ Counted[a] = 0 /\ \E k \in Periods : Enqueued(Tail(order), Counted, a, k)

Next ==
    \/ \E a \in Alarms : Cancel(a) \/ \E k \in Periods : Request(a, k)
    \/ Tick

Spec == Init /\ [][Next]_clock

=============================================================================
