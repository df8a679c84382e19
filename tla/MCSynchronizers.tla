-------------------------- MODULE MCSynchronizers --------------------------
(* Constants for the runs of Synchronizers.                                *)
EXTENDS SemaphorePool

CONSTANTS main, idle, t1, t2, sem, e1, m1, c1

MCThreads == {main, idle, t1, t2}

(* Preemptive and timed: Round_Robin.                                      *)
RoundRobin == {[preemptive |-> TRUE, timed |-> TRUE]}

(* That, FCFS and Priority.                                                *)
AllCriteria == RoundRobin \cup {[preemptive |-> FALSE, timed |-> FALSE],
                                [preemptive |-> TRUE,  timed |-> FALSE]}

(* A guard starts with one token, another semaphore with none.             *)
MCInitial == [s \in Semaphores |-> IF s \in Guards THEN 1 ELSE 0]

MCSymmetry == Permutations({t1, t2})

=============================================================================
