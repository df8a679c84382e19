------------------------------ MODULE MCThread ------------------------------
(* Constants for the runs of Thread: main, idle and application threads.   *)
EXTENDS Thread

CONSTANTS main, idle, t1, t2, t3, q1

MCThreads == {main, idle, t1, t2, t3}

(* Priority and EDF, Round_Robin and RM, FCFS (include/scheduler.h).       *)
AllCriteria == {[preemptive |-> TRUE,  timed |-> FALSE],
                [preemptive |-> TRUE,  timed |-> TRUE],
                [preemptive |-> FALSE, timed |-> FALSE]}

(* t1, t2 and t3 differ in nothing but their names. *)
MCSymmetry == Permutations({t1, t2, t3})

=============================================================================
