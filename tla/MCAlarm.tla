------------------------------ MODULE MCAlarm ------------------------------
(* Constants for the runs of Alarm.                                        *)
EXTENDS Alarm

CONSTANTS a1, a2, a3

=============================================================================
