------------------------------- MODULE MCSip -------------------------------
(* Constants for the runs of Sip.                                          *)
EXTENDS Sip

(* Two EPOS agents that call one another; one that another phone calls.    *)
MCOne      == {[agents |-> {"alice"}, extra |-> 0]}
MCNetworks == {[agents |-> {"alice", "bob"}, extra |-> 1]} \cup MCOne

=============================================================================
