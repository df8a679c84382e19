------------------------------- MODULE MCHeap -------------------------------
(* Constants for the run of Heap, in words: a size word, and a list node   *)
(* of an object, a size and two links.                                     *)
EXTENDS Heap

MCRegions == {[object |-> 1, size |-> 17], [object |-> 18, size |-> 6],
              [object |-> 26, size |-> 3]}

=============================================================================
