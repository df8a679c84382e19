--------------------------- MODULE SchedulingList ---------------------------
(***************************************************************************)
(* The ordered lists of include/utility/list.h, as values.                 *)
(*                                                                         *)
(* Ordered_List keeps its elements by ascending rank and, among equal      *)
(* ranks, by order of insertion; Scheduling_List adds _chosen, a pointer   *)
(* to the element that holds the resource.  The chosen element stays in    *)
(* the list: reorder() takes it out and puts it back.  Threads use both:   *)
(* the ready list is a Scheduling_List, a wait queue an Ordered_List.      *)
(*                                                                         *)
(* A list is the sequence of its objects, rank the function that gives     *)
(* each object the rank in its list element, Null the null pointer.        *)
(***************************************************************************)
EXTENDS Integers, Sequences, SequencesExt, FiniteSets

CONSTANT Null

-----------------------------------------------------------------------------
(* Ordered_List                                                            *)

(* A fault: equal ranks are not walked past.                               *)
PassedStrictly(l, rank, e) ==
    {i \in 1..Len(l) : \A j \in 1..i : rank[l[j]] < rank[e]}

(* The positions insert() walks past: the longest prefix of l whose ranks  *)
(* do not exceed that of e.                                                *)
Passed(l, rank, e) ==
    {i \in 1..Len(l) : \A j \in 1..i : rank[l[j]] <= rank[e]}

(* Ordered_List::insert(e): before the first element of a greater rank.    *)
OrderedInsert(l, rank, e) ==
    InsertAt(l, Cardinality(Passed(l, rank, e)) + 1, e)

(* List::remove(obj): a search, then the removal of what it found; nothing *)
(* happens when the object is not in the list.                             *)
ListRemove(l, e) ==
    IF e \in ToSet(l)
    THEN RemoveAt(l, CHOOSE i \in DOMAIN l : l[i] = e)
    ELSE l

(* Ascending by rank, as every insert() leaves it.                         *)
Sorted(l, rank) == \A i, j \in 1..Len(l) : i <= j => rank[l[i]] <= rank[l[j]]

(* head(): the null pointer when the list is empty.                        *)
HeadOf(l) == IF l = << >> THEN Null ELSE Head(l)

-----------------------------------------------------------------------------
(* Scheduling_List: a record of the list and its chosen element            *)

SchedInsert(s, rank, e) ==
    LET l == OrderedInsert(s.list, rank, e)
    IN  [list |-> l, chosen |-> IF s.chosen = Null THEN Head(l) ELSE s.chosen]

SchedRemove(s, e) ==
    LET l == ListRemove(s.list, e)
    IN  [list   |-> l,
         chosen |-> IF e \in ToSet(s.list) /\ e = s.chosen THEN HeadOf(l) ELSE s.chosen]

(* reorder(): the rank of the chosen element might have changed.           *)
Reorder(s, rank) == OrderedInsert(ListRemove(s.list, s.chosen), rank, s.chosen)

(* choose(): put the chosen element back in its place and take the head.   *)
SchedChoose(s, rank) ==
    IF s.list = << >>
    THEN s
    ELSE LET l == Reorder(s, rank) IN [list |-> l, chosen |-> Head(l)]

(* choose_another(): the head of the others, when there are others.        *)
SchedChooseAnother(s, rank) ==
    IF Len(s.list) > 1
    THEN [list   |-> Reorder(s, rank),
          chosen |-> Head(ListRemove(s.list, s.chosen))]
    ELSE s

(* choose(obj), for an object in the list.                                 *)
SchedChooseObject(s, rank, e) ==
    [list |-> IF s.chosen # Null THEN Reorder(s, rank) ELSE s.list, chosen |-> e]

-----------------------------------------------------------------------------

(* A scheduling list over S as its operations leave it: no element twice,  *)
(* in order, and the chosen element among them.                            *)
SchedListOK(s, S, rank) ==
    /\ s \in [list : Seq(S), chosen : S]
    /\ IsInjective(s.list)
    /\ s.chosen \in ToSet(s.list)
    /\ Sorted(s.list, rank)

=============================================================================
