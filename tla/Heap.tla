-------------------------------- MODULE Heap --------------------------------
(***************************************************************************)
(* Heap_Common (utility/heap.cc) over its Grouping_List (utility/list.h):  *)
(* first fit, blocks cut from the end of an element, neighbours merged     *)
(* when memory comes back.                                                 *)
(*                                                                         *)
(* An operation is one action: the heap is used under the lock of its      *)
(* atomic wrapper, or by one thread.  Requests stay so far below 2^w that  *)
(* adding the size word and a list element to them does not wrap.          *)
(***************************************************************************)
EXTENDS Integers, Sequences, SequencesExt, FiniteSets

CONSTANTS
    Regions,    \* the memory that is handed to the heap, as pieces
    Requests,   \* the sizes asked for
    Header,     \* sizeof(int): a block starts with a word that holds its size
    Node        \* sizeof(Element): a free element starts with its list node

(* No byte is in two of the pieces.                                        *)
Apart(a, b) == a.object + a.size <= b.object \/ b.object + b.size <= a.object

ASSUME HeapAssumption ==
    /\ Regions \subseteq [object: Nat, size: Nat]
    /\ \A r, s \in Regions : r # s => Apart(r, s)
    /\ Requests \subseteq Nat \ {0}
    /\ Header \in Nat /\ Node \in Nat \ {0}

VARIABLES
    list,      \* the free elements, in the order of the Grouping_List
    grouped,   \* Grouping_List::_grouped_size
    blocks,    \* the pieces in use, from their size words
    given      \* the regions the heap has been handed

vars == <<list, grouped, blocks, given>>

(* The heap is constructed empty.                                          *)
Init == list = << >> /\ grouped = 0 /\ blocks = {} /\ given = {}

-----------------------------------------------------------------------------
(* search(), search_left() and search_size() stop at the first match; 0    *)
(* stands for the null pointer.                                            *)
IsFirst(i, matching) ==
    \/ i = 0 /\ matching = {}
    \/ i \in matching /\ \A j \in matching : i <= j

(* What is left of an element must hold its node, or be nothing.  A fault: *)
(* the search of Simple_Grouping_List, which takes any element that is     *)
(* large enough.                                                           *)
FitsTightly(e, s) == e.size >= s
Fits(e, s)        == e.size >= Node + s \/ e.size = s

(* search_decrementing(): the block is the end of element i.  A fault: an  *)
(* element that shrinks to nothing is kept.                                *)
Shrunk(i, s) == [list EXCEPT ![i].size = @ - s]
Cut(i, s)    == IF list[i].size = s THEN RemoveAt(list, i) ELSE Shrunk(i, s)

(* The block that alloc() makes of element i after the shrink(). A fault:  *)
(* it starts where the element starts.                                     *)
BlockAtStart(i, s) == [object |-> list[i].object, size |-> s]
BlockAtEnd(i, s)   == [object |-> list[i].object + (list[i].size - s), size |-> s]

(* The bytes alloc() needs: the size word and, in the end, a list node.    *)
Needed(bytes) == IF bytes + Header < Node THEN Node ELSE bytes + Header

(* With no element that fits, alloc() ends in Machine::panic(): no step.   *)
Alloc(bytes) ==
    LET s == Needed(bytes) IN
    \E i \in DOMAIN list :
        /\ IsFirst(i, {j \in DOMAIN list : Fits(list[j], s)})
        /\ list' = Cut(i, s)
        /\ grouped' = grouped - s
        /\ blocks' = blocks \cup {BlockAtEnd(i, s)}
        /\ UNCHANGED given

(* The list with e inserted and merged with the element r that starts at   *)
(* its end and the element l that ends at its start.  A fault: e is merged *)
(* with one of them only.                                                  *)
MergedOnce(e, l, r) ==
    IF l # 0 THEN [list EXCEPT ![l].size = @ + e.size]
    ELSE IF r # 0 THEN Append(RemoveAt(list, r), [e EXCEPT !.size = @ + list[r].size])
    ELSE Append(list, e)

Merged(e, l, r) ==
    LET whole == IF r = 0 THEN e ELSE [e EXCEPT !.size = @ + list[r].size]
        grown == IF l = 0 THEN Append(list, whole)
                 ELSE [list EXCEPT ![l].size = @ + whole.size]
    IN  IF r = 0 THEN grown ELSE RemoveAt(grown, r)

(* free(ptr, bytes) with insert_merging().  What is too small to hold a    *)
(* list node is dropped.                                                   *)
Insert(e) ==
    /\ grouped' = grouped + e.size
    /\ \E r, l \in 0..Len(list) :
          /\ IsFirst(r, {j \in DOMAIN list : list[j].object = e.object + e.size})
          /\ IsFirst(l, {j \in DOMAIN list : list[j].object + list[j].size = e.object})
          /\ list' = Merged(e, l, r)

Kept(e) == e.object # 0 /\ e.size >= Node

FreePiece(e) ==
    \/ Kept(e) /\ Insert(e)
    \/ ~Kept(e) /\ UNCHANGED <<list, grouped>>

(* free(ptr) reads the size of the block from the word before ptr.         *)
Free(b) ==
    /\ b \in blocks
    /\ FreePiece(b)
    /\ blocks' = blocks \ {b}
    /\ UNCHANGED given

(* Memory is handed to the heap with free(ptr, bytes) as well.             *)
Give(r) ==
    /\ r \notin given
    /\ FreePiece(r)
    /\ given' = given \cup {r}
    /\ UNCHANGED blocks

Next ==
    \/ \E bytes \in Requests : Alloc(bytes)
    \/ \E b \in blocks : Free(b)
    \/ \E r \in Regions : Give(r)

Spec == Init /\ [][Next]_vars

-----------------------------------------------------------------------------
(* Properties                                                              *)

Pieces == [object: Nat, size: Nat]

(* No element is smaller than its node, and no block than a node is: both  *)
(* can be written where they are without reaching into the next piece.     *)
TypeOK ==
    /\ list \in Seq(Pieces)
    /\ grouped \in Nat
    /\ blocks \subseteq Pieces
    /\ given \subseteq Regions
    /\ \A e \in ToSet(list) \cup blocks : Kept(e)

Bytes(e)   == e.object .. e.object + e.size - 1
FreeBytes  == UNION {Bytes(e) : e \in ToSet(list)}
UsedBytes  == UNION {Bytes(b) : b \in blocks}
GivenBytes == UNION {Bytes(r) : r \in {s \in given : Kept(s)}}

(* After any sequence of allocations and releases, every byte the heap was *)
(* given is in one block or in one free element: no two blocks overlap, no *)
(* block is free at the same time, and none of the memory is lost.         *)
MemoryAccounted ==
    /\ \A i, j \in DOMAIN list : i # j => Apart(list[i], list[j])
    /\ \A a, b \in blocks : a # b => Apart(a, b)
    /\ \A i \in DOMAIN list, b \in blocks : Apart(list[i], b)
    /\ FreeBytes \cup UsedBytes = GivenBytes

(* Releases leave no two free elements side by side, and the grouped size  *)
(* is that of the free memory: once all blocks are released the heap is as *)
(* it was, in one piece for each region, or for several that touch.        *)
NeighboursMerged ==
    /\ \A i, j \in DOMAIN list : list[i].object + list[i].size # list[j].object
    /\ grouped = Cardinality(FreeBytes)

=============================================================================
