-------------------------------- MODULE List --------------------------------
(***************************************************************************)
(* The growing array (list.c) in which a dictionary keeps its entries.     *)
(*                                                                         *)
(* `items' are all the cells that are allocated, those behind the last     *)
(* item among them with whatever they contain.                             *)
(***************************************************************************)
EXTENDS Integers, Sequences

CONSTANTS
    Items,           \* what is put on a list
    ListCapacity,    \* HEAP_LIST_INIT_CAPACITY
    MaxItems         \* bound on the items of a list

ASSUME ListAssumption == ListCapacity \in Nat \ {0} /\ MaxItems \in Nat

VARIABLE list        \* [items, count, capacity]

Zero == 0            \* a cell that calloc has cleared
Junk == -1           \* a cell that realloc has added

-----------------------------------------------------------------------------
ListAlloc ==
    [items |-> [i \in 0 .. ListCapacity - 1 |-> Zero], count |-> 0, capacity |-> ListCapacity]

(* The capacity that list_resize comes to. *)
NewCapacity(capacity, least) ==
    LET grown[c \in Nat] ==
          IF c >= least THEN c ELSE grown[c + c \div 8 + (IF c < 9 THEN 3 ELSE 6)]
    IN  grown[capacity]

ListResize(l, least) ==
    LET capacity == NewCapacity(l.capacity, least)
    IN  [l EXCEPT !.capacity = capacity,
                  !.items = [i \in 0 .. capacity - 1 |-> IF i < l.capacity THEN l.items[i] ELSE Junk]]

(* list_append; the index it returns is the count before. *)
ListAppend(l, x) ==
    LET room == IF l.count >= l.capacity THEN ListResize(l, l.count + 1) ELSE l
    IN  [room EXCEPT !.items[l.count] = x, !.count = l.count + 1]

(* Mutant: the items move from one place too far on. *)
ListRemovedLate(l, i) ==
    [l EXCEPT !.items = [j \in DOMAIN l.items |->
                           IF i < j /\ j < l.count - 1 THEN l.items[j + 1] ELSE l.items[j]],
              !.count = @ - 1]

(* list_remove_index: what follows moves up, the last cell keeps its old   *)
(* content. *)
ListRemoved(l, i) ==
    [l EXCEPT !.items = [j \in DOMAIN l.items |->
                           IF i <= j /\ j < l.count - 1 THEN l.items[j + 1] ELSE l.items[j]],
              !.count = @ - 1]

AppendItem(x) == list.count < MaxItems /\ list' = ListAppend(list, x)

RemoveItem(i) == i < list.count /\ list' = ListRemoved(list, i)

RemoveNothing(i) == i >= list.count /\ UNCHANGED list

ListInit == list = ListAlloc

ListNext ==
    \/ \E x \in Items : AppendItem(x)
    \/ \E i \in 0 .. MaxItems : RemoveItem(i) \/ RemoveNothing(i)

ListSpec == ListInit /\ [][ListNext]_list

-----------------------------------------------------------------------------
AsSequence == [i \in 1 .. list.count |-> list.items[i - 1]]

Without(s, i) == SubSeq(s, 1, i - 1) \o SubSeq(s, i + 1, Len(s))

(* Whatever was appended and removed before, and however often the cells   *)
(* have been moved to a larger place: list_append puts its item at the     *)
(* end, list_remove_index takes out the one with its index, and all others *)
(* keep their content and order.                                           *)
ListIsSequence ==
    [][/\ \A x \in Items : AppendItem(x) => AsSequence' = Append(AsSequence, x)
       /\ \A i \in 0 .. MaxItems : RemoveItem(i) => AsSequence' = Without(AsSequence, i + 1)]_list
=============================================================================
