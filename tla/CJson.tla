------------------------------- MODULE CJson -------------------------------
(***************************************************************************)
(* The items of a parsed document (cJSON.c): a heap of nodes linked by     *)
(* next and child, what frees them and what looks a member up.             *)
(*                                                                         *)
(* A heap is a function from the numbers of the live items to the items.   *)
(* The strings of an item (valuestring and string) are freed with it and   *)
(* only with it, so they are part of it; "" is a NULL pointer.  The        *)
(* back links (prev) are written by the parser and read by nothing that    *)
(* the controller calls.                                                   *)
(***************************************************************************)
EXTENDS Naturals, Sequences, FiniteSetsExt

CONSTANT MaxItems      \* bound: items that fit into memory; no text needs as many

ASSUME MaxItemsAssumption == MaxItems \in Nat \ {0}

Null == 0
Ids == 1 .. MaxItems

Types == {"Invalid", "NULL", "False", "True", "Number", "String", "Array", "Object"}

\* An item as memset leaves it.
NewItem == [type |-> "Invalid", value |-> "", string |-> "",
            next |-> Null, child |-> Null]

EmptyHeap == [i \in {} |-> NewItem]

\* An allocation succeeds only if there is room.
HasRoom(heap) == DOMAIN heap # Ids

\* cJSON_New_Item where the allocation succeeds: the number of the new item,
\* and the heap that has it.
NewId(heap) == CHOOSE i \in Ids : i \notin DOMAIN heap

WithNew(heap) ==
  [i \in DOMAIN heap \cup {NewId(heap)} |->
     IF i \in DOMAIN heap THEN heap[i] ELSE NewItem]

\* A set of items that has, with an item, what follows it and what is below it.
Closed(heap, S) ==
  \A i \in S : {heap[i].next, heap[i].child} \cap DOMAIN heap \subseteq S

\* The items cJSON_Delete walks over: the least such set with item i.
Reach(heap, i) ==
  LET sets == {S \in SUBSET DOMAIN heap : i \in S /\ Closed(heap, S)}
  IN  IF i \notin DOMAIN heap THEN {}
      ELSE {j \in DOMAIN heap : \A S \in sets : j \in S}

\* cJSON_Delete; of NULL it does nothing.
Deleted(heap, i) ==
  [j \in DOMAIN heap \ Reach(heap, i) |-> heap[j]]

\* The items of the list that begins with i; list has at most n of them.
ListFrom(heap, i) ==
  LET following(l) == IF l = <<>> THEN i ELSE heap[l[Len(l)]].next
      list[n \in 0 .. MaxItems] ==
        IF n = 0 THEN <<>>
        ELSE LET l == list[n - 1]
             IN  IF following(l) = Null THEN l ELSE Append(l, following(l))
  IN  list[MaxItems]

\* Fault: the last member of that name.
GetLastItem(heap, object, name) ==
  LET list == ListFrom(heap, heap[object].child)
      hits == {k \in DOMAIN list : heap[list[k]].string = name}
  IN  IF hits = {} THEN Null ELSE list[Max(hits)]

\* get_object_item, case sensitive: the walk ends at the first member of that
\* name, at the end, or at an item without a name (that of an array).
GetObjectItem(heap, object, name) ==
  LET list == ListFrom(heap, heap[object].child)
      ends == {k \in DOMAIN list : heap[list[k]].string \in {name, ""}}
  IN  IF ends = {} \/ heap[list[Min(ends)]].string = "" THEN Null
      ELSE list[Min(ends)]
=============================================================================
