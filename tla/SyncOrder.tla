------------------------------ MODULE SyncOrder ------------------------------
(***************************************************************************)
(* topologicalSortNodes of server/api_sync.go, the order in which a sync   *)
(* processes its node items.  An item is [ext, parent, ...]; the external  *)
(* ids of a request are distinct (a repeated id would queue its children   *)
(* once more each time it is met).                                         *)
(***************************************************************************)
EXTENDS Directory

(* The positions of S, in input order *)
InOrder(items, S) ==
    LET upTo[i \in 0..Len(items)] ==
          IF i = 0 THEN <<>>
          ELSE IF i \in S THEN Append(upTo[i - 1], i) ELSE upTo[i - 1]
    IN upTo[Len(items)]

(* childrenMap[ext], the positions of the items below ext *)
ChildrenMap(items, ext) ==
    InOrder(items, {i \in 1..Len(items) : items[i].parent = ext})

(* One turn of the breadth-first walk, by position: the first of the queue is
   sorted and its children join the queue. *)
Turn(items, w) ==
    IF w.queue = <<>> THEN w
    ELSE [queue |-> Tail(w.queue) \o ChildrenMap(items, items[Head(w.queue)].ext),
          sorted |-> Append(w.sorted, Head(w.queue))]

(* The walk, from the items without a parent: a position joins the queue
   once, so that the queue is empty after a turn for each. *)
Walked(items) ==
    LET walk[k \in 0..Len(items)] ==
          IF k = 0 THEN [queue |-> ChildrenMap(items, NoExt), sorted |-> <<>>]
          ELSE Turn(items, walk[k - 1])
    IN walk[Len(items)].sorted

(* a variant that trusts the order of the input *)
AsGiven(items) == items

(* The items the walk has not met follow in input order. *)
Sorted(items) ==
    LET walked == Walked(items)
        order == walked \o InOrder(items, 1..Len(items) \ Range(walked))
    IN [k \in 1..Len(order) |-> items[order[k]]]

(* The external ids whose chain of parents ends, inside the request, at an
   item without a parent. *)
Rooted(items) == {items[i].ext : i \in Range(Walked(items))}
=============================================================================
