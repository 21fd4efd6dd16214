----------------------------- MODULE ParentTree ------------------------------
(***************************************************************************)
(* The organization tree as a user understands it: each node has a parent, *)
(* a new node is a leaf, deleting a node deletes what hangs from it, and a *)
(* node moves with everything below it to a place that is not below it.    *)
(* There are no paths here; OrgTree implements this with stored paths.     *)
(***************************************************************************)
EXTENDS Functions

CONSTANTS NodeId, NoParent

VARIABLE tree      \* from each node in the tree to its parent

(* The nodes that every set of nodes containing n and the children of its
   members must contain. *)
Subtree(n) ==
    {m \in DOMAIN tree :
        \A S \in SUBSET (DOMAIN tree) :
            (/\ n \in S
             /\ \A x \in DOMAIN tree : tree[x] \in S => x \in S) => m \in S}

Add(n, p) == /\ n \notin DOMAIN tree
             /\ p \in DOMAIN tree \cup {NoParent}
             /\ tree' = [m \in DOMAIN tree \cup {n} |-> IF m = n THEN p ELSE tree[m]]

Remove(n) == tree' = Restrict(tree, DOMAIN tree \ Subtree(n))

Reparent(n, p) == /\ p \in (DOMAIN tree \ Subtree(n)) \cup {NoParent}
                  /\ tree' = [tree EXCEPT ![n] = p]

Next == \/ \E n \in NodeId, p \in NodeId \cup {NoParent} : Add(n, p)
        \/ \E n \in DOMAIN tree : Remove(n)
        \/ \E n \in DOMAIN tree, p \in NodeId \cup {NoParent} : Reparent(n, p)

Spec == tree = <<>> /\ [][Next]_tree
=============================================================================
