-------------------------- MODULE MCOrgTreeCascade --------------------------
(***************************************************************************)
(* The node handlers of OrgTree with cascade_delete and the items of a     *)
(* sync, one request at a time: no child is promoted, and no source is     *)
(* deleted from above its nodes.  Node ids and external ids are            *)
(* interchangeable.                                                        *)
(***************************************************************************)
EXTENDS Reads, TLC

Symmetry == Permutations(NodeId) \cup Permutations(ExtId)

(* No other request is between its statements. *)
Alone(s) == \A r \in Session \ {s} : At(r, "idle")

CascadeNext ==
    \E s \in Session :
        /\ Alone(s)
        /\ \/ StartCreate(s) \/ LookupUpsert(s) \/ ReadParent(s) \/ Insert(s)
           \/ Update(s)
           \/ ReadDelete(s) \/ Cascade(s)
           \/ ReadMove(s) \/ ReadNewParent(s) \/ WriteMove(s)
           \/ Fail(s)

CascadeSpec == Init /\ [][CascadeNext]_vars
=============================================================================
