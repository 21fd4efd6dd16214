------------------------------ MODULE MCOrgTree ------------------------------
(***************************************************************************)
(* OrgTree on small instances.  Node ids and sessions are interchangeable, *)
(* so TLC explores one representative of each orbit.                       *)
(***************************************************************************)
EXTENDS OrgTree, TLC

CONSTANT MaxRequests

VARIABLE begun        \* requests that have begun, at most MaxRequests

Symmetry == Permutations(NodeId) \cup Permutations(Session)

Count == begun < MaxRequests /\ begun' = begun + 1

(* Every action of OrgTree, with the requests counted. *)
BoundedNext ==
    \/ \E s \in Session :
         \/ StartCreate(s) /\ Count
         \/ ReadDelete(s) /\ Count
         \/ ReadMove(s) /\ Count
         \/ LookupUpsert(s) /\ Count
         \/ ReadParent(s) /\ UNCHANGED begun
         \/ Insert(s) /\ UNCHANGED begun
         \/ Cascade(s) /\ UNCHANGED begun
         \/ Promote(s) /\ UNCHANGED begun
         \/ ReadNewParent(s) /\ UNCHANGED begun
         \/ WriteMove(s) /\ UNCHANGED begun
         \/ Update(s) /\ UNCHANGED begun
         \/ Fail(s) /\ UNCHANGED begun
    \/ DeleteBySource /\ UNCHANGED begun

BoundedSpec == Init /\ begun = 0 /\ [][BoundedNext]_<<vars, begun>>
=============================================================================
