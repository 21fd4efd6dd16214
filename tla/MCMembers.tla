------------------------------ MODULE MCMembers ------------------------------
(* Small instances of Members: the nodes are shared out among the sources.
   The number of requests is not bounded; rows are not reused, so the table
   has as many as MemberId has. *)
EXTENDS Members, TLC

MCOwner == CHOOSE f \in [NodeId -> Source] :
             \A src \in Source : \E n \in NodeId : f[n] = src

Symmetry == Permutations(MemberId) \cup Permutations(UserId)
=============================================================================
