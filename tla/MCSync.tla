------------------------------- MODULE MCSync -------------------------------
(* Small instances of Sync: at most MaxSyncs syncs and MaxEdits edits of
   administrators. *)
EXTENDS Sync, TLC

CONSTANTS MaxSyncs, MaxEdits

VARIABLES syncs, edits

MCInit == Init /\ syncs = 0 /\ edits = 0

MCAdmin ==
    \/ \E n \in NodeId, p \in Live(nodes) \cup {NoParent} : AdminCreateNode(n, p)
    \/ \E n \in Live(nodes), strategy \in {"cascade_delete", "move_to_parent"} :
          AdminDeleteNode(n, strategy)
    \/ \E n \in Live(nodes), u \in UserId : AdminAddMember(n, u)
    \/ \E n \in Live(nodes), u \in UserId : AdminRemoveMember(n, u)

Counted == UNCHANGED <<syncs, edits>>

MCNext ==
    \/ Start /\ syncs < MaxSyncs /\ syncs' = syncs + 1 /\ UNCHANGED edits
    \/ NodeWithoutParent /\ Counted
    \/ UpsertNode /\ Counted
    \/ DeleteNode /\ Counted
    \/ NodeFails /\ Counted
    \/ MemberWithoutNode /\ Counted
    \/ MemberSkipped /\ Counted
    \/ UpsertMember /\ Counted
    \/ UpsertMemberFails /\ Counted
    \/ DeleteMember /\ Counted
    \/ Cleanup /\ Counted
    \/ Finish /\ Counted
    \/ Crash /\ Counted
    \/ MCAdmin /\ edits < MaxEdits /\ edits' = edits + 1 /\ UNCHANGED syncs

MCSpec == MCInit /\ [][MCNext]_<<vars, syncs, edits>>

Symmetry == Permutations(NodeId) \cup Permutations(MemberId)
            \cup Permutations(ExtId) \cup Permutations(UserId)
=============================================================================
