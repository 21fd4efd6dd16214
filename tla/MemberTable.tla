----------------------------- MODULE MemberTable -----------------------------
(***************************************************************************)
(* The table org_directory_members and the SQL statements of               *)
(* server/store/member_store.go, as operators from a table to a table.     *)
(* position, sort_order and timestamps are left out; a membership m is     *)
(* what a caller asks for: a pair (node, user), a role, a source and an    *)
(* external id.                                                            *)
(***************************************************************************)
EXTENDS Directory

CONSTANTS MemberId,    \* the ids that model.NewId() may hand out to rows
          UserId,      \* the Mattermost users
          Role

Membership == [node : NodeId, user : UserId, role : Role,
               source : Source \cup {Local}, ext : ExtId \cup {NoExt}]

MemberRow == [status : {"live", "deleted"}, node : NodeId, user : UserId,
              role : Role, source : Source \cup {Local}, ext : ExtId \cup {NoExt}]

Absent == [status |-> "absent"]      \* not yet inserted

Used(t) == {r \in MemberId : t[r].status # "absent"}
Active(t) == {r \in MemberId : t[r].status = "live"}

-----------------------------------------------------------------------------
(* Reads *)

(* getActiveMemberByNodeAndUser, IsMember, GetMemberRole *)
ActiveAt(t, n, u) == {r \in Active(t) : t[r].node = n /\ t[r].user = u}

(* the soft-deleted row AddMember looks for *)
RemovedAt(t, n, u) ==
    {r \in Used(t) \ Active(t) : t[r].node = n /\ t[r].user = u}

(* a variant that overlooks the source *)
KeyedInAnySource(t, src, ext) == {r \in Active(t) : t[r].ext = ext}

(* the row UpsertMemberByExternalID looks for *)
KeyedMember(t, src, ext) ==
    {r \in Active(t) : t[r].source = src /\ t[r].ext = ext}

-----------------------------------------------------------------------------
(* Writes *)

(* UNIQUE(node_id, user_id): soft-deleted rows count. *)
OneRowPerPair(t) ==
    \A r, q \in Used(t) :
        t[r].node = t[q].node /\ t[r].user = t[q].user => r = q

(* AddMember, INSERT *)
InsertedMember(t, r, m) ==
    [t EXCEPT ![r] = [status |-> "live", node |-> m.node, user |-> m.user,
                      role |-> m.role, source |-> m.source, ext |-> m.ext]]

(* AddMember's restoring UPDATE, which the two upserts by pair repeat word
   for word: WHERE id alone, whatever the row has become. *)
Revived(t, r, m) ==
    [t EXCEPT ![r] = [@ EXCEPT !.status = "live", !.role = m.role,
                               !.source = m.source, !.ext = m.ext]]

(* UpsertMemberByExternalID's UPDATE: the row follows its external id to
   another pair. *)
Rekeyed(t, r, m) ==
    [t EXCEPT ![r] = [@ EXCEPT !.status = "live", !.node = m.node,
                               !.user = m.user, !.role = m.role]]

MemberRemoved(t, n, u) ==
    [r \in MemberId |-> IF r \in ActiveAt(t, n, u)
                          THEN [t[r] EXCEPT !.status = "deleted"] ELSE t[r]]

RoleUpdated(t, n, u, role) ==
    [r \in MemberId |-> IF r \in ActiveAt(t, n, u)
                          THEN [t[r] EXCEPT !.role = role] ELSE t[r]]

(* a variant that overlooks the source *)
MembersAnySourceDeleted(t, src, keptExts, keptPairs) ==
    [r \in MemberId |->
        IF /\ r \in Active(t)
           /\ t[r].ext = NoExt \/ t[r].ext \notin keptExts
           /\ <<t[r].node, t[r].user>> \notin keptPairs
          THEN [t[r] EXCEPT !.status = "deleted"] ELSE t[r]]

(* SoftDeleteMembersBySource: the live rows of src that neither list names. *)
MembersSourceDeleted(t, src, keptExts, keptPairs) ==
    [r \in MemberId |->
        IF /\ r \in Active(t) /\ t[r].source = src
           /\ t[r].ext = NoExt \/ t[r].ext \notin keptExts
           /\ <<t[r].node, t[r].user>> \notin keptPairs
          THEN [t[r] EXCEPT !.status = "deleted"] ELSE t[r]]
=============================================================================
