----------------------------- MODULE MCSyncUsers -----------------------------
(* A small instance of SyncUsers: by email, in lower case only, the external
   user is one account, and by username another.  Between them the syncs find
   every strategy configured. *)
EXTENDS SyncUsers

CONSTANTS e1, u1, u2, y1

MCItems == [r \in Request |-> IF r = y1 THEN 2 ELSE 1]

MCConfigured ==
    [y \in SyncReq |-> IF y = y1 THEN {"mapping_email_username"}
                       ELSE {"mapping_only", "email_only"}]

Only(e, u) == [x \in ExtUser |-> IF x = e THEN u ELSE NoUser]
MCByEmail == [x \in ExtUser |-> NoUser]
MCByLowerEmail == Only(e1, u1)
MCByUsername == Only(e1, u2)
=============================================================================
