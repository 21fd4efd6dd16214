------------------------------- MODULE Members -------------------------------
(***************************************************************************)
(* server/store/member_store.go under concurrent requests: the handlers of *)
(* api_member.go and the member items of a sync.  Every statement commits  *)
(* by itself, so a request that reads and then writes runs in a session    *)
(* and remembers the id of the row it has found; the other sessions run    *)
(* between its statements.                                                 *)
(***************************************************************************)
EXTENDS MemberTable

CONSTANTS NoMember,      \* no row found yet
          Session,       \* requests that can be in flight together
          SyncSession,   \* those that serve a sync, the others an admin's
          Owner          \* the source of each node, which never changes

ASSUME MembersAssumption ==
    /\ SyncSession \subseteq Session
    /\ Owner \in [NodeId -> Source \cup {Local}]
    /\ NoMember \notin MemberId

VARIABLES members,   \* the table
          session    \* what each request has read so far

vars == <<members, session>>

(* pc names the statement that comes next; row is the row found. *)
Idle == [pc |-> "idle"]

SessionState ==
    [pc : {"findRemoved", "insert", "findActive"}, row : {NoMember},
     asked : Membership]
    \cup [pc : {"revive", "checkConflict", "rekey"}, row : MemberId,
          asked : Membership]
    \cup {Idle}

Init == /\ members = [r \in MemberId |-> Absent]
        /\ session = [s \in Session |-> Idle]

Goto(s, state) == session' = [session EXCEPT ![s] = state]
At(s, pc) == session[s].pc = pc
Asked(s) == session[s].asked

(* A sync resolves the node by (its source, external id), so it only ever
   names nodes of that source. *)
SyncMembership == {m \in Membership : m.source \in Source
                                      /\ m.source = Owner[m.node]}

-----------------------------------------------------------------------------
(* handleAddMember refuses a member; else AddMember with source 'local'. *)
StartAdd(s) ==
    /\ At(s, "idle") /\ s \notin SyncSession
    /\ \E n \in NodeId, u \in UserId, role \in Role :
         /\ ActiveAt(members, n, u) = {}
         /\ Goto(s, [pc |-> "findRemoved", row |-> NoMember,
                     asked |-> [node |-> n, user |-> u, role |-> role,
                                source |-> Local, ext |-> NoExt]])
    /\ UNCHANGED members

(* AddMember *)
FindRemoved(s) ==
    /\ At(s, "findRemoved")
    /\ LET found == RemovedAt(members, Asked(s).node, Asked(s).user) IN
         \/ \E r \in found :
              Goto(s, [pc |-> "revive", row |-> r, asked |-> Asked(s)])
         \/ /\ found = {}
            /\ Goto(s, [pc |-> "insert", row |-> NoMember, asked |-> Asked(s)])
    /\ UNCHANGED members

Revive(s) ==
    /\ At(s, "revive")
    /\ members' = Revived(members, session[s].row, Asked(s))
    /\ Goto(s, Idle)

(* a variant without the UNIQUE constraint *)
InsertUnchecked(s) ==
    /\ At(s, "insert")
    /\ \E r \in MemberId \ Used(members) :
         members' = InsertedMember(members, r, Asked(s))
    /\ Goto(s, Idle)

Insert(s) ==
    /\ At(s, "insert")
    /\ \E r \in MemberId \ Used(members) :
         LET t == InsertedMember(members, r, Asked(s))
         IN members' = IF OneRowPerPair(t) THEN t ELSE members  \* SQL error
    /\ Goto(s, Idle)

-----------------------------------------------------------------------------
StartUpsertByPair(s) ==         \* a variant that overlooks the external id
    /\ At(s, "idle") /\ s \in SyncSession
    /\ \E m \in SyncMembership :
         Goto(s, [pc |-> "findActive", row |-> NoMember, asked |-> m])
    /\ UNCHANGED members

(* UpsertMemberByExternalID; without an external id, and when no row has it,
   the row is looked for by its pair. *)
StartUpsert(s) ==
    /\ At(s, "idle") /\ s \in SyncSession
    /\ \E m \in SyncMembership :
         LET found == IF m.ext = NoExt THEN {}
                      ELSE KeyedMember(members, m.source, m.ext)
         IN \/ \E r \in found :
                 Goto(s, [pc |-> "checkConflict", row |-> r, asked |-> m])
            \/ /\ found = {}
               /\ Goto(s, [pc |-> "findActive", row |-> NoMember, asked |-> m])
    /\ UNCHANGED members

CheckConflict(s) ==
    /\ At(s, "checkConflict")
    /\ LET other == ActiveAt(members, Asked(s).node, Asked(s).user)
                      \ {session[s].row}
       IN Goto(s, IF other = {} THEN [session[s] EXCEPT !.pc = "rekey"]
                                ELSE Idle)       \* membership conflict
    /\ UNCHANGED members

Rekey(s) ==
    /\ At(s, "rekey")
    /\ LET t == Rekeyed(members, session[s].row, Asked(s))
       IN members' = IF OneRowPerPair(t) THEN t ELSE members    \* SQL error
    /\ Goto(s, Idle)

(* The active row of the pair is taken over, and keeps its external id if
   none is given (UpsertMemberByNodeAndUser); else AddMember. *)
FindActive(s) ==
    /\ At(s, "findActive")
    /\ LET found == ActiveAt(members, Asked(s).node, Asked(s).user) IN
         \/ \E r \in found :
              Goto(s, [pc |-> "revive", row |-> r,
                       asked |-> [Asked(s) EXCEPT
                         !.ext = IF @ = NoExt THEN members[r].ext ELSE @]])
         \/ /\ found = {}
            /\ Goto(s, [pc |-> "findRemoved", row |-> NoMember,
                        asked |-> Asked(s)])
    /\ UNCHANGED members

(* The request ends in an error or with the plugin: nothing is written. *)
Fail(s) ==
    /\ ~At(s, "idle")
    /\ Goto(s, Idle)
    /\ UNCHANGED members

-----------------------------------------------------------------------------
(* Requests of a single statement.  A removal serves the handler and a
   sync's delete items. *)
RemoveMember(s) ==
    /\ At(s, "idle")
    /\ \E n \in NodeId, u \in UserId :
         members' = MemberRemoved(members, n, u)
    /\ UNCHANGED session

UpdateRole(s) ==
    /\ At(s, "idle") /\ s \notin SyncSession
    /\ \E n \in NodeId, u \in UserId, role \in Role :
         members' = RoleUpdated(members, n, u, role)
    /\ UNCHANGED session

DeleteBySource(s) ==
    /\ At(s, "idle") /\ s \in SyncSession
    /\ \E src \in Source, exts \in SUBSET ExtId,
          pairs \in SUBSET {<<n, u>> : n \in NodeId, u \in UserId} :
         members' = MembersSourceDeleted(members, src, exts, pairs)
    /\ UNCHANGED session

Begin(s) == \/ StartAdd(s) \/ StartUpsert(s)
            \/ RemoveMember(s) \/ UpdateRole(s) \/ DeleteBySource(s)

Continue(s) == \/ FindRemoved(s) \/ Revive(s) \/ Insert(s)
               \/ CheckConflict(s) \/ Rekey(s) \/ FindActive(s) \/ Fail(s)

Next == \E s \in Session : Begin(s) \/ Continue(s)

Spec == Init /\ [][Next]_vars

-----------------------------------------------------------------------------
(* The table holds rows, one per pair, and every session a session state. *)
TypeOK == /\ members \in [MemberId -> MemberRow \cup {Absent}]
          /\ OneRowPerPair(members)
          /\ session \in [Session -> SessionState]

(* A membership belongs to the source that owns its node, or has been made
   by hand: however a late write by row id meets a row that has meanwhile
   been removed, restored or moved, no source writes its name or its external
   id into the part of the directory that another one owns. *)
Grounded(m) == \/ m.source = Owner[m.node]
               \/ m.source = Local /\ m.ext = NoExt

SourceOwnsNode == \A r \in Used(members) : Grounded(members[r])

(* What a session remembers: the row it has found may change under it, but
   never to a node of another owner. *)
StateOK(t, x) ==
    x.pc # "idle" =>
        /\ Grounded(x.asked)
        /\ x.pc = "findActive" => x.asked.source = Owner[x.asked.node]
        /\ x.pc \in {"revive", "checkConflict", "rekey"} =>
              /\ x.row \in Used(t)
              /\ Owner[t[x.row].node] = Owner[x.asked.node]

(* The inductive invariant behind SourceOwnsNode. *)
OwnerInv == /\ TypeOK
            /\ SourceOwnsNode
            /\ \A s \in Session : StateOK(members, session[s])

(* (source, external_id) names one membership at most: with a single sync at
   a time, whatever admins do meanwhile, the lookup that the next sync starts
   from is unambiguous. *)
ExternalIdUnique ==
    \A r, q \in Active(members) :
        /\ members[r].ext # NoExt
        /\ members[r].ext = members[q].ext
        /\ members[r].source = members[q].source
        => r = q

(* What keeps the key unique: the key that a sync has looked up names no row
   but the one it has found, a row found by its key keeps the key or has lost
   it to an admin, and admins ask for no key. *)
KeyOK(t, s, x) ==
    /\ s \notin SyncSession /\ x.pc # "idle" =>
          x.pc \in {"findRemoved", "insert", "revive"} /\ x.asked.ext = NoExt
    /\ x.pc # "idle" /\ x.asked.ext # NoExt =>
          KeyedMember(t, x.asked.source, x.asked.ext)
            \subseteq IF x.pc \in {"findActive", "findRemoved", "insert"}
                         THEN {} ELSE {x.row}
    /\ x.pc \in {"checkConflict", "rekey"} /\ t[x.row].ext # NoExt =>
          /\ t[x.row].ext = x.asked.ext
          /\ t[x.row].source = x.asked.source

(* The inductive invariant behind ExternalIdUnique. *)
KeyInv == /\ OwnerInv
          /\ ExternalIdUnique
          /\ \A s \in Session : KeyOK(members, s, session[s])

(* "AddMember adds a user to an organization node": when it has written, the
   pair asked for is an active membership with the role asked for. *)
AddedIsMember ==
    [][\A s \in Session :
          (Revive(s) \/ (Insert(s) /\ members' # members))
             => \E r \in ActiveAt(members', Asked(s).node, Asked(s).user) :
                   members'[r].role = Asked(s).role]_vars
=============================================================================
