-------------------------------- MODULE Sync --------------------------------
(***************************************************************************)
(* executeSyncRequest of server/api_sync.go over both tables: the node     *)
(* items in topological order, the member items, the clean-up of a full    *)
(* sync, the verdict.  An item is one step here (OrgTree and Members have  *)
(* the statements inside it): administrators edit, the database fails and  *)
(* the plugin crashes between two items.  One sync runs at a time.         *)
(***************************************************************************)
EXTENDS SyncOrder, NodeTable, MemberTable, FiniteSets

CONSTANTS CascadeStrategy,   \* SyncFullDeleteStrategy, for delete items
          MaxItems           \* items of a request

ASSUME SyncAssumption ==
    /\ CascadeStrategy \in {"cascade_delete", "move_to_parent"}
    /\ MaxItems \in Nat

VARIABLES nodes, members,   \* the tables
          run               \* the sync in flight, and what it has collected

vars == <<nodes, members, run>>

NodeItem ==
    [action : {"upsert", "delete"}, ext : ExtId, parent : ExtId \cup {NoExt}]

(* user is the Mattermost user that the external user stands for *)
MemberItem ==
    [action : {"upsert"}, node : ExtId, user : UserId, role : Role,
     ext : ExtId \cup {NoExt}]
    \cup [action : {"delete"}, node : ExtId, user : UserId, role : Role,
          ext : {NoExt}]

Request ==
    {q \in [source : Source, full : BOOLEAN,
            nodes : SeqOf(NodeItem, MaxItems),
            members : SeqOf(MemberItem, MaxItems)] :
       /\ Len(q.nodes) + Len(q.members) \in 1..MaxItems
       /\ \A i, j \in 1..Len(q.nodes) : q.nodes[i].ext = q.nodes[j].ext => i = j
       /\ \A i \in 1..Len(q.nodes) : q.nodes[i].parent # q.nodes[i].ext}

Idle == [pc |-> "idle"]

Init == /\ nodes = [n \in NodeId |-> NoRow]
        /\ members = [r \in MemberId |-> Absent]
        /\ run = Idle

At(pc) == run.pc = pc
LiveKeyed(ext) == Keyed(nodes, run.req.source, ext)

-----------------------------------------------------------------------------
(* The request arrives; its items are sorted. *)
Start ==
    /\ At("idle")
    /\ \E q \in Request :
         run' = [pc |-> "items", req |-> q,
                 todo |-> Sorted(q.nodes),      \* node items still to come
                 kept |-> {},                   \* syncedNodeExtIDs
                 keptExts |-> {},               \* syncedMemberExtIDs
                 keptPairs |-> {},              \* syncedMemberNodeUserKeys
                 next |-> 1,                    \* the member item to come
                 errors |-> FALSE, written |-> FALSE, skipped |-> FALSE,
                 quiet |-> TRUE,    \* no administrator has edited since
                 cleaned |-> FALSE] \* the clean-up has gone through
    /\ UNCHANGED <<nodes, members>>

Item == Head(run.todo)
AtNode(action) == At("items") /\ run.todo # <<>> /\ Item.action = action
NodeDone == [run EXCEPT !.todo = Tail(@)]

(* A parent that is not found is an error, and the node does not count as
   synced. *)
NodeWithoutParent ==
    /\ AtNode("upsert")
    /\ Item.parent # NoExt /\ LiveKeyed(Item.parent) = {}
    /\ run' = [NodeDone EXCEPT !.errors = TRUE]
    /\ UNCHANGED <<nodes, members>>

(* An upsert counts as synced, whatever becomes of it.  It leaves the tree
   columns of an existing row alone (see OrgTree). *)
UpsertNode ==
    /\ AtNode("upsert")
    /\ \E p \in IF Item.parent = NoExt THEN {NoParent} ELSE LiveKeyed(Item.parent) :
         IF LiveKeyed(Item.ext) # {}
           THEN /\ run' = [NodeDone EXCEPT !.kept = @ \cup {Item.ext},
                                           !.written = TRUE]
                /\ UNCHANGED nodes
           ELSE \E n \in NodeId \ Rows(nodes) :
                  LET path == IF p = NoParent THEN <<>> ELSE nodes[p].path
                      depth == IF p = NoParent THEN -1 ELSE nodes[p].depth
                      t == Inserted(nodes, n, p, path, depth,
                                      run.req.source, Item.ext)
                  IN /\ nodes' = IF Fits(t) THEN t ELSE nodes
                     /\ run' = [NodeDone EXCEPT
                                  !.kept = @ \cup {Item.ext},
                                  !.written = @ \/ Fits(t),
                                  !.errors = @ \/ ~Fits(t)]
    /\ UNCHANGED members

(* DeleteNode: the memberships are looked for below the live rows when there
   are none left, so they all stay. *)
DeletedNode(n, strategy) ==
    IF strategy = "move_to_parent"
      THEN PromoteDeleted(nodes, n, nodes[n].parent)
      ELSE CascadeDeleted(nodes, n, nodes[n].path)

DeleteNode ==
    /\ AtNode("delete")
    /\ \/ \E n \in LiveKeyed(Item.ext) :
            nodes' = DeletedNode(n, CascadeStrategy) /\ run' = NodeDone
       \/ /\ LiveKeyed(Item.ext) = {}
          /\ run' = [NodeDone EXCEPT !.errors = TRUE]
          /\ UNCHANGED nodes
    /\ UNCHANGED members

(* A variant that counts as synced what has been written only. *)
NodeFailsUncounted ==
    /\ At("items") /\ run.todo # <<>>
    /\ run' = [NodeDone EXCEPT !.errors = TRUE]
    /\ UNCHANGED <<nodes, members>>

(* A statement fails: one of the upsert, or, and then the node does not count
   as synced, the one that looks for its parent or for the node to delete. *)
NodeFails ==
    /\ At("items") /\ run.todo # <<>>
    /\ \/ /\ Item.action = "upsert"
          /\ run' = [NodeDone EXCEPT !.errors = TRUE, !.kept = @ \cup {Item.ext}]
       \/ /\ Item.action = "delete" \/ Item.parent # NoExt
          /\ run' = [NodeDone EXCEPT !.errors = TRUE]
    /\ UNCHANGED <<nodes, members>>

-----------------------------------------------------------------------------
(* AddMember on a pair without an active row *)
Added(t, m) ==
    LET removed == RemovedAt(t, m.node, m.user) IN
      IF removed # {} THEN {Revived(t, r, m) : r \in removed}
      ELSE {InsertedMember(t, r, m) : r \in MemberId \ Used(t)}

(* Variants of the upsert below. *)
UpsertedByPair(t, m) ==
    LET active == ActiveAt(t, m.node, m.user)
    IN IF active # {} THEN {Revived(t, r, m) : r \in active} ELSE Added(t, m)

UpsertedUnchecked(t, m) ==
    LET keyed == KeyedMember(t, m.source, m.ext)
    IN IF keyed # {} THEN {Rekeyed(t, r, m) : r \in keyed}
                     ELSE UpsertedByPair(t, m)

(* UpsertMemberByExternalID: the tables it may leave, none if it fails. *)
Upserted(t, m) ==
    LET keyed == IF m.ext = NoExt THEN {} ELSE KeyedMember(t, m.source, m.ext)
        active == ActiveAt(t, m.node, m.user)
    IN IF keyed # {}
         THEN {Rekeyed(t, r, m) : r \in {q \in keyed :
                 active \subseteq {q} /\ OneRowPerPair(Rekeyed(t, q, m))}}
       ELSE IF active # {}
         THEN {Revived(t, r, [m EXCEPT !.ext = IF @ = NoExt THEN t[r].ext
                                                             ELSE @]) :
                 r \in active}
       ELSE Added(t, m)

MItem == run.req.members[run.next]
AtMember == At("items") /\ run.todo = <<>> /\ run.next <= Len(run.req.members)
MemberDone == [run EXCEPT !.next = @ + 1]

AtMemberOf(action, n) == /\ AtMember /\ MItem.action = action
                         /\ n \in LiveKeyed(MItem.node)

(* No such node, or its lookup fails: an error, and the item does not count
   as synced. *)
MemberWithoutNode ==
    /\ AtMember
    /\ run' = [MemberDone EXCEPT !.errors = TRUE]
    /\ UNCHANGED <<nodes, members>>

(* resolveMMUser finds no mapping and, by email or name, no user; a lookup that
   fails counts as finding nobody. *)
MemberSkipped ==
    /\ AtMember /\ LiveKeyed(MItem.node) # {}
    /\ run' = [MemberDone EXCEPT !.skipped = TRUE]
    /\ UNCHANGED <<nodes, members>>

(* What syncedMemberExtIDs and syncedMemberNodeUserKeys get from an upsert,
   whether it succeeds or fails. *)
MemberCounted(n) ==
    [MemberDone EXCEPT
       !.keptExts = IF MItem.ext = NoExt THEN @ ELSE @ \cup {MItem.ext},
       !.keptPairs = @ \cup {<<n, MItem.user>>}]

UpsertMember ==
    /\ \E n \in NodeId :
         /\ AtMemberOf("upsert", n)
         /\ LET m == [node |-> n, user |-> MItem.user, role |-> MItem.role,
                      source |-> run.req.source, ext |-> MItem.ext]
            IN members' \in Upserted(members, m)
         /\ run' = MemberCounted(n)
    /\ UNCHANGED nodes

(* The upsert meets a conflict, or a statement of it fails. *)
UpsertMemberFails ==
    /\ \E n \in NodeId :
         /\ AtMemberOf("upsert", n)
         /\ run' = [MemberCounted(n) EXCEPT !.errors = TRUE]
    /\ UNCHANGED <<nodes, members>>

DeleteMember ==
    /\ \E n \in NodeId :
         /\ AtMemberOf("delete", n)
         /\ \/ /\ members' = MemberRemoved(members, n, MItem.user)
               /\ run' = MemberDone
            \/ /\ run' = [MemberDone EXCEPT !.errors = TRUE]
               /\ UNCHANGED members
    /\ UNCHANGED nodes

-----------------------------------------------------------------------------
(* A full sync deletes what the source has and the request did not count as
   synced; an absent list deletes nothing. *)
NodesCleaned ==
    IF run.req.nodes = <<>> THEN nodes
    ELSE SourceDeleted(nodes, run.req.source, run.kept)

MembersCleaned ==
    IF run.req.members = <<>> THEN members
    ELSE MembersSourceDeleted(members, run.req.source, run.keptExts,
                                run.keptPairs)

(* Both statements run, and the errors of either are dropped. *)
Cleanup ==
    /\ At("items") /\ run.todo = <<>> /\ run.next > Len(run.req.members)
    /\ \E ok \in IF run.req.full THEN SUBSET {"nodes", "members"} ELSE {{}} :
         /\ nodes' = IF "nodes" \in ok THEN NodesCleaned ELSE nodes
         /\ members' = IF "members" \in ok THEN MembersCleaned ELSE members
         /\ run' = [run EXCEPT !.pc = "finish",
                              !.cleaned = (ok = {"nodes", "members"})]

(* The status that the response and the sync log get. *)
Verdict == IF run.errors /\ ~run.written THEN "failed"
           ELSE IF run.errors \/ run.skipped THEN "partial_success"
           ELSE "success"

(* The verdict is reported; or the plugin crashes, whatever it has done. *)
Finish == At("finish") /\ run' = Idle /\ UNCHANGED <<nodes, members>>
Crash == At("items") /\ run' = Idle /\ UNCHANGED <<nodes, members>>

SyncStep == \/ NodeWithoutParent \/ UpsertNode \/ DeleteNode
            \/ NodeFails
            \/ MemberWithoutNode \/ MemberSkipped
            \/ UpsertMember \/ UpsertMemberFails \/ DeleteMember
            \/ Cleanup

-----------------------------------------------------------------------------
(* The administrators' handlers. *)
Edited == run' = IF At("idle") THEN run ELSE [run EXCEPT !.quiet = FALSE]

AdminCreateNode(n, p) ==
    /\ n \notin Rows(nodes)
    /\ LET root == p = NoParent
           t == Inserted(nodes, n, p, IF root THEN <<>> ELSE nodes[p].path,
                           IF root THEN -1 ELSE nodes[p].depth, Local, NoExt)
       IN Fits(t) /\ nodes' = t
    /\ Edited /\ UNCHANGED members

AdminDeleteNode(n, strategy) ==
    /\ nodes' = DeletedNode(n, strategy)
    /\ Edited /\ UNCHANGED members

AdminAddMember(n, u) ==
    /\ ActiveAt(members, n, u) = {}
    /\ \E role \in Role :
         members' \in Added(members, [node |-> n, user |-> u, role |-> role,
                                      source |-> Local, ext |-> NoExt])
    /\ Edited /\ UNCHANGED nodes

AdminRemoveMember(n, u) ==
    /\ ActiveAt(members, n, u) # {}
    /\ members' = MemberRemoved(members, n, u)
    /\ Edited /\ UNCHANGED nodes

Admin ==
    \/ \E n \in NodeId, p \in Live(nodes) \cup {NoParent} : AdminCreateNode(n, p)
    \/ \E n \in Live(nodes), strategy \in {"cascade_delete", "move_to_parent"} :
          AdminDeleteNode(n, strategy)
    \/ \E n \in Live(nodes), u \in UserId :
          AdminAddMember(n, u) \/ AdminRemoveMember(n, u)

Next == Start \/ SyncStep \/ Finish \/ Crash \/ Admin

Spec == Init /\ [][Next]_vars

-----------------------------------------------------------------------------
RunState ==
    [pc : {"items", "finish"}, req : Request, todo : Seq(NodeItem),
     kept : SUBSET ExtId, keptExts : SUBSET ExtId,
     keptPairs : SUBSET (NodeId \X UserId), next : Nat \ {0},
     errors : BOOLEAN, written : BOOLEAN, skipped : BOOLEAN,
     quiet : BOOLEAN, cleaned : BOOLEAN]

(* The tables hold rows, one membership per pair, and a run what it has got
   from its request. *)
TypeOK ==
    /\ nodes \in [NodeId -> Row]
    /\ members \in [MemberId -> MemberRow \cup {Absent}]
    /\ OneRowPerPair(members)
    /\ run = Idle \/ run \in RunState

UpsertsOnly(items) == \A i \in 1..Len(items) : items[i].action = "upsert"

(* The nodes of the node that a member item of request q names *)
Named(t, q, item) == Keyed(t, q.source, item.node)

(* The source's live nodes are those listed, once each. *)
NodesMirrored(t, q) ==
    /\ \A i \in 1..Len(q.nodes) : Cardinality(Keyed(t, q.source, q.nodes[i].ext)) = 1
    /\ \A n \in Live(t) : t[n].source = q.source =>
          \E i \in 1..Len(q.nodes) : t[n].ext = q.nodes[i].ext

(* The source's active memberships are those listed. *)
MembersMirrored(t, u, q) ==
    {<<u[r].node, u[r].user, u[r].ext>> :
        r \in {r \in Active(u) : u[r].source = q.source}}
    = UNION {{<<n, q.members[i].user, q.members[i].ext>> :
                n \in Named(t, q, q.members[i])} : i \in 1..Len(q.members)}

(* Each member item has an external id of its own, a pair of its own, and a
   node that the request does not omit. *)
MembersDistinct(q) ==
    /\ \A i \in 1..Len(q.members) :
          /\ q.members[i].ext # NoExt
          /\ q.nodes # <<>> =>
               \E j \in 1..Len(q.nodes) : q.nodes[j].ext = q.members[i].node
    /\ \A i, j \in 1..Len(q.members) :
          \/ q.members[i].ext = q.members[j].ext
          \/ /\ q.members[i].node = q.members[j].node
             /\ q.members[i].user = q.members[j].user
          => i = j

Mirrored(t, u, q) ==
    /\ q.nodes # <<>> /\ UpsertsOnly(q.nodes) => NodesMirrored(t, q)
    /\ /\ q.members # <<>>
       /\ UpsertsOnly(q.nodes) /\ UpsertsOnly(q.members)
       /\ MembersDistinct(q)
       => MembersMirrored(t, u, q)

(* A full sync that reports success, has lost no clean-up and has met no
   editing administrator, leaves the source as the request lists it, whatever
   earlier syncs, crashed or failed half-way, and administrators had left. *)
FullSyncMirrors ==
    At("finish") /\ run.quiet /\ run.cleaned /\ Verdict = "success" =>
        Mirrored(nodes, members, run.req)

(* What a sync may change of what is not its source's.  A node: only one below
   a live node of the source that the request deletes by name; children made
   by hand or by another source go with it.  A membership: only one in a node of
   its source, and one that is not an active one of the source only if the item
   at hand names its node and its user, which takes a membership made by hand
   for the source or removes it.  Clean-up reaches neither: but a later one
   deletes what an item had taken over.  (docs/sync-api-guide.md:93 and :99
   promise more: "completely isolated", and protection of what was made by
   hand.) *)
Owned(src) == {n \in NodeId : nodes'[n].source = src}

NamedForDeletion(n) ==
    AtNode("delete") /\ \E top \in LiveKeyed(Item.ext) :
                           IsPrefix(nodes[top].path, nodes[n].path)

SyncTouchesNamed ==
    [][SyncStep =>
         /\ \A n \in NodeId : nodes'[n] # nodes[n] =>
               n \in Owned(run.req.source) \/ NamedForDeletion(n)
         /\ \A r \in MemberId : members'[r] # members[r] =>
               /\ members'[r].node \in Owned(run.req.source)
               /\ \/ r \in Active(members) /\ members[r].source = run.req.source
                  \/ AtMember /\ \A row \in {members[r], members'[r]} \ {Absent} :
                        row.node \in LiveKeyed(MItem.node) /\ row.user = MItem.user]_vars

(* "parents always come before their children", as far as it is true: an item
   whose chain of parents lies in the request up to one without a parent never
   fails for its parent, unless a deletion, an edit or an earlier error has
   taken that away.  (A chain whose first parent is in the table only follows
   in input order, a child perhaps before its parent.) *)
ParentsComeFirst ==
    [][NodeWithoutParent /\ run.quiet /\ ~run.errors
          /\ UpsertsOnly(run.req.nodes)
         => Item.ext \notin Rooted(run.req.nodes)]_vars

(* The live nodes that the request lists *)
Listed == {n \in Live(nodes) :
             /\ nodes[n].source = run.req.source
             /\ \E i \in 1..Len(run.req.nodes) :
                  /\ run.req.nodes[i].action = "upsert"
                  /\ run.req.nodes[i].ext = nodes[n].ext}

ListedAsRoot == {n \in Listed :
                   \E i \in 1..Len(run.req.nodes) :
                     /\ run.req.nodes[i].ext = nodes[n].ext
                     /\ run.req.nodes[i].parent = NoExt}

(* A node listed without a parent survives the clean-up, even if its own
   upsert has failed. *)
ListedRootsSurvive == [][Cleanup => ListedAsRoot \subseteq Live(nodes')]_vars

(* "deletes a node (cascading to child nodes and memberships)": no membership
   is left active in a node that a cascade deletes. *)
CascadeTakesMembers ==
    [][\A n \in Live(nodes) : AdminDeleteNode(n, "cascade_delete") =>
         \A r \in Active(members') :
            members'[r].node \notin Live(nodes) \ Live(nodes')]_vars

-----------------------------------------------------------------------------
(* What every step keeps, and the properties above follow from. *)

(* A row hangs below a row, whose path its own path goes on from; a source
   and an external id name one live node at most. *)
NodesKept(t) ==
    /\ Shaped(t)
    /\ \A n \in Rows(t) : t[n].parent # NoParent =>
          /\ t[n].parent \in Rows(t)
          /\ IsPrefix(t[t[n].parent].path, t[n].path)
    /\ \A m, n \in Live(t) : /\ t[m].source \in Source
                             /\ t[m].source = t[n].source
                             /\ t[m].ext = t[n].ext
                             => m = n

(* A membership is in a row of the node table, and of the source of that row
   or made by hand; a source and an external id name one active membership at
   most. *)
Grounded(t, x) == /\ x.node \in Rows(t)
                  /\ \/ x.source = Local /\ x.ext = NoExt
                     \/ x.source \in Source /\ x.source = t[x.node].source

MembersKept(t, u) ==
    /\ u \in [MemberId -> MemberRow \cup {Absent}]
    /\ OneRowPerPair(u)
    /\ \A r \in Used(u) : Grounded(t, u[r])
    /\ \A r, p \in Active(u) : /\ u[r].ext # NoExt
                               /\ u[r].ext = u[p].ext
                               /\ u[r].source = u[p].source
                               => r = p

(* A sync of upserts has not met an error. *)
NodesFine(k) == ~k.errors /\ UpsertsOnly(k.req.nodes)

MembersFine(k) == /\ NodesFine(k) /\ k.quiet /\ ~k.skipped
                  /\ UpsertsOnly(k.req.members) /\ MembersDistinct(k.req)

(* A node item that has been processed: its node counts as synced and, unless
   an administrator has taken it away, is there. *)
NodeMet(t, k, item) ==
    /\ item.action = "upsert" /\ item.parent = NoExt => item.ext \in k.kept
    /\ NodesFine(k) => /\ item.ext \in k.kept
                       /\ k.quiet => Keyed(t, k.req.source, item.ext) # {}

NodeItemsKept(t, k) ==
    LET items == k.req.nodes
    IN /\ \A j \in 1..Len(k.todo) : k.todo[j] \in Range(items)
       /\ \A e \in k.kept : \E i \in 1..Len(items) : items[i].ext = e
       /\ \A i \in 1..Len(items) : items[i] \in Range(k.todo) \/ NodeMet(t, k, items[i])

(* The parent of an item still to come comes before it, or is there. *)
ParentsAhead(t, k) ==
    \A j \in 1..Len(k.todo) :
        LET parent == k.todo[j].parent
        IN k.todo[j].ext \in Rooted(k.req.nodes) /\ parent # NoExt =>
             \/ \E h \in 1..j - 1 : k.todo[h].ext = parent
             \/ NodesFine(k) /\ k.quiet => Keyed(t, k.req.source, parent) # {}

(* The member items that have been processed, and what counts as synced. *)
MemberMet(t, u, k, item) ==
    /\ item.ext \in k.keptExts
    /\ Named(t, k.req, item) # {}
    /\ \A n \in Named(t, k.req, item) :
          \E r \in Active(u) : /\ u[r].node = n /\ u[r].user = item.user
                               /\ u[r].source = k.req.source
                               /\ u[r].ext = item.ext

MemberItemsKept(t, u, k) ==
    LET items == k.req.members
        done == {i \in 1..Len(items) : i < k.next}
    IN MembersFine(k) =>
         /\ \A i \in done : MemberMet(t, u, k, items[i])
         /\ \A e \in k.keptExts : \E i \in done : items[i].ext = e
         /\ \A p \in k.keptPairs : \E i \in done :
               p[1] \in Named(t, k.req, items[i]) /\ p[2] = items[i].user

RunKept(t, u, k) ==
    /\ k \in RunState
    /\ k.pc = "items" => /\ k.todo # <<>> => k.next = 1
                         /\ NodeItemsKept(t, k)
                         /\ ParentsAhead(t, k)
                         /\ MemberItemsKept(t, u, k)
    /\ k.pc = "finish" /\ k.quiet /\ k.cleaned /\ ~k.errors /\ ~k.skipped =>
          Mirrored(t, u, k.req)

SyncInv == /\ NodesKept(nodes) /\ MembersKept(nodes, members)
           /\ run = Idle \/ RunKept(nodes, members, run)
=============================================================================
