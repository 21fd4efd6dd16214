------------------------------- MODULE OrgTree -------------------------------
(***************************************************************************)
(* server/store/node_store.go under concurrent requests.  Each request     *)
(* (handler of api_node.go, or one item of a sync) runs in a session: it   *)
(* reads rows in statements of their own, remembers them in Go variables,  *)
(* and writes later in one SQL statement or one READ COMMITTED             *)
(* transaction.  A write transaction takes effect at its commit, in one    *)
(* step; between the reads and that step the other sessions run.           *)
(***************************************************************************)
EXTENDS NodeTable

CONSTANTS Session,      \* requests that can be in flight together
          Strategies,   \* the delete strategies that are in use
          StaleIds      \* may a client name a node deleted behind its back?

ASSUME OrgTreeAssumption ==
    /\ Strategies \subseteq {"cascade", "promote"}
    /\ StaleIds \in BOOLEAN

VARIABLES nodes,     \* the table
          session    \* what each request has read so far

vars == <<nodes, session>>

(* pc names the statement that comes next. *)
PC == {"idle", "readParent", "insert", "cascade", "promote",
       "moveParent", "moveWrite", "update"}

SessionState ==
    [pc : PC, node : NodeId \cup {NoParent}, parent : NodeId \cup {NoParent},
     path : Seq(NodeId), depth : Int, ppath : Seq(NodeId), pdepth : Int,
     source : Source \cup {Local}, ext : ExtId \cup {NoExt}]

Idle == [pc |-> "idle", node |-> NoParent, parent |-> NoParent,
         path |-> <<>>, depth |-> 0, ppath |-> <<>>, pdepth |-> -1,
         source |-> Local, ext |-> NoExt]

Init == /\ nodes = [n \in NodeId |-> NoRow]
        /\ session = [s \in Session |-> Idle]

Goto(s, state) == session' = [session EXCEPT ![s] = state]
At(s, pc) == session[s].pc = pc

(* What an id in a request may name: MoveNode does not look at delete_at. *)
Nameable == IF StaleIds THEN Rows(nodes) ELSE Live(nodes)

-----------------------------------------------------------------------------
(* CreateNode, for handleCreateNode (a local node) and for the upsert.  A
   root reads no parent. *)
StartCreate(s) ==
    /\ At(s, "idle")
    /\ \E p \in Live(nodes) \cup {NoParent} :
         Goto(s, [Idle EXCEPT !.pc = IF p = NoParent THEN "insert"
                                                     ELSE "readParent",
                              !.parent = p])
    /\ UNCHANGED nodes

ReadParent(s) ==
    /\ At(s, "readParent")
    /\ LET p == session[s].parent IN
         Goto(s, IF p \in Live(nodes)
                   THEN [session[s] EXCEPT !.pc = "insert",
                                           !.ppath = nodes[p].path,
                                           !.pdepth = nodes[p].depth]
                   ELSE Idle)                        \* parent node not found
    /\ UNCHANGED nodes

Insert(s) ==
    /\ At(s, "insert")
    /\ \E n \in NodeId \ Rows(nodes) :
         LET t == Inserted(nodes, n, session[s].parent, session[s].ppath,
                           session[s].pdepth, session[s].source, session[s].ext)
         IN nodes' = IF Fits(t) THEN t ELSE nodes
    /\ Goto(s, Idle)

-----------------------------------------------------------------------------
(* DeleteNode: the row is read outside the transaction that deletes. *)
ReadDelete(s) ==
    /\ At(s, "idle")
    /\ \E n \in Live(nodes), strategy \in Strategies :
         Goto(s, [Idle EXCEPT !.pc = strategy, !.node = n,
                              !.parent = nodes[n].parent,
                              !.path = nodes[n].path])
    /\ UNCHANGED nodes

Cascade(s) ==
    /\ At(s, "cascade")
    /\ nodes' = CascadeDeleted(nodes, session[s].node, session[s].path)
    /\ Goto(s, Idle)

Promote(s) ==
    /\ At(s, "promote")
    /\ nodes' = PromoteDeleted(nodes, session[s].node, session[s].parent)
    /\ Goto(s, Idle)

-----------------------------------------------------------------------------
(* MoveNode: two SELECTs, the cycle check, then the UPDATEs.  A move to the
   root level reads no parent. *)
ReadMove(s) ==
    /\ At(s, "idle")
    /\ \E n \in Nameable, p \in Nameable \cup {NoParent} :
         Goto(s, [Idle EXCEPT !.pc = IF p = NoParent THEN "moveWrite"
                                                     ELSE "moveParent",
                              !.node = n, !.parent = p,
                              !.path = nodes[n].path,
                              !.depth = nodes[n].depth])
    /\ UNCHANGED nodes

ReadNewParent(s) ==
    /\ At(s, "moveParent")
    /\ LET p == nodes[session[s].parent] IN
         Goto(s, IF MovesUnderItself(session[s].path, p.path)
                   THEN Idle                         \* refused
                   ELSE [session[s] EXCEPT !.pc = "moveWrite",
                                           !.ppath = p.path,
                                           !.pdepth = p.depth])
    /\ UNCHANGED nodes

WriteMove(s) ==
    /\ At(s, "moveWrite")
    /\ LET r == session[s]
           t == Moved(nodes, r.node, r.path, r.depth, r.parent, r.ppath, r.pdepth)
       IN nodes' = IF Fits(t) THEN t ELSE nodes      \* else rolled back
    /\ Goto(s, Idle)

-----------------------------------------------------------------------------
(* UpsertNodeByExternalID: a lookup by key, then an update of the row found
   or a CreateNode.  The parent is '' or a node the sync has resolved. *)
LookupUpsert(s) ==
    /\ At(s, "idle")
    /\ \E src \in Source, ext \in ExtId, p \in Live(nodes) \cup {NoParent} :
         LET found == Keyed(nodes, src, ext)
             asked == [Idle EXCEPT !.parent = p, !.source = src, !.ext = ext]
         IN \/ \E n \in found :
                 Goto(s, [asked EXCEPT !.pc = "update", !.node = n])
            \/ /\ found = {}
               /\ Goto(s, [asked EXCEPT !.pc = IF p = NoParent THEN "insert"
                                                               ELSE "readParent"])
    /\ UNCHANGED nodes

(* UpdateNode writes none of the modelled columns.  The parent asked for has
   just been assigned to the row in memory, so the comparison that guards
   MoveNode compares it with itself and MoveNode is not called. *)
Update(s) ==
    /\ At(s, "update")
    /\ Goto(s, Idle)
    /\ UNCHANGED nodes

(* SoftDeleteNodesBySource, one statement. *)
DeleteBySource ==
    /\ \E src \in Source, kept \in SUBSET ExtId :
         nodes' = SourceDeleted(nodes, src, kept)
    /\ UNCHANGED session

(* The request ends in an error or with the plugin: nothing is written. *)
Fail(s) ==
    /\ session[s].pc \notin {"idle", "update"}
    /\ Goto(s, Idle)
    /\ UNCHANGED nodes

Begin(s) == StartCreate(s) \/ ReadDelete(s) \/ ReadMove(s) \/ LookupUpsert(s)

Continue(s) == \/ ReadParent(s) \/ Insert(s)
               \/ Cascade(s) \/ Promote(s)
               \/ ReadNewParent(s) \/ WriteMove(s)
               \/ Update(s) \/ Fail(s)

Next == \/ \E s \in Session : Begin(s) \/ Continue(s)
        \/ DeleteBySource

Spec == Init /\ [][Next]_vars

-----------------------------------------------------------------------------
(* The table holds rows and every session a session state. *)
TypeOK == /\ nodes \in [NodeId -> Row]
          /\ session \in [Session -> SessionState]

(* However requests interleave, the stored path of every row, deleted or
   not, ends at the row's own id, fits its column and agrees with depth:
   the shape every prefix query and every breadcrumb relies on. *)
PathWellFormed == Fits(nodes) /\ \A n \in Rows(nodes) : PathOfRow(nodes, n)

(* The id before the last on a path is the row's parent_id, unless that node
   has been deleted (move_to_parent changes the parent of its children and
   leaves their paths); a path of one id is a root's. *)
ParentOnPath == \A n \in Rows(nodes) : ParentOfRow(nodes, n)

(* What a session remembers was read from rows, so a write that comes late
   still writes paths of the right shape. *)
StateOK(t, r) ==
    /\ r.pc \in {"insert", "moveWrite"} => Placed(r.parent, r.ppath, r.pdepth)
    /\ r.pc \in {"moveParent", "moveWrite"} => ReadFrom(r.node, r.path, r.depth)
    /\ r.pc \in {"cascade", "promote"} => r.node \in Rows(t)
    /\ r.pc = "moveParent" => r.parent \in Rows(t)

SessionOK == \A s \in Session : StateOK(nodes, session[s])

(* The inductive invariant behind PathWellFormed and ParentOnPath. *)
ShapeInv == TypeOK /\ PathWellFormed /\ ParentOnPath /\ SessionOK

(* No set of live rows is closed under parent_id: there is no cycle, so
   buildTreeNode's recursion from any node ends. *)
Acyclic ==
    ~ \E C \in SUBSET Live(nodes) :
        C # {} /\ \A n \in C : nodes[n].parent \in C

(* Every live row but a root hangs from a live row, and its stored path is
   that row's path and its own id. *)
TreeConsistent ==
    \A n \in Live(nodes) :
        \/ nodes[n].parent = NoParent /\ nodes[n].path = <<n>>
        \/ /\ nodes[n].parent \in Live(nodes)
           /\ nodes[n].path = Append(nodes[nodes[n].parent].path, n)

(* "If parent changed, move the node (updates path/depth)": an upsert that
   ends without error leaves its live node below the parent it asked for. *)
UpsertMoves ==
    [][\A s \in Session :
          (Update(s) /\ session[s].node \in Live(nodes))
             => nodes'[session[s].node].parent = session[s].parent]_vars

(* "Calling repeatedly with the same data ... no duplicates, by the unique key
   source + external_id": a key names one live node at most. *)
ExternalKeyUnique ==
    \A n, m \in Live(nodes) :
        /\ nodes[n].ext # NoExt
        /\ nodes[n].ext = nodes[m].ext
        /\ nodes[n].source = nodes[m].source
        => n = m

(* What a request remembers while no other one runs: live nodes as they are,
   a place that is not below the node it moves, and a key that is free. *)
Current(t, r) ==
    /\ r.pc \in {"insert", "moveWrite"} =>
          \/ r.parent = NoParent /\ r.ppath = <<>>
          \/ r.parent \in Live(t) /\ r.ppath = t[r.parent].path
    /\ r.pc \in {"cascade", "moveParent", "moveWrite"} =>
          r.node \in Live(t) /\ r.path = t[r.node].path
    /\ r.pc = "moveParent" => r.parent \in Live(t)
    /\ r.pc = "moveWrite" => ~MovesUnderItself(r.path, r.ppath)
    /\ r.pc \in {"readParent", "insert"} =>
          \/ r.source = Local /\ r.ext = NoExt
          \/ r.source \in Source /\ r.ext \in ExtId /\ Keyed(t, r.source, r.ext) = {}

(* A node that a source has made has an external id, a local one has none. *)
KeysGiven == \A n \in Live(nodes) : nodes[n].source # Local <=> nodes[n].ext # NoExt

(* The inductive invariant behind TreeConsistent and what follows from it,
   when requests are served one at a time. *)
TreeInv == /\ ShapeInv
           /\ TreeConsistent
           /\ KeysGiven /\ ExternalKeyUnique
           /\ \A s \in Session : Current(nodes, session[s])

-----------------------------------------------------------------------------
(* What the tree promises, told by parent pointers alone. *)
Abstract == INSTANCE ParentTree
              WITH tree <- [n \in Live(nodes) |-> nodes[n].parent]

(* Served one at a time, with cascade_delete and ids that are live, the
   requests do to the parent pointers what a tree of pointers would: a
   delete takes away exactly the subtree, a move hangs it elsewhere. *)
RefinesParentTree == Abstract!Spec

(* GetSubTree's prefix query returns exactly the nodes that parent_id leads
   up from to the given node. *)
SubTreeByPath ==
    \A n \in Live(nodes) :
        Below(nodes, nodes[n].path) = Abstract!Subtree(n) \ {n}
=============================================================================
