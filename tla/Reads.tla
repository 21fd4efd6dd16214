-------------------------------- MODULE Reads --------------------------------
(***************************************************************************)
(* What the read handlers of api_tree.go, api_node.go, api_search.go and   *)
(* api_sync.go and the permission walk of permissions.go make of the table *)
(* org_directory_nodes.  Some follow the stored paths, some parent_id; the *)
(* properties at the end say that a client cannot tell which.  A handler's *)
(* reads are taken at one moment here.                                     *)
(***************************************************************************)
EXTENDS OrgTree

NoLimit == -1          \* no depth, no max_depth in the query

-----------------------------------------------------------------------------
(* Reads along the stored path *)

(* GetNodePath, the breadcrumb: nodes that are gone are passed over. *)
NodePath(n) ==
    LET path == nodes[n].path
        crumbs[i \in 0..Len(path)] ==
            IF i = 0 THEN <<>>
            ELSE IF path[i] \in Live(nodes) THEN Append(crumbs[i - 1], path[i])
                                            ELSE crumbs[i - 1]
    IN crumbs[Len(path)]

(* The nodes whose members GetNodeMemberCount counts when recursive. *)
CountedNodes(n) == Below(nodes, nodes[n].path) \cup ({n} \cap Live(nodes))

(* The nodes whose members handleGetSyncNodeMembers lists when recursive. *)
MemberNodes(src, n) ==
    {n} \cup {m \in Below(nodes, nodes[n].path) : nodes[m].source = src}

(* two variants of the filter below *)
LevelInclusive(n, top) ==
    IF top = NoParent THEN nodes[n].depth ELSE nodes[n].depth - nodes[top].depth

(* The level that the filters of handleListSyncNodes compare: a root's is 0,
   and below a parent that is named, its child's. *)
Level(n, top) ==
    IF top = NoParent THEN nodes[n].depth
    ELSE nodes[n].depth - nodes[top].depth - 1

NodesBySource(src) == {n \in Live(nodes) : nodes[n].source = src}

(* handleListSyncNodes *)
Listing(src, top, depth, maxDepth) ==
    {n \in NodesBySource(src) :
        /\ top # NoParent => /\ IsStrictPrefix(nodes[top].path, nodes[n].path)
                             /\ Level(n, top) >= 0
        /\ depth # NoLimit => Level(n, top) = depth
        /\ maxDepth # NoLimit => Level(n, top) <= maxDepth}

-----------------------------------------------------------------------------
(* Reads along parent_id *)

RootNodes == Children(nodes, NoParent)

(* The nodes k steps below top *)
Generation(top, k) ==
    LET g[i \in 0..k] == IF i = 0 THEN {top}
                         ELSE UNION {Children(nodes, p) : p \in g[i - 1]}
    IN g[k]

(* buildTreeNode descends a generation at a time, for the whole tree and for a
   subtree. *)
BuildTreeNode(top, maxDepth) == UNION {Generation(top, k) : k \in 0..maxDepth}

FullTree(maxDepth) == UNION {BuildTreeNode(root, maxDepth) : root \in RootNodes}

(* handleGetSyncNodeChildren *)
SyncChildren(src, n) == {m \in Children(nodes, n) : nodes[m].source = src}

(* buildSyncNodeDTO *)
ParentExternalId(n) ==
    IF nodes[n].parent \in Live(nodes) THEN nodes[nodes[n].parent].ext ELSE NoExt

(* buildSyncNodeDTOsWithPool: parents outside the pool are fetched.  A variant
   does without. *)
PoolOnlyParentExternalId(n, pool) ==
    IF nodes[n].parent \in pool THEN nodes[nodes[n].parent].ext ELSE NoExt

PooledParentExternalId(n, pool) ==
    IF nodes[n].parent \in pool THEN nodes[nodes[n].parent].ext
    ELSE ParentExternalId(n)

-----------------------------------------------------------------------------
(* Permissions *)

RoleName == {"member", "manager", "admin"}

Weight == [member |-> 1, manager |-> 2, admin |-> 3, none |-> 0]

IsRoleSufficient(role, required) == Weight[role] >= Weight[required]

(* a variant whose loop ends a step early *)
PermittedBelowRoot(role, n, required) ==
    /\ n \in Live(nodes)
    /\ \E i \in 2..Len(nodes[n].path) :
          IsRoleSufficient(role[nodes[n].path[i]], required)

(* checkNodePermission for a user who is no system administrator and whose
   role in each node is given: some node on the path grants it. *)
Permitted(role, n, required) ==
    /\ n \in Live(nodes)
    /\ \E i \in 1..Len(nodes[n].path) :
          IsRoleSufficient(role[nodes[n].path[i]], required)

-----------------------------------------------------------------------------
(* The breadcrumb leads from a root to the node, each the parent of the next
   one, and leaves none out. *)
BreadcrumbIsLineage ==
    \A n \in Live(nodes) :
        LET crumbs == NodePath(n) IN
          /\ Last(crumbs) = n
          /\ nodes[Head(crumbs)].parent = NoParent
          /\ \A i \in 2..Len(crumbs) : nodes[crumbs[i]].parent = crumbs[i - 1]

(* "at least the required role for a node (or one of its ancestors)": a role
   in one node is good for that node and all that hang from it by parent_id,
   and for nothing else. *)
RightsInherited ==
    \A holder, n \in Live(nodes), held, required \in RoleName :
        LET role == [m \in NodeId |-> IF m = holder THEN held ELSE "none"]
            grants == \/ required = "member" \/ held = "admin"
                      \/ required = held
        IN Permitted(role, n, required)
              <=> grants /\ n \in Abstract!Subtree(holder)

(* The tree of the webapp, the listing of a source with its depth filters, the
   children and the recursive members of a node: endpoints that go by parent_id
   and endpoints that go by path and depth show the same tree. *)
EndpointsAgree ==
    LET deepest == MaxPathLen - 1
    IN /\ FullTree(deepest) = Live(nodes)
       /\ \A n \in Live(nodes) :
            CountedNodes(n) = BuildTreeNode(n, deepest)
       /\ \A src \in Source, d \in 0..deepest : \A top \in Live(nodes) \cup {NoParent} :
            /\ Listing(src, top, d, NoLimit)
                 = Generation(top, d + 1) \cap NodesBySource(src)
            /\ Listing(src, top, NoLimit, d)
                 = UNION {Listing(src, top, k, NoLimit) : k \in 0..d}
       /\ \A src \in Source, n \in Live(nodes) :
            /\ SyncChildren(src, n) = Listing(src, n, 0, NoLimit)
            /\ MemberNodes(src, n) = {n} \cup Listing(src, n, NoLimit, NoLimit)

(* Whatever nodes a response holds - the listing of a source, or as little as
   the one node a user is in - the parent_external_id of a node whose parent
   is of the same source leads, among the nodes of the source, to its parent
   and to no other node: a client can rebuild the tree from external ids. *)
ListingRebuildsTree ==
    \A src \in Source :
      LET all == Listing(src, NoParent, NoLimit, NoLimit) IN
        \A n \in all : \A pool \in {all, {n}} :
          nodes[n].parent \in all
             => {m \in all : nodes[m].ext = PooledParentExternalId(n, pool)}
                   = {nodes[n].parent}
=============================================================================
