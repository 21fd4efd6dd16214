------------------------------ MODULE NodeTable ------------------------------
(***************************************************************************)
(* The table org_directory_nodes and the SQL statements of                 *)
(* server/store/node_store.go, as operators from a table to a table.       *)
(* A row keeps the columns the tree is made of; name, icon, sort_order and *)
(* timestamps are left out.  A materialized path "/a/b/c" is the sequence  *)
(* <<a, b, c>>; `path LIKE p || '/%'` holds of the strict extensions of p. *)
(***************************************************************************)
EXTENDS Directory

CONSTANTS NoParent,    \* '' in parent_id
          MaxPathLen   \* how many ids fit in path VARCHAR(2048)

ASSUME NodeTableAssumption ==
    /\ NoParent \notin NodeId
    /\ MaxPathLen \in Nat \ {0}

Row == [status : Status, parent : NodeId \cup {NoParent}, path : Seq(NodeId),
        depth : Int, source : Source \cup {Local}, ext : ExtId \cup {NoExt}]

NoRow == [status |-> "absent", parent |-> NoParent, path |-> <<>>,
          depth |-> 0, source |-> Local, ext |-> NoExt]

Rows(t) == {n \in NodeId : t[n].status # "absent"}
Live(t) == {n \in NodeId : t[n].status = "live"}

-----------------------------------------------------------------------------
(* Reads *)

(* path LIKE p || '/%' AND delete_at = 0 *)
Below(t, p) == {n \in Live(t) : IsStrictPrefix(p, t[n].path)}

(* GetChildNodes, and with NoParent GetRootNodes *)
Children(t, p) == {n \in Live(t) : t[n].parent = p}

(* the rows GetNodeByExternalID may return the first of *)
Keyed(t, src, ext) == {n \in Live(t) : t[n].source = src /\ t[n].ext = ext}

-----------------------------------------------------------------------------
(* Writes *)

(* Variants of the statements below, as a slip in the code would have them;
   the runs are expected to notice each. *)
CycleCheckOnSelfOnly(old, ppath) == ppath = old

InsertedPathWithoutId(t, n, p, ppath, pdepth, src, ext) ==
    [t EXCEPT ![n] = [status |-> "live", parent |-> p,
                      path |-> Append(ppath, p), depth |-> pdepth + 1,
                      source |-> src, ext |-> ext]]

CascadeOnlySelf(t, n, path) ==
    [m \in NodeId |-> IF m \in {n} \cap Live(t)
                        THEN [t[m] EXCEPT !.status = "deleted"] ELSE t[m]]

CascadeOnlyBelow(t, n, path) ==
    [m \in NodeId |-> IF m \in Below(t, path)
                        THEN [t[m] EXCEPT !.status = "deleted"] ELSE t[m]]

ReparentedPathOnly(t, n, p, ppath, pdepth) ==
    [t EXCEPT ![n] = [@ EXCEPT !.path = Append(ppath, n),
                               !.depth = pdepth + 1]]

RebasedOffByOne(t, old, new, diff) ==
    [m \in NodeId |->
        IF m \in Below(t, old)
          THEN [t[m] EXCEPT !.path = new \o SubSeq(@, Len(old), Len(@)),
                            !.depth = @ + diff]
          ELSE t[m]]

NotRebased(t, old, new, diff) == t

(* The cycle check of MoveNode, on the two paths it has read. *)
MovesUnderItself(old, ppath) == ppath = old \/ IsStrictPrefix(old, ppath)

(* The INSERT of CreateNode below a parent read as (ppath, pdepth); a root
   is inserted below the empty path at depth -1. *)
Inserted(t, n, p, ppath, pdepth, src, ext) ==
    [t EXCEPT ![n] = [status |-> "live", parent |-> p,
                      path |-> Append(ppath, n), depth |-> pdepth + 1,
                      source |-> src, ext |-> ext]]

(* DeleteNode, cascade_delete: n and every live row below the path read. *)
CascadeDeleted(t, n, path) ==
    [m \in NodeId |-> IF m \in Below(t, path) \cup ({n} \cap Live(t))
                        THEN [t[m] EXCEPT !.status = "deleted"] ELSE t[m]]

(* DeleteNode, move_to_parent: the children get n's parent and keep their
   path and depth; then n is deleted. *)
PromoteDeleted(t, n, up) ==
    [m \in NodeId |->
        [t[m] EXCEPT !.parent = IF m \in Children(t, n) THEN up ELSE @,
                     !.status = IF m = n THEN "deleted" ELSE @]]

(* MoveNode, first UPDATE: the node's own row. *)
Reparented(t, n, p, ppath, pdepth) ==
    [t EXCEPT ![n] = [@ EXCEPT !.parent = p, !.path = Append(ppath, n),
                               !.depth = pdepth + 1]]

(* MoveNode, second UPDATE: the live rows below the old path. *)
Rebased(t, old, new, diff) ==
    [m \in NodeId |->
        IF m \in Below(t, old)
          THEN [t[m] EXCEPT !.path = new \o SubSeq(@, Len(old) + 1, Len(@)),
                            !.depth = @ + diff]
          ELSE t[m]]

Moved(t, n, old, odepth, p, ppath, pdepth) ==
    Rebased(Reparented(t, n, p, ppath, pdepth), old, Append(ppath, n),
            pdepth + 1 - odepth)

(* Writing a longer path is an SQL error. *)
Fits(t) == \A n \in NodeId : Len(t[n].path) <= MaxPathLen

(* SoftDeleteNodesBySource: the live rows of src whose id is not kept (an
   empty list keeps none), with no regard for the rows below them. *)
SourceDeleted(t, src, kept) ==
    [m \in NodeId |->
        IF m \in Live(t) /\ t[m].source = src /\ t[m].ext \notin kept
          THEN [t[m] EXCEPT !.status = "deleted"] ELSE t[m]]

-----------------------------------------------------------------------------
(* The shape every write keeps, whatever was read before it. *)

(* A path ends at its row's id and agrees with depth. *)
PathOfRow(t, n) ==
    LET path == t[n].path IN
      path # <<>> /\ Last(path) = n /\ t[n].depth = Len(path) - 1

(* The id before the last on a path is the row's parent_id, unless that node
   has been deleted; a path of one id is a root's. *)
ParentOfRow(t, n) ==
    LET path == t[n].path IN
      IF Len(path) > 1
        THEN \/ t[n].parent = path[Len(path) - 1]
             \/ t[path[Len(path) - 1]].status = "deleted"
        ELSE t[n].parent = NoParent

Shaped(t) == /\ t \in [NodeId -> Row]
             /\ \A n \in Rows(t) : PathOfRow(t, n) /\ ParentOfRow(t, n)

(* (path, depth) were read from row n. *)
ReadFrom(n, path, depth) ==
    /\ n \in NodeId /\ path \in Seq(NodeId)
    /\ path # <<>> /\ Last(path) = n /\ depth = Len(path) - 1

(* (ppath, pdepth) are what a row is to hang below. *)
Placed(p, ppath, pdepth) ==
    \/ p = NoParent /\ ppath = <<>> /\ pdepth = -1
    \/ ReadFrom(p, ppath, pdepth)
=============================================================================
