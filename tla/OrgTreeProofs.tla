---------------------------- MODULE OrgTreeProofs ----------------------------
(***************************************************************************)
(* What holds of OrgTree for every set of ids, sessions and sources, with  *)
(* any number of requests interleaved in any way.  The invariants follow   *)
(* from ShapeInv: a write may be stale, but what it writes was read from   *)
(* rows, and every statement keeps the table Shaped on such input.         *)
(***************************************************************************)
EXTENDS OrgTree, NodeTableProofs

(* In these terms ShapeInv says that the table is shaped and fits, and that
   each session is in a state that fits the table. *)
LEMMA ShapeInvAlt ==
    ShapeInv <=> /\ Shaped(nodes) /\ Fits(nodes)
                 /\ session \in [Session -> SessionState] /\ SessionOK
  BY DEF ShapeInv, TypeOK, PathWellFormed, ParentOnPath, Shaped

(* An idle session remembers nothing. *)
LEMMA IdleOK == Idle \in SessionState /\ \A t : StateOK(t, Idle)
  BY DEF Idle, SessionState, PC, StateOK

(* What a session remembers has the type of what it has read. *)
LEMMA AskedState ==
    ASSUME NEW r \in SessionState, NEW pc \in PC, NEW p \in NodeId \cup {NoParent},
           NEW src \in Source \cup {Local}, NEW ext \in ExtId \cup {NoExt}
    PROVE  /\ [r EXCEPT !.pc = pc, !.parent = p] \in SessionState
           /\ [r EXCEPT !.parent = p, !.source = src, !.ext = ext] \in SessionState
           /\ [r EXCEPT !.pc = pc] \in SessionState
           /\ \A n \in NodeId : [r EXCEPT !.pc = pc, !.node = n] \in SessionState
  BY DEF SessionState

(* A session that has read a node's row. *)
LEMMA NodeState ==
    ASSUME NEW r \in SessionState, NEW pc \in PC, NEW n \in NodeId,
           NEW p \in NodeId \cup {NoParent},
           NEW path \in Seq(NodeId), NEW depth \in Int
    PROVE  /\ [r EXCEPT !.pc = pc, !.node = n, !.parent = p, !.path = path]
                 \in SessionState
           /\ [r EXCEPT !.pc = pc, !.node = n, !.parent = p, !.path = path,
                         !.depth = depth] \in SessionState
  BY DEF SessionState

(* A session that has read a new parent's row. *)
LEMMA PlacedState ==
    ASSUME NEW r \in SessionState, NEW pc \in PC,
           NEW ppath \in Seq(NodeId), NEW pdepth \in Int
    PROVE  [r EXCEPT !.pc = pc, !.ppath = ppath, !.pdepth = pdepth] \in SessionState
  BY DEF SessionState

(* A step that leaves session s in a state that fits the table, and takes no
   row out of it, leaves every session so. *)
LEMMA Remembered ==
    ASSUME session \in [Session -> SessionState], SessionOK,
           NEW s \in Session, NEW st \in SessionState,
           StateOK(nodes', st), Rows(nodes) \subseteq Rows(nodes'),
           Goto(s, st)
    PROVE  session' \in [Session -> SessionState] /\ SessionOK'
<1>1. session' \in [Session -> SessionState]
  BY DEF Goto
<1>2. ASSUME NEW x \in Session
      PROVE  StateOK(nodes', session'[x])
  <2>1. CASE x = s
    BY <2>1 DEF Goto
  <2>2. CASE x # s
    <3>1. session'[x] = session[x] /\ StateOK(nodes, session[x])
      BY <2>2 DEF Goto, SessionOK
    <3> HIDE DEF Goto
    <3>2. StateOK(nodes', session[x])
      BY <3>1 DEF StateOK
    <3> QED BY <3>1, <3>2
  <2> QED BY <2>1, <2>2
<1> QED BY <1>1, <1>2 DEF SessionOK

(* The same when the table does not change. *)
LEMMA RememberedRead ==
    ASSUME ShapeInv, NEW s \in Session, NEW st \in SessionState,
           StateOK(nodes, st), Goto(s, st), UNCHANGED nodes
    PROVE  ShapeInv'
<1>1. /\ Shaped(nodes) /\ Fits(nodes)
      /\ session \in [Session -> SessionState] /\ SessionOK
  BY ShapeInvAlt
<1>2. /\ Shaped(nodes') /\ Fits(nodes') /\ Rows(nodes) \subseteq Rows(nodes')
      /\ StateOK(nodes', st)
  BY <1>1
<1>3. session' \in [Session -> SessionState] /\ SessionOK'
  BY <1>1, <1>2, Remembered
<1>4. TypeOK' /\ PathWellFormed' /\ ParentOnPath'
  BY <1>2, <1>3 DEF TypeOK, PathWellFormed, ParentOnPath, Shaped
<1> QED BY <1>3, <1>4 DEF ShapeInv

(* A write ends its request. *)
LEMMA RememberedWrite ==
    ASSUME ShapeInv, NEW s \in Session, Goto(s, Idle),
           Shaped(nodes'), Fits(nodes'), Rows(nodes) \subseteq Rows(nodes')
    PROVE  ShapeInv'
<1>1. session \in [Session -> SessionState] /\ SessionOK
  BY ShapeInvAlt
<1>2. session' \in [Session -> SessionState] /\ SessionOK'
  BY <1>1, Remembered, IdleOK
<1>3. TypeOK' /\ PathWellFormed' /\ ParentOnPath'
  BY <1>2 DEF TypeOK, PathWellFormed, ParentOnPath, Shaped
<1> QED BY <1>2, <1>3 DEF ShapeInv

(* What a session has read of a live or deleted row is of that row. *)
LEMMA ReadRow ==
    ASSUME NEW t, Shaped(t), NEW n \in Rows(t)
    PROVE  ReadFrom(n, t[n].path, t[n].depth) /\ t[n] \in Row
  BY DEF Shaped, Rows, PathOfRow, ReadFrom, Row

(* The empty table and idle sessions have the shape. *)
LEMMA InitShape == Init => ShapeInv
<1> SUFFICES ASSUME Init PROVE ShapeInv
  OBVIOUS
<1>1. Rows(nodes) = {}
  BY DEF Init, NoRow, Rows
<1>2. nodes \in [NodeId -> Row]
  BY DEF Init, NoRow, Row, Status
<1>3. Fits(nodes)
  <2>1. \A n \in NodeId : nodes[n].path = <<>>
    BY DEF Init, NoRow
  <2>2. Len(<<>>) <= MaxPathLen
    BY NodeTableAssumption
  <2> QED BY <2>1, <2>2 DEF Fits
<1>4. session \in [Session -> SessionState] /\ SessionOK
  BY IdleOK DEF Init, SessionOK
<1> QED BY <1>1, <1>2, <1>3, <1>4, ShapeInvAlt DEF Shaped

-----------------------------------------------------------------------------
(* Every step keeps the shape: one proof step per action. *)
LEMMA NextShape == ShapeInv /\ [Next]_vars => ShapeInv'
<1> SUFFICES ASSUME ShapeInv, [Next]_vars PROVE ShapeInv'
  OBVIOUS
<1> USE NodeTableAssumption
<1>0. /\ Shaped(nodes) /\ Fits(nodes) /\ nodes \in [NodeId -> Row]
      /\ session \in [Session -> SessionState] /\ SessionOK
  BY ShapeInvAlt DEF Shaped
<1>a. Live(nodes) \subseteq Rows(nodes) /\ Rows(nodes) \subseteq NodeId
  BY DEF Live, Rows
<1>1. ASSUME NEW s \in Session, StartCreate(s) PROVE ShapeInv'
  <2>1. PICK p \in Live(nodes) \cup {NoParent} :
           Goto(s, [Idle EXCEPT !.pc = IF p = NoParent THEN "insert" ELSE "readParent",
                                !.parent = p])
    BY <1>1 DEF StartCreate
  <2> DEFINE st == [Idle EXCEPT !.pc = IF p = NoParent THEN "insert" ELSE "readParent",
                                !.parent = p]
  <2>2. st \in SessionState
    <3>1. (IF p = NoParent THEN "insert" ELSE "readParent") \in PC
      BY DEF PC
    <3>2. p \in NodeId \cup {NoParent}
      BY <1>a
    <3> QED BY <3>1, <3>2, IdleOK, AskedState
  <2>3. StateOK(nodes, st)
    BY DEF Idle, StateOK, Placed
  <2>4. UNCHANGED nodes
    BY <1>1 DEF StartCreate
  <2> HIDE DEF st
  <2>5. Goto(s, st)
    BY <2>1 DEF st
  <2> QED BY <2>2, <2>3, <2>4, <2>5, RememberedRead
<1>2. ASSUME NEW s \in Session, ReadParent(s) PROVE ShapeInv'
  <2> DEFINE p == session[s].parent
             st == [session[s] EXCEPT !.pc = "insert", !.ppath = nodes[p].path,
                                      !.pdepth = nodes[p].depth]
  <2>1. UNCHANGED nodes
    BY <1>2 DEF ReadParent
  <2>2. CASE p \in Live(nodes)
    <3>1. ReadFrom(p, nodes[p].path, nodes[p].depth) /\ nodes[p] \in Row
      BY <1>0, <1>a, <2>2, ReadRow
    <3>2. st \in SessionState
      <4>1. "insert" \in PC /\ nodes[p].path \in Seq(NodeId) /\ nodes[p].depth \in Int
        BY <3>1 DEF PC, Row
      <4> QED BY <1>0, <4>1, PlacedState
    <3>a. st.pc = "insert" /\ st.parent = p
          /\ st.ppath = nodes[p].path /\ st.pdepth = nodes[p].depth
      BY <1>0 DEF SessionState
    <3>3. Goto(s, st)
      BY <1>2, <2>2 DEF ReadParent
    <3> HIDE DEF st
    <3>4. StateOK(nodes, st)
      BY <3>1, <3>a DEF StateOK, Placed
    <3> QED BY <2>1, <3>2, <3>3, <3>4, RememberedRead
  <2>3. CASE p \notin Live(nodes)
    <3>1. Goto(s, Idle)
      BY <1>2, <2>3 DEF ReadParent
    <3> QED BY <2>1, <3>1, IdleOK, RememberedRead
  <2> QED BY <2>2, <2>3
<1>3. ASSUME NEW s \in Session, Insert(s) PROVE ShapeInv'
  <2> DEFINE r == session[s]
  <2>1. r \in SessionState /\ r.pc = "insert" /\ StateOK(nodes, r)
    BY <1>0, <1>3 DEF Insert, At, SessionOK
  <2>2. Placed(r.parent, r.ppath, r.pdepth)
    BY <2>1 DEF StateOK
  <2>3. PICK n \in NodeId \ Rows(nodes) :
           LET t == Inserted(nodes, n, r.parent, r.ppath, r.pdepth, r.source, r.ext)
           IN nodes' = IF Fits(t) THEN t ELSE nodes
    BY <1>3 DEF Insert
  <2> DEFINE t == Inserted(nodes, n, r.parent, r.ppath, r.pdepth, r.source, r.ext)
  <2>4. /\ r.parent \in NodeId \cup {NoParent} /\ r.ppath \in Seq(NodeId)
        /\ r.pdepth \in Int /\ r.source \in Source \cup {Local}
        /\ r.ext \in ExtId \cup {NoExt}
    BY <2>1 DEF SessionState
  <2>5. nodes' = IF Fits(t) THEN t ELSE nodes
    BY <2>3
  <2> HIDE DEF r
  <2>6. Shaped(t) /\ Rows(nodes) \subseteq Rows(t)
    BY <1>0, <2>2, <2>4, InsertedShaped
  <2> HIDE DEF t
  <2>7. Shaped(nodes') /\ Fits(nodes') /\ Rows(nodes) \subseteq Rows(nodes')
    BY <1>0, <2>5, <2>6
  <2>8. Goto(s, Idle)
    BY <1>3 DEF Insert
  <2> QED BY <2>7, <2>8, RememberedWrite
<1>4. ASSUME NEW s \in Session, ReadDelete(s) PROVE ShapeInv'
  <2>1. PICK n \in Live(nodes), strategy \in Strategies :
           Goto(s, [Idle EXCEPT !.pc = strategy, !.node = n,
                                !.parent = nodes[n].parent, !.path = nodes[n].path])
    BY <1>4 DEF ReadDelete
  <2> DEFINE st == [Idle EXCEPT !.pc = strategy, !.node = n,
                                !.parent = nodes[n].parent, !.path = nodes[n].path]
  <2>2. n \in Rows(nodes) /\ nodes[n] \in Row /\ strategy \in {"cascade", "promote"}
    BY <1>0, <1>a, OrgTreeAssumption
  <2>3. st.pc = strategy /\ st.node = n
    BY DEF Idle
  <2>a. st \in SessionState
    <3>1. /\ strategy \in PC /\ n \in NodeId
          /\ nodes[n].parent \in NodeId \cup {NoParent}
          /\ nodes[n].path \in Seq(NodeId) /\ 0 \in Int
      BY <1>a, <2>2 DEF PC, Row
    <3> QED BY <3>1, IdleOK, NodeState
  <2>4. UNCHANGED nodes
    BY <1>4 DEF ReadDelete
  <2> HIDE DEF st
  <2>5. StateOK(nodes, st)
    BY <2>2, <2>3 DEF StateOK
  <2>6. Goto(s, st)
    BY <2>1 DEF st
  <2> QED BY <2>a, <2>4, <2>5, <2>6, RememberedRead
<1>5. ASSUME NEW s \in Session, Cascade(s) PROVE ShapeInv'
  <2> DEFINE r == session[s]
             t == CascadeDeleted(nodes, r.node, r.path)
  <2>1. r \in SessionState /\ r.pc = "cascade" /\ StateOK(nodes, r)
    BY <1>0, <1>5 DEF Cascade, At, SessionOK
  <2>2. r.node \in NodeId /\ r.path \in Seq(NodeId)
    BY <1>a, <2>1 DEF StateOK, SessionState
  <2>3. nodes' = t /\ Goto(s, Idle)
    BY <1>5 DEF Cascade
  <2> HIDE DEF r
  <2>4. Shaped(t) /\ Rows(t) = Rows(nodes) /\ (Fits(nodes) => Fits(t))
    BY <1>0, <2>2, CascadeDeletedShaped
  <2> QED BY <1>0, <2>3, <2>4, RememberedWrite
<1>6. ASSUME NEW s \in Session, Promote(s) PROVE ShapeInv'
  <2> DEFINE r == session[s]
             t == PromoteDeleted(nodes, r.node, r.parent)
  <2>1. r \in SessionState /\ r.pc = "promote" /\ StateOK(nodes, r)
    BY <1>0, <1>6 DEF Promote, At, SessionOK
  <2>2. r.node \in Rows(nodes) /\ r.parent \in NodeId \cup {NoParent}
    BY <2>1 DEF StateOK, SessionState
  <2>3. nodes' = t /\ Goto(s, Idle)
    BY <1>6 DEF Promote
  <2> HIDE DEF r
  <2>4. Shaped(t) /\ Rows(t) = Rows(nodes) /\ (Fits(nodes) => Fits(t))
    BY <1>0, <2>2, PromoteDeletedShaped
  <2> QED BY <1>0, <2>3, <2>4, RememberedWrite
<1>7. ASSUME NEW s \in Session, ReadMove(s) PROVE ShapeInv'
  <2>1. PICK n \in Nameable, p \in Nameable \cup {NoParent} :
           Goto(s, [Idle EXCEPT !.pc = IF p = NoParent THEN "moveWrite" ELSE "moveParent",
                                !.node = n, !.parent = p,
                                !.path = nodes[n].path, !.depth = nodes[n].depth])
    BY <1>7 DEF ReadMove
  <2> DEFINE st == [Idle EXCEPT !.pc = IF p = NoParent THEN "moveWrite" ELSE "moveParent",
                                !.node = n, !.parent = p,
                                !.path = nodes[n].path, !.depth = nodes[n].depth]
  <2>2. n \in Rows(nodes) /\ n \in NodeId /\ p \in Rows(nodes) \cup {NoParent}
    BY <1>a, <2>1 DEF Nameable
  <2>3. ReadFrom(n, nodes[n].path, nodes[n].depth) /\ nodes[n] \in Row
    BY <1>0, <2>2, ReadRow
  <2>a. st \in SessionState
    <3>1. /\ (IF p = NoParent THEN "moveWrite" ELSE "moveParent") \in PC
          /\ n \in NodeId /\ p \in NodeId \cup {NoParent}
          /\ nodes[n].path \in Seq(NodeId) /\ nodes[n].depth \in Int
      BY <1>a, <2>2, <2>3 DEF PC, Row
    <3> QED BY <3>1, IdleOK, NodeState
  <2>4. /\ st.pc = IF p = NoParent THEN "moveWrite" ELSE "moveParent"
        /\ st.node = n /\ st.parent = p /\ st.ppath = <<>> /\ st.pdepth = -1
        /\ st.path = nodes[n].path /\ st.depth = nodes[n].depth
    BY DEF Idle
  <2>5. UNCHANGED nodes
    BY <1>7 DEF ReadMove
  <2> HIDE DEF st
  <2>6. StateOK(nodes, st)
    BY <2>2, <2>3, <2>4 DEF StateOK, Placed
  <2>7. Goto(s, st)
    BY <2>1 DEF st
  <2> QED BY <2>a, <2>5, <2>6, <2>7, RememberedRead
<1>8. ASSUME NEW s \in Session, ReadNewParent(s) PROVE ShapeInv'
  <2> DEFINE r == session[s]
             p == r.parent
             st == [r EXCEPT !.pc = "moveWrite", !.ppath = nodes[p].path,
                             !.pdepth = nodes[p].depth]
  <2>1. r \in SessionState /\ r.pc = "moveParent" /\ StateOK(nodes, r)
    BY <1>0, <1>8 DEF ReadNewParent, At, SessionOK
  <2>2. p \in Rows(nodes) /\ ReadFrom(r.node, r.path, r.depth)
    BY <2>1 DEF StateOK
  <2>3. ReadFrom(p, nodes[p].path, nodes[p].depth) /\ nodes[p] \in Row
    BY <1>0, <2>2, ReadRow
  <2>4. UNCHANGED nodes
    BY <1>8 DEF ReadNewParent
  <2>5. Goto(s, Idle) \/ Goto(s, st)
    BY <1>8 DEF ReadNewParent
  <2>6. /\ st \in SessionState /\ st.pc = "moveWrite"
        /\ st.node = r.node /\ st.path = r.path /\ st.depth = r.depth
        /\ st.parent = p /\ st.ppath = nodes[p].path /\ st.pdepth = nodes[p].depth
    BY <2>1, <2>3 DEF SessionState, PC, Row
  <2> HIDE DEF r, st
  <2>7. StateOK(nodes, st)
    BY <2>2, <2>3, <2>6 DEF StateOK, Placed
  <2> QED BY <2>4, <2>5, <2>6, <2>7, IdleOK, RememberedRead
<1>9. ASSUME NEW s \in Session, WriteMove(s) PROVE ShapeInv'
  <2> DEFINE r == session[s]
             t == Moved(nodes, r.node, r.path, r.depth, r.parent, r.ppath, r.pdepth)
  <2>1. r \in SessionState /\ r.pc = "moveWrite" /\ StateOK(nodes, r)
    BY <1>0, <1>9 DEF WriteMove, At, SessionOK
  <2>2. Placed(r.parent, r.ppath, r.pdepth) /\ ReadFrom(r.node, r.path, r.depth)
    BY <2>1 DEF StateOK
  <2>3. /\ r.node \in NodeId /\ r.parent \in NodeId \cup {NoParent}
        /\ r.ppath \in Seq(NodeId) /\ r.pdepth \in Int
    BY <2>1, <2>2 DEF SessionState, ReadFrom
  <2>4. nodes' = (IF Fits(t) THEN t ELSE nodes) /\ Goto(s, Idle)
    BY <1>9 DEF WriteMove
  <2> HIDE DEF r
  <2>5. Shaped(t) /\ Rows(t) = Rows(nodes)
    BY <1>0, <2>2, <2>3, MovedShaped
  <2> HIDE DEF t
  <2>6. Shaped(nodes') /\ Fits(nodes') /\ Rows(nodes) \subseteq Rows(nodes')
    BY <1>0, <2>4, <2>5
  <2> QED BY <2>4, <2>6, RememberedWrite
<1>10. ASSUME NEW s \in Session, LookupUpsert(s) PROVE ShapeInv'
  <2>1. PICK src \in Source, ext \in ExtId, p \in Live(nodes) \cup {NoParent} :
           LET asked == [Idle EXCEPT !.parent = p, !.source = src, !.ext = ext]
           IN \/ \E n \in Keyed(nodes, src, ext) :
                   Goto(s, [asked EXCEPT !.pc = "update", !.node = n])
              \/ Goto(s, [asked EXCEPT !.pc = IF p = NoParent THEN "insert"
                                                             ELSE "readParent"])
    BY <1>10 DEF LookupUpsert
  <2> DEFINE asked == [Idle EXCEPT !.parent = p, !.source = src, !.ext = ext]
             create == [asked EXCEPT !.pc = IF p = NoParent THEN "insert"
                                                            ELSE "readParent"]
             update(n) == [asked EXCEPT !.pc = "update", !.node = n]
  <2>2. UNCHANGED nodes
    BY <1>10 DEF LookupUpsert
  <2>a. asked \in SessionState
    BY <1>a, IdleOK, AskedState DEF PC
  <2>b. asked.ppath = <<>> /\ asked.pdepth = -1 /\ asked.parent = p
    BY DEF Idle
  <2> HIDE DEF asked
  <2>3. create \in SessionState /\ StateOK(nodes, create)
    <3>2. create \in SessionState
      BY <2>a DEF SessionState, PC
    <3>3. /\ create.pc = IF p = NoParent THEN "insert" ELSE "readParent"
          /\ create.ppath = <<>> /\ create.pdepth = -1 /\ create.parent = p
      BY <2>a, <2>b DEF SessionState
    <3> HIDE DEF create
    <3> QED BY <3>2, <3>3 DEF StateOK, Placed
  <2>4. \A n \in NodeId : update(n) \in SessionState /\ StateOK(nodes, update(n))
    BY <2>a DEF SessionState, PC, StateOK
  <2>5. Keyed(nodes, src, ext) \subseteq NodeId
    BY DEF Keyed, Live
  <2>6. Goto(s, create) \/ \E n \in NodeId : Goto(s, update(n))
    BY <2>1, <2>5 DEF asked
  <2> HIDE DEF create, update
  <2> QED BY <2>2, <2>3, <2>4, <2>6, RememberedRead
<1>11. ASSUME NEW s \in Session, Update(s) \/ Fail(s) PROVE ShapeInv'
  <2>1. Goto(s, Idle) /\ UNCHANGED nodes
    BY <1>11 DEF Update, Fail
  <2> QED BY <2>1, IdleOK, RememberedRead
<1>12. CASE DeleteBySource
  <2>1. PICK src \in Source, kept \in SUBSET ExtId : nodes' = SourceDeleted(nodes, src, kept)
    BY <1>12 DEF DeleteBySource
  <2>2. Shaped(nodes') /\ Rows(nodes') = Rows(nodes) /\ Fits(nodes')
    BY <1>0, <2>1, SourceDeletedShaped
  <2>3. session' = session
    BY <1>12 DEF DeleteBySource
  <2>4. SessionOK'
    BY <1>0, <2>2, <2>3 DEF SessionOK, StateOK
  <2>5. TypeOK' /\ PathWellFormed' /\ ParentOnPath'
    BY <1>0, <2>2, <2>3 DEF TypeOK, PathWellFormed, ParentOnPath, Shaped
  <2> QED BY <2>4, <2>5 DEF ShapeInv
<1>13. CASE UNCHANGED vars
  <2>1. nodes' = nodes /\ session' = session
    BY <1>13 DEF vars
  <2> QED BY <2>1 DEF ShapeInv, TypeOK, PathWellFormed, ParentOnPath, SessionOK
<1> QED BY <1>1, <1>2, <1>3, <1>4, <1>5, <1>6, <1>7, <1>8, <1>9, <1>10, <1>11,
           <1>12, <1>13 DEF Next, Begin, Continue

(* Requests interleave as they like: the stored shape is invariant. *)
THEOREM ShapeInvariant == Spec => []ShapeInv
  BY InitShape, NextShape, PTL DEF Spec

(* The table and the sessions keep their types. *)
THEOREM TypeCorrect == Spec => []TypeOK
<1>1. ShapeInv => TypeOK
  BY DEF ShapeInv
<1> QED BY <1>1, ShapeInvariant, PTL

(* Every stored path ends at its own row, fits its column and agrees with
   depth. *)
THEOREM PathsWellFormed == Spec => []PathWellFormed
<1>1. ShapeInv => PathWellFormed
  BY DEF ShapeInv
<1> QED BY <1>1, ShapeInvariant, PTL

(* Every stored path names the row's parent last but one, or a node that
   has been deleted. *)
THEOREM ParentsOnPaths == Spec => []ParentOnPath
<1>1. ShapeInv => ParentOnPath
  BY DEF ShapeInv
<1> QED BY <1>1, ShapeInvariant, PTL

=============================================================================
