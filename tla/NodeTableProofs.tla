--------------------------- MODULE NodeTableProofs ---------------------------
(***************************************************************************)
(* Every statement of node_store.go keeps the table Shaped, provided what  *)
(* it writes was read from rows of a shaped table at some earlier time.    *)
(***************************************************************************)
EXTENDS NodeTable, SequenceTheorems, WellFoundedInduction, TLAPS

-----------------------------------------------------------------------------
(* Of natural numbers, one is the least. *)
LEMMA LeastNat ==
    ASSUME NEW T \in SUBSET Nat, T # {}
    PROVE  \E k \in T : \A j \in T : ~(j < k)
<1> DEFINE R == {ss \in Nat \X Nat : ss[1] < ss[2]}
<1>1. IsWellFoundedOn(R, Nat)
  BY NatLessThanWellFounded DEF OpToRel
<1>2. \A j, k \in Nat : j < k => <<j, k>> \in R
  OBVIOUS
<1> HIDE DEF R
<1>3. PICK k \in T : \A j \in T : ~(<<j, k>> \in R)
  BY <1>1, WFMin
<1> QED BY <1>2, <1>3

-----------------------------------------------------------------------------
(* Paths *)

(* A strict prefix is shorter and agrees on every index it has. *)
LEMMA StrictPrefix ==
    ASSUME NEW S, NEW old \in Seq(S), NEW p \in Seq(S), IsStrictPrefix(old, p)
    PROVE  /\ Len(old) < Len(p)
           /\ \A i \in 1 .. Len(old) : p[i] = old[i]
<1>1. Len(old) <= Len(p) /\ SubSeq(old, 1, Len(old)) = SubSeq(p, 1, Len(old)) /\ old # p
  BY DEF IsStrictPrefix, IsPrefix
<1>2. \A i \in 1 .. Len(old) : p[i] = old[i]
  <2> TAKE i \in 1 .. Len(old)
  <2>1. SubSeq(old, 1, Len(old))[i] = old[i] /\ SubSeq(p, 1, Len(old))[i] = p[i]
    BY <1>1
  <2> QED BY <1>1, <2>1
<1>3. Len(old) # Len(p)
  BY <1>1, <1>2
<1> QED BY <1>1, <1>2, <1>3

(* A path that is not a root's has an id before its last. *)
LEMMA BeforeLast ==
    ASSUME NEW S, NEW p \in Seq(S), Len(p) > 1
    PROVE  p[Len(p) - 1] \in S
<1>1. Len(p) - 1 \in 1 .. Len(p)
  BY LenProperties
<1> QED BY <1>1, ElementOfSeq

(* The second UPDATE of MoveNode keeps the last id of a path and the one
   before it, because the old and the new path of the moved node both end at
   that node, and it changes the length by the same amount for every row. *)
LEMMA RebasedPath ==
    ASSUME NEW S, NEW old \in Seq(S), NEW new \in Seq(S), NEW p \in Seq(S),
           old # <<>>, new # <<>>, Last(old) = Last(new),
           IsStrictPrefix(old, p)
    PROVE  LET q == new \o SubSeq(p, Len(old) + 1, Len(p)) IN
             /\ q \in Seq(S)
             /\ Len(q) = Len(new) + Len(p) - Len(old)
             /\ Len(q) > 1 /\ Len(p) > 1
             /\ Last(q) = Last(p)
             /\ q[Len(q) - 1] = p[Len(p) - 1]
<1> DEFINE tail == SubSeq(p, Len(old) + 1, Len(p))
           q == new \o tail
<1>1. Len(old) < Len(p) /\ \A i \in 1 .. Len(old) : p[i] = old[i]
  BY StrictPrefix
<1>2. Len(old) \in Nat /\ Len(old) > 0 /\ Len(new) \in Nat /\ Len(new) > 0 /\ Len(p) \in Nat
  BY EmptySeq, LenProperties
<1>3. /\ tail \in Seq(S)
      /\ Len(tail) = Len(p) - Len(old)
      /\ \A i \in 1 .. Len(tail) : tail[i] = p[Len(old) + i]
  <2>1. \A i \in Len(old) + 1 .. Len(p) : p[i] \in S
    BY <1>2, ElementOfSeq
  <2> QED BY <1>1, <1>2, <2>1, SubSeqProperties
<1> HIDE DEF tail
<1>4. /\ q \in Seq(S)
      /\ Len(q) = Len(new) + Len(tail)
      /\ \A i \in 1 .. Len(new) + Len(tail) :
            q[i] = IF i <= Len(new) THEN new[i] ELSE tail[i - Len(new)]
  BY <1>3, ConcatProperties
<1> HIDE DEF q
<1>5. Len(tail) \in Nat /\ Len(tail) > 0
  BY <1>1, <1>2, <1>3
<1>6. \A i \in 1 .. Len(new) : q[i] = new[i]
  <2> TAKE i \in 1 .. Len(new)
  <2>1. i \in 1 .. Len(new) + Len(tail) /\ i <= Len(new)
    BY <1>2, <1>5
  <2> QED BY <1>4, <2>1
<1>7. \A i \in 1 .. Len(tail) : q[Len(new) + i] = p[Len(old) + i]
  <2> TAKE i \in 1 .. Len(tail)
  <2>1. /\ Len(new) + i \in 1 .. Len(new) + Len(tail)
        /\ ~ (Len(new) + i <= Len(new))
        /\ (Len(new) + i) - Len(new) = i
    BY <1>2, <1>5
  <2>2. q[Len(new) + i] = tail[i]
    BY <1>4, <2>1
  <2> QED BY <1>3, <2>2
<1>8. q[Len(q)] = p[Len(p)] /\ q[Len(q) - 1] = p[Len(p) - 1]
  <2>1. Len(p) = Len(old) + Len(tail) /\ Len(q) = Len(new) + Len(tail)
    BY <1>2, <1>3, <1>4
  <2>2. old[Len(old)] = new[Len(new)]
    BY DEF Last
  <2>3. q[Len(new) + Len(tail)] = p[Len(old) + Len(tail)]
    BY <1>5, <1>7
  <2>4. q[Len(new) + Len(tail) - 1] = p[Len(old) + Len(tail) - 1]
    <3>1. CASE Len(tail) = 1
      <4>1. /\ Len(new) + Len(tail) - 1 = Len(new) /\ Len(new) \in 1 .. Len(new)
            /\ Len(old) + Len(tail) - 1 = Len(old) /\ Len(old) \in 1 .. Len(old)
        BY <1>2, <3>1
      <4> QED BY <1>1, <1>6, <2>2, <4>1
    <3>2. CASE Len(tail) > 1
      <4>1. /\ Len(tail) - 1 \in 1 .. Len(tail)
            /\ Len(new) + Len(tail) - 1 = Len(new) + (Len(tail) - 1)
            /\ Len(old) + Len(tail) - 1 = Len(old) + (Len(tail) - 1)
        BY <1>2, <1>5, <3>2
      <4>2. q[Len(new) + (Len(tail) - 1)] = p[Len(old) + (Len(tail) - 1)]
        BY <1>7, <4>1, Zenon
      <4> QED BY <1>2, <1>5, <4>2
    <3>3. Len(tail) = 1 \/ Len(tail) > 1
      BY <1>3, <1>5
    <3> QED BY <3>1, <3>2, <3>3, Zenon
  <2> QED BY <2>1, <2>3, <2>4
<1>9. /\ q \in Seq(S)
      /\ Len(q) = Len(new) + Len(p) - Len(old)
      /\ Len(q) > 1 /\ Len(p) > 1
      /\ Last(q) = Last(p)
      /\ q[Len(q) - 1] = p[Len(p) - 1]
  BY <1>1, <1>2, <1>3, <1>4, <1>5, <1>8 DEF Last
<1> QED BY <1>9 DEF q, tail

-----------------------------------------------------------------------------
(* Statements *)

(* The path and parent written for a node that is hung below (p, ppath). *)
LEMMA HungRow ==
    ASSUME NEW n \in NodeId, NEW p \in NodeId \cup {NoParent},
           NEW ppath \in Seq(NodeId), NEW pdepth \in Int,
           Placed(p, ppath, pdepth)
    PROVE  LET path == Append(ppath, n) IN
             /\ path \in Seq(NodeId) /\ path # <<>> /\ Last(path) = n
             /\ pdepth + 1 = Len(path) - 1
             /\ IF Len(path) > 1 THEN p = path[Len(path) - 1] ELSE p = NoParent
<1> DEFINE path == Append(ppath, n)
<1>1. /\ path \in Seq(NodeId) /\ Len(path) = Len(ppath) + 1
      /\ path[Len(path)] = n
      /\ \A i \in 1 .. Len(ppath) : path[i] = ppath[i]
  BY AppendProperties
<1>2. CASE p = NoParent /\ ppath = <<>> /\ pdepth = -1
  BY <1>1, <1>2 DEF Last
<1>3. CASE ReadFrom(p, ppath, pdepth)
  <2>1. Len(ppath) \in Nat /\ Len(ppath) > 0
    BY <1>3, EmptySeq, LenProperties DEF ReadFrom
  <2>2. path[Len(path) - 1] = p
    BY <1>1, <1>3, <2>1 DEF ReadFrom, Last
  <2> QED BY <1>1, <1>3, <2>1, <2>2 DEF ReadFrom, Last
<1> QED BY <1>2, <1>3 DEF Placed

(* A write that keeps paths and parents, and revives no deleted row, keeps
   the shape. *)
LEMMA SameShape ==
    ASSUME NEW t, Shaped(t), NEW u \in [NodeId -> Row], Rows(u) = Rows(t),
           \A m \in NodeId : /\ u[m].path = t[m].path /\ u[m].depth = t[m].depth
                             /\ u[m].parent = t[m].parent
                             /\ t[m].status = "deleted" => u[m].status = "deleted"
    PROVE  Shaped(u)
<1>1. ASSUME NEW n \in Rows(u)
      PROVE  PathOfRow(u, n) /\ ParentOfRow(u, n)
  <2>1. n \in NodeId /\ PathOfRow(t, n) /\ ParentOfRow(t, n) /\ t[n].path \in Seq(NodeId)
    BY <1>1 DEF Shaped, Rows, Row
  <2> DEFINE path == t[n].path
  <2>2. u[n].path = path /\ u[n].depth = t[n].depth /\ u[n].parent = t[n].parent
    BY <2>1
  <2>3. PathOfRow(u, n)
    BY <2>1, <2>2 DEF PathOfRow
  <2>4. CASE ~(Len(path) > 1)
    BY <2>1, <2>2, <2>3, <2>4 DEF ParentOfRow
  <2>5. CASE Len(path) > 1
    <3>1. path \in Seq(NodeId) /\ path # <<>>
      BY <2>1 DEF PathOfRow
    <3>3. path[Len(path) - 1] \in NodeId
      BY <2>5, <3>1, BeforeLast
    <3>4. \/ t[n].parent = path[Len(path) - 1]
          \/ t[path[Len(path) - 1]].status = "deleted"
      BY <2>1, <2>5 DEF ParentOfRow
    <3>5. t[path[Len(path) - 1]].status = "deleted"
             => u[path[Len(path) - 1]].status = "deleted"
      BY <3>3
    <3>6. \/ u[n].parent = u[n].path[Len(u[n].path) - 1]
          \/ u[u[n].path[Len(u[n].path) - 1]].status = "deleted"
      BY <2>2, <3>4, <3>5
    <3> QED BY <2>2, <2>3, <2>5, <3>6 DEF ParentOfRow
  <2> QED BY <2>3, <2>4, <2>5
<1> QED BY <1>1 DEF Shaped

(* Deleting rows, whichever they are, keeps the shape. *)
LEMMA DeletedShaped ==
    ASSUME NEW t, Shaped(t), NEW D \in SUBSET Rows(t)
    PROVE  LET u == [m \in NodeId |-> IF m \in D
                        THEN [t[m] EXCEPT !.status = "deleted"] ELSE t[m]]
           IN Shaped(u) /\ Rows(u) = Rows(t) /\ (Fits(t) => Fits(u))
<1> DEFINE u == [m \in NodeId |-> IF m \in D
                    THEN [t[m] EXCEPT !.status = "deleted"] ELSE t[m]]
<1>1. u \in [NodeId -> Row]
  BY DEF Shaped, Row, Status, Rows
<1>2. \A m \in NodeId : /\ u[m].path = t[m].path /\ u[m].depth = t[m].depth
                        /\ u[m].parent = t[m].parent
                        /\ t[m].status = "deleted" => u[m].status = "deleted"
  BY DEF Shaped, Row
<1>3. Rows(u) = Rows(t)
  BY DEF Shaped, Row, Rows
<1> HIDE DEF u
<1>4. Shaped(u)
  BY <1>1, <1>2, <1>3, SameShape
<1>5. Fits(t) => Fits(u)
  BY <1>2 DEF Fits
<1> QED BY <1>3, <1>4, <1>5 DEF u

(* DeleteNode with cascade_delete, whatever path it has read. *)
LEMMA CascadeDeletedShaped ==
    ASSUME NEW t, Shaped(t), NEW n \in NodeId, NEW path \in Seq(NodeId)
    PROVE  /\ Shaped(CascadeDeleted(t, n, path))
           /\ Rows(CascadeDeleted(t, n, path)) = Rows(t)
           /\ Fits(t) => Fits(CascadeDeleted(t, n, path))
<1> DEFINE D == Below(t, path) \cup ({n} \cap Live(t))
<1>1. D \in SUBSET Rows(t)
  BY DEF Below, Live, Rows
<1>2. CascadeDeleted(t, n, path) =
        [m \in NodeId |-> IF m \in D THEN [t[m] EXCEPT !.status = "deleted"] ELSE t[m]]
  BY DEF CascadeDeleted
<1> HIDE DEF D
<1> QED BY <1>1, <1>2, DeletedShaped

(* SoftDeleteNodesBySource, whatever it keeps. *)
LEMMA SourceDeletedShaped ==
    ASSUME NEW t, Shaped(t), NEW src, NEW kept
    PROVE  /\ Shaped(SourceDeleted(t, src, kept))
           /\ Rows(SourceDeleted(t, src, kept)) = Rows(t)
           /\ Fits(t) => Fits(SourceDeleted(t, src, kept))
<1> DEFINE D == {m \in Live(t) : t[m].source = src /\ t[m].ext \notin kept}
<1>1. D \in SUBSET Rows(t)
  BY DEF Live, Rows
<1>2. SourceDeleted(t, src, kept) =
        [m \in NodeId |-> IF m \in D THEN [t[m] EXCEPT !.status = "deleted"] ELSE t[m]]
  BY DEF SourceDeleted
<1> HIDE DEF D
<1> QED BY <1>1, <1>2, DeletedShaped

(* DeleteNode with move_to_parent: the children's parent changes and their
   paths do not, and the node on their paths is deleted. *)
LEMMA PromoteDeletedShaped ==
    ASSUME NEW t, Shaped(t), NEW n \in Rows(t), NEW up \in NodeId \cup {NoParent}
    PROVE  LET u == PromoteDeleted(t, n, up) IN
             Shaped(u) /\ Rows(u) = Rows(t) /\ (Fits(t) => Fits(u))
<1> DEFINE u == PromoteDeleted(t, n, up)
<1>1. n \in NodeId /\ n # NoParent
  BY NodeTableAssumption DEF Rows
<1>2. u \in [NodeId -> Row]
  BY DEF Shaped, Row, Status, PromoteDeleted
<1>3. \A m \in NodeId :
         /\ u[m].path = t[m].path /\ u[m].depth = t[m].depth
         /\ u[m].status = IF m = n THEN "deleted" ELSE t[m].status
         /\ u[m].parent = IF m \in Children(t, n) THEN up ELSE t[m].parent
  BY DEF Shaped, Row, PromoteDeleted
<1>4. Rows(u) = Rows(t)
  BY <1>3 DEF Rows
<1> HIDE DEF u
<1>5. ASSUME NEW m \in Rows(u)
      PROVE  PathOfRow(u, m) /\ ParentOfRow(u, m)
  <2> DEFINE path == t[m].path
             above == path[Len(path) - 1]
  <2>1. /\ m \in NodeId /\ PathOfRow(t, m) /\ ParentOfRow(t, m)
        /\ path \in Seq(NodeId)
    BY <1>4, <1>5 DEF Shaped, Rows, Row
  <2>2. PathOfRow(u, m)
    BY <1>3, <2>1 DEF PathOfRow
  <2>3. CASE Len(path) > 1
    <3>1. above \in NodeId
      BY <2>1, <2>3, BeforeLast
    <3>2. t[m].parent = above \/ t[above].status = "deleted"
      BY <2>1, <2>3 DEF ParentOfRow
    <3>3. t[above].status = "deleted" => u[above].status = "deleted"
      BY <1>3, <3>1
    <3>4. CASE m \in Children(t, n)
      <4>1. t[m].parent = n
        BY <3>4 DEF Children
      <4>2. u[above].status = "deleted"
        BY <1>1, <1>3, <3>2, <3>3, <4>1
      <4> QED BY <1>3, <2>1, <2>2, <2>3, <4>2 DEF ParentOfRow
    <3>5. CASE m \notin Children(t, n)
      <4>1. u[m].parent = above \/ u[above].status = "deleted"
        BY <1>3, <2>1, <3>2, <3>3, <3>5
      <4> QED BY <1>3, <2>1, <2>2, <2>3, <4>1 DEF ParentOfRow
    <3> QED BY <3>4, <3>5
  <2>4. CASE ~(Len(path) > 1)
    <3>1. t[m].parent = NoParent
      BY <2>1, <2>4 DEF ParentOfRow
    <3>2. m \notin Children(t, n)
      BY <1>1, <3>1 DEF Children
    <3>3. u[m].parent = NoParent
      BY <1>3, <2>1, <3>1, <3>2
    <3> QED BY <1>3, <2>1, <2>2, <2>4, <3>3 DEF ParentOfRow
  <2> QED BY <2>3, <2>4
<1>6. Shaped(u)
  BY <1>2, <1>5 DEF Shaped
<1>7. Fits(t) => Fits(u)
  BY <1>3 DEF Fits
<1> QED BY <1>4, <1>6, <1>7 DEF u

(* CreateNode's INSERT below a parent that has been read at some time. *)
LEMMA InsertedShaped ==
    ASSUME NEW t, Shaped(t), NEW n \in NodeId \ Rows(t),
           NEW p \in NodeId \cup {NoParent},
           NEW ppath \in Seq(NodeId), NEW pdepth \in Int,
           NEW src \in Source \cup {Local}, NEW ext \in ExtId \cup {NoExt},
           Placed(p, ppath, pdepth)
    PROVE  LET u == Inserted(t, n, p, ppath, pdepth, src, ext) IN
             Shaped(u) /\ Rows(t) \subseteq Rows(u)
<1> DEFINE u == Inserted(t, n, p, ppath, pdepth, src, ext)
           new == Append(ppath, n)
<1>1. /\ new \in Seq(NodeId) /\ new # <<>> /\ Last(new) = n
      /\ pdepth + 1 = Len(new) - 1
      /\ IF Len(new) > 1 THEN p = new[Len(new) - 1] ELSE p = NoParent
  BY HungRow
<1>2. u \in [NodeId -> Row]
  BY <1>1 DEF Shaped, Row, Status, Inserted
<1>3. /\ u[n].path = new /\ u[n].depth = pdepth + 1 /\ u[n].parent = p
      /\ u[n].status = "live"
      /\ \A m \in NodeId \ {n} : u[m] = t[m]
  BY DEF Shaped, Inserted
<1>4. Rows(u) = Rows(t) \cup {n}
  BY <1>3 DEF Rows
<1> HIDE DEF u
<1>5. ASSUME NEW m \in Rows(u)
      PROVE  PathOfRow(u, m) /\ ParentOfRow(u, m)
  <2>1. CASE m = n
    <3>1. PathOfRow(u, n)
      BY <1>1, <1>3 DEF PathOfRow
    <3>2. ParentOfRow(u, n)
      BY <1>1, <1>3 DEF ParentOfRow
    <3> QED BY <2>1, <3>1, <3>2
  <2>2. CASE m # n
    <3> DEFINE path == t[m].path
               above == path[Len(path) - 1]
    <3>1. /\ m \in NodeId /\ PathOfRow(t, m) /\ ParentOfRow(t, m)
          /\ path \in Seq(NodeId) /\ u[m] = t[m]
      BY <1>3, <1>4, <1>5, <2>2 DEF Shaped, Rows, Row
    <3>2. PathOfRow(u, m)
      BY <3>1 DEF PathOfRow
    <3>3. CASE Len(path) > 1
      <4>1. above \in NodeId
        BY <3>1, <3>3, BeforeLast
      <4>2. t[m].parent = above \/ t[above].status = "deleted"
        BY <3>1, <3>3 DEF ParentOfRow
      <4>3. t[above].status = "deleted" => u[above].status = "deleted"
        BY <1>3, <4>1 DEF Rows
      <4> QED BY <3>1, <3>2, <3>3, <4>2, <4>3 DEF ParentOfRow
    <3>4. CASE ~(Len(path) > 1)
      BY <3>1, <3>2, <3>4 DEF ParentOfRow
    <3> QED BY <3>3, <3>4
  <2> QED BY <2>1, <2>2
<1> QED BY <1>2, <1>4, <1>5 DEF Shaped, u

(* MoveNode's first UPDATE, with a parent that has been read at some time. *)
LEMMA ReparentedShaped ==
    ASSUME NEW t, Shaped(t), NEW n \in NodeId,
           NEW p \in NodeId \cup {NoParent},
           NEW ppath \in Seq(NodeId), NEW pdepth \in Int,
           Placed(p, ppath, pdepth)
    PROVE  LET u == Reparented(t, n, p, ppath, pdepth) IN
             Shaped(u) /\ Rows(u) = Rows(t)
<1> DEFINE u == Reparented(t, n, p, ppath, pdepth)
           new == Append(ppath, n)
<1>1. /\ new \in Seq(NodeId) /\ new # <<>> /\ Last(new) = n
      /\ pdepth + 1 = Len(new) - 1
      /\ IF Len(new) > 1 THEN p = new[Len(new) - 1] ELSE p = NoParent
  BY HungRow
<1>2. u \in [NodeId -> Row]
  <2> DEFINE row == [t[n] EXCEPT !.parent = p, !.path = new, !.depth = pdepth + 1]
  <2>1. t \in [NodeId -> Row] /\ new \in Seq(NodeId) /\ pdepth + 1 \in Int
    BY <1>1 DEF Shaped
  <2> HIDE DEF new
  <2>2. row \in Row
    BY <2>1 DEF Row
  <2>3. u = [t EXCEPT ![n] = row]
    BY DEF Reparented, new
  <2> HIDE DEF row, u
  <2> QED BY <2>1, <2>2, <2>3
<1>3. /\ u[n].path = new /\ u[n].depth = pdepth + 1 /\ u[n].parent = p
      /\ u[n].status = t[n].status
      /\ \A m \in NodeId \ {n} : u[m] = t[m]
  BY DEF Shaped, Row, Reparented
<1>4. /\ Rows(u) = Rows(t)
      /\ \A m \in NodeId : u[m].status = t[m].status
  BY <1>3 DEF Rows
<1> HIDE DEF u
<1>5. ASSUME NEW m \in Rows(u)
      PROVE  PathOfRow(u, m) /\ ParentOfRow(u, m)
  <2>1. CASE m = n
    <3>1. PathOfRow(u, n)
      BY <1>1, <1>3 DEF PathOfRow
    <3>2. ParentOfRow(u, n)
      BY <1>1, <1>3 DEF ParentOfRow
    <3> QED BY <2>1, <3>1, <3>2
  <2>2. CASE m # n
    <3> DEFINE path == t[m].path
               above == path[Len(path) - 1]
    <3>1. /\ m \in NodeId /\ PathOfRow(t, m) /\ ParentOfRow(t, m)
          /\ path \in Seq(NodeId) /\ u[m] = t[m]
      BY <1>3, <1>4, <1>5, <2>2 DEF Shaped, Rows, Row
    <3>2. PathOfRow(u, m)
      BY <3>1 DEF PathOfRow
    <3>3. CASE Len(path) > 1
      <4>1. above \in NodeId
        BY <3>1, <3>3, BeforeLast
      <4>2. t[m].parent = above \/ t[above].status = "deleted"
        BY <3>1, <3>3 DEF ParentOfRow
      <4> QED BY <1>4, <3>1, <3>2, <3>3, <4>1, <4>2 DEF ParentOfRow
    <3>4. CASE ~(Len(path) > 1)
      BY <3>1, <3>2, <3>4 DEF ParentOfRow
    <3> QED BY <3>3, <3>4
  <2> QED BY <2>1, <2>2
<1> QED BY <1>2, <1>4, <1>5 DEF Shaped, u

(* MoveNode's second UPDATE: old and new both end at the moved node. *)
LEMMA RebasedShaped ==
    ASSUME NEW t, Shaped(t), NEW old \in Seq(NodeId), NEW new \in Seq(NodeId),
           old # <<>>, new # <<>>, Last(old) = Last(new),
           NEW diff \in Int, diff = Len(new) - Len(old)
    PROVE  LET u == Rebased(t, old, new, diff) IN
             Shaped(u) /\ Rows(u) = Rows(t)
<1> DEFINE u == Rebased(t, old, new, diff)
           moved(m) == new \o SubSeq(t[m].path, Len(old) + 1, Len(t[m].path))
<1>1. \A m \in Rows(t) : /\ m \in NodeId /\ PathOfRow(t, m) /\ ParentOfRow(t, m)
                         /\ t[m].path \in Seq(NodeId) /\ t[m].depth \in Int
  BY DEF Shaped, Rows, Row
<1>2. \A m \in NodeId : /\ u[m].status = t[m].status /\ u[m].parent = t[m].parent
                        /\ m \in Below(t, old) => /\ u[m].path = moved(m)
                                                  /\ u[m].depth = t[m].depth + diff
                        /\ m \notin Below(t, old) => u[m] = t[m]
  BY DEF Shaped, Row, Rebased
<1>3. Rows(u) = Rows(t)
  BY <1>2 DEF Rows
<1>4. ASSUME NEW m \in Below(t, old)
      PROVE  /\ m \in Rows(t) /\ moved(m) \in Seq(NodeId)
             /\ Len(moved(m)) = Len(new) + Len(t[m].path) - Len(old)
             /\ Len(moved(m)) > 1 /\ Len(t[m].path) > 1
             /\ Last(moved(m)) = Last(t[m].path)
             /\ moved(m)[Len(moved(m)) - 1] = t[m].path[Len(t[m].path) - 1]
  <2>1. m \in Rows(t) /\ IsStrictPrefix(old, t[m].path)
    BY <1>4 DEF Below, Live, Rows
  <2> DEFINE path == t[m].path
             q == new \o SubSeq(path, Len(old) + 1, Len(path))
  <2>2. path \in Seq(NodeId)
    BY <1>1, <2>1
  <2> HIDE DEF path
  <2>3. /\ q \in Seq(NodeId)
        /\ Len(q) = Len(new) + Len(path) - Len(old)
        /\ Len(q) > 1 /\ Len(path) > 1
        /\ Last(q) = Last(path)
        /\ q[Len(q) - 1] = path[Len(path) - 1]
    <3>1. IsStrictPrefix(old, path)
      BY <2>1 DEF path
    <3> QED BY <2>2, <3>1, RebasedPath, ZenonT(60)
  <2> QED BY <2>1, <2>3 DEF path
<1>5. u \in [NodeId -> Row]
  <2> SUFFICES ASSUME NEW m \in NodeId PROVE u[m] \in Row
    BY DEF Rebased
  <2>1. t[m] \in Row
    BY DEF Shaped
  <2>2. CASE m \in Below(t, old)
    <3>1. moved(m) \in Seq(NodeId) /\ t[m].depth + diff \in Int
      BY <1>4, <2>1, <2>2 DEF Row
    <3>2. u[m] = [t[m] EXCEPT !.path = moved(m), !.depth = @ + diff]
      BY <2>2 DEF Rebased
    <3> HIDE DEF moved, u
    <3> QED BY <2>1, <3>1, <3>2 DEF Row
  <2>3. CASE m \notin Below(t, old)
    BY <2>1, <2>3 DEF Rebased
  <2> QED BY <2>2, <2>3
<1> HIDE DEF u
<1>6. ASSUME NEW m \in Rows(u)
      PROVE  PathOfRow(u, m) /\ ParentOfRow(u, m)
  <2> DEFINE path == t[m].path
             above == path[Len(path) - 1]
  <2>1. /\ m \in NodeId /\ PathOfRow(t, m) /\ ParentOfRow(t, m)
        /\ path \in Seq(NodeId) /\ t[m].depth \in Int
    BY <1>1, <1>3, <1>6
  <2>2. Len(path) > 1 => above \in NodeId
                         /\ (t[m].parent = above \/ t[above].status = "deleted")
    BY <2>1, BeforeLast DEF ParentOfRow
  <2>3. CASE m \in Below(t, old)
    <3> DEFINE q == moved(m)
    <3>1. /\ q \in Seq(NodeId) /\ Len(q) = Len(new) + Len(path) - Len(old)
          /\ Len(q) > 1 /\ Len(path) > 1
          /\ Last(q) = Last(path) /\ q[Len(q) - 1] = above
      BY <1>4, <2>3
    <3>2. u[m].path = q /\ u[m].depth = t[m].depth + diff /\ u[m].parent = t[m].parent
      BY <1>2, <2>1, <2>3
    <3> HIDE DEF q
    <3>3. Last(path) = m /\ t[m].depth = Len(path) - 1
      BY <2>1 DEF PathOfRow
    <3>4. PathOfRow(u, m)
      <4>1. q # <<>>
        BY <3>1, EmptySeq, LenProperties
      <4>2. t[m].depth + diff = Len(q) - 1
        BY <3>1, <3>3, LenProperties
      <4> QED BY <3>1, <3>2, <3>3, <4>1, <4>2 DEF PathOfRow
    <3>5. u[m].parent = above \/ u[above].status = "deleted"
      BY <1>2, <2>2, <3>1, <3>2
    <3>6. ParentOfRow(u, m)
      BY <3>1, <3>2, <3>5 DEF ParentOfRow
    <3> QED BY <3>4, <3>6
  <2>4. CASE m \notin Below(t, old)
    <3>1. u[m] = t[m]
      BY <1>2, <2>1, <2>4
    <3>2. PathOfRow(u, m)
      BY <2>1, <3>1 DEF PathOfRow
    <3>3. CASE Len(path) > 1
      <4>1. u[m].parent = above \/ u[above].status = "deleted"
        BY <1>2, <2>2, <3>1, <3>3
      <4> QED BY <3>1, <3>2, <3>3, <4>1 DEF ParentOfRow
    <3>4. CASE ~(Len(path) > 1)
      BY <2>1, <3>1, <3>2, <3>4 DEF ParentOfRow
    <3> QED BY <3>3, <3>4
  <2> QED BY <2>3, <2>4
<1> QED BY <1>3, <1>5, <1>6 DEF Shaped, u

(* MoveNode's transaction, whatever happened to the table since the move
   read the node's path and the new parent's. *)
LEMMA MovedShaped ==
    ASSUME NEW t, Shaped(t), NEW n \in NodeId,
           NEW old, NEW odepth, ReadFrom(n, old, odepth),
           NEW p \in NodeId \cup {NoParent},
           NEW ppath \in Seq(NodeId), NEW pdepth \in Int,
           Placed(p, ppath, pdepth)
    PROVE  LET u == Moved(t, n, old, odepth, p, ppath, pdepth) IN
             Shaped(u) /\ Rows(u) = Rows(t)
<1> DEFINE v == Reparented(t, n, p, ppath, pdepth)
           new == Append(ppath, n)
           diff == pdepth + 1 - odepth
<1>1. Shaped(v) /\ Rows(v) = Rows(t)
  BY ReparentedShaped
<1>2. new \in Seq(NodeId) /\ new # <<>> /\ Last(new) = n /\ pdepth + 1 = Len(new) - 1
  BY HungRow
<1>3. old \in Seq(NodeId) /\ old # <<>> /\ Last(old) = n /\ odepth = Len(old) - 1
  BY DEF ReadFrom
<1> HIDE DEF v, new
<1>4. diff \in Int /\ diff = Len(new) - Len(old)
  BY <1>2, <1>3, LenProperties
<1> HIDE DEF diff
<1>5. Shaped(Rebased(v, old, new, diff)) /\ Rows(Rebased(v, old, new, diff)) = Rows(v)
  BY <1>1, <1>2, <1>3, <1>4, RebasedShaped
<1> QED BY <1>1, <1>5 DEF Moved, v, new, diff

=============================================================================
