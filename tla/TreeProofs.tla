----------------------------- MODULE TreeProofs -----------------------------
(***************************************************************************)
(* What holds of the tree when requests are served one at a time, with     *)
(* cascade_delete and ids that are live, for every set of ids, sources and *)
(* sessions: the stored paths and the parent pointers tell the same tree,  *)
(* and the table implements the tree of parent pointers.                   *)
(***************************************************************************)
EXTENDS MCOrgTreeCascade, OrgTreeProofs

-----------------------------------------------------------------------------
(* Paths *)

(* A strict prefix is a shorter path that agrees on every index it has. *)
LEMMA StrictPrefixIff ==
    ASSUME NEW S, NEW old \in Seq(S), NEW p \in Seq(S)
    PROVE  IsStrictPrefix(old, p) <=> /\ Len(old) < Len(p)
                                      /\ \A i \in 1 .. Len(old) : p[i] = old[i]
<1>1. ASSUME Len(old) < Len(p), \A i \in 1 .. Len(old) : p[i] = old[i]
      PROVE  IsStrictPrefix(old, p)
  <2>1. Len(old) \in Nat /\ Len(p) \in Nat
    BY LenProperties
  <2>2. \A i \in 1 .. Len(old) : old[i] \in S /\ p[i] \in S
    BY <1>1, <2>1, ElementOfSeq
  <2>3. /\ SubSeq(old, 1, Len(old)) \in Seq(S) /\ SubSeq(p, 1, Len(old)) \in Seq(S)
        /\ Len(SubSeq(old, 1, Len(old))) = Len(old)
        /\ Len(SubSeq(p, 1, Len(old))) = Len(old)
        /\ \A i \in 1 .. Len(old) : /\ SubSeq(old, 1, Len(old))[i] = old[i]
                                    /\ SubSeq(p, 1, Len(old))[i] = p[i]
    BY <2>1, <2>2, SubSeqProperties
  <2>4. SubSeq(old, 1, Len(old)) = SubSeq(p, 1, Len(old))
    BY <1>1, <2>3, SeqEqual
  <2> QED BY <1>1, <2>1, <2>4 DEF IsStrictPrefix, IsPrefix
<1> QED BY <1>1, StrictPrefix

(* Nothing is a strict prefix of the empty path. *)
LEMMA NotBelowRoot ==
    ASSUME NEW S, NEW old \in Seq(S), Len(old) > 0
    PROVE  ~IsStrictPrefix(old, <<>>) /\ old # <<>>
<1> DEFINE none == <<>>
<1>1. none \in Seq(S) /\ Len(none) = 0
  OBVIOUS
<1> HIDE DEF none
<1>2. IsStrictPrefix(old, none) => Len(old) < Len(none)
  BY <1>1, StrictPrefixIff
<1>3. Len(old) \in Nat
  BY LenProperties
<1>4. ~IsStrictPrefix(old, none) /\ old # none
  BY <1>1, <1>2, <1>3
<1> QED BY <1>4 DEF none

(* The strict prefixes of a path with an id appended. *)
LEMMA PrefixOfAppend ==
    ASSUME NEW S, NEW old \in Seq(S), NEW q \in Seq(S), NEW e \in S
    PROVE  IsStrictPrefix(old, Append(q, e)) <=> old = q \/ IsStrictPrefix(old, q)
<1> DEFINE p == Append(q, e)
<1>1. /\ p \in Seq(S) /\ Len(p) = Len(q) + 1
      /\ \A i \in 1 .. Len(q) : p[i] = q[i]
      /\ Len(old) \in Nat /\ Len(q) \in Nat
  BY AppendProperties, LenProperties
<1> HIDE DEF p
<1>2. IsStrictPrefix(old, p) <=> Len(old) < Len(p) /\ \A i \in 1 .. Len(old) : p[i] = old[i]
  BY <1>1, StrictPrefixIff
<1>3. IsStrictPrefix(old, q) <=> Len(old) < Len(q) /\ \A i \in 1 .. Len(old) : q[i] = old[i]
  BY StrictPrefixIff
<1>4. IsStrictPrefix(old, p) <=> old = q \/ IsStrictPrefix(old, q)
  <2>1. CASE Len(old) < Len(q)
    <3>1. \A i \in 1 .. Len(old) : p[i] = q[i]
      BY <1>1, <2>1
    <3> QED BY <1>1, <1>2, <1>3, <2>1, <3>1
  <2>2. CASE Len(old) = Len(q)
    <3>1. old = q <=> \A i \in 1 .. Len(old) : q[i] = old[i]
      BY <2>2, SeqEqual
    <3>2. \A i \in 1 .. Len(old) : p[i] = q[i]
      BY <1>1, <2>2
    <3> QED BY <1>1, <1>2, <1>3, <2>2, <3>1, <3>2
  <2>3. CASE Len(old) > Len(q)
    <3>1. ~IsStrictPrefix(old, q) /\ old # q
      BY <1>1, <1>3, <2>3
    <3>2. ~IsStrictPrefix(old, p)
      BY <1>1, <1>2, <2>3
    <3> QED BY <3>1, <3>2
  <2> QED BY <1>1, <2>1, <2>2, <2>3
<1> QED BY <1>4 DEF p

(* A sequence with one element more at its end. *)
LEMMA IsAppend ==
    ASSUME NEW S, NEW a \in Seq(S), NEW e \in S, NEW b \in Seq(S),
           Len(b) = Len(a) + 1, \A i \in 1 .. Len(a) : b[i] = a[i],
           b[Len(a) + 1] = e
    PROVE  b = Append(a, e)
<1>1. /\ Append(a, e) \in Seq(S)
      /\ Len(Append(a, e)) = Len(a) + 1
      /\ \A i \in 1 .. Len(a) : Append(a, e)[i] = a[i]
      /\ Append(a, e)[Len(a) + 1] = e
      /\ Len(a) \in Nat
  BY AppendProperties, LenProperties
<1>2. \A i \in 1 .. Len(b) : b[i] = Append(a, e)[i]
  <2> TAKE i \in 1 .. Len(b)
  <2>1. i \in 1 .. Len(a) \/ i = Len(a) + 1
    BY <1>1
  <2> QED BY <1>1, <2>1
<1> QED BY <1>1, <1>2, SeqEqual

(* What MoveNode's second UPDATE makes of a path. *)
Onto(old, new, p) == new \o SubSeq(p, Len(old) + 1, Len(p))

(* Rebasing a path and then appending an id is rebasing the longer path. *)
LEMMA RebasedAppend ==
    ASSUME NEW old \in Seq(NodeId), NEW new \in Seq(NodeId),
           NEW q \in Seq(NodeId), NEW e \in NodeId,
           old = q \/ IsStrictPrefix(old, q)
    PROVE  Onto(old, new, Append(q, e)) = Append(Onto(old, new, q), e)
<1> DEFINE p == Append(q, e)
           tail == SubSeq(q, Len(old) + 1, Len(q))
           longer == SubSeq(p, Len(old) + 1, Len(p))
<1>1. /\ p \in Seq(NodeId) /\ Len(p) = Len(q) + 1
      /\ \A i \in 1 .. Len(q) : p[i] = q[i]
      /\ p[Len(q) + 1] = e
      /\ Len(old) \in Nat /\ Len(q) \in Nat
  BY AppendProperties, LenProperties
<1> HIDE DEF p
<1>2. Len(old) <= Len(q)
  BY <1>1, StrictPrefixIff
<1>3. /\ tail \in Seq(NodeId) /\ Len(tail) = Len(q) - Len(old)
      /\ \A i \in 1 .. Len(tail) : tail[i] = q[Len(old) + i]
  <2>1. \A i \in Len(old) + 1 .. Len(q) : q[i] \in NodeId
    BY <1>1, ElementOfSeq
  <2>2. CASE Len(old) < Len(q)
    BY <1>1, <2>1, <2>2, SubSeqProperties
  <2>3. CASE Len(old) = Len(q)
    BY <1>1, <2>1, <2>3, SubSeqProperties
  <2> QED BY <1>1, <1>2, <2>2, <2>3
<1>4. /\ longer \in Seq(NodeId) /\ Len(longer) = Len(q) + 1 - Len(old)
      /\ \A i \in 1 .. Len(longer) : longer[i] = p[Len(old) + i]
  <2>1. \A i \in Len(old) + 1 .. Len(p) : p[i] \in NodeId
    BY <1>1, ElementOfSeq
  <2> QED BY <1>1, <1>2, <2>1, SubSeqProperties
<1> HIDE DEF tail, longer
<1>a. /\ Len(tail) \in Nat /\ Len(longer) = Len(tail) + 1
      /\ Len(old) + Len(tail) = Len(q)
  BY <1>1, <1>2, <1>3, <1>4
<1>5. longer = Append(tail, e)
  <2>1. ASSUME NEW i \in 1 .. Len(tail) PROVE longer[i] = tail[i]
    <3>1. i \in 1 .. Len(longer) /\ Len(old) + i \in 1 .. Len(q)
      BY <1>1, <1>a
    <3>2. longer[i] = p[Len(old) + i] /\ tail[i] = q[Len(old) + i]
      BY <1>3, <1>4, <3>1, Zenon
    <3> QED BY <1>1, <3>1, <3>2, Zenon
  <2>2. longer[Len(tail) + 1] = e
    <3>1. Len(tail) + 1 \in 1 .. Len(longer)
      BY <1>a
    <3>2. Len(old) + (Len(tail) + 1) = Len(q) + 1
      BY <1>1, <1>a
    <3>3. longer[Len(tail) + 1] = p[Len(old) + (Len(tail) + 1)]
      BY <1>4, <3>1, Zenon
    <3> QED BY <1>1, <3>2, <3>3
  <2>3. tail \in Seq(NodeId) /\ longer \in Seq(NodeId) /\ Len(longer) = Len(tail) + 1
    BY <1>3, <1>4, <1>a
  <2>4. \A i \in 1 .. Len(tail) : longer[i] = tail[i]
    BY <2>1
  <2> QED BY <2>2, <2>3, <2>4, IsAppend, Zenon
<1>6. new \o Append(tail, e) = Append(new \o tail, e)
  <2>1. Append(tail, e) = tail \o <<e>>
    BY <1>3, AppendIsConcat
  <2>2. new \o tail \in Seq(NodeId)
    BY <1>3, ConcatProperties
  <2>3. Append(new \o tail, e) = (new \o tail) \o <<e>>
    BY <2>2, AppendIsConcat
  <2>4. <<e>> \in Seq(NodeId)
    OBVIOUS
  <2> QED BY <1>3, <2>1, <2>3, <2>4, ConcatAssociative
<1> QED BY <1>5, <1>6 DEF p, tail, longer, Onto

-----------------------------------------------------------------------------
(* A table whose paths and parents agree *)

(* TreeConsistent, of any table. *)
Hung(t, n) ==
    \/ t[n].parent = NoParent /\ t[n].path = <<n>>
    \/ t[n].parent \in Live(t) /\ t[n].path = Append(t[t[n].parent].path, n)

Consistent(t) == /\ Shaped(t)
                 /\ \A n \in Live(t) : Hung(t, n)

LEMMA ConsistentNodes == Shaped(nodes) /\ TreeConsistent <=> Consistent(nodes)
  BY DEF TreeConsistent, Consistent, Hung

(* A live row's path is a path that ends at the row. *)
LEMMA LivePath ==
    ASSUME NEW t, Shaped(t), NEW n \in Live(t)
    PROVE  /\ n \in NodeId /\ n \in Rows(t) /\ t[n] \in Row
           /\ t[n].path \in Seq(NodeId) /\ t[n].path # <<>>
           /\ Last(t[n].path) = n
           /\ Len(t[n].path) \in Nat /\ Len(t[n].path) > 0
           /\ t[n].path[Len(t[n].path)] = n
           /\ t[n].parent \in NodeId \cup {NoParent}
<1>1. /\ n \in NodeId /\ n \in Rows(t) /\ t[n] \in Row /\ PathOfRow(t, n)
  BY DEF Live, Rows, Shaped
<1>2. /\ t[n].path \in Seq(NodeId) /\ t[n].path # <<>> /\ Last(t[n].path) = n
      /\ t[n].parent \in NodeId \cup {NoParent}
  BY <1>1 DEF Row, PathOfRow
<1>3. Len(t[n].path) \in Nat /\ Len(t[n].path) > 0
  BY <1>2, EmptySeq
<1> QED BY <1>1, <1>2, <1>3 DEF Last

(* A live row is below n if its parent is, or is n. *)
LEMMA BelowChild ==
    ASSUME NEW t, Consistent(t), NEW n \in Live(t), NEW m \in Live(t)
    PROVE  m \in Below(t, t[n].path)
             <=> t[m].parent = n \/ t[m].parent \in Below(t, t[n].path)
<1> DEFINE old == t[n].path
           p == t[m].parent
<1>1. /\ n \in NodeId /\ m \in NodeId /\ old \in Seq(NodeId) /\ old # <<>>
      /\ Last(old) = n /\ Shaped(t) /\ Hung(t, m)
      /\ NoParent \notin NodeId
  BY LivePath, NodeTableAssumption DEF Consistent
<1>2. m \in Below(t, old) <=> IsStrictPrefix(old, t[m].path)
  BY DEF Below
<1>3. CASE p = NoParent /\ t[m].path = <<m>>
  <2>1. p # n /\ p \notin Below(t, old)
    BY <1>1, <1>3 DEF Below, Live
  <2>2. ~IsStrictPrefix(old, <<m>>)
    <3>1. <<m>> \in Seq(NodeId) /\ Len(<<m>>) = 1
      BY <1>1
    <3>2. Len(old) \in Nat /\ Len(old) # 0
      BY <1>1, EmptySeq
    <3>3. IsStrictPrefix(old, <<m>>) => Len(old) < Len(<<m>>)
      BY <1>1, <3>1, StrictPrefixIff
    <3> QED BY <3>1, <3>2, <3>3
  <2> QED BY <1>2, <1>3, <2>1, <2>2
<1>4. CASE p \in Live(t) /\ t[m].path = Append(t[p].path, m)
  <2>1. t[p].path \in Seq(NodeId) /\ Last(t[p].path) = p
    BY <1>1, <1>4, LivePath
  <2>2. IsStrictPrefix(old, t[m].path) <=> old = t[p].path \/ IsStrictPrefix(old, t[p].path)
    BY <1>1, <1>4, <2>1, PrefixOfAppend
  <2>3. old = t[p].path <=> p = n
    BY <1>1, <2>1
  <2>4. p \in Below(t, old) <=> IsStrictPrefix(old, t[p].path)
    BY <1>4 DEF Below
  <2> QED BY <1>2, <2>2, <2>3, <2>4
<1> QED BY <1>1, <1>3, <1>4 DEF Hung

(* No row is below itself. *)
LEMMA NotBelowItself ==
    ASSUME NEW t, NEW n
    PROVE  n \notin Below(t, t[n].path)
  BY DEF Below, IsStrictPrefix

(* A live row's path is longer than its parent's. *)
LEMMA ParentShorter ==
    ASSUME NEW t, Consistent(t), NEW m \in Live(t), t[m].parent \in Live(t)
    PROVE  Len(t[m].path) = Len(t[t[m].parent].path) + 1
<1> DEFINE p == t[m].parent
<1>1. t[m].path = Append(t[p].path, m)
  BY NodeTableAssumption DEF Consistent, Hung, Live
<1>2. t[p].path \in Seq(NodeId) /\ m \in NodeId
  BY LivePath DEF Consistent
<1> QED BY <1>1, <1>2, AppendProperties

(* Among the rows of a set that is not empty, one has a shortest path. *)
LEMMA ShortestPath ==
    ASSUME NEW t, Shaped(t), NEW C \in SUBSET Live(t), C # {}
    PROVE  \E n \in C : \A m \in C : ~(Len(t[m].path) < Len(t[n].path))
<1> DEFINE T == {Len(t[n].path) : n \in C}
<1>1. T \subseteq Nat /\ T # {}
  <2>1. \A n \in C : Len(t[n].path) \in Nat
    BY LivePath
  <2> QED BY <2>1
<1>2. PICK k \in T : \A j \in T : ~(j < k)
  BY <1>1, LeastNat
<1>3. PICK n \in C : k = Len(t[n].path)
  BY <1>2
<1>4. \A m \in C : Len(t[m].path) \in T
  OBVIOUS
<1> HIDE DEF T
<1>5. \A m \in C : ~(Len(t[m].path) < Len(t[n].path))
  BY <1>2, <1>3, <1>4
<1> QED BY <1>5

-----------------------------------------------------------------------------
(* The subtree of a node *)

(* No set of rows of a consistent table is closed under parent_id. *)
LEMMA ConsistentAcyclic ==
    ASSUME NEW t, Consistent(t), NEW C \in SUBSET Live(t), C # {}
    PROVE  \E n \in C : t[n].parent \notin C
<1>1. PICK n \in C : \A m \in C : ~(Len(t[m].path) < Len(t[n].path))
  BY ShortestPath DEF Consistent
<1>2. t[n].parent \notin C
  <2> SUFFICES ASSUME t[n].parent \in C PROVE FALSE
    OBVIOUS
  <2>1. Len(t[n].path) = Len(t[t[n].parent].path) + 1
    BY ParentShorter
  <2>2. Len(t[t[n].parent].path) \in Nat
    BY LivePath DEF Consistent
  <2> QED BY <1>1, <2>1, <2>2
<1> QED BY <1>2

(* What must be in every set of live rows that has n and the children of its
   members: n and the rows whose path extends n's. *)
LEMMA SubtreeIsBelow ==
    ASSUME NEW t, Consistent(t), NEW n \in Live(t), NEW m \in Live(t)
    PROVE  m \in {n} \cup Below(t, t[n].path)
             <=> \A S \in SUBSET Live(t) :
                    (/\ n \in S
                     /\ \A x \in Live(t) : t[x].parent \in S => x \in S) => m \in S
<1> DEFINE B == {n} \cup Below(t, t[n].path)
<1>1. B \subseteq Live(t)
  BY DEF Below
<1>2. ASSUME NEW x \in Live(t), t[x].parent \in B PROVE x \in B
  <2>1. t[x].parent = n \/ t[x].parent \in Below(t, t[n].path)
    BY <1>2
  <2> QED BY <2>1, BelowChild
<1>3. ASSUME NEW S \in SUBSET Live(t), n \in S,
             \A x \in Live(t) : t[x].parent \in S => x \in S
      PROVE  B \subseteq S
  <2> SUFFICES ASSUME B \ S # {} PROVE FALSE
    OBVIOUS
  <2> DEFINE C == B \ S
  <2>1. C \in SUBSET Live(t) /\ C # {}
    BY <1>1
  <2> HIDE DEF C
  <2>2. PICK x \in C : t[x].parent \notin C
    BY <2>1, ConsistentAcyclic
  <2>3. x \in Below(t, t[n].path) /\ x \in Live(t) /\ x \notin S
    BY <1>1, <1>3, <2>2 DEF C
  <2>4. t[x].parent \in B
    BY <2>3, BelowChild
  <2>5. t[x].parent \in S
    BY <2>2, <2>4 DEF C
  <2> QED BY <1>3, <2>3, <2>5
<1> HIDE DEF B
<1>4. n \in B
  BY DEF B
<1>5. m \in B
        <=> \A S \in SUBSET Live(t) :
               (/\ n \in S
                /\ \A x \in Live(t) : t[x].parent \in S => x \in S) => m \in S
  BY <1>1, <1>2, <1>3, <1>4
<1> QED BY <1>5 DEF B

(* In these terms the subtree of ParentTree is what lies below the path. *)
LEMMA SubtreeByPath ==
    ASSUME Shaped(nodes), TreeConsistent, NEW n \in Live(nodes)
    PROVE  Abstract!Subtree(n) = {n} \cup Below(nodes, nodes[n].path)
<1> DEFINE tree == [x \in Live(nodes) |-> nodes[x].parent]
<1>1. Abstract!Subtree(n)
        = {m \in Live(nodes) :
             \A S \in SUBSET Live(nodes) :
                (/\ n \in S
                 /\ \A x \in Live(nodes) : nodes[x].parent \in S => x \in S) => m \in S}
  BY DEF Abstract!Subtree
<1>2. Consistent(nodes)
  BY ConsistentNodes
<1>3. Below(nodes, nodes[n].path) \subseteq Live(nodes)
  BY DEF Below
<1> QED BY <1>1, <1>2, <1>3, SubtreeIsBelow

-----------------------------------------------------------------------------
(* What the three writes do to the live rows and their parents *)

SameParents(t, u, S) == \A m \in S : u[m].parent = t[m].parent

Grown(t, u, n, p) ==
    /\ n \in NodeId \ Live(t) /\ p \in Live(t) \cup {NoParent}
    /\ Live(u) = Live(t) \cup {n} /\ u[n].parent = p
    /\ SameParents(t, u, Live(t))

Pruned(t, u, n) ==
    /\ n \in Live(t)
    /\ Live(u) = Live(t) \ ({n} \cup Below(t, t[n].path))
    /\ SameParents(t, u, Live(u))

Rehung(t, u, n, p) ==
    /\ n \in Live(t)
    /\ p \in (Live(t) \ ({n} \cup Below(t, t[n].path))) \cup {NoParent}
    /\ Live(u) = Live(t) /\ u[n].parent = p
    /\ SameParents(t, u, Live(t) \ {n})

(* The live rows are still of the same source and external id. *)
SameKeys(t, u, S) == \A m \in S : u[m].source = t[m].source /\ u[m].ext = t[m].ext

-----------------------------------------------------------------------------
(* Statements that are given what is in the table *)

(* The place of a root, or below a live row as it is. *)
Place(t, p, ppath) == \/ p = NoParent /\ ppath = <<>>
                      \/ p \in Live(t) /\ ppath = t[p].path

(* DeleteNode with cascade_delete takes away the subtree, and what is left
   is left as it was. *)
LEMMA CascadeConsistent ==
    ASSUME NEW t, Consistent(t), NEW n \in Live(t)
    PROVE  LET u == CascadeDeleted(t, n, t[n].path) IN
             /\ Consistent(u)
             /\ Live(u) = Live(t) \ ({n} \cup Below(t, t[n].path))
             /\ \A m \in Live(u) : u[m] = t[m]
<1> DEFINE B == {n} \cup Below(t, t[n].path)
           u == CascadeDeleted(t, n, t[n].path)
<1>1. Shaped(t) /\ Shaped(u) /\ n \in NodeId
  BY LivePath, CascadeDeletedShaped DEF Consistent
<1>2. \A m \in NodeId : u[m] = IF m \in B THEN [t[m] EXCEPT !.status = "deleted"] ELSE t[m]
  BY DEF CascadeDeleted
<1>3. \A m \in NodeId : [t[m] EXCEPT !.status = "deleted"].status # "live"
  <2> TAKE m \in NodeId
  <2>1. t[m] \in Row
    BY <1>1 DEF Shaped
  <2> QED BY <2>1 DEF Row
<1> HIDE DEF u
<1>4. Live(u) = Live(t) \ B /\ \A m \in Live(u) : u[m] = t[m]
  <2> HIDE DEF B
  <2> QED BY <1>2, <1>3 DEF Live
<1>5. ASSUME NEW m \in Live(u) PROVE Hung(u, m)
  <2>1. m \in Live(t) /\ m \notin B /\ u[m] = t[m] /\ Hung(t, m)
    BY <1>4, <1>5 DEF Consistent
  <2>2. t[m].parent \notin B
    BY <2>1, BelowChild
  <2>3. t[m].parent \in Live(t) =>
          t[m].parent \in Live(u) /\ u[t[m].parent] = t[t[m].parent]
    BY <1>4, <2>2
  <2> QED BY <2>1, <2>3 DEF Hung
<1> QED BY <1>1, <1>4, <1>5 DEF Consistent, u, B

(* CreateNode adds a leaf. *)
LEMMA InsertedConsistent ==
    ASSUME NEW t, Consistent(t), NEW n \in NodeId \ Rows(t),
           NEW p, NEW ppath, NEW pdepth, NEW src, NEW ext, Place(t, p, ppath),
           Shaped(Inserted(t, n, p, ppath, pdepth, src, ext))
    PROVE  LET u == Inserted(t, n, p, ppath, pdepth, src, ext) IN
             /\ Consistent(u)
             /\ Live(u) = Live(t) \cup {n}
             /\ \A m \in Live(t) : u[m] = t[m]
             /\ u[n].parent = p /\ u[n].source = src /\ u[n].ext = ext
<1> DEFINE u == Inserted(t, n, p, ppath, pdepth, src, ext)
<1>1. t \in [NodeId -> Row] /\ n \notin Live(t) /\ Live(t) \subseteq NodeId
  BY DEF Consistent, Shaped, Live, Rows
<1>2. /\ u[n].status = "live" /\ u[n].path = Append(ppath, n) /\ u[n].parent = p
      /\ u[n].source = src /\ u[n].ext = ext
      /\ \A m \in NodeId \ {n} : u[m] = t[m]
  BY <1>1 DEF Inserted
<1>3. Shaped(u)
  OBVIOUS
<1> HIDE DEF u
<1>4. Live(u) = Live(t) \cup {n} /\ \A m \in Live(t) : u[m] = t[m]
  BY <1>1, <1>2 DEF Live
<1>5. Hung(u, n)
  <2>1. Append(<<>>, n) = <<n>>
    OBVIOUS
  <2> QED BY <1>2, <1>4, <2>1 DEF Place, Hung
<1>6. ASSUME NEW m \in Live(t) PROVE Hung(u, m)
  <2>1. Hung(t, m)
    BY DEF Consistent
  <2> QED BY <1>4, <2>1 DEF Hung
<1> QED BY <1>2, <1>3, <1>4, <1>5, <1>6 DEF Consistent, u

(* MoveNode hangs the subtree of n below p, if p is not in it. *)
LEMMA MovedConsistent ==
    ASSUME NEW t, Consistent(t), NEW n \in Live(t),
           NEW odepth, NEW p, NEW ppath, NEW pdepth, Place(t, p, ppath),
           ~MovesUnderItself(t[n].path, ppath),
           Shaped(Moved(t, n, t[n].path, odepth, p, ppath, pdepth))
    PROVE  LET u == Moved(t, n, t[n].path, odepth, p, ppath, pdepth) IN
             Consistent(u) /\ Rehung(t, u, n, p) /\ SameKeys(t, u, Live(t))
<1> DEFINE old == t[n].path
           new == Append(ppath, n)
           v == Reparented(t, n, p, ppath, pdepth)
           diff == pdepth + 1 - odepth
           u == Rebased(v, old, new, diff)
           B == Below(t, old)
           rebased(q) == Onto(old, new, q)
<1>0. u = Moved(t, n, old, odepth, p, ppath, pdepth)
  BY DEF Moved
<1>1. /\ t \in [NodeId -> Row] /\ Shaped(t) /\ n \in NodeId /\ Live(t) \subseteq NodeId
      /\ old \in Seq(NodeId) /\ old # <<>> /\ ppath \in Seq(NodeId)
  <2>1. Shaped(t) /\ t \in [NodeId -> Row] /\ Live(t) \subseteq NodeId
    BY DEF Consistent, Shaped, Live
  <2>2. n \in NodeId /\ old \in Seq(NodeId) /\ old # <<>>
    BY <2>1, LivePath
  <2>3. p \in Live(t) => t[p].path \in Seq(NodeId)
    BY <2>1, LivePath
  <2>4. ppath \in Seq(NodeId)
    BY <2>3, EmptySeq DEF Place
  <2> QED BY <2>1, <2>2, <2>4
<1>2. /\ v[n].status = "live" /\ v[n].path = new /\ v[n].parent = p
      /\ v[n].source = t[n].source /\ v[n].ext = t[n].ext
      /\ \A m \in NodeId \ {n} : v[m] = t[m]
  BY <1>1 DEF Reparented, Row, Live
<1>3. new \in Seq(NodeId)
  BY <1>1, AppendProperties
<1>4. ~IsStrictPrefix(old, ppath) /\ old # ppath /\ ~IsStrictPrefix(old, new)
  <2>1. ~IsStrictPrefix(old, ppath) /\ old # ppath
    BY DEF MovesUnderItself
  <2> QED BY <1>1, <2>1, PrefixOfAppend
<1> HIDE DEF v, new
<1>5. Below(v, old) = B
  <2>1. n \notin Below(v, old) /\ n \notin B
    BY <1>2, <1>4, NotBelowItself DEF Below
  <2>2. \A m \in NodeId \ {n} : m \in Below(v, old) <=> m \in B
    BY <1>2 DEF Below, Live
  <2>3. Below(v, old) \subseteq NodeId /\ B \subseteq NodeId
    BY DEF Below, Live
  <2> QED BY <2>1, <2>2, <2>3
<1>6. n \notin B
  BY NotBelowItself
<1>a. \A m \in NodeId :
         /\ m \notin B => u[m] = v[m]
         /\ m \in B => u[m] = [t[m] EXCEPT !.path = rebased(t[m].path), !.depth = @ + diff]
  BY <1>2, <1>5, <1>6 DEF Rebased, Onto
<1>b. \A m \in NodeId : /\ u[m].status = t[m].status
                        /\ u[m].parent = IF m = n THEN p ELSE t[m].parent
                        /\ u[m].source = t[m].source /\ u[m].ext = t[m].ext
  <2> HIDE DEF u, rebased, diff, B
  <2>1. \A m \in NodeId : t[m] \in Row
    BY <1>1
  <2>2. t[n].status = "live"
    BY DEF Live
  <2> QED BY <1>2, <1>6, <1>a, <2>1, <2>2 DEF Row
<1>c. /\ u[n].path = new
      /\ \A m \in B : u[m].path = rebased(t[m].path)
      /\ \A m \in NodeId \ ({n} \cup B) : u[m].path = t[m].path
  <2> HIDE DEF u, rebased, diff
  <2>1. \A m \in B : m \in NodeId /\ t[m] \in Row
    BY <1>1 DEF Below, Live
  <2> HIDE DEF B
  <2>2. u[n].path = new
    BY <1>1, <1>2, <1>6, <1>a
  <2>3. ASSUME NEW m \in B PROVE u[m].path = rebased(t[m].path)
    BY <1>a, <2>1 DEF Row
  <2>4. ASSUME NEW m \in NodeId \ ({n} \cup B) PROVE u[m].path = t[m].path
    BY <1>2, <1>a
  <2> QED BY <2>2, <2>3, <2>4
<1>d. Live(u) = Live(t)
  BY <1>b DEF Live
<1> HIDE DEF u
<1>7. Hung(u, n)
  <2>1. CASE p = NoParent /\ ppath = <<>>
    <3>1. new = <<n>>
      BY <1>1, <2>1 DEF new
    <3> QED BY <1>1, <1>b, <1>c, <2>1, <3>1 DEF Hung
  <2>2. CASE p \in Live(t) /\ ppath = t[p].path
    <3>1. p # n /\ p \notin B
      BY <1>4, <2>2 DEF Below
    <3>2. u[p].path = ppath
      BY <1>1, <1>c, <2>2, <3>1
    <3> QED BY <1>1, <1>b, <1>c, <1>d, <2>2, <3>2 DEF Hung, new
  <2> QED BY <2>1, <2>2 DEF Place
<1>8. ASSUME NEW m \in Live(t), m \notin B, m # n PROVE Hung(u, m)
  <2>1. Hung(t, m) /\ t[m].parent # n /\ t[m].parent \notin B
    BY <1>8, BelowChild DEF Consistent
  <2>2. u[m].parent = t[m].parent /\ u[m].path = t[m].path
    BY <1>1, <1>8, <1>b, <1>c
  <2>3. t[m].parent \in Live(t) => u[t[m].parent].path = t[t[m].parent].path
    BY <1>1, <1>c, <2>1
  <2> QED BY <1>d, <2>1, <2>2, <2>3 DEF Hung
<1>9. ASSUME NEW m \in B PROVE Hung(u, m)
  <2> DEFINE x == t[m].parent
  <2>1. m \in Live(t) /\ m \in NodeId /\ m # n
    BY <1>1, <1>6, <1>9 DEF Below
  <2>2. x = n \/ x \in B
    BY <1>9, <2>1, BelowChild
  <2>3. x \in Live(t) /\ x \in NodeId
    BY <1>1, <2>2 DEF Below
  <2>4. t[m].path = Append(t[x].path, m)
    BY <2>1, <2>3, NodeTableAssumption DEF Consistent, Hung
  <2>5. t[x].path \in Seq(NodeId) /\ (old = t[x].path \/ IsStrictPrefix(old, t[x].path))
    BY <1>1, <2>2, <2>3, LivePath DEF Below
  <2>6. rebased(t[m].path) = Append(rebased(t[x].path), m)
    <3>1. old \in Seq(NodeId) /\ new \in Seq(NodeId) /\ m \in NodeId
      BY <1>1, <1>3, <2>1
    <3> HIDE DEF old, x
    <3>2. Onto(old, new, Append(t[x].path, m)) = Append(Onto(old, new, t[x].path), m)
      BY <2>5, <3>1, RebasedAppend
    <3> QED BY <2>4, <3>2
  <2>7. rebased(old) = new
    <3>1. SubSeq(old, Len(old) + 1, Len(old)) = <<>>
      BY <1>1, LenProperties, SubSeqEmpty
    <3> QED BY <1>3, <3>1, ConcatEmptySeq DEF Onto
  <2> HIDE DEF rebased
  <2>8. u[x].path = rebased(t[x].path)
    BY <1>c, <2>2, <2>7
  <2>9. u[m].path = Append(u[x].path, m) /\ u[m].parent = x
    BY <1>b, <1>c, <1>9, <2>1, <2>6, <2>8
  <2> QED BY <1>d, <2>3, <2>9 DEF Hung
<1> HIDE DEF B
<1>e. Consistent(u)
  BY <1>0, <1>7, <1>8, <1>9, <1>d DEF Consistent
<1>f. p \in (Live(t) \ ({n} \cup B)) \cup {NoParent}
  <2> SUFFICES ASSUME p # NoParent PROVE p \in Live(t) \ ({n} \cup B)
    OBVIOUS
  <2>1. p \in Live(t) /\ ppath = t[p].path
    BY DEF Place
  <2>2. p # n /\ p \notin B
    BY <1>4, <2>1 DEF B, Below
  <2> QED BY <2>1, <2>2
<1>g. Rehung(t, u, n, p)
  BY <1>1, <1>b, <1>d, <1>f DEF Rehung, SameParents, B
<1>h. SameKeys(t, u, Live(t))
  BY <1>1, <1>b DEF SameKeys
<1> QED BY <1>0, <1>e, <1>g, <1>h

-----------------------------------------------------------------------------
(* External keys *)

(* KeysGiven and ExternalKeyUnique, of any table. *)
Keys(t) ==
    /\ \A n \in Live(t) : t[n].source # Local <=> t[n].ext # NoExt
    /\ \A n, m \in Live(t) : /\ t[n].ext # NoExt
                             /\ t[n].ext = t[m].ext
                             /\ t[n].source = t[m].source
                             => n = m

FreeKey(t, src, ext) ==
    \/ src = Local /\ ext = NoExt
    \/ src \in Source /\ ext \in ExtId /\ Keyed(t, src, ext) = {}

(* Live rows can be lost or moved. *)
LEMMA KeysKept ==
    ASSUME NEW t, NEW u, Keys(t), Live(u) \subseteq Live(t),
           \A m \in Live(u) : u[m].source = t[m].source /\ u[m].ext = t[m].ext
    PROVE  Keys(u)
  BY DEF Keys

(* A row can come with a key that no live row has. *)
LEMMA KeysInserted ==
    ASSUME NEW t, NEW u, Keys(t), NEW n, Live(u) = Live(t) \cup {n},
           n \notin Live(t), \A m \in Live(t) : u[m] = t[m],
           FreeKey(t, u[n].source, u[n].ext)
    PROVE  Keys(u)
<1>1. u[n].source # Local <=> u[n].ext # NoExt
  BY DirectoryAssumption DEF FreeKey
<1>2. ASSUME NEW m \in Live(t), u[n].ext # NoExt, u[m].ext = u[n].ext,
             u[m].source = u[n].source
      PROVE  FALSE
  <2>1. m \in Keyed(t, u[n].source, u[n].ext)
    BY <1>2 DEF Keyed
  <2> QED BY <1>2, <2>1 DEF FreeKey
<1> QED BY <1>1, <1>2 DEF Keys

-----------------------------------------------------------------------------
(* The inductive invariant, one request at a time *)

LEMMA TreeInvAlt ==
    TreeInv <=> /\ ShapeInv /\ Consistent(nodes) /\ Keys(nodes)
                /\ \A s \in Session : Current(nodes, session[s])
<1>1. ShapeInv => Shaped(nodes)
  BY ShapeInvAlt
<1>2. KeysGiven /\ ExternalKeyUnique <=> Keys(nodes)
  BY DEF KeysGiven, ExternalKeyUnique, Keys
<1> QED BY <1>1, <1>2, ConsistentNodes DEF TreeInv

LEMMA CascadeIsNext == CascadeNext => Next
  BY DEF CascadeNext, Next, Begin, Continue

(* An idle session remembers nothing that could be out of date. *)
LEMMA IdleCurrent ==
    ASSUME NEW t, NEW r, r.pc = "idle"
    PROVE  Current(t, r)
  BY DEF Current

(* A request that runs alone leaves everything current if it leaves its own
   session so. *)
LEMMA AloneStep ==
    ASSUME TreeInv, ShapeInv', NEW s \in Session, Alone(s), NEW st, Goto(s, st),
           Consistent(nodes'), Keys(nodes'), Current(nodes', st)
    PROVE  TreeInv'
<1>1. session \in [Session -> SessionState]
  BY DEF TreeInv, ShapeInv, TypeOK
<1>2. ASSUME NEW r \in Session PROVE Current(nodes', session'[r])
  <2>1. CASE r = s
    BY <1>1, <2>1 DEF Goto
  <2>2. CASE r # s
    <3>1. session'[r] = session[r] /\ session[r].pc = "idle"
      BY <1>1, <2>2 DEF Goto, Alone, At
    <3> QED BY <3>1, IdleCurrent
  <2> QED BY <2>1, <2>2
<1>3. KeysGiven' /\ ExternalKeyUnique'
  BY DEF KeysGiven, ExternalKeyUnique, Keys
<1>4. TreeConsistent'
  BY DEF TreeConsistent, Consistent, Hung
<1> QED BY <1>2, <1>3, <1>4 DEF TreeInv

-----------------------------------------------------------------------------
(* The writes of a request that runs alone *)

LEMMA InsertGrows ==
    ASSUME TreeInv, NEW s \in Session, Insert(s)
    PROVE  /\ Consistent(nodes') /\ Keys(nodes')
           /\ nodes' = nodes \/ \E n, p : Grown(nodes, nodes', n, p)
<1> DEFINE r == session[s]
<1>1. /\ Shaped(nodes) /\ Consistent(nodes) /\ Keys(nodes)
      /\ r \in SessionState /\ r.pc = "insert"
      /\ StateOK(nodes, r) /\ Current(nodes, r)
  BY TreeInvAlt, ShapeInvAlt DEF Insert, At, SessionOK
<1>2. Placed(r.parent, r.ppath, r.pdepth)
  BY <1>1 DEF StateOK
<1>3. /\ r.parent \in NodeId \cup {NoParent} /\ r.ppath \in Seq(NodeId)
      /\ r.pdepth \in Int /\ r.source \in Source \cup {Local}
      /\ r.ext \in ExtId \cup {NoExt}
  BY <1>1 DEF SessionState
<1>4. Place(nodes, r.parent, r.ppath) /\ FreeKey(nodes, r.source, r.ext)
  BY <1>1 DEF Current, Place, FreeKey
<1>5. PICK n \in NodeId \ Rows(nodes) :
         LET t == Inserted(nodes, n, r.parent, r.ppath, r.pdepth, r.source, r.ext)
         IN nodes' = IF Fits(t) THEN t ELSE nodes
  BY DEF Insert
<1> DEFINE t == Inserted(nodes, n, r.parent, r.ppath, r.pdepth, r.source, r.ext)
<1>6. nodes' = IF Fits(t) THEN t ELSE nodes
  BY <1>5
<1> HIDE DEF r
<1>7. Shaped(t)
  BY <1>1, <1>2, <1>3, InsertedShaped
<1>8. /\ Consistent(t) /\ Live(t) = Live(nodes) \cup {n}
      /\ \A m \in Live(nodes) : t[m] = nodes[m]
      /\ t[n].parent = r.parent /\ t[n].source = r.source /\ t[n].ext = r.ext
  BY <1>1, <1>4, <1>7, InsertedConsistent
<1>9. n \notin Live(nodes) /\ r.parent \in Live(nodes) \cup {NoParent}
  BY <1>4, <1>5 DEF Place, Rows, Live
<1> HIDE DEF t
<1>10. Keys(t)
  BY <1>1, <1>4, <1>8, <1>9, KeysInserted
<1>11. Grown(nodes, t, n, r.parent)
  BY <1>8, <1>9 DEF Grown, SameParents
<1> QED BY <1>1, <1>6, <1>8, <1>10, <1>11

LEMMA CascadePrunes ==
    ASSUME TreeInv, NEW s \in Session, Cascade(s)
    PROVE  /\ Consistent(nodes') /\ Keys(nodes')
           /\ \E n : Pruned(nodes, nodes', n)
<1> DEFINE r == session[s]
           n == r.node
           t == CascadeDeleted(nodes, n, nodes[n].path)
<1>1. /\ Consistent(nodes) /\ Keys(nodes)
      /\ r.pc = "cascade" /\ Current(nodes, r)
  BY TreeInvAlt DEF Cascade, At
<1>2. n \in Live(nodes) /\ r.path = nodes[n].path
  BY <1>1 DEF Current
<1>3. nodes' = t
  BY <1>2 DEF Cascade
<1> HIDE DEF n
<1>4. /\ Consistent(t)
      /\ Live(t) = Live(nodes) \ ({n} \cup Below(nodes, nodes[n].path))
      /\ \A m \in Live(t) : t[m] = nodes[m]
  BY <1>1, <1>2, CascadeConsistent
<1> HIDE DEF t
<1>5. Keys(t)
  BY <1>1, <1>4, KeysKept
<1>6. Pruned(nodes, t, n)
  BY <1>2, <1>4 DEF Pruned, SameParents
<1> QED BY <1>3, <1>4, <1>5, <1>6

LEMMA MoveRehangs ==
    ASSUME TreeInv, NEW s \in Session, WriteMove(s)
    PROVE  /\ Consistent(nodes') /\ Keys(nodes')
           /\ nodes' = nodes \/ \E n, p : Rehung(nodes, nodes', n, p)
<1> DEFINE r == session[s]
           n == r.node
           p == r.parent
           ppath == r.ppath
           odepth == r.depth
           pdepth == r.pdepth
           t == Moved(nodes, n, nodes[n].path, odepth, p, ppath, pdepth)
<1>1. /\ Shaped(nodes) /\ Consistent(nodes) /\ Keys(nodes)
      /\ r \in SessionState /\ r.pc = "moveWrite"
      /\ StateOK(nodes, r) /\ Current(nodes, r)
  BY TreeInvAlt, ShapeInvAlt DEF WriteMove, At, SessionOK
<1>2. /\ n \in Live(nodes) /\ r.path = nodes[n].path
      /\ Place(nodes, p, ppath) /\ ~MovesUnderItself(nodes[n].path, ppath)
  BY <1>1 DEF Current, Place
<1>3. Placed(p, ppath, pdepth) /\ ReadFrom(n, nodes[n].path, odepth)
  BY <1>1, <1>2 DEF StateOK
<1>4. /\ n \in NodeId /\ p \in NodeId \cup {NoParent}
      /\ ppath \in Seq(NodeId) /\ pdepth \in Int
  BY <1>1, <1>3 DEF SessionState, ReadFrom
<1>5. nodes' = IF Fits(t) THEN t ELSE nodes
  BY <1>2 DEF WriteMove
<1> HIDE DEF n, p, r, ppath, odepth, pdepth
<1>6. Shaped(t)
  BY <1>1, <1>3, <1>4, MovedShaped
<1>7. Consistent(t) /\ Rehung(nodes, t, n, p) /\ SameKeys(nodes, t, Live(nodes))
  BY <1>1, <1>2, <1>6, MovedConsistent
<1> HIDE DEF t
<1>8. Keys(t)
  BY <1>1, <1>7, KeysKept DEF Rehung, SameKeys
<1> QED BY <1>5, <1>1, <1>7, <1>8

(* An empty table is a consistent one. *)
LEMMA InitTree == Init => TreeInv
<1> SUFFICES ASSUME Init PROVE TreeInv
  OBVIOUS
<1>1. Live(nodes) = {}
  BY DEF Init, NoRow, Live
<1>2. ShapeInv /\ Shaped(nodes)
  BY InitShape, ShapeInvAlt
<1>3. \A s \in Session : Current(nodes, session[s])
  <2>1. \A s \in Session : session[s].pc = "idle"
    BY DEF Init, Idle
  <2> QED BY <2>1, IdleCurrent
<1> QED BY <1>1, <1>2, <1>3, TreeInvAlt DEF Consistent, Keys

(* Every step of a request that runs alone keeps the invariant: one proof
   step per action. *)
LEMMA NextTree ==
    ASSUME StaleIds = FALSE, TreeInv, [CascadeNext]_vars
    PROVE  TreeInv'
<1>0. /\ ShapeInv /\ Shaped(nodes) /\ Consistent(nodes) /\ Keys(nodes)
      /\ session \in [Session -> SessionState]
      /\ \A s \in Session : Current(nodes, session[s])
  BY TreeInvAlt, ShapeInvAlt
<1>a. CASE UNCHANGED vars
  <2>1. nodes' = nodes /\ session' = session
    BY <1>a DEF vars
  <2>2. ShapeInv'
    BY <1>0, <1>a, NextShape
  <2> QED BY <1>0, <2>1, <2>2
          DEF TreeInv, TreeConsistent, KeysGiven, ExternalKeyUnique,
              Consistent, Hung, Keys
<1>b. CASE CascadeNext
  <2> PICK s \in Session :
        /\ Alone(s)
        /\ \/ StartCreate(s) \/ LookupUpsert(s) \/ ReadParent(s) \/ Insert(s)
           \/ Update(s) \/ ReadDelete(s) \/ Cascade(s)
           \/ ReadMove(s) \/ ReadNewParent(s) \/ WriteMove(s) \/ Fail(s)
    BY <1>b DEF CascadeNext
  <2> DEFINE r == session[s]
  <2>0. ShapeInv' /\ Alone(s) /\ r \in SessionState /\ Current(nodes, r)
    BY <1>0, <1>b, NextShape, CascadeIsNext
  (* a read leaves the table as it is *)
  <2>r. ASSUME NEW st, Goto(s, st), UNCHANGED nodes, Current(nodes, st)
        PROVE  TreeInv'
    <3>1. Consistent(nodes') /\ Keys(nodes') /\ Current(nodes', st)
      BY <1>0, <2>r
    <3> QED BY <2>0, <2>r, <3>1, AloneStep
  (* a write ends its request *)
  <2>w. ASSUME Goto(s, Idle), Consistent(nodes'), Keys(nodes')
        PROVE  TreeInv'
    <3>1. Current(nodes', Idle)
      BY IdleCurrent DEF Idle
    <3> QED BY <2>0, <2>w, <3>1, AloneStep
  <2>i. Current(nodes, Idle)
    BY IdleCurrent DEF Idle
  <2>1. CASE StartCreate(s)
    <3>1. PICK p \in Live(nodes) \cup {NoParent} :
             Goto(s, [Idle EXCEPT !.pc = IF p = NoParent THEN "insert" ELSE "readParent",
                                  !.parent = p])
      BY <2>1 DEF StartCreate
    <3> DEFINE st == [Idle EXCEPT !.pc = IF p = NoParent THEN "insert" ELSE "readParent",
                                  !.parent = p]
    <3>2. /\ st.pc = IF p = NoParent THEN "insert" ELSE "readParent"
          /\ st.parent = p /\ st.ppath = <<>> /\ st.source = Local /\ st.ext = NoExt
      BY DEF Idle
    <3>3. Goto(s, st) /\ UNCHANGED nodes
      BY <2>1, <3>1 DEF StartCreate
    <3> HIDE DEF st
    <3>4. Current(nodes, st)
      BY <3>2 DEF Current
    <3> QED BY <2>r, <3>3, <3>4
  <2>2. CASE LookupUpsert(s)
    <3>1. PICK src \in Source, ext \in ExtId, p \in Live(nodes) \cup {NoParent} :
             LET found == Keyed(nodes, src, ext)
                 asked == [Idle EXCEPT !.parent = p, !.source = src, !.ext = ext]
             IN \/ \E n \in found :
                     Goto(s, [asked EXCEPT !.pc = "update", !.node = n])
                \/ /\ found = {}
                   /\ Goto(s, [asked EXCEPT !.pc = IF p = NoParent THEN "insert"
                                                                   ELSE "readParent"])
      BY <2>2 DEF LookupUpsert
    <3> DEFINE asked == [Idle EXCEPT !.parent = p, !.source = src, !.ext = ext]
               found(n) == [asked EXCEPT !.pc = "update", !.node = n]
               new == [asked EXCEPT !.pc = IF p = NoParent THEN "insert" ELSE "readParent"]
    <3>2. \A n : found(n).pc = "update"
      BY DEF Idle
    <3>3. /\ new.pc = IF p = NoParent THEN "insert" ELSE "readParent"
          /\ new.parent = p /\ new.ppath = <<>> /\ new.source = src /\ new.ext = ext
      BY DEF Idle
    <3>4. \/ \E n : Goto(s, found(n))
          \/ Keyed(nodes, src, ext) = {} /\ Goto(s, new)
      BY <3>1
    <3>5. UNCHANGED nodes
      BY <2>2 DEF LookupUpsert
    <3> HIDE DEF found, new
    <3>6. \A n : Current(nodes, found(n))
      BY <3>2 DEF Current
    <3>7. Keyed(nodes, src, ext) = {} => Current(nodes, new)
      BY <3>3 DEF Current
    <3> QED BY <2>r, <3>4, <3>5, <3>6, <3>7
  <2>3. CASE ReadParent(s)
    <3> DEFINE p == r.parent
               st == [r EXCEPT !.pc = "insert", !.ppath = nodes[p].path,
                               !.pdepth = nodes[p].depth]
    <3>1. /\ UNCHANGED nodes /\ r.pc = "readParent"
          /\ \/ p \in Live(nodes) /\ Goto(s, st)
             \/ Goto(s, Idle)
      BY <2>3 DEF ReadParent, At
    <3>2. /\ st.pc = "insert" /\ st.parent = p /\ st.ppath = nodes[p].path
          /\ st.source = r.source /\ st.ext = r.ext
      BY <2>0 DEF SessionState
    <3> HIDE DEF r, st
    <3>3. p \in Live(nodes) => Current(nodes, st)
      BY <2>0, <3>1, <3>2 DEF Current
    <3> QED BY <2>i, <2>r, <3>1, <3>3
  <2>4. CASE Insert(s)
    <3>1. Goto(s, Idle)
      BY <2>4 DEF Insert
    <3> QED BY <2>4, <2>w, <3>1, InsertGrows
  <2>5. CASE Update(s)
    BY <2>5, <2>i, <2>r DEF Update
  <2>6. CASE ReadDelete(s)
    <3>1. PICK n \in Live(nodes), strategy \in Strategies :
             Goto(s, [Idle EXCEPT !.pc = strategy, !.node = n,
                                  !.parent = nodes[n].parent, !.path = nodes[n].path])
      BY <2>6 DEF ReadDelete
    <3> DEFINE st == [Idle EXCEPT !.pc = strategy, !.node = n,
                                  !.parent = nodes[n].parent, !.path = nodes[n].path]
    <3>2. /\ strategy \in {"cascade", "promote"}
          /\ st.pc = strategy /\ st.node = n /\ st.path = nodes[n].path
      BY OrgTreeAssumption DEF Idle
    <3>3. Goto(s, st) /\ UNCHANGED nodes
      BY <2>6, <3>1 DEF ReadDelete
    <3> HIDE DEF st
    <3>4. Current(nodes, st)
      BY <3>2 DEF Current
    <3> QED BY <2>r, <3>3, <3>4
  <2>7. CASE Cascade(s)
    <3>1. Goto(s, Idle)
      BY <2>7 DEF Cascade
    <3> QED BY <2>7, <2>w, <3>1, CascadePrunes
  <2>8. CASE ReadMove(s)
    <3>1. PICK n \in Live(nodes), p \in Live(nodes) \cup {NoParent} :
             Goto(s, [Idle EXCEPT !.pc = IF p = NoParent THEN "moveWrite" ELSE "moveParent",
                                  !.node = n, !.parent = p,
                                  !.path = nodes[n].path, !.depth = nodes[n].depth])
      BY <2>8 DEF ReadMove, Nameable
    <3> DEFINE st == [Idle EXCEPT !.pc = IF p = NoParent THEN "moveWrite" ELSE "moveParent",
                                  !.node = n, !.parent = p,
                                  !.path = nodes[n].path, !.depth = nodes[n].depth]
    <3>2. /\ st.pc = IF p = NoParent THEN "moveWrite" ELSE "moveParent"
          /\ st.node = n /\ st.parent = p /\ st.path = nodes[n].path /\ st.ppath = <<>>
      BY DEF Idle
    <3>3. Goto(s, st) /\ UNCHANGED nodes
      BY <2>8, <3>1 DEF ReadMove
    <3>4. ~MovesUnderItself(nodes[n].path, <<>>)
      <4>1. nodes[n].path \in Seq(NodeId) /\ Len(nodes[n].path) > 0
        BY <1>0, LivePath
      <4> QED BY <4>1, NotBelowRoot DEF MovesUnderItself
    <3> HIDE DEF st
    <3>5. Current(nodes, st)
      BY <3>2, <3>4 DEF Current
    <3> QED BY <2>r, <3>3, <3>5
  <2>9. CASE ReadNewParent(s)
    <3> DEFINE p == r.parent
               st == [r EXCEPT !.pc = "moveWrite", !.ppath = nodes[p].path,
                               !.pdepth = nodes[p].depth]
    <3>1. /\ UNCHANGED nodes /\ r.pc = "moveParent"
          /\ \/ Goto(s, Idle)
             \/ ~MovesUnderItself(r.path, nodes[p].path) /\ Goto(s, st)
      BY <2>9 DEF ReadNewParent, At
    <3>2. /\ st.pc = "moveWrite" /\ st.parent = p /\ st.ppath = nodes[p].path
          /\ st.node = r.node /\ st.path = r.path
      BY <2>0 DEF SessionState
    <3> HIDE DEF r, st
    <3>3. ~MovesUnderItself(r.path, nodes[p].path) => Current(nodes, st)
      BY <2>0, <3>1, <3>2 DEF Current
    <3> QED BY <2>i, <2>r, <3>1, <3>3
  <2>10. CASE WriteMove(s)
    <3>1. Goto(s, Idle)
      BY <2>10 DEF WriteMove
    <3> QED BY <2>10, <2>w, <3>1, MoveRehangs
  <2>11. CASE Fail(s)
    BY <2>11, <2>i, <2>r DEF Fail
  <2> QED BY <2>1, <2>2, <2>3, <2>4, <2>5, <2>6, <2>7, <2>8, <2>9, <2>10, <2>11
<1> QED BY <1>a, <1>b

-----------------------------------------------------------------------------
(* The steps of the tree of parent pointers *)

Parents(t) == [n \in Live(t) |-> t[n].parent]

LEMMA GrownIsAdd ==
    ASSUME NEW n, NEW p, Grown(nodes, nodes', n, p)
    PROVE  Abstract!Add(n, p)
<1>1. Parents(nodes')
        = [m \in Live(nodes) \cup {n} |-> IF m = n THEN p ELSE Parents(nodes)[m]]
  BY DEF Grown, SameParents, Parents
<1>2. DOMAIN Parents(nodes) = Live(nodes)
  BY DEF Parents
<1> QED BY <1>1, <1>2 DEF Abstract!Add, Grown, Parents

LEMMA PrunedIsRemove ==
    ASSUME Shaped(nodes), TreeConsistent, NEW n, Pruned(nodes, nodes', n)
    PROVE  Abstract!Remove(n)
<1>1. Abstract!Subtree(n) = {n} \cup Below(nodes, nodes[n].path)
  BY SubtreeByPath DEF Pruned
<1>2. Parents(nodes') = Restrict(Parents(nodes), Live(nodes) \ Abstract!Subtree(n))
  BY <1>1 DEF Pruned, SameParents, Parents, Restrict
<1>3. DOMAIN Parents(nodes) = Live(nodes)
  BY DEF Parents
<1> QED BY <1>2, <1>3 DEF Abstract!Remove, Parents, Abstract!Restrict, Restrict

LEMMA RehungIsReparent ==
    ASSUME Shaped(nodes), TreeConsistent, NEW n, NEW p, Rehung(nodes, nodes', n, p)
    PROVE  Abstract!Reparent(n, p)
<1>1. Abstract!Subtree(n) = {n} \cup Below(nodes, nodes[n].path)
  BY SubtreeByPath DEF Rehung
<1>2. Parents(nodes') = [Parents(nodes) EXCEPT ![n] = p]
  BY DEF Rehung, SameParents, Parents
<1> QED BY <1>1, <1>2 DEF Abstract!Reparent, Rehung, Parents

(* A step of CascadeNext is a step of ParentTree or changes no parent. *)
LEMMA StepRefines ==
    ASSUME TreeInv, [CascadeNext]_vars
    PROVE  Abstract!Next \/ Parents(nodes') = Parents(nodes)
<1>0. Shaped(nodes) /\ TreeConsistent /\ Live(nodes) \subseteq NodeId
  BY ShapeInvAlt DEF TreeInv, Live
<1>1. ASSUME NEW n, NEW p, Grown(nodes, nodes', n, p) PROVE Abstract!Next
  <2>1. n \in NodeId /\ p \in NodeId \cup {NoParent}
    BY <1>0, <1>1 DEF Grown
  <2> QED BY <1>1, <2>1, GrownIsAdd DEF Abstract!Next
<1>2. ASSUME NEW n, Pruned(nodes, nodes', n) PROVE Abstract!Next
  <2>1. n \in DOMAIN Parents(nodes)
    BY <1>2 DEF Pruned, Parents
  <2> QED BY <1>0, <1>2, <2>1, PrunedIsRemove DEF Abstract!Next, Parents
<1>3. ASSUME NEW n, NEW p, Rehung(nodes, nodes', n, p) PROVE Abstract!Next
  <2>1. n \in DOMAIN Parents(nodes) /\ p \in NodeId \cup {NoParent}
    BY <1>0, <1>3 DEF Rehung, Parents
  <2> QED BY <1>0, <1>3, <2>1, RehungIsReparent DEF Abstract!Next, Parents
<1>4. CASE nodes' = nodes
  BY <1>4
<1>5. ASSUME NEW s \in Session, Insert(s) \/ Cascade(s) \/ WriteMove(s)
      PROVE  Abstract!Next \/ nodes' = nodes
  BY <1>1, <1>2, <1>3, <1>5, InsertGrows, CascadePrunes, MoveRehangs
<1>6. nodes' = nodes \/ \E s \in Session : Insert(s) \/ Cascade(s) \/ WriteMove(s)
  BY DEF CascadeNext, vars, StartCreate, LookupUpsert, ReadParent, Update, ReadDelete,
         ReadMove, ReadNewParent, Fail
<1> QED BY <1>4, <1>5, <1>6

-----------------------------------------------------------------------------
(* Theorems: one request at a time, ids that are live *)

(* Every live node's path is its parent's path and its own id, a key names one
   live node, and what a request in flight has read is current. *)
THEOREM TreeInvariant ==
    ASSUME StaleIds = FALSE
    PROVE  CascadeSpec => []TreeInv
<1>1. TreeInv /\ [CascadeNext]_vars => TreeInv'
  BY NextTree
<1> QED BY InitTree, <1>1, PTL DEF CascadeSpec

(* The stored paths and parent_id tell the same tree. *)
THEOREM PathsFollowParents ==
    ASSUME StaleIds = FALSE
    PROVE  CascadeSpec => []TreeConsistent
<1>1. TreeInv => TreeConsistent
  BY DEF TreeInv
<1> QED BY <1>1, TreeInvariant, PTL

(* There is no cycle: the recursion of buildTreeNode ends. *)
THEOREM NoCycle ==
    ASSUME StaleIds = FALSE
    PROVE  CascadeSpec => []Acyclic
<1>1. TreeInv => Acyclic
  <2> SUFFICES ASSUME TreeInv PROVE Acyclic
    OBVIOUS
  <2>1. Consistent(nodes)
    BY TreeInvAlt
  <2> QED BY <2>1, ConsistentAcyclic DEF Acyclic
<1> QED BY <1>1, TreeInvariant, PTL

(* GetSubTree's prefix query returns the subtree. *)
THEOREM PrefixQueryIsSubtree ==
    ASSUME StaleIds = FALSE
    PROVE  CascadeSpec => []SubTreeByPath
<1>1. TreeInv => SubTreeByPath
  <2> SUFFICES ASSUME TreeInv, NEW n \in Live(nodes)
               PROVE  Below(nodes, nodes[n].path) = Abstract!Subtree(n) \ {n}
    BY DEF SubTreeByPath
  <2>1. Shaped(nodes) /\ TreeConsistent
    BY ShapeInvAlt DEF TreeInv
  <2>2. n \notin Below(nodes, nodes[n].path)
    BY NotBelowItself
  <2> QED BY <2>1, <2>2, SubtreeByPath
<1> QED BY <1>1, TreeInvariant, PTL

(* An external key names one live node at most. *)
THEOREM KeysNameOneNode ==
    ASSUME StaleIds = FALSE
    PROVE  CascadeSpec => []ExternalKeyUnique
<1>1. TreeInv => ExternalKeyUnique
  BY DEF TreeInv
<1> QED BY <1>1, TreeInvariant, PTL

(* The table with its paths implements the tree of parent pointers. *)
THEOREM TreeRefinement ==
    ASSUME StaleIds = FALSE
    PROVE  CascadeSpec => RefinesParentTree
<1>1. Init => Parents(nodes) = <<>>
  <2> SUFFICES ASSUME Init PROVE Parents(nodes) = <<>>
    OBVIOUS
  <2>1. Live(nodes) = {}
    BY DEF Init, NoRow, Live
  <2> QED BY <2>1 DEF Parents
<1>2. TreeInv /\ [CascadeNext]_vars
        => [Abstract!Next]_([n \in Live(nodes) |-> nodes[n].parent])
  BY StepRefines DEF Parents
<1> QED BY <1>1, <1>2, TreeInvariant, PTL DEF CascadeSpec, RefinesParentTree, Abstract!Spec, Parents

-----------------------------------------------------------------------------
(* Reads of a consistent table *)

(* What holds of a row whenever it holds of the row it hangs from, holds of
   every live row. *)
LEMMA DownTheTree ==
    ASSUME NEW t, Consistent(t), NEW C \in SUBSET Live(t),
           \A n \in Live(t) : (t[n].parent \in Live(t) => t[n].parent \in C) => n \in C
    PROVE  C = Live(t)
<1> DEFINE D == Live(t) \ C
<1>1. D # {} => \E n \in D : t[n].parent \notin D
  BY ConsistentAcyclic
<1>2. \A n \in D : t[n].parent \in D
  OBVIOUS
<1> QED BY <1>1, <1>2

(* The ids on a live row's path: its own and those of the rows above it. *)
LEMMA OnPath ==
    ASSUME NEW t, Consistent(t), NEW a \in Live(t), NEW n \in Live(t)
    PROVE  (\E i \in 1 .. Len(t[n].path) : t[n].path[i] = a)
             <=> n \in {a} \cup Below(t, t[a].path)
<1> DEFINE On(m) == \E i \in 1 .. Len(t[m].path) : t[m].path[i] = a
           C == {m \in Live(t) : On(m) <=> m \in {a} \cup Below(t, t[a].path)}
<1>1. ASSUME NEW m \in Live(t), t[m].parent \in Live(t) => t[m].parent \in C
      PROVE  m \in C
  <2> DEFINE p == t[m].parent
  <2>1. Hung(t, m) /\ m \in NodeId /\ a \in NodeId /\ NoParent \notin NodeId
    BY LivePath, NodeTableAssumption DEF Consistent
  <2>2. m \in Below(t, t[a].path) <=> p \in {a} \cup Below(t, t[a].path)
    BY BelowChild
  <2>3. CASE p = NoParent /\ t[m].path = <<m>>
    <3>1. p # a /\ p \notin Below(t, t[a].path)
      BY <2>1, <2>3 DEF Below, Live
    <3>2. On(m) <=> m = a
      <4>1. Len(<<m>>) = 1 /\ <<m>>[1] = m
        OBVIOUS
      <4> QED BY <2>3, <4>1
    <3> QED BY <2>2, <3>1, <3>2
  <2>4. CASE p \in Live(t) /\ t[m].path = Append(t[p].path, m)
    <3>1. On(p) <=> p \in {a} \cup Below(t, t[a].path)
      BY <1>1, <2>4
    <3>2. t[p].path \in Seq(NodeId) /\ Len(t[p].path) \in Nat
      BY <2>4, LivePath DEF Consistent
    <3>3. /\ Len(t[m].path) = Len(t[p].path) + 1
          /\ \A i \in 1 .. Len(t[p].path) : t[m].path[i] = t[p].path[i]
          /\ t[m].path[Len(t[p].path) + 1] = m
      BY <2>1, <2>4, <3>2, AppendProperties
    <3>4. On(m) <=> On(p) \/ m = a
      <4> DEFINE k == Len(t[p].path)
      <4>1. /\ k + 1 \in 1 .. k + 1
            /\ \A i \in 1 .. k : i \in 1 .. k + 1
            /\ \A i \in 1 .. k + 1 : i \in 1 .. k \/ i = k + 1
        BY <3>2
      <4>2. ASSUME On(m) PROVE On(p) \/ m = a
        BY <3>3, <4>1, <4>2, Zenon
      <4>3. ASSUME On(p) PROVE On(m)
        BY <3>3, <4>1, <4>3, Zenon
      <4>4. ASSUME m = a PROVE On(m)
        BY <3>3, <4>1, <4>4, Zenon
      <4> QED BY <4>2, <4>3, <4>4
    <3> HIDE DEF On
    <3> QED BY <2>2, <3>1, <3>4
  <2> QED BY <2>1, <2>3, <2>4 DEF Hung
<1>2. C = Live(t)
  <2> HIDE DEF On
  <2>1. C \in SUBSET Live(t)
    OBVIOUS
  <2>2. \A m \in Live(t) : (t[m].parent \in Live(t) => t[m].parent \in C) => m \in C
    BY <1>1
  <2> HIDE DEF C
  <2> QED BY <2>1, <2>2, DownTheTree
<1> QED BY <1>2

(* A role in a node is good for the nodes of its subtree. *)
LEMMA RightsBelow ==
    ASSUME Shaped(nodes), TreeConsistent
    PROVE  RightsInherited
<1> SUFFICES ASSUME NEW holder \in Live(nodes), NEW n \in Live(nodes),
                    NEW held \in RoleName, NEW required \in RoleName
             PROVE  LET role == [m \in NodeId |-> IF m = holder THEN held ELSE "none"]
                        grants == \/ required = "member" \/ held = "admin"
                                  \/ required = held
                    IN Permitted(role, n, required)
                         <=> grants /\ n \in Abstract!Subtree(holder)
  BY DEF RightsInherited
<1> DEFINE role == [m \in NodeId |-> IF m = holder THEN held ELSE "none"]
           grants == required = "member" \/ held = "admin" \/ required = held
           path == nodes[n].path
<1>1. Consistent(nodes) /\ path \in Seq(NodeId) /\ Len(path) \in Nat
  BY ConsistentNodes, LivePath
<1>2. IsRoleSufficient(held, required) <=> grants
  BY DEF IsRoleSufficient, Weight, RoleName
<1>3. ~IsRoleSufficient("none", required)
  BY DEF IsRoleSufficient, Weight, RoleName
<1>4. \A i \in 1 .. Len(path) : role[path[i]] = IF path[i] = holder THEN held ELSE "none"
  BY <1>1, ElementOfSeq
<1>5. Permitted(role, n, required)
        <=> grants /\ \E i \in 1 .. Len(path) : path[i] = holder
  <2> HIDE DEF role, grants
  <2> QED BY <1>2, <1>3, <1>4 DEF Permitted
<1>6. n \in Abstract!Subtree(holder) <=> \E i \in 1 .. Len(path) : path[i] = holder
  BY <1>1, OnPath, SubtreeByPath
<1> QED BY <1>5, <1>6

(* A path one id longer. *)
LEMMA LongerPrefix ==
    ASSUME NEW S, NEW q \in Seq(S), NEW i \in 1 .. Len(q)
    PROVE  /\ SubSeq(q, 1, i) = Append(SubSeq(q, 1, i - 1), q[i])
           /\ SubSeq(q, 1, 0) = <<>>
           /\ SubSeq(q, 1, Len(q)) = q
<1>1. Len(q) \in Nat /\ i \in Nat /\ i - 1 \in Nat /\ \A j \in 1 .. Len(q) : q[j] \in S
  BY LenProperties, ElementOfSeq
<1> DEFINE a == SubSeq(q, 1, i - 1)
           b == SubSeq(q, 1, i)
           c == SubSeq(q, 1, Len(q))
<1>2. /\ a \in Seq(S) /\ Len(a) = i - 1
      /\ \A j \in 1 .. i - 1 : a[j] = q[j]
  <2>1. \A j \in 1 .. i - 1 : q[j] \in S
    BY <1>1
  <2> QED BY <1>1, <2>1, SubSeqProperties
<1>3. /\ b \in Seq(S) /\ Len(b) = i
      /\ \A j \in 1 .. i : b[j] = q[j]
  <2>1. \A j \in 1 .. i : q[j] \in S
    BY <1>1
  <2> QED BY <1>1, <2>1, SubSeqProperties
<1>4. /\ c \in Seq(S) /\ Len(c) = Len(q)
      /\ \A j \in 1 .. Len(q) : c[j] = q[j]
  BY <1>1, SubSeqProperties
<1> HIDE DEF a, b, c
<1>5. b = Append(a, q[i])
  BY <1>1, <1>2, <1>3, IsAppend
<1>6. c = q
  BY <1>1, <1>4, SeqEqual
<1>7. SubSeq(q, 1, 0) = <<>>
  BY SubSeqEmpty
<1> QED BY <1>5, <1>6, <1>7 DEF a, b, c

(* GetNodePath leaves nothing out if the whole path is live. *)
LEMMA WholePath ==
    ASSUME NEW n, nodes[n].path \in Seq(NodeId),
           \A i \in 1 .. Len(nodes[n].path) : nodes[n].path[i] \in Live(nodes)
    PROVE  NodePath(n) = nodes[n].path
<1> DEFINE path == nodes[n].path
           K == 0 .. Len(path)
           Step(f) == [i \in K |->
                         IF i = 0 THEN <<>>
                         ELSE IF path[i] \in Live(nodes) THEN Append(f[i - 1], path[i])
                                                         ELSE f[i - 1]]
           g == [i \in K |-> SubSeq(path, 1, i)]
           crumbs == CHOOSE f : f = Step(f)
<1>1. NodePath(n) = crumbs[Len(path)]
  BY DEF NodePath
<1> HIDE DEF path
<1>2. /\ path \in Seq(NodeId) /\ Len(path) \in Nat
      /\ \A i \in 1 .. Len(path) : path[i] \in Live(nodes)
  BY LenProperties DEF path
<1>3. \A i \in K : i # 0 => i \in 1 .. Len(path) /\ i - 1 \in K
  BY <1>2
<1>4. g = Step(g)
  <2>1. \A i \in K : g[i] = Step(g)[i]
    <3> TAKE i \in K
    <3>1. CASE i = 0
      BY <1>2, <3>1, SubSeqEmpty
    <3>2. CASE i # 0
      <4>1. i \in 1 .. Len(path) /\ i - 1 \in K
        BY <1>3, <3>2
      <4>2. SubSeq(path, 1, i) = Append(SubSeq(path, 1, i - 1), path[i])
        BY <1>2, <4>1, LongerPrefix
      <4> QED BY <1>2, <3>2, <4>1, <4>2
    <3> QED BY <3>1, <3>2
  <2> HIDE DEF K
  <2> QED BY <2>1
<1>5. crumbs = Step(crumbs)
  <2> HIDE DEF g, Step
  <2> QED BY <1>4
<1> HIDE DEF crumbs
<1>6. \A i \in K : crumbs[i] = IF i = 0 THEN <<>> ELSE Append(crumbs[i - 1], path[i])
  <2>1. \A i \in K : crumbs[i] = Step(crumbs)[i]
    BY <1>5
  <2> QED BY <1>2, <1>3, <2>1
<1>7. \A i \in K : crumbs[i] = SubSeq(path, 1, i)
  <2> DEFINE T == {i \in K : crumbs[i] # SubSeq(path, 1, i)}
  <2> SUFFICES ASSUME T # {} PROVE FALSE
    OBVIOUS
  <2>1. T \subseteq Nat
    OBVIOUS
  <2> HIDE DEF T
  <2>2. PICK k \in T : \A j \in T : ~(j < k)
    BY <2>1, LeastNat
  <2>3. k \in K /\ crumbs[k] # SubSeq(path, 1, k)
    BY <2>2 DEF T
  <2>4. CASE k = 0
    <3>1. SubSeq(path, 1, 0) = <<>>
      BY <1>2, SubSeqEmpty
    <3>2. crumbs[0] = <<>>
      BY <1>6, <2>3, <2>4
    <3> QED BY <2>3, <2>4, <3>1, <3>2
  <2>5. CASE k # 0
    <3>1. k \in 1 .. Len(path) /\ k - 1 \in K /\ k - 1 < k
      BY <1>3, <2>3, <2>5
    <3>2. crumbs[k - 1] = SubSeq(path, 1, k - 1)
      BY <2>2, <3>1 DEF T
    <3>3. SubSeq(path, 1, k) = Append(SubSeq(path, 1, k - 1), path[k])
      BY <1>2, <3>1, LongerPrefix
    <3>4. crumbs[k] = Append(crumbs[k - 1], path[k])
      BY <1>6, <2>3, <2>5
    <3> QED BY <2>3, <3>2, <3>3, <3>4
  <2> QED BY <2>4, <2>5
<1>8. Len(path) \in K /\ SubSeq(path, 1, Len(path)) = path
  <2>1. CASE Len(path) = 0
    <3>1. path = <<>>
      BY <1>2, <2>1, EmptySeq
    <3> QED BY <2>1, <3>1, SubSeqEmpty
  <2>2. CASE Len(path) # 0
    <3>1. Len(path) \in 1 .. Len(path)
      BY <1>2, <2>2
    <3> QED BY <1>2, <3>1, LongerPrefix
  <2> QED BY <2>1, <2>2
<1> QED BY <1>1, <1>7, <1>8 DEF path

(* A path of a consistent table leads down from a root. *)
LEMMA Lineage ==
    ASSUME NEW t, Consistent(t), NEW n \in Live(t)
    PROVE  \A i \in 1 .. Len(t[n].path) :
              /\ t[n].path[i] \in Live(t)
              /\ i = 1 => t[t[n].path[i]].parent = NoParent
              /\ i # 1 => t[t[n].path[i]].parent = t[n].path[i - 1]
<1> DEFINE Down(m, i) == /\ t[m].path[i] \in Live(t)
                         /\ i = 1 => t[t[m].path[i]].parent = NoParent
                         /\ i # 1 => t[t[m].path[i]].parent = t[m].path[i - 1]
           C == {m \in Live(t) : \A i \in 1 .. Len(t[m].path) : Down(m, i)}
<1>1. ASSUME NEW m \in Live(t), t[m].parent \in Live(t) => t[m].parent \in C
      PROVE  m \in C
  <2> DEFINE p == t[m].parent
  <2>1. Hung(t, m) /\ m \in NodeId
    BY LivePath DEF Consistent
  <2> SUFFICES ASSUME NEW i \in 1 .. Len(t[m].path) PROVE Down(m, i)
    OBVIOUS
  <2>2. CASE p = NoParent /\ t[m].path = <<m>>
    <3>1. i = 1 /\ t[m].path[1] = m
      BY <2>2
    <3> QED BY <2>2, <3>1
  <2>3. CASE p \in Live(t) /\ t[m].path = Append(t[p].path, m)
    <3> DEFINE k == Len(t[p].path)
    <3>1. /\ t[p].path \in Seq(NodeId) /\ k \in Nat /\ k > 0 /\ t[p].path[k] = p
      BY <2>3, LivePath DEF Consistent
    <3>2. /\ Len(t[m].path) = k + 1
          /\ \A j \in 1 .. k : t[m].path[j] = t[p].path[j]
          /\ t[m].path[k + 1] = m
      BY <2>1, <2>3, <3>1, AppendProperties
    <3>3. CASE i = k + 1
      <4>1. i # 1 /\ i - 1 = k /\ k \in 1 .. k
        BY <3>1, <3>3
      <4>2. t[m].path[i] = m /\ t[m].path[i - 1] = p
        BY <3>1, <3>2, <3>3, <4>1
      <4> QED BY <4>1, <4>2
    <3>4. CASE i \in 1 .. k
      <4>1. Down(p, i)
        BY <1>1, <2>3, <3>4
      <4>2. t[m].path[i] = t[p].path[i]
        BY <3>2, <3>4
      <4>3. i # 1 => i - 1 \in 1 .. k
        BY <3>1, <3>4
      <4>4. i # 1 => t[m].path[i - 1] = t[p].path[i - 1]
        BY <3>2, <4>3
      <4> QED BY <4>1, <4>2, <4>4
    <3>5. i = k + 1 \/ i \in 1 .. k
      BY <3>1, <3>2
    <3> QED BY <3>3, <3>4, <3>5
  <2> QED BY <2>1, <2>2, <2>3 DEF Hung
<1>2. C = Live(t)
  <2> HIDE DEF Down
  <2>1. C \in SUBSET Live(t)
    OBVIOUS
  <2>2. \A m \in Live(t) : (t[m].parent \in Live(t) => t[m].parent \in C) => m \in C
    BY <1>1
  <2> HIDE DEF C
  <2> QED BY <2>1, <2>2, DownTheTree
<1> QED BY <1>2

LEMMA BreadcrumbOfTree ==
    ASSUME Shaped(nodes), TreeConsistent
    PROVE  BreadcrumbIsLineage
<1> SUFFICES ASSUME NEW n \in Live(nodes)
             PROVE  LET crumbs == NodePath(n) IN
                      /\ Last(crumbs) = n
                      /\ nodes[Head(crumbs)].parent = NoParent
                      /\ \A i \in 2 .. Len(crumbs) : nodes[crumbs[i]].parent = crumbs[i - 1]
  BY DEF BreadcrumbIsLineage
<1> DEFINE path == nodes[n].path
<1>1. /\ path \in Seq(NodeId) /\ path # <<>> /\ Last(path) = n
      /\ Len(path) \in Nat /\ Len(path) > 0
  BY LivePath
<1>2. \A i \in 1 .. Len(path) : /\ path[i] \in Live(nodes)
                                /\ i = 1 => nodes[path[i]].parent = NoParent
                                /\ i # 1 => nodes[path[i]].parent = path[i - 1]
  BY Lineage, ConsistentNodes
<1>3. NodePath(n) = path
  BY <1>1, <1>2, WholePath
<1> HIDE DEF path
<1>4. Head(path) = path[1]
  BY <1>1, HeadTailProperties
<1>5. nodes[Head(path)].parent = NoParent
  BY <1>1, <1>2, <1>4
<1>6. \A i \in 2 .. Len(path) : nodes[path[i]].parent = path[i - 1]
  BY <1>1, <1>2
<1> QED BY <1>1, <1>3, <1>5, <1>6

(* Within a source an external id leads to one node. *)
LEMMA ListingOfTree ==
    ASSUME KeysGiven, ExternalKeyUnique
    PROVE  ListingRebuildsTree
<1> SUFFICES ASSUME NEW src \in Source,
                    NEW n \in Listing(src, NoParent, NoLimit, NoLimit),
                    NEW pool \in {Listing(src, NoParent, NoLimit, NoLimit), {n}},
                    nodes[n].parent \in Listing(src, NoParent, NoLimit, NoLimit)
             PROVE  {m \in Listing(src, NoParent, NoLimit, NoLimit) :
                       nodes[m].ext = PooledParentExternalId(n, pool)}
                      = {nodes[n].parent}
  BY DEF ListingRebuildsTree
<1> DEFINE p == nodes[n].parent
<1>1. Listing(src, NoParent, NoLimit, NoLimit) = NodesBySource(src)
  BY DEF Listing, NoLimit
<1>2. p \in Live(nodes) /\ nodes[p].source = src /\ nodes[p].ext # NoExt
  BY <1>1, DirectoryAssumption DEF NodesBySource, KeysGiven
<1>3. PooledParentExternalId(n, pool) = nodes[p].ext
  BY <1>2 DEF PooledParentExternalId, ParentExternalId
<1>4. \A m \in NodesBySource(src) : nodes[m].ext = nodes[p].ext <=> m = p
  BY <1>2 DEF NodesBySource, ExternalKeyUnique
<1>5. p \in NodesBySource(src)
  BY <1>1
<1> QED BY <1>1, <1>3, <1>4, <1>5

(* A live row's depth, and its parent's. *)
LEMMA DepthOfRow ==
    ASSUME NEW t, Consistent(t), NEW m \in Live(t)
    PROVE  /\ t[m].depth = Len(t[m].path) - 1 /\ t[m].depth \in Nat
           /\ t[m].parent \in Live(t) => t[m].depth = t[t[m].parent].depth + 1
           /\ t[m].parent \notin Live(t) => t[m].depth = 0 /\ t[m].parent = NoParent
<1>1. \A x \in Live(t) : /\ t[x].depth = Len(t[x].path) - 1
                         /\ Len(t[x].path) \in Nat /\ Len(t[x].path) > 0
  <2> TAKE x \in Live(t)
  <2>1. PathOfRow(t, x)
    BY DEF Consistent, Shaped, Live, Rows
  <2> QED BY <2>1, LivePath DEF PathOfRow, Consistent
<1>2. t[m].depth = Len(t[m].path) - 1 /\ t[m].depth \in Nat
  BY <1>1
<1>3. ASSUME t[m].parent \in Live(t) PROVE t[m].depth = t[t[m].parent].depth + 1
  <2>1. Len(t[m].path) = Len(t[t[m].parent].path) + 1
    BY <1>3, ParentShorter
  <2> QED BY <1>1, <1>3, <2>1
<1>4. ASSUME t[m].parent \notin Live(t) PROVE t[m].depth = 0 /\ t[m].parent = NoParent
  <2>1. t[m].parent = NoParent /\ t[m].path = <<m>>
    BY <1>4 DEF Consistent, Hung
  <2>2. Len(<<m>>) = 1
    OBVIOUS
  <2> QED BY <1>2, <2>1, <2>2
<1> QED BY <1>2, <1>3, <1>4

(* A row is deeper than the rows it is below. *)
LEMMA BelowDeeper ==
    ASSUME NEW t, Consistent(t), NEW n \in Live(t), NEW m \in Below(t, t[n].path)
    PROVE  t[m].depth > t[n].depth
<1>1. m \in Live(t) /\ IsStrictPrefix(t[n].path, t[m].path)
  BY DEF Below
<1>2. /\ t[n].path \in Seq(NodeId) /\ t[m].path \in Seq(NodeId)
      /\ Len(t[n].path) \in Nat /\ Len(t[m].path) \in Nat
  BY <1>1, LivePath DEF Consistent
<1>3. Len(t[n].path) < Len(t[m].path)
  BY <1>1, <1>2, StrictPrefixIff
<1>4. t[m].depth = Len(t[m].path) - 1 /\ t[n].depth = Len(t[n].path) - 1
  BY <1>1, DepthOfRow
<1> QED BY <1>2, <1>3, <1>4

(* A sequence of generations is what Generation computes. *)
LEMMA GenerationIs ==
    ASSUME NEW top, NEW k \in Nat, NEW g, g[0] = {top},
           \A i \in Nat : g[i + 1] = UNION {Children(nodes, p) : p \in g[i]}
    PROVE  Generation(top, k) = g[k]
<1> DEFINE Step(f) == [i \in 0 .. k |->
                         IF i = 0 THEN {top}
                         ELSE UNION {Children(nodes, p) : p \in f[i - 1]}]
           h == [i \in 0 .. k |-> g[i]]
           gen == CHOOSE f : f = Step(f)
<1>1. Generation(top, k) = gen[k]
  BY DEF Generation
<1>2. \A i \in 0 .. k : i # 0 => i - 1 \in 0 .. k /\ i - 1 \in Nat /\ (i - 1) + 1 = i
  OBVIOUS
<1>3. h = Step(h)
  <2>1. \A i \in 0 .. k : h[i] = Step(h)[i]
    <3> TAKE i \in 0 .. k
    <3>1. CASE i = 0
      BY <3>1
    <3>2. CASE i # 0
      <4>1. g[i] = UNION {Children(nodes, p) : p \in g[i - 1]}
        BY <1>2, <3>2
      <4> QED BY <1>2, <3>2, <4>1
    <3> QED BY <3>1, <3>2
  <2> QED BY <2>1
<1>4. gen = Step(gen)
  <2> HIDE DEF h, Step
  <2> QED BY <1>3
<1> HIDE DEF gen
<1>5. \A i \in 0 .. k :
         gen[i] = IF i = 0 THEN {top} ELSE UNION {Children(nodes, p) : p \in gen[i - 1]}
  <2>1. \A i \in 0 .. k : gen[i] = Step(gen)[i]
    BY <1>4
  <2> QED BY <2>1
<1>6. \A i \in 0 .. k : gen[i] = g[i]
  <2> DEFINE T == {i \in 0 .. k : gen[i] # g[i]}
  <2> SUFFICES ASSUME T # {} PROVE FALSE
    OBVIOUS
  <2>1. T \subseteq Nat
    OBVIOUS
  <2> HIDE DEF T
  <2>2. PICK j \in T : \A l \in T : ~(l < j)
    BY <2>1, LeastNat
  <2>3. j \in 0 .. k /\ gen[j] # g[j]
    BY <2>2 DEF T
  <2>4. CASE j = 0
    BY <1>5, <2>3, <2>4
  <2>5. CASE j # 0
    <3>1. j - 1 \in 0 .. k /\ j - 1 \in Nat /\ j - 1 < j /\ (j - 1) + 1 = j
      BY <1>2, <2>3, <2>5
    <3>2. gen[j - 1] = g[j - 1]
      BY <2>2, <3>1 DEF T
    <3>3. gen[j] = UNION {Children(nodes, p) : p \in gen[j - 1]}
      BY <1>5, <2>3, <2>5
    <3>4. g[j] = UNION {Children(nodes, p) : p \in g[j - 1]}
      BY <3>1
    <3> QED BY <2>3, <3>2, <3>3, <3>4
  <2> QED BY <2>4, <2>5
<1>7. k \in 0 .. k
  OBVIOUS
<1> QED BY <1>1, <1>6, <1>7

(* The nodes k steps below a node are those below its path at that depth. *)
LEMMA GenerationOfNode ==
    ASSUME Consistent(nodes), NEW top \in Live(nodes), NEW k \in Nat
    PROVE  Generation(top, k)
             = {m \in {top} \cup Below(nodes, nodes[top].path) :
                  nodes[m].depth = nodes[top].depth + k}
<1> DEFINE B == {top} \cup Below(nodes, nodes[top].path)
           g == [i \in Nat |-> {m \in B : nodes[m].depth = nodes[top].depth + i}]
<1>1. B \subseteq Live(nodes) /\ \A m \in Live(nodes) : nodes[m].depth \in Nat
  BY DepthOfRow DEF Below
<1>2. g[0] = {top}
  <2>1. \A m \in B : nodes[m].depth = nodes[top].depth <=> m = top
    BY <1>1, BelowDeeper
  <2> QED BY <1>1, <2>1
<1>3. ASSUME NEW i \in Nat
      PROVE  g[i + 1] = UNION {Children(nodes, p) : p \in g[i]}
  <2>1. ASSUME NEW m \in Live(nodes)
        PROVE  m \in g[i + 1] <=> nodes[m].parent \in g[i]
    <3> DEFINE p == nodes[m].parent
    <3>1. m \in Below(nodes, nodes[top].path) <=> p \in B
      BY BelowChild
    <3>2. p \in Live(nodes) => nodes[m].depth = nodes[p].depth + 1
      BY DepthOfRow
    <3>3. nodes[m].depth = nodes[top].depth + (i + 1) => m # top
      BY <1>1
    <3>4. p \in Live(nodes)
            => (nodes[p].depth = nodes[top].depth + i
                  <=> nodes[m].depth = nodes[top].depth + (i + 1))
      BY <1>1, <3>2
    <3>5. m \in g[i + 1] <=> m \in B /\ nodes[m].depth = nodes[top].depth + (i + 1)
      OBVIOUS
    <3>6. p \in g[i] <=> p \in B /\ nodes[p].depth = nodes[top].depth + i
      OBVIOUS
    <3> HIDE DEF g
    <3> QED BY <1>1, <3>1, <3>3, <3>4, <3>5, <3>6
  <2>2. g[i + 1] \subseteq Live(nodes)
    BY <1>1
  <2> HIDE DEF g
  <2> QED BY <2>1, <2>2 DEF Children
<1> HIDE DEF B
<1>4. g[k] = {m \in B : nodes[m].depth = nodes[top].depth + k}
  OBVIOUS
<1> HIDE DEF g
<1>5. Generation(top, k) = g[k]
  BY <1>2, <1>3, GenerationIs
<1> QED BY <1>4, <1>5 DEF B

(* The roots are the first generation, and depth counts the others. *)
LEMMA GenerationOfTree ==
    ASSUME Consistent(nodes), NEW k \in Nat
    PROVE  Generation(NoParent, k + 1) = {m \in Live(nodes) : nodes[m].depth = k}
<1> DEFINE g == [i \in Nat |-> IF i = 0 THEN {NoParent}
                               ELSE {m \in Live(nodes) : nodes[m].depth = i - 1}]
<1>1. /\ \A m \in Live(nodes) : nodes[m].depth \in Nat
      /\ NoParent \notin Live(nodes)
  BY DepthOfRow, NodeTableAssumption DEF Live
<1>2. g[0] = {NoParent}
  OBVIOUS
<1>3. ASSUME NEW i \in Nat
      PROVE  g[i + 1] = UNION {Children(nodes, p) : p \in g[i]}
  <2>1. g[i + 1] = {m \in Live(nodes) : nodes[m].depth = i}
    <3>1. i + 1 \in Nat /\ i + 1 # 0 /\ (i + 1) - 1 = i
      OBVIOUS
    <3> QED BY <3>1
  <2>2. CASE i = 0
    <3>1. \A m \in Live(nodes) : nodes[m].depth = 0 <=> nodes[m].parent = NoParent
      BY <1>1, DepthOfRow
    <3>2. g[i] = {NoParent}
      BY <2>2
    <3> HIDE DEF g
    <3> QED BY <2>1, <2>2, <3>1, <3>2 DEF Children
  <2>3. CASE i # 0
    <3>1. g[i] = {m \in Live(nodes) : nodes[m].depth = i - 1}
      BY <2>3
    <3> HIDE DEF g
    <3>2. ASSUME NEW m \in Live(nodes)
          PROVE  nodes[m].depth = i <=> nodes[m].parent \in g[i]
      <4>1. CASE nodes[m].parent \in Live(nodes)
        <5>1. nodes[m].depth = nodes[nodes[m].parent].depth + 1
          BY <4>1, DepthOfRow
        <5>2. nodes[m].depth = i <=> nodes[nodes[m].parent].depth = i - 1
          BY <1>1, <4>1, <5>1
        <5> QED BY <3>1, <4>1, <5>2
      <4>2. CASE nodes[m].parent \notin Live(nodes)
        BY <2>3, <3>1, <4>2, DepthOfRow
      <4> QED BY <4>1, <4>2
    <3> QED BY <2>1, <3>2 DEF Children
  <2> QED BY <2>2, <2>3
<1>4. g[k + 1] = {m \in Live(nodes) : nodes[m].depth = k}
  <2>1. k + 1 \in Nat /\ k + 1 # 0 /\ (k + 1) - 1 = k
    OBVIOUS
  <2> QED BY <2>1
<1> HIDE DEF g
<1>5. k + 1 \in Nat
  OBVIOUS
<1>6. Generation(NoParent, k + 1) = g[k + 1]
  BY <1>2, <1>3, <1>5, GenerationIs
<1> QED BY <1>4, <1>6

(* buildTreeNode, given depth enough, collects a node and what is below it. *)
LEMMA BuiltTree ==
    ASSUME Consistent(nodes), Fits(nodes), NEW n \in Live(nodes)
    PROVE  BuildTreeNode(n, MaxPathLen - 1) = {n} \cup Below(nodes, nodes[n].path)
<1> DEFINE B == {n} \cup Below(nodes, nodes[n].path)
<1>1. MaxPathLen - 1 \in Nat
  BY NodeTableAssumption
<1>2. ASSUME NEW m \in B
      PROVE  \E k \in 0 .. MaxPathLen - 1 : nodes[m].depth = nodes[n].depth + k
  <2>1. m \in Live(nodes) /\ m \in NodeId
    BY DEF Below, Live
  <2>2. nodes[m].depth \in Nat /\ nodes[n].depth \in Nat
        /\ nodes[m].depth = Len(nodes[m].path) - 1
    BY <2>1, DepthOfRow
  <2>3. nodes[m].depth >= nodes[n].depth
    BY <2>2, BelowDeeper
  <2>4. Len(nodes[m].path) <= MaxPathLen /\ Len(nodes[m].path) \in Nat
    BY <2>1, LivePath DEF Fits, Consistent
  <2>5. nodes[m].depth - nodes[n].depth \in 0 .. MaxPathLen - 1
    BY <1>1, <2>2, <2>3, <2>4, NodeTableAssumption
  <2>6. nodes[m].depth = nodes[n].depth + (nodes[m].depth - nodes[n].depth)
    BY <2>2
  <2> QED BY <2>5, <2>6
<1>3. \A k \in 0 .. MaxPathLen - 1 :
         Generation(n, k) = {m \in B : nodes[m].depth = nodes[n].depth + k}
  BY GenerationOfNode
<1> HIDE DEF B
<1>4. UNION {Generation(n, k) : k \in 0 .. MaxPathLen - 1} = B
  BY <1>2, <1>3
<1> QED BY <1>4 DEF BuildTreeNode, B

(* The level that the filters of handleListSyncNodes compare. *)
LEMMA LevelOfRow ==
    ASSUME Consistent(nodes), NEW top \in Live(nodes) \cup {NoParent},
           NEW n \in Live(nodes),
           top # NoParent => IsStrictPrefix(nodes[top].path, nodes[n].path)
    PROVE  Level(n, top) \in Nat
<1>1. top \in Live(nodes) => n \in Below(nodes, nodes[top].path)
  BY NodeTableAssumption DEF Below, Live
<1>2. nodes[n].depth \in Nat
  BY DepthOfRow
<1>3. CASE top = NoParent
  BY <1>2, <1>3 DEF Level
<1>4. CASE top # NoParent
  <2>1. top \in Live(nodes)
    BY <1>4
  <2>2. nodes[top].depth \in Nat /\ nodes[n].depth > nodes[top].depth
    BY <1>1, <2>1, DepthOfRow, BelowDeeper
  <2> QED BY <1>2, <1>4, <2>2 DEF Level
<1> QED BY <1>3, <1>4

(* The listing below a node, or of the whole source: the filters need not look
   for negative levels. *)
LEMMA ListingBelow ==
    ASSUME Consistent(nodes), NEW src, NEW top \in Live(nodes) \cup {NoParent},
           NEW d, NEW max, NEW n
    PROVE  n \in Listing(src, top, d, max)
             <=> /\ n \in NodesBySource(src)
                 /\ top # NoParent => IsStrictPrefix(nodes[top].path, nodes[n].path)
                 /\ d # NoLimit => Level(n, top) = d
                 /\ max # NoLimit => Level(n, top) <= max
<1>1. n \in NodesBySource(src) => n \in Live(nodes)
  BY DEF NodesBySource
<1>2. ASSUME n \in NodesBySource(src),
             top # NoParent => IsStrictPrefix(nodes[top].path, nodes[n].path)
      PROVE  Level(n, top) >= 0
  <2>1. Level(n, top) \in Nat
    BY <1>1, <1>2, LevelOfRow
  <2> QED BY <2>1
<1> QED BY <1>2 DEF Listing

(* The listing at one level is a generation, of the source. *)
LEMMA ListingIsGeneration ==
    ASSUME Consistent(nodes), NEW src, NEW top \in Live(nodes) \cup {NoParent},
           NEW d \in Nat
    PROVE  Listing(src, top, d, NoLimit) = Generation(top, d + 1) \cap NodesBySource(src)
<1>1. d # NoLimit
  BY DEF NoLimit
<1>2. ASSUME NEW n
      PROVE  n \in Listing(src, top, d, NoLimit)
               <=> n \in Generation(top, d + 1) \cap NodesBySource(src)
  <2>1. n \in Listing(src, top, d, NoLimit)
          <=> /\ n \in NodesBySource(src)
              /\ top # NoParent => IsStrictPrefix(nodes[top].path, nodes[n].path)
              /\ Level(n, top) = d
    BY <1>1, ListingBelow
  <2> SUFFICES ASSUME n \in NodesBySource(src)
               PROVE  (/\ top # NoParent => IsStrictPrefix(nodes[top].path, nodes[n].path)
                       /\ Level(n, top) = d) <=> n \in Generation(top, d + 1)
    BY <2>1
  <2>2. n \in Live(nodes) /\ nodes[n].depth \in Nat
    BY DepthOfRow DEF NodesBySource
  <2>3. CASE top = NoParent
    <3>1. Generation(NoParent, d + 1) = {m \in Live(nodes) : nodes[m].depth = d}
      BY GenerationOfTree
    <3> QED BY <2>2, <2>3, <3>1 DEF Level
  <2>4. CASE top # NoParent
    <3>1. top \in Live(nodes) /\ d + 1 \in Nat
      BY <2>4
    <3>2. nodes[top].depth \in Nat
      BY <3>1, DepthOfRow
    <3>3. Generation(top, d + 1)
            = {m \in {top} \cup Below(nodes, nodes[top].path) :
                 nodes[m].depth = nodes[top].depth + (d + 1)}
      BY <3>1, GenerationOfNode
    <3>4. IsStrictPrefix(nodes[top].path, nodes[n].path)
            <=> n \in Below(nodes, nodes[top].path)
      BY <2>2 DEF Below
    <3>5. Level(n, top) = nodes[n].depth - nodes[top].depth - 1
      BY <2>4 DEF Level
    <3>6. Level(n, top) = d <=> nodes[n].depth = nodes[top].depth + (d + 1)
      BY <2>2, <3>2, <3>5
    <3>7. nodes[n].depth = nodes[top].depth + (d + 1) => n # top
      BY <3>2
    <3> QED BY <2>4, <3>3, <3>4, <3>6, <3>7
  <2> QED BY <2>3, <2>4
<1> QED BY <1>2

(* The listing down to a level is made of the levels. *)
LEMMA ListingByLevels ==
    ASSUME Consistent(nodes), NEW src, NEW top \in Live(nodes) \cup {NoParent},
           NEW d \in Nat
    PROVE  Listing(src, top, NoLimit, d)
             = UNION {Listing(src, top, k, NoLimit) : k \in 0 .. d}
<1>1. d # NoLimit /\ \A k \in 0 .. d : k # NoLimit
  BY DEF NoLimit
<1>2. ASSUME NEW n
      PROVE  n \in Listing(src, top, NoLimit, d)
               <=> \E k \in 0 .. d : n \in Listing(src, top, k, NoLimit)
  <2> DEFINE Found == /\ n \in NodesBySource(src)
                      /\ top # NoParent => IsStrictPrefix(nodes[top].path, nodes[n].path)
  <2>1. n \in Listing(src, top, NoLimit, d) <=> Found /\ Level(n, top) <= d
    BY <1>1, ListingBelow
  <2>2. Found => Level(n, top) \in Nat
    BY LevelOfRow DEF NodesBySource
  <2>3. ASSUME NEW k \in 0 .. d
        PROVE  n \in Listing(src, top, k, NoLimit) <=> Found /\ Level(n, top) = k
    <3>1. n \in Listing(src, top, k, NoLimit)
            <=> Found /\ (top # NoParent => Level(n, top) >= 0) /\ Level(n, top) = k
      BY <1>1 DEF Listing
    <3> HIDE DEF Found
    <3> QED BY <2>2, <3>1
  <2> HIDE DEF Found
  <2>4. Found => (Level(n, top) <= d <=> Level(n, top) \in 0 .. d)
    BY <2>2
  <2> QED BY <2>1, <2>3, <2>4
<1> QED BY <1>2

(* Endpoints that go by parent_id and endpoints that go by path and depth show
   the same tree. *)
LEMMA EndpointsOfTree ==
    ASSUME Consistent(nodes), Fits(nodes)
    PROVE  EndpointsAgree
<1> DEFINE deepest == MaxPathLen - 1
<1>1. FullTree(deepest) = Live(nodes)
  <2>1. \A r \in RootNodes :
           r \in Live(nodes) /\ BuildTreeNode(r, deepest) = {r} \cup Below(nodes, nodes[r].path)
    BY BuiltTree DEF RootNodes, Children
  <2>2. ASSUME NEW m \in Live(nodes)
        PROVE  \E r \in RootNodes : m \in {r} \cup Below(nodes, nodes[r].path)
    <3> DEFINE r == nodes[m].path[1]
    <3>1. 1 \in 1 .. Len(nodes[m].path)
      BY LivePath DEF Consistent
    <3>2. r \in Live(nodes) /\ nodes[r].parent = NoParent
      BY <3>1, Lineage
    <3>3. m \in {r} \cup Below(nodes, nodes[r].path)
      BY <3>1, <3>2, OnPath
    <3> QED BY <3>2, <3>3 DEF RootNodes, Children
  <2>3. \A r \in RootNodes : Below(nodes, nodes[r].path) \subseteq Live(nodes)
    BY DEF Below
  <2> QED BY <2>1, <2>2, <2>3 DEF FullTree
<1>2. \A n \in Live(nodes) : CountedNodes(n) = BuildTreeNode(n, deepest)
  BY BuiltTree DEF CountedNodes
<1>3. ASSUME NEW src \in Source, NEW d \in 0 .. deepest,
             NEW top \in Live(nodes) \cup {NoParent}
      PROVE  /\ Listing(src, top, d, NoLimit)
                  = Generation(top, d + 1) \cap NodesBySource(src)
             /\ Listing(src, top, NoLimit, d)
                  = UNION {Listing(src, top, k, NoLimit) : k \in 0 .. d}
  <2>1. d \in Nat
    BY NodeTableAssumption
  <2>2. Listing(src, top, d, NoLimit) = Generation(top, d + 1) \cap NodesBySource(src)
    BY <2>1, ListingIsGeneration
  <2>3. Listing(src, top, NoLimit, d) = UNION {Listing(src, top, k, NoLimit) : k \in 0 .. d}
    BY <2>1, ListingByLevels
  <2> QED BY <2>2, <2>3
<1>4. ASSUME NEW src \in Source, NEW n \in Live(nodes)
      PROVE  SyncChildren(src, n) = Listing(src, n, 0, NoLimit)
  <2>1. Listing(src, n, 0, NoLimit) = Generation(n, 0 + 1) \cap NodesBySource(src)
    BY ListingIsGeneration
  <2>2. Generation(n, 1)
          = {m \in {n} \cup Below(nodes, nodes[n].path) :
               nodes[m].depth = nodes[n].depth + 1}
    BY GenerationOfNode
  <2>3. ASSUME NEW m \in Live(nodes)
        PROVE  nodes[m].parent = n
                 <=> /\ m \in {n} \cup Below(nodes, nodes[n].path)
                     /\ nodes[m].depth = nodes[n].depth + 1
    <3> DEFINE p == nodes[m].parent
    <3>1. m \in Below(nodes, nodes[n].path)
            <=> p = n \/ p \in Below(nodes, nodes[n].path)
      BY BelowChild
    <3>2. nodes[m].depth \in Nat /\ nodes[n].depth \in Nat
      BY DepthOfRow
    <3>3. p \in Live(nodes) => nodes[m].depth = nodes[p].depth + 1
      BY DepthOfRow
    <3>4. p \in Below(nodes, nodes[n].path)
            => /\ p \in Live(nodes) /\ nodes[p].depth \in Nat
               /\ nodes[p].depth > nodes[n].depth
      BY DepthOfRow, BelowDeeper DEF Below
    <3> QED BY <3>1, <3>2, <3>3, <3>4
  <2> QED BY <2>1, <2>2, <2>3 DEF SyncChildren, Children, NodesBySource, Below
<1>5. ASSUME NEW src \in Source, NEW n \in Live(nodes)
      PROVE  MemberNodes(src, n) = {n} \cup Listing(src, n, NoLimit, NoLimit)
  <2>1. n # NoParent
    BY NodeTableAssumption DEF Live
  <2>2. \A m : m \in Listing(src, n, NoLimit, NoLimit)
                <=> /\ m \in NodesBySource(src)
                    /\ IsStrictPrefix(nodes[n].path, nodes[m].path)
    BY <2>1, ListingBelow
  <2> QED BY <2>2 DEF MemberNodes, NodesBySource, Below
<1> QED BY <1>1, <1>2, <1>3, <1>4, <1>5 DEF EndpointsAgree

-----------------------------------------------------------------------------
(* Theorems: what clients and the permission walk see *)

(* The breadcrumb leads from a root to the node and leaves no node out. *)
THEOREM BreadcrumbsAreLineages ==
    ASSUME StaleIds = FALSE
    PROVE  CascadeSpec => []BreadcrumbIsLineage
<1>1. TreeInv => BreadcrumbIsLineage
  BY BreadcrumbOfTree, ShapeInvAlt DEF TreeInv
<1> QED BY <1>1, TreeInvariant, PTL

(* A role in a node is good for that node's subtree and for nothing else. *)
THEOREM RightsFollowTheTree ==
    ASSUME StaleIds = FALSE
    PROVE  CascadeSpec => []RightsInherited
<1>1. TreeInv => RightsInherited
  BY RightsBelow, ShapeInvAlt DEF TreeInv
<1> QED BY <1>1, TreeInvariant, PTL

(* The endpoints show one tree. *)
THEOREM EndpointsShowOneTree ==
    ASSUME StaleIds = FALSE
    PROVE  CascadeSpec => []EndpointsAgree
<1>1. TreeInv => EndpointsAgree
  BY EndpointsOfTree, TreeInvAlt, ShapeInvAlt
<1> QED BY <1>1, TreeInvariant, PTL

(* A client can rebuild the tree of a source from external ids. *)
THEOREM ListingsRebuildTrees ==
    ASSUME StaleIds = FALSE
    PROVE  CascadeSpec => []ListingRebuildsTree
<1>1. TreeInv => ListingRebuildsTree
  BY ListingOfTree DEF TreeInv
<1> QED BY <1>1, TreeInvariant, PTL

=============================================================================
