----------------------------- MODULE SyncProofs -----------------------------
(***************************************************************************)
(* What a sync does to both tables, for every request, set of ids, sources *)
(* and users, and whatever administrators do between its items.            *)
(***************************************************************************)
EXTENDS Sync, NodeTableProofs, FiniteSetTheorems

-----------------------------------------------------------------------------
(* Sequences *)

(* A sequence computed one step at a time exists. *)
Iteration(D, b, step, n) ==
    {f \in [0 .. n -> D] : /\ f[0] = b
                          /\ \A i \in 1 .. n : f[i] = step[<<f[i - 1], i>>]}

LEMMA Iterated ==
    ASSUME NEW D, NEW b \in D, NEW step \in [D \X Nat -> D], NEW n \in Nat
    PROVE  Iteration(D, b, step, n) # {}
<1> DEFINE P(k) == \E f \in [0 .. k -> D] :
                      /\ f[0] = b
                      /\ \A i \in 1 .. k : f[i] = step[<<f[i - 1], i>>]
           T == {k \in Nat : ~P(k)}
<1> SUFFICES ASSUME n \in T PROVE FALSE
  BY DEF Iteration
<1>1. PICK k \in T : \A j \in T : ~(j < k)
  BY LeastNat
<1>2. k \in Nat /\ ~P(k)
  BY <1>1
<1>3. P(0)
  <2>1. [i \in 0 .. 0 |-> b] \in [0 .. 0 -> D]
    OBVIOUS
  <2>2. [i \in 0 .. 0 |-> b][0] = b /\ \A i \in 1 .. 0 : FALSE
    OBVIOUS
  <2> QED BY <2>1, <2>2
<1>4. k # 0
  BY <1>2, <1>3
<1>5. k - 1 \in Nat /\ k - 1 < k
  BY <1>2, <1>4
<1>6. P(k - 1)
  BY <1>1, <1>5
<1>7. PICK f \in [0 .. k - 1 -> D] :
         /\ f[0] = b
         /\ \A i \in 1 .. k - 1 : f[i] = step[<<f[i - 1], i>>]
  BY <1>6
<1> DEFINE e == step[<<f[k - 1], k>>]
           g == [i \in 0 .. k |-> IF i = k THEN e ELSE f[i]]
<1>8. e \in D
  <2>1. k - 1 \in 0 .. k - 1
    BY <1>5
  <2>2. f[k - 1] \in D
    BY <2>1
  <2>3. <<f[k - 1], k>> \in D \X Nat
    BY <1>2, <2>2
  <2> QED BY <2>3
<1>9. e = step[<<f[k - 1], k>>]
  OBVIOUS
<1> HIDE DEF e
<1>10. g \in [0 .. k -> D]
  <2>1. \A i \in 0 .. k : i # k => i \in 0 .. k - 1
    BY <1>2
  <2> QED BY <1>8, <2>1
<1>11. g[0] = b
  BY <1>2, <1>4, <1>7
<1>12. ASSUME NEW i \in 1 .. k PROVE g[i] = step[<<g[i - 1], i>>]
  <2>1. i - 1 \in 0 .. k /\ i - 1 # k /\ i \in 0 .. k
    BY <1>2
  <2>2. g[i - 1] = f[i - 1]
    BY <2>1
  <2>3. CASE i = k
    BY <1>9, <2>1, <2>2, <2>3
  <2>4. CASE i # k
    <3>1. i \in 1 .. k - 1
      BY <1>2, <2>4
    <3>2. g[i] = f[i]
      BY <2>1, <2>4
    <3>3. f[i] = step[<<f[i - 1], i>>]
      BY <1>7, <3>1
    <3> HIDE DEF g
    <3> QED BY <2>2, <3>2, <3>3
  <2> QED BY <2>3, <2>4
<1> HIDE DEF g
<1>13. P(k)
  BY <1>10, <1>11, <1>12
<1> QED BY <1>2, <1>13

(* A sequence that goes on by one step at a time: what holds at its start
   and passes on from each step holds at its end. *)
LEMMA LastOf ==
    ASSUME NEW n \in Nat, NEW T, 0 \in T,
           \A i \in 1 .. n : i - 1 \in T => i \in T
    PROVE  n \in T
<1> DEFINE R == {k \in 0 .. n : k \notin T}
<1> SUFFICES ASSUME R # {} PROVE FALSE
  OBVIOUS
<1>1. R \in SUBSET Nat
  OBVIOUS
<1>2. PICK k \in R : \A j \in R : ~(j < k)
  BY <1>1, LeastNat
<1>3. k \in 0 .. n /\ k \notin T /\ k # 0
  BY <1>2
<1>4. k \in 1 .. n /\ k - 1 \in 0 .. n /\ k - 1 < k
  BY <1>3
<1>5. k - 1 \in T
  BY <1>2, <1>4
<1> QED BY <1>3, <1>4, <1>5

LEMMA RangeEmpty == Range(<<>>) = {}
  BY DEF Range

LEMMA RangeAppend ==
    ASSUME NEW S, NEW s \in Seq(S), NEW e \in S
    PROVE  Append(s, e) \in Seq(S) /\ Range(Append(s, e)) = Range(s) \cup {e}
<1>1. /\ Append(s, e) \in Seq(S) /\ Len(Append(s, e)) = Len(s) + 1
      /\ Append(s, e)[Len(s) + 1] = e
      /\ \A i \in 1 .. Len(s) : Append(s, e)[i] = s[i]
  BY AppendProperties
<1> DEFINE q == Append(s, e)
<1>2. Range(q) = {q[i] : i \in 1 .. Len(q)} /\ Range(s) = {s[i] : i \in 1 .. Len(s)}
  BY <1>1, RangeEquality
<1>3. q \in Seq(S) /\ Len(q) = Len(s) + 1 /\ q[Len(s) + 1] = e
      /\ \A i \in 1 .. Len(s) : q[i] = s[i]
  BY <1>1
<1>4. Len(s) \in Nat
  BY LenProperties
<1> HIDE DEF q
<1>5. 1 .. Len(q) = 1 .. Len(s) \cup {Len(s) + 1}
  BY <1>3, <1>4
<1>6. Range(q) = Range(s) \cup {e}
  BY <1>2, <1>3, <1>5
<1> QED BY <1>3, <1>6 DEF q

(* The elements of a queue are its head and those of its tail. *)
LEMMA RangeTail ==
    ASSUME NEW S, NEW s \in Seq(S), s # <<>>
    PROVE  /\ Head(s) \in S /\ Tail(s) \in Seq(S)
           /\ Range(s) = {Head(s)} \cup Range(Tail(s))
<1> DEFINE q == Tail(s)
<1>1. /\ Head(s) \in S /\ q \in Seq(S) /\ Len(q) = Len(s) - 1
      /\ \A i \in 1 .. Len(q) : q[i] = s[i + 1]
      /\ Head(s) = s[1]
  BY HeadTailProperties
<1>2. Len(s) \in Nat /\ Len(s) > 0
  BY LenProperties, EmptySeq
<1>3. Range(q) = {q[i] : i \in 1 .. Len(q)} /\ Range(s) = {s[i] : i \in 1 .. Len(s)}
  BY <1>1, RangeEquality
<1> HIDE DEF q
<1>4. ASSUME NEW x \in Range(s) PROVE x \in {Head(s)} \cup Range(q)
  <2>1. PICK i \in 1 .. Len(s) : x = s[i]
    BY <1>3
  <2>2. CASE i = 1
    BY <1>1, <2>1, <2>2
  <2>3. CASE i # 1
    <3>1. i - 1 \in 1 .. Len(q) /\ (i - 1) + 1 = i
      BY <1>1, <1>2, <2>3
    <3>2. q[i - 1] = x
      BY <1>1, <2>1, <3>1
    <3> QED BY <1>3, <3>1, <3>2
  <2> QED BY <2>2, <2>3
<1>5. ASSUME NEW x \in {Head(s)} \cup Range(q) PROVE x \in Range(s)
  <2>1. CASE x = Head(s)
    <3>1. 1 \in 1 .. Len(s)
      BY <1>2
    <3> QED BY <1>1, <1>3, <2>1, <3>1
  <2>2. CASE x \in Range(q)
    <3>1. PICK i \in 1 .. Len(q) : x = q[i]
      BY <1>3, <2>2
    <3>2. i + 1 \in 1 .. Len(s)
      BY <1>1, <1>2
    <3> QED BY <1>1, <1>3, <3>1, <3>2
  <2> QED BY <2>1, <2>2
<1> QED BY <1>1, <1>4, <1>5 DEF q

-----------------------------------------------------------------------------
(* topologicalSortNodes *)

(* InOrder lists the positions of S, and nothing else. *)
LEMMA InOrderIs ==
    ASSUME NEW items, Len(items) \in Nat, NEW S \in SUBSET (1 .. Len(items))
    PROVE  /\ InOrder(items, S) \in Seq(1 .. Len(items))
           /\ Range(InOrder(items, S)) = S
<1> DEFINE N == Len(items)
           Step(f) == [i \in 0 .. N |->
                         IF i = 0 THEN <<>>
                         ELSE IF i \in S THEN Append(f[i - 1], i) ELSE f[i - 1]]
           f == CHOOSE g : g = Step(g)
           D == Seq(Nat)
           step == [x \in D \X Nat |-> IF x[2] \in S THEN Append(x[1], x[2]) ELSE x[1]]
           none == <<>>
<1>1. InOrder(items, S) = f[N]
  BY DEF InOrder
<1>2. N \in Nat
  OBVIOUS
<1>3. S \subseteq 1 .. N
  OBVIOUS
<1> HIDE DEF N
<1>4. step \in [D \X Nat -> D]
  <2>1. \A x \in D \X Nat : Append(x[1], x[2]) \in D
    OBVIOUS
  <2> QED BY <2>1
<1>5. none \in D
  OBVIOUS
<1>6. \A d \in D, i \in Nat : step[<<d, i>>] = IF i \in S THEN Append(d, i) ELSE d
  OBVIOUS
<1> HIDE DEF step, D, none
<1>a. Iteration(D, none, step, N) # {}
  BY <1>2, <1>4, <1>5, Iterated
<1>7. PICK h \in [0 .. N -> D] :
         h[0] = none /\ \A i \in 1 .. N : h[i] = step[<<h[i - 1], i>>]
  BY <1>a DEF Iteration
<1>8. \A i \in 1 .. N : i # 0 /\ i - 1 \in 0 .. N /\ i \in Nat
  BY <1>2
<1>9. \A i \in 1 .. N : h[i] = IF i \in S THEN Append(h[i - 1], i) ELSE h[i - 1]
  <2> TAKE i \in 1 .. N
  <2>1. h[i - 1] \in D
    BY <1>8
  <2> QED BY <1>6, <1>7, <1>8, <2>1
<1>10. h = Step(h)
  <2>1. \A i \in 0 .. N : i = 0 \/ i \in 1 .. N
    BY <1>2
  <2>2. \A i \in 0 .. N : h[i] = Step(h)[i]
    BY <1>7, <1>8, <1>9, <2>1 DEF none
  <2> QED BY <2>2
<1>11. f = Step(f)
  <2> HIDE DEF Step
  <2> QED BY <1>10
<1> HIDE DEF f
<1>12. f[0] = <<>> /\ \A i \in 1 .. N :
          f[i] = IF i \in S THEN Append(f[i - 1], i) ELSE f[i - 1]
  <2>1. \A i \in 0 .. N : f[i] = Step(f)[i]
    BY <1>11
  <2>2. 0 \in 0 .. N /\ \A i \in 1 .. N : i \in 0 .. N /\ i # 0
    BY <1>2
  <2> QED BY <2>1, <2>2
<1> DEFINE T == {i \in 0 .. N : f[i] \in Seq(1 .. N) /\ Range(f[i]) = S \cap (1 .. i)}
<1>13. 0 \in T
  <2>1. <<>> \in Seq(1 .. N) /\ Range(<<>>) = {}
    BY RangeEmpty
  <2>2. S \cap (1 .. 0) = {} /\ 0 \in 0 .. N
    BY <1>2
  <2> QED BY <1>12, <2>1, <2>2
<1>14. ASSUME NEW i \in 1 .. N, i - 1 \in T PROVE i \in T
  <2>1. f[i - 1] \in Seq(1 .. N) /\ Range(f[i - 1]) = S \cap (1 .. i - 1) /\ i \in 0 .. N
    BY <1>14, <1>2
  <2>2. 1 .. i = (1 .. i - 1) \cup {i}
    BY <1>2
  <2>3. CASE i \in S
    <3>1. f[i] = Append(f[i - 1], i)
      BY <1>12, <2>3
    <3> DEFINE P == 1 .. N
               before == f[i - 1]
    <3>a. before \in Seq(P) /\ i \in P
      BY <2>1
    <3> HIDE DEF P, before
    <3>b. Append(before, i) \in Seq(P) /\ Range(Append(before, i)) = Range(before) \cup {i}
      BY <3>a, RangeAppend
    <3>2. f[i] \in Seq(1 .. N) /\ Range(f[i]) = Range(f[i - 1]) \cup {i}
      BY <3>1, <3>b DEF P, before
    <3> QED BY <2>1, <2>2, <2>3, <3>2
  <2>4. CASE i \notin S
    BY <1>12, <2>1, <2>2, <2>4
  <2> QED BY <2>3, <2>4
<1> HIDE DEF T
<1>15. N \in T
  BY <1>2, <1>13, <1>14, LastOf
<1>16. f[N] \in Seq(1 .. N) /\ Range(f[N]) = S \cap (1 .. N)
  BY <1>15 DEF T
<1> QED BY <1>1, <1>3, <1>16 DEF N

(* A walk as it goes: whatever has been sorted, or waits in the queue, has no
   parent or has its parent sorted, and sorted before it. *)
Walk(items) == [queue : Seq(1 .. Len(items)), sorted : Seq(1 .. Len(items))]

Sound(items, w) ==
    /\ \A i \in Range(w.queue) :
          \/ items[i].parent = NoExt
          \/ \E j \in 1 .. Len(w.sorted) : items[w.sorted[j]].ext = items[i].parent
    /\ \A k \in 1 .. Len(w.sorted) :
          \/ items[w.sorted[k]].parent = NoExt
          \/ \E j \in 1 .. k - 1 : items[w.sorted[j]].ext = items[w.sorted[k]].parent

LEMMA ChildrenMapIs ==
    ASSUME NEW items, Len(items) \in Nat, NEW ext
    PROVE  /\ ChildrenMap(items, ext) \in Seq(1 .. Len(items))
           /\ \A i \in Range(ChildrenMap(items, ext)) : items[i].parent = ext
<1> DEFINE S == {i \in 1 .. Len(items) : items[i].parent = ext}
<1>1. S \in SUBSET (1 .. Len(items)) /\ \A i \in S : items[i].parent = ext
  OBVIOUS
<1>2. ChildrenMap(items, ext) = InOrder(items, S)
  BY DEF ChildrenMap
<1> HIDE DEF S
<1> QED BY <1>1, <1>2, InOrderIs

LEMMA TurnSound ==
    ASSUME NEW items, Len(items) \in Nat, NEW w \in Walk(items)
    PROVE  /\ Turn(items, w) \in Walk(items)
           /\ Sound(items, w) => Sound(items, Turn(items, w))
<1> DEFINE P == 1 .. Len(items)
           x == Head(w.queue)
           children == ChildrenMap(items, items[x].ext)
           queue == Tail(w.queue) \o children
           sorted == Append(w.sorted, x)
<1>1. CASE w.queue = <<>>
  BY <1>1 DEF Turn
<1>2. CASE w.queue # <<>>
  <2>1. w.queue \in Seq(P) /\ w.sorted \in Seq(P)
    BY DEF Walk
  <2>2. /\ x \in P /\ Tail(w.queue) \in Seq(P)
        /\ Range(w.queue) = {x} \cup Range(Tail(w.queue))
    BY <1>2, <2>1, RangeTail
  <2>3. /\ children \in Seq(P)
        /\ \A i \in Range(children) : items[i].parent = items[x].ext
    BY ChildrenMapIs
  <2>4. Turn(items, w) = [queue |-> queue, sorted |-> sorted]
    BY <1>2 DEF Turn
  <2> HIDE DEF P, x, children
  <2>5. queue \in Seq(P) /\ Range(queue) = Range(Tail(w.queue)) \cup Range(children)
    <3>1. queue \in Seq(P)
      BY <2>2, <2>3, ConcatProperties
    <3> DEFINE rest == Tail(w.queue)
    <3>a. rest \in Seq(P) /\ queue = rest \o children
      BY <2>2
    <3> HIDE DEF rest, queue
    <3>b. Range(rest \o children) = Range(rest) \cup Range(children)
      BY <2>3, <3>a, RangeConcatenation
    <3>2. Range(queue) = Range(Tail(w.queue)) \cup Range(children)
      BY <3>a, <3>b DEF rest
    <3> QED BY <3>1, <3>2
  <2>6. /\ sorted \in Seq(P) /\ Len(sorted) = Len(w.sorted) + 1
        /\ sorted[Len(w.sorted) + 1] = x
        /\ \A i \in 1 .. Len(w.sorted) : sorted[i] = w.sorted[i]
    BY <2>1, <2>2, AppendProperties
  <2>7. Len(w.sorted) \in Nat
    BY <2>1, LenProperties
  <2> DEFINE v == Turn(items, w)
  <2> HIDE DEF queue, sorted
  <2>8. v.queue = queue /\ v.sorted = sorted
    BY <2>4
  <2>9. v \in Walk(items)
    BY <2>4, <2>5, <2>6 DEF Walk, P
  <2> HIDE DEF v
  <2>10. ASSUME Sound(items, w) PROVE Sound(items, v)
    <3>1. ASSUME NEW i \in 1 .. Len(w.sorted) PROVE i \in 1 .. Len(sorted)
      BY <2>6, <2>7
    <3>2. Len(w.sorted) + 1 \in 1 .. Len(sorted)
      BY <2>6, <2>7
    <3>3. ASSUME NEW i \in Range(v.queue)
          PROVE  \/ items[i].parent = NoExt
                 \/ \E j \in 1 .. Len(v.sorted) : items[v.sorted[j]].ext = items[i].parent
      <4>1. CASE i \in Range(Tail(w.queue))
        <5>1. i \in Range(w.queue)
          BY <2>2, <4>1
        <5>2. \/ items[i].parent = NoExt
              \/ \E j \in 1 .. Len(w.sorted) : items[w.sorted[j]].ext = items[i].parent
          BY <2>10, <5>1 DEF Sound
        <5> QED BY <2>6, <2>8, <3>1, <5>2
      <4>2. CASE i \in Range(children)
        <5>1. items[sorted[Len(w.sorted) + 1]].ext = items[i].parent
          BY <2>3, <2>6, <4>2
        <5> QED BY <2>8, <3>2, <5>1
      <4> QED BY <2>5, <2>8, <3>3, <4>1, <4>2
    <3>4. ASSUME NEW k \in 1 .. Len(v.sorted)
          PROVE  \/ items[v.sorted[k]].parent = NoExt
                 \/ \E j \in 1 .. k - 1 : items[v.sorted[j]].ext = items[v.sorted[k]].parent
      <4>1. CASE k = Len(w.sorted) + 1
        <5>1. x \in Range(w.queue) /\ sorted[k] = x /\ k - 1 = Len(w.sorted)
          BY <2>2, <2>6, <2>7, <4>1
        <5>2. \/ items[x].parent = NoExt
              \/ \E j \in 1 .. k - 1 : items[w.sorted[j]].ext = items[x].parent
          BY <2>10, <5>1 DEF Sound
        <5>3. \A j \in 1 .. k - 1 : sorted[j] = w.sorted[j]
          BY <2>6, <5>1
        <5> QED BY <2>8, <5>1, <5>2, <5>3
      <4>2. CASE k # Len(w.sorted) + 1
        <5>1. k \in 1 .. Len(w.sorted) /\ \A j \in 1 .. k - 1 : j \in 1 .. Len(w.sorted)
          BY <2>6, <2>7, <2>8, <4>2
        <5>2. sorted[k] = w.sorted[k] /\ \A j \in 1 .. k - 1 : sorted[j] = w.sorted[j]
          BY <2>6, <5>1
        <5>3. \/ items[w.sorted[k]].parent = NoExt
              \/ \E j \in 1 .. k - 1 : items[w.sorted[j]].ext = items[w.sorted[k]].parent
          BY <2>10, <5>1 DEF Sound
        <5> QED BY <2>8, <5>2, <5>3
      <4> QED BY <4>1, <4>2
    <3> QED BY <3>3, <3>4 DEF Sound
  <2> QED BY <2>9, <2>10 DEF v
<1> QED BY <1>1, <1>2

(* In the breadth-first walk every position follows that of its parent. *)
LEMMA WalkedIs ==
    ASSUME NEW items, Len(items) \in Nat
    PROVE  /\ Walked(items) \in Seq(1 .. Len(items))
           /\ \A k \in 1 .. Len(Walked(items)) :
                \/ items[Walked(items)[k]].parent = NoExt
                \/ \E j \in 1 .. k - 1 :
                      items[Walked(items)[j]].ext = items[Walked(items)[k]].parent
<1> DEFINE N == Len(items)
           first == [queue |-> ChildrenMap(items, NoExt), sorted |-> <<>>]
           Step(f) == [k \in 0 .. N |-> IF k = 0 THEN first ELSE Turn(items, f[k - 1])]
           f == CHOOSE g : g = Step(g)
           D == Walk(items)
           step == [x \in D \X Nat |-> Turn(items, x[1])]
<1>1. Walked(items) = f[N].sorted
  BY DEF Walked
<1>2. first \in D /\ Sound(items, first)
  <2>1. /\ ChildrenMap(items, NoExt) \in Seq(1 .. Len(items))
        /\ \A i \in Range(ChildrenMap(items, NoExt)) : items[i].parent = NoExt
    BY ChildrenMapIs
  <2>2. Len(<<>>) = 0 /\ <<>> \in Seq(1 .. Len(items))
    OBVIOUS
  <2>3. Sound(items, first)
    BY <2>1, <2>2 DEF Sound
  <2>4. first \in D
    BY <2>1, <2>2 DEF Walk
  <2> QED BY <2>3, <2>4
<1>3. \A w \in D : Turn(items, w) \in D
  BY TurnSound
<1>4. N \in Nat
  OBVIOUS
<1> HIDE DEF N, D, first
<1>5. step \in [D \X Nat -> D]
  BY <1>3
<1>6. \A w \in D, k \in Nat : step[<<w, k>>] = Turn(items, w)
  OBVIOUS
<1> HIDE DEF step
<1>a. Iteration(D, first, step, N) # {}
  BY <1>2, <1>4, <1>5, Iterated
<1>7. PICK h \in [0 .. N -> D] :
         h[0] = first /\ \A k \in 1 .. N : h[k] = step[<<h[k - 1], k>>]
  BY <1>a DEF Iteration
<1>8. \A k \in 1 .. N : k # 0 /\ k - 1 \in 0 .. N /\ k \in Nat
  BY <1>4
<1>9. \A k \in 1 .. N : h[k] = Turn(items, h[k - 1])
  <2> TAKE k \in 1 .. N
  <2>1. h[k - 1] \in D
    BY <1>8
  <2> QED BY <1>6, <1>7, <1>8, <2>1
<1>10. h = Step(h)
  <2>1. \A k \in 0 .. N : k = 0 \/ k \in 1 .. N
    BY <1>4
  <2>2. \A k \in 0 .. N : h[k] = Step(h)[k]
    BY <1>7, <1>8, <1>9, <2>1
  <2> QED BY <2>2
<1>11. f = Step(f)
  <2> HIDE DEF Step
  <2> QED BY <1>10
<1> HIDE DEF f
<1>12. f[0] = first /\ \A k \in 1 .. N : f[k] = Turn(items, f[k - 1])
  <2>1. \A k \in 0 .. N : f[k] = Step(f)[k]
    BY <1>11
  <2>2. 0 \in 0 .. N /\ \A k \in 1 .. N : k \in 0 .. N /\ k # 0
    BY <1>4
  <2> QED BY <2>1, <2>2
<1> DEFINE T == {k \in 0 .. N : f[k] \in D /\ Sound(items, f[k])}
<1>13. 0 \in T
  BY <1>2, <1>4, <1>12
<1>14. ASSUME NEW k \in 1 .. N, k - 1 \in T PROVE k \in T
  <2>1. f[k - 1] \in D /\ Sound(items, f[k - 1]) /\ k \in 0 .. N
    BY <1>14, <1>4
  <2>2. f[k] = Turn(items, f[k - 1])
    BY <1>12
  <2>3. f[k] \in D /\ Sound(items, f[k])
    BY <1>4, <2>1, <2>2, TurnSound DEF D, N
  <2> QED BY <2>1, <2>3
<1> HIDE DEF T
<1>15. N \in T
  BY <1>4, <1>13, <1>14, LastOf
<1>16. f[N] \in Walk(items) /\ Sound(items, f[N])
  BY <1>15 DEF T, D
<1> DEFINE w == f[N]
<1>17. w \in Walk(items) /\ Sound(items, w) /\ Walked(items) = w.sorted
  BY <1>1, <1>16
<1> HIDE DEF w
<1> QED BY <1>17 DEF Walk, Sound

(* The items are sorted without loss, and an item whose chain of parents ends
   inside the request follows its parent. *)
LEMMA SortedIs ==
    ASSUME NEW S, NEW items \in Seq(S),
           \A i, j \in 1 .. Len(items) : items[i].ext = items[j].ext => i = j
    PROVE  /\ Sorted(items) \in Seq(S)
           /\ Range(Sorted(items)) = Range(items)
           /\ \A k \in 1 .. Len(Sorted(items)) :
                 /\ Sorted(items)[k].ext \in Rooted(items)
                 /\ Sorted(items)[k].parent # NoExt
                 => \E j \in 1 .. k - 1 :
                       Sorted(items)[j].ext = Sorted(items)[k].parent
<1> DEFINE N == Len(items)
           P == 1 .. N
           walked == Walked(items)
           left == P \ Range(walked)
           rest == InOrder(items, left)
           order == walked \o rest
           sorted == [k \in 1 .. Len(order) |-> items[order[k]]]
<1>1. N \in Nat /\ \A i \in P : items[i] \in S
  BY LenProperties, ElementOfSeq
<1>2. /\ walked \in Seq(P)
      /\ \A k \in 1 .. Len(walked) :
           \/ items[walked[k]].parent = NoExt
           \/ \E j \in 1 .. k - 1 : items[walked[j]].ext = items[walked[k]].parent
  BY <1>1, WalkedIs
<1>3. rest \in Seq(P) /\ Range(rest) = left
  <2>1. left \in SUBSET (1 .. Len(items))
    OBVIOUS
  <2> HIDE DEF left
  <2> QED BY <1>1, <2>1, InOrderIs
<1>4. Sorted(items) = sorted
  BY DEF Sorted
<1>5. Rooted(items) = {items[i].ext : i \in Range(walked)}
  BY DEF Rooted
<1>6. \A i, j \in P : items[i].ext = items[j].ext => i = j
  OBVIOUS
<1>7. Range(walked) \subseteq P
  BY <1>2, RangeOfSeq
<1>8. Range(items) = {items[i] : i \in P}
  BY RangeEquality
<1> HIDE DEF N, P, walked, rest
<1>9. /\ order \in Seq(P) /\ Len(order) = Len(walked) + Len(rest)
      /\ \A k \in 1 .. Len(walked) + Len(rest) :
            order[k] = IF k <= Len(walked) THEN walked[k] ELSE rest[k - Len(walked)]
  BY <1>2, <1>3, ConcatProperties
<1>10. Range(order) = Range(walked) \cup Range(rest)
  BY <1>2, <1>3, RangeConcatenation
<1>11. Range(order) = P
  BY <1>3, <1>7, <1>10
<1> HIDE DEF order
<1>12. Len(walked) \in Nat /\ Len(rest) \in Nat /\ Len(order) \in Nat
  BY <1>2, <1>3, <1>9, LenProperties
<1>13. Range(order) = {order[k] : k \in 1 .. Len(order)}
  BY <1>9, RangeEquality
<1>14. Range(rest) = {rest[k] : k \in 1 .. Len(rest)}
  BY <1>3, RangeEquality
<1>15. Range(walked) = {walked[k] : k \in 1 .. Len(walked)}
  BY <1>2, RangeEquality
<1>16. \A k \in 1 .. Len(order) : order[k] \in P
  BY <1>11, <1>13
<1>17. sorted \in Seq(S) /\ Len(sorted) = Len(order)
  <2>1. \A k \in 1 .. Len(order) : items[order[k]] \in S
    BY <1>1, <1>16
  <2> QED BY <1>12, <2>1, IsASeq
<1>18. \A k \in 1 .. Len(order) : sorted[k] = items[order[k]]
  OBVIOUS
<1> HIDE DEF sorted
<1>19. Range(sorted) = {sorted[k] : k \in 1 .. Len(sorted)}
  BY <1>17, RangeEquality
<1>20. Range(sorted) = Range(items)
  BY <1>8, <1>11, <1>13, <1>17, <1>18, <1>19
<1>21. ASSUME NEW k \in 1 .. Len(sorted),
              sorted[k].ext \in Rooted(items), sorted[k].parent # NoExt
       PROVE  \E j \in 1 .. k - 1 : sorted[j].ext = sorted[k].parent
  <2>1. PICK i \in Range(walked) : items[i].ext = items[order[k]].ext
    BY <1>5, <1>17, <1>18, <1>21
  <2>2. order[k] \in Range(walked)
    BY <1>6, <1>7, <1>16, <1>17, <2>1
  <2>3. k <= Len(walked)
    <3> SUFFICES ASSUME ~(k <= Len(walked)) PROVE FALSE
      OBVIOUS
    <3>1. k - Len(walked) \in 1 .. Len(rest) /\ k \in 1 .. Len(walked) + Len(rest)
      BY <1>9, <1>12, <1>17
    <3>2. order[k] = rest[k - Len(walked)]
      BY <1>9, <3>1
    <3>3. order[k] \in left
      BY <1>3, <1>14, <3>1, <3>2
    <3> QED BY <2>2, <3>3
  <2>4. /\ k \in 1 .. Len(walked)
        /\ \A j \in 1 .. k : /\ j \in 1 .. Len(walked) + Len(rest)
                             /\ j <= Len(walked) /\ j \in 1 .. Len(order)
        /\ k \in 1 .. k /\ \A j \in 1 .. k - 1 : j \in 1 .. k
    BY <1>9, <1>12, <1>17, <2>3
  <2>5. \A j \in 1 .. k : order[j] = walked[j] /\ sorted[j] = items[walked[j]]
    BY <1>9, <1>18, <2>4
  <2>6. items[walked[k]].parent # NoExt
    BY <1>21, <2>4, <2>5
  <2>7. PICK j \in 1 .. k - 1 : items[walked[j]].ext = items[walked[k]].parent
    BY <1>2, <2>4, <2>6
  <2> QED BY <2>4, <2>5, <2>7
<1> QED BY <1>4, <1>17, <1>20, <1>21

-----------------------------------------------------------------------------
(* Paths *)

LEMMA PrefixIff ==
    ASSUME NEW S, NEW p \in Seq(S), NEW q \in Seq(S)
    PROVE  IsPrefix(p, q) <=> /\ Len(p) <= Len(q)
                              /\ \A i \in 1 .. Len(p) : q[i] = p[i]
<1>1. Len(p) \in Nat /\ Len(q) \in Nat
  BY LenProperties
<1> DEFINE a == SubSeq(p, 1, Len(p))
           b == SubSeq(q, 1, Len(p))
<1>2. SUFFICES ASSUME Len(p) <= Len(q)
               PROVE  a = b <=> \A i \in 1 .. Len(p) : q[i] = p[i]
  BY <1>1 DEF IsPrefix
<1>3. \A i \in 1 .. Len(p) : p[i] \in S /\ q[i] \in S
  BY <1>1, <1>2, ElementOfSeq
<1>4. a \in Seq(S) /\ Len(a) = Len(p) /\ \A i \in 1 .. Len(p) : a[i] = p[i]
  BY <1>1, <1>3, SubSeqProperties
<1>5. b \in Seq(S) /\ Len(b) = Len(p) /\ \A i \in 1 .. Len(p) : b[i] = q[i]
  BY <1>1, <1>3, SubSeqProperties
<1> HIDE DEF a, b
<1>6. (\A i \in 1 .. Len(p) : q[i] = p[i]) => a = b
  BY <1>4, <1>5, SeqEqual
<1> QED BY <1>4, <1>5, <1>6

LEMMA PrefixOfAppend ==
    ASSUME NEW S, NEW q \in Seq(S), NEW e \in S
    PROVE  IsPrefix(q, Append(q, e))
<1> DEFINE p == Append(q, e)
<1>1. /\ p \in Seq(S) /\ Len(p) = Len(q) + 1 /\ Len(q) \in Nat
      /\ \A i \in 1 .. Len(q) : p[i] = q[i]
  BY AppendProperties, LenProperties
<1> HIDE DEF p
<1>2. Len(q) <= Len(p)
  BY <1>1
<1>3. IsPrefix(q, p)
  BY <1>1, <1>2, PrefixIff
<1> QED BY <1>3 DEF p

LEMMA PrefixTransitive ==
    ASSUME NEW S, NEW p \in Seq(S), NEW q \in Seq(S), NEW r \in Seq(S),
           IsPrefix(p, q), IsPrefix(q, r)
    PROVE  IsPrefix(p, r)
<1>1. Len(p) \in Nat /\ Len(q) \in Nat /\ Len(r) \in Nat
  BY LenProperties
<1>2. /\ Len(p) <= Len(q) /\ \A i \in 1 .. Len(p) : q[i] = p[i]
      /\ Len(q) <= Len(r) /\ \A i \in 1 .. Len(q) : r[i] = q[i]
  BY PrefixIff
<1>3. Len(p) <= Len(r) /\ \A i \in 1 .. Len(p) : i \in 1 .. Len(q)
  BY <1>1, <1>2
<1>4. \A i \in 1 .. Len(p) : r[i] = p[i]
  BY <1>2, <1>3
<1> QED BY <1>3, <1>4, PrefixIff

-----------------------------------------------------------------------------
(* The node table *)

(* No row goes, and none changes its source. *)
SameSources(t, u) == \A n \in Rows(t) : n \in Rows(u) /\ u[n].source = t[n].source

LEMMA RowOf ==
    ASSUME NEW t, NodesKept(t), NEW n \in Rows(t)
    PROVE  /\ n \in NodeId /\ t[n] \in Row /\ t[n].path \in Seq(NodeId)
           /\ t[n].depth \in Int /\ ReadFrom(n, t[n].path, t[n].depth)
           /\ t[n].parent \in NodeId \cup {NoParent}
<1>1. n \in NodeId /\ t[n] \in Row /\ PathOfRow(t, n)
  BY DEF NodesKept, Shaped, Rows
<1>2. /\ t[n].path \in Seq(NodeId) /\ t[n].depth \in Int
      /\ t[n].parent \in NodeId \cup {NoParent}
  BY <1>1 DEF Row
<1>3. ReadFrom(n, t[n].path, t[n].depth)
  BY <1>1, <1>2 DEF PathOfRow, ReadFrom
<1> QED BY <1>1, <1>2, <1>3

LEMMA LiveRow ==
    ASSUME NEW t
    PROVE  Live(t) \subseteq Rows(t)
  BY DEF Live, Rows

(* A clean-up, or a cascade, deletes rows. *)
LEMMA DeletedKept ==
    ASSUME NEW t, NodesKept(t), NEW D \in SUBSET Live(t)
    PROVE  LET u == [m \in NodeId |-> IF m \in D
                       THEN [t[m] EXCEPT !.status = "deleted"] ELSE t[m]]
           IN /\ NodesKept(u) /\ SameSources(t, u)
              /\ Live(u) = Live(t) \ D
              /\ \A m \in NodeId : /\ u[m].source = t[m].source /\ u[m].ext = t[m].ext
                                   /\ m \notin D => u[m] = t[m]
<1> DEFINE u == [m \in NodeId |-> IF m \in D
                   THEN [t[m] EXCEPT !.status = "deleted"] ELSE t[m]]
<1>1. D \in SUBSET Rows(t) /\ Shaped(t)
  BY LiveRow DEF NodesKept
<1>2. Shaped(u) /\ Rows(u) = Rows(t)
  BY <1>1, DeletedShaped
<1>3. \A m \in NodeId : t[m] \in Row
  BY <1>1 DEF Shaped
<1>4. \A m \in NodeId : /\ u[m].source = t[m].source /\ u[m].ext = t[m].ext
                        /\ u[m].path = t[m].path /\ u[m].parent = t[m].parent
                        /\ u[m].status = IF m \in D THEN "deleted" ELSE t[m].status
                        /\ m \notin D => u[m] = t[m]
  BY <1>3 DEF Row
<1> HIDE DEF u
<1>5. Live(u) = Live(t) \ D
  BY <1>4 DEF Live
<1>6. \A n \in Rows(u) : u[n].parent # NoParent =>
         u[n].parent \in Rows(u) /\ IsPrefix(u[u[n].parent].path, u[n].path)
  <2> SUFFICES ASSUME NEW n \in Rows(t), t[n].parent # NoParent
               PROVE  /\ t[n].parent \in Rows(t)
                      /\ IsPrefix(u[t[n].parent].path, u[n].path)
    BY <1>2, <1>4 DEF Rows
  <2>1. t[n].parent \in Rows(t) /\ IsPrefix(t[t[n].parent].path, t[n].path)
    BY DEF NodesKept
  <2> QED BY <1>4, <2>1 DEF Rows
<1>7. \A m, n \in Live(u) : /\ u[m].source \in Source
                            /\ u[m].source = u[n].source /\ u[m].ext = u[n].ext
                            => m = n
  BY <1>4, <1>5 DEF NodesKept, Live
<1>8. NodesKept(u)
  BY <1>2, <1>6, <1>7 DEF NodesKept
<1>9. SameSources(t, u)
  BY <1>2, <1>4 DEF SameSources, Rows
<1> QED BY <1>4, <1>5, <1>8, <1>9 DEF u

LEMMA SourceDeletedKept ==
    ASSUME NEW t, NodesKept(t), NEW src, NEW kept
    PROVE  LET u == SourceDeleted(t, src, kept)
           IN /\ NodesKept(u) /\ SameSources(t, u)
              /\ Live(u) = {m \in Live(t) : t[m].source = src => t[m].ext \in kept}
              /\ \A m \in NodeId : /\ u[m].source = t[m].source /\ u[m].ext = t[m].ext
                                   /\ u[m] # t[m] => u[m].source = src
<1> DEFINE D == {m \in Live(t) : t[m].source = src /\ t[m].ext \notin kept}
           u == SourceDeleted(t, src, kept)
<1>1. D \in SUBSET Live(t) /\ \A m \in D : t[m].source = src
  OBVIOUS
<1>2. u = [m \in NodeId |-> IF m \in D THEN [t[m] EXCEPT !.status = "deleted"] ELSE t[m]]
  BY DEF SourceDeleted
<1>3. Live(t) \ D = {m \in Live(t) : t[m].source = src => t[m].ext \in kept}
  OBVIOUS
<1> HIDE DEF D, u
<1>4. /\ NodesKept(u) /\ SameSources(t, u)
      /\ Live(u) = Live(t) \ D
      /\ \A m \in NodeId : /\ u[m].source = t[m].source /\ u[m].ext = t[m].ext
                           /\ m \notin D => u[m] = t[m]
  BY <1>1, <1>2, DeletedKept
<1> QED BY <1>1, <1>3, <1>4 DEF u

(* Either strategy of a deletion, of a row or of what lies below it *)
LEMMA DeletedNodeKept ==
    ASSUME NodesKept(nodes), NEW n \in Live(nodes),
           NEW strategy \in {"cascade_delete", "move_to_parent"}
    PROVE  LET u == DeletedNode(n, strategy)
           IN /\ NodesKept(u) /\ SameSources(nodes, u)
              /\ \A m \in NodeId : u[m] # nodes[m] =>
                    /\ m \in Rows(nodes)
                    /\ IsPrefix(nodes[n].path, nodes[m].path)
<1> DEFINE path == nodes[n].path
           up == nodes[n].parent
<1>1. /\ n \in Rows(nodes) /\ n \in NodeId /\ path \in Seq(NodeId)
      /\ up \in NodeId \cup {NoParent}
  BY LiveRow, RowOf
<1>2. IsPrefix(path, path)
  <2>1. Len(path) \in Nat
    BY <1>1, LenProperties
  <2> QED BY <1>1, <2>1, PrefixIff
<1>3. CASE strategy = "cascade_delete"
  <2> DEFINE D == Below(nodes, path) \cup ({n} \cap Live(nodes))
             u == DeletedNode(n, strategy)
  <2>1. u = [m \in NodeId |-> IF m \in D
               THEN [nodes[m] EXCEPT !.status = "deleted"] ELSE nodes[m]]
    BY <1>3 DEF DeletedNode, CascadeDeleted
  <2>2. D \in SUBSET Live(nodes)
    BY DEF Below
  <2>3. \A m \in D : m \in Rows(nodes) /\ IsPrefix(path, nodes[m].path)
    BY <1>2, LiveRow DEF Below, IsStrictPrefix
  <2> HIDE DEF D, u
  <2>4. /\ NodesKept(u) /\ SameSources(nodes, u)
        /\ \A m \in NodeId : m \notin D => u[m] = nodes[m]
    BY <2>1, <2>2, DeletedKept
  <2> QED BY <2>3, <2>4 DEF u
<1>4. CASE strategy = "move_to_parent"
  <2> DEFINE u == PromoteDeleted(nodes, n, up)
             C == Children(nodes, n)
  <2>1. DeletedNode(n, strategy) = u
    BY <1>4 DEF DeletedNode
  <2>2. Shaped(nodes) /\ \A m \in NodeId : nodes[m] \in Row
    BY DEF NodesKept, Shaped
  <2>3. Shaped(u) /\ Rows(u) = Rows(nodes)
    BY <1>1, <2>2, PromoteDeletedShaped
  <2>4. \A m \in NodeId :
          /\ u[m].source = nodes[m].source /\ u[m].ext = nodes[m].ext
          /\ u[m].path = nodes[m].path
          /\ u[m].parent = IF m \in C THEN up ELSE nodes[m].parent
          /\ u[m].status = IF m = n THEN "deleted" ELSE nodes[m].status
    BY <2>2 DEF PromoteDeleted, Row
  <2>5. \A m \in NodeId : m \notin C /\ m # n => u[m] = nodes[m]
    <3> TAKE m \in NodeId
    <3> HAVE m \notin C /\ m # n
    <3>1. u[m] = [nodes[m] EXCEPT !.parent = nodes[m].parent, !.status = nodes[m].status]
      BY DEF PromoteDeleted
    <3> QED BY <2>2, <3>1 DEF Row
  <2> HIDE DEF u
  <2>6. \A m \in C : /\ m \in Rows(nodes) /\ nodes[m].parent = n
                     /\ IsPrefix(path, nodes[m].path)
    <3> TAKE m \in C
    <3>1. m \in Rows(nodes) /\ nodes[m].parent = n
      BY LiveRow DEF Children
    <3>2. n # NoParent
      BY <1>1, NodeTableAssumption
    <3> QED BY <3>1, <3>2 DEF NodesKept
  <2>7. Live(u) \subseteq Live(nodes)
    BY <2>4 DEF Live
  <2>8. \A m \in Rows(u) : u[m].parent # NoParent =>
           u[m].parent \in Rows(u) /\ IsPrefix(u[u[m].parent].path, u[m].path)
    <3> SUFFICES ASSUME NEW m \in Rows(nodes), u[m].parent # NoParent
                 PROVE  /\ u[m].parent \in Rows(nodes)
                        /\ IsPrefix(u[u[m].parent].path, u[m].path)
      BY <2>3
    <3>0. m \in NodeId /\ nodes[m].path \in Seq(NodeId)
      BY RowOf
    <3>1. CASE m \in C
      <4>1. u[m].parent = up /\ up # NoParent
        BY <2>4, <3>0, <3>1
      <4>2. up \in Rows(nodes) /\ IsPrefix(nodes[up].path, path)
        BY <1>1, <4>1 DEF NodesKept
      <4>3. up \in NodeId /\ nodes[up].path \in Seq(NodeId)
        BY <4>2, RowOf
      <4>4. IsPrefix(nodes[up].path, nodes[m].path)
        BY <1>1, <2>6, <3>0, <3>1, <4>2, <4>3, PrefixTransitive
      <4> QED BY <2>4, <3>0, <4>1, <4>2, <4>3, <4>4
    <3>2. CASE m \notin C
      <4>1. u[m].parent = nodes[m].parent
        BY <2>4, <3>0, <3>2
      <4>2. /\ nodes[m].parent \in Rows(nodes)
            /\ IsPrefix(nodes[nodes[m].parent].path, nodes[m].path)
        BY <3>0, <4>1 DEF NodesKept
      <4>3. nodes[m].parent \in NodeId
        BY <4>2, RowOf
      <4> QED BY <2>4, <3>0, <4>1, <4>2, <4>3
    <3> QED BY <3>1, <3>2
  <2>9. \A m, k \in Live(u) : /\ u[m].source \in Source
                              /\ u[m].source = u[k].source /\ u[m].ext = u[k].ext
                              => m = k
    BY <2>4, <2>7 DEF NodesKept, Live
  <2>10. NodesKept(u)
    BY <2>3, <2>8, <2>9 DEF NodesKept
  <2>11. SameSources(nodes, u)
    BY <2>3, <2>4 DEF SameSources, Rows
  <2>12. \A m \in NodeId : u[m] # nodes[m] =>
            m \in Rows(nodes) /\ IsPrefix(path, nodes[m].path)
    BY <1>1, <1>2, <2>5, <2>6
  <2> QED BY <2>1, <2>10, <2>11, <2>12
<1> QED BY <1>3, <1>4

(* A row inserted below a live row, or as a root; no other live row has its
   key. *)
LEMMA InsertedKept ==
    ASSUME NEW t, NodesKept(t), NEW n \in NodeId \ Rows(t),
           NEW p \in Live(t) \cup {NoParent}, NEW path, NEW depth,
           path = IF p = NoParent THEN <<>> ELSE t[p].path,
           depth = IF p = NoParent THEN -1 ELSE t[p].depth,
           NEW src \in Source \cup {Local}, NEW ext \in ExtId \cup {NoExt},
           src \in Source => Keyed(t, src, ext) = {}
    PROVE  LET u == Inserted(t, n, p, path, depth, src, ext)
           IN /\ NodesKept(u) /\ SameSources(t, u)
              /\ n \in Live(u) /\ u[n].source = src /\ u[n].ext = ext
              /\ \A m \in NodeId : m # n => u[m] = t[m]
<1> DEFINE u == Inserted(t, n, p, path, depth, src, ext)
           row == [status |-> "live", parent |-> p, path |-> Append(path, n),
                   depth |-> depth + 1, source |-> src, ext |-> ext]
<1>1. /\ p \in NodeId \cup {NoParent} /\ path \in Seq(NodeId) /\ depth \in Int
      /\ Placed(p, path, depth)
  <2>1. CASE p = NoParent
    BY <2>1 DEF Placed
  <2>2. CASE p # NoParent
    <3>1. p \in Rows(t)
      BY <2>2, LiveRow
    <3> QED BY <2>2, <3>1, RowOf DEF Placed
  <2> QED BY <2>1, <2>2
<1>2. Shaped(t) /\ t \in [NodeId -> Row]
  BY DEF NodesKept, Shaped
<1>3. Shaped(u)
  BY <1>1, <1>2, InsertedShaped
<1>4. u = [t EXCEPT ![n] = row]
  BY DEF Inserted
<1>5. /\ row.status = "live" /\ row.parent = p /\ row.path = Append(path, n)
      /\ row.source = src /\ row.ext = ext
  OBVIOUS
<1> HIDE DEF row, u
<1>6. u[n] = row /\ \A m \in NodeId : m # n => u[m] = t[m]
  BY <1>2, <1>4
<1>7. Rows(u) = Rows(t) \cup {n} /\ Live(u) = Live(t) \cup {n}
  BY <1>5, <1>6 DEF Rows, Live
<1>8. \A m \in Rows(t) : u[m] = t[m] /\ m # n
  BY <1>6 DEF Rows
<1>9. ASSUME NEW m \in Rows(u), u[m].parent # NoParent
      PROVE  u[m].parent \in Rows(u) /\ IsPrefix(u[u[m].parent].path, u[m].path)
  <2>1. CASE m = n
    <3>1. u[m].parent = p /\ p # NoParent /\ p \in Rows(t)
      BY <1>5, <1>6, <1>9, <2>1, LiveRow
    <3>2. u[p].path = path
      BY <1>8, <3>1
    <3>3. IsPrefix(path, Append(path, n))
      BY <1>1, PrefixOfAppend
    <3> QED BY <1>5, <1>6, <1>7, <2>1, <3>1, <3>2, <3>3
  <2>2. CASE m # n
    <3>1. m \in Rows(t) /\ u[m] = t[m]
      BY <1>7, <1>8, <2>2
    <3>2. t[m].parent \in Rows(t) /\ IsPrefix(t[t[m].parent].path, t[m].path)
      BY <1>9, <3>1 DEF NodesKept
    <3> QED BY <1>7, <1>8, <3>1, <3>2
  <2> QED BY <2>1, <2>2
<1>10. ASSUME NEW m \in Live(u), NEW k \in Live(u), u[m].source \in Source,
              u[m].source = u[k].source, u[m].ext = u[k].ext
       PROVE  m = k
  <2>1. \A j \in Live(t) : u[j] = t[j]
    BY <1>8, LiveRow
  <2>2. ASSUME NEW j \in Live(t), t[j].source = src, t[j].ext = ext, src \in Source
        PROVE  FALSE
    <3>1. j \in Keyed(t, src, ext)
      BY <2>2 DEF Keyed
    <3> QED BY <2>2, <3>1
  <2>3. CASE m \in Live(t) /\ k \in Live(t)
    BY <1>10, <2>1, <2>3 DEF NodesKept
  <2>4. CASE m = n /\ k # n
    BY <1>5, <1>6, <1>7, <1>10, <2>1, <2>2, <2>4
  <2>5. CASE m # n /\ k = n
    BY <1>5, <1>6, <1>7, <1>10, <2>1, <2>2, <2>5
  <2> QED BY <1>7, <2>3, <2>4, <2>5
<1>11. NodesKept(u)
  BY <1>3, <1>9, <1>10 DEF NodesKept
<1>12. SameSources(t, u)
  BY <1>7, <1>8 DEF SameSources
<1> QED BY <1>5, <1>6, <1>7, <1>11, <1>12 DEF u

-----------------------------------------------------------------------------
(* The member table *)

LEMMA MemberOf ==
    ASSUME NEW t, NEW u, MembersKept(t, u), NEW r \in Used(u)
    PROVE  r \in MemberId /\ u[r] \in MemberRow /\ Grounded(t, u[r])
<1>1. r \in MemberId /\ u[r].status # "absent"
  BY DEF Used
<1>2. u[r] \in MemberRow \cup {Absent}
  BY <1>1 DEF MembersKept
<1> QED BY <1>1, <1>2 DEF Absent, MembersKept

LEMMA ActiveIsUsed ==
    ASSUME NEW u
    PROVE  Active(u) \subseteq Used(u)
  BY DEF Active, Used

(* Memberships stay grounded as the node table grows or rows of it are
   deleted. *)
LEMMA StillGrounded ==
    ASSUME NEW t, NEW u, MembersKept(t, u), NEW v, SameSources(t, v)
    PROVE  MembersKept(v, u)
<1>1. \A r \in Used(u) : Grounded(v, u[r])
  BY DEF MembersKept, SameSources, Grounded
<1> QED BY <1>1 DEF MembersKept

LEMMA MembersDeletedKept ==
    ASSUME NEW t, NEW u, MembersKept(t, u), NEW D \in SUBSET Active(u)
    PROVE  LET w == [r \in MemberId |-> IF r \in D
                       THEN [u[r] EXCEPT !.status = "deleted"] ELSE u[r]]
           IN /\ MembersKept(t, w)
              /\ Active(w) = Active(u) \ D
              /\ \A r \in MemberId \ D : w[r] = u[r]
              /\ \A r \in D : w[r].node = u[r].node
<1> DEFINE w == [r \in MemberId |-> IF r \in D
                   THEN [u[r] EXCEPT !.status = "deleted"] ELSE u[r]]
<1>1. \A r \in D : r \in MemberId /\ u[r] \in MemberRow
  BY ActiveIsUsed, MemberOf
<1>2. \A x \in MemberRow :
        /\ [x EXCEPT !.status = "deleted"] \in MemberRow
        /\ [x EXCEPT !.status = "deleted"].status = "deleted"
        /\ [x EXCEPT !.status = "deleted"].node = x.node
        /\ [x EXCEPT !.status = "deleted"].user = x.user
        /\ [x EXCEPT !.status = "deleted"].source = x.source
        /\ [x EXCEPT !.status = "deleted"].ext = x.ext
  BY DEF MemberRow
<1>3. w \in [MemberId -> MemberRow \cup {Absent}]
  BY <1>1, <1>2 DEF MembersKept
<1>4. \A r \in MemberId \ D : w[r] = u[r]
  OBVIOUS
<1>5. \A r \in D : /\ w[r].status = "deleted" /\ w[r].node = u[r].node
                   /\ w[r].user = u[r].user /\ w[r].source = u[r].source
                   /\ w[r].ext = u[r].ext
  BY <1>1, <1>2
<1> HIDE DEF w
<1>6. Active(w) = Active(u) \ D
  BY <1>4, <1>5 DEF Active
<1>7. Used(w) = Used(u)
  BY <1>1, <1>4, <1>5, ActiveIsUsed DEF Used
<1>8. \A r \in Used(u) : /\ w[r].node = u[r].node /\ w[r].user = u[r].user
                         /\ w[r].source = u[r].source /\ w[r].ext = u[r].ext
  BY <1>4, <1>5 DEF Used
<1>9. OneRowPerPair(w)
  BY <1>7, <1>8 DEF OneRowPerPair, MembersKept
<1>10. \A r \in Used(w) : Grounded(t, w[r])
  BY <1>7, <1>8 DEF MembersKept, Grounded
<1>11. \A r, p \in Active(w) : /\ w[r].ext # NoExt
                               /\ w[r].ext = w[p].ext /\ w[r].source = w[p].source
                               => r = p
  BY <1>6, <1>8, ActiveIsUsed DEF MembersKept
<1>12. MembersKept(t, w)
  BY <1>3, <1>9, <1>10, <1>11 DEF MembersKept
<1> QED BY <1>4, <1>5, <1>6, <1>12 DEF w

Put(u, r, x) == [u EXCEPT ![r] = x]

(* One active row is written, to a pair and a key that no other row has. *)
LEMMA WrittenKept ==
    ASSUME NEW t, NEW u, MembersKept(t, u), NEW r \in MemberId,
           NEW x \in MemberRow, x.status = "live", Grounded(t, x),
           OneRowPerPair(Put(u, r, x)),
           x.ext # NoExt => KeyedMember(u, x.source, x.ext) \subseteq {r}
    PROVE  /\ MembersKept(t, Put(u, r, x))
           /\ Put(u, r, x)[r] = x
           /\ \A q \in MemberId \ {r} : Put(u, r, x)[q] = u[q]
<1> DEFINE w == Put(u, r, x)
<1>1. u \in [MemberId -> MemberRow \cup {Absent}]
  BY DEF MembersKept
<1>2. /\ w \in [MemberId -> MemberRow \cup {Absent}]
      /\ w[r] = x /\ \A q \in MemberId \ {r} : w[q] = u[q]
  BY <1>1 DEF Put
<1> HIDE DEF w
<1>3. \A q \in Used(w) : q = r \/ (q \in Used(u) /\ w[q] = u[q])
  BY <1>2 DEF Used
<1>4. \A q \in Active(w) : q = r \/ (q \in Active(u) /\ w[q] = u[q])
  BY <1>2 DEF Active
<1>5. \A q \in Used(w) : Grounded(t, w[q])
  BY <1>2, <1>3 DEF MembersKept
<1>6. ASSUME NEW q \in Active(w), q # r, x.ext # NoExt,
             w[q].ext = x.ext, w[q].source = x.source
      PROVE  FALSE
  <2>1. q \in KeyedMember(u, x.source, x.ext)
    BY <1>4, <1>6 DEF KeyedMember
  <2> QED BY <1>6, <2>1
<1>7. ASSUME NEW q \in Active(w), NEW p \in Active(w), w[q].ext # NoExt,
             w[q].ext = w[p].ext, w[q].source = w[p].source
      PROVE  q = p
  <2>1. CASE q = r
    BY <1>2, <1>6, <1>7, <2>1
  <2>2. CASE p = r
    BY <1>2, <1>6, <1>7, <2>2
  <2>3. CASE q # r /\ p # r
    <3>1. /\ q \in Active(u) /\ w[q] = u[q]
          /\ p \in Active(u) /\ w[p] = u[p]
      BY <1>4, <2>3
    <3> QED BY <1>7, <3>1 DEF MembersKept
  <2> QED BY <2>1, <2>2, <2>3
<1>8. OneRowPerPair(w)
  BY DEF w
<1>9. MembersKept(t, w)
  BY <1>2, <1>5, <1>7, <1>8 DEF MembersKept
<1> QED BY <1>2, <1>9 DEF w

(* A write to the only row there is at a pair, or to a pair without one *)
LEMMA PairFree ==
    ASSUME NEW t, NEW u, MembersKept(t, u), NEW r \in MemberId, NEW x,
           \A q \in Used(u) : q # r => u[q].node # x.node \/ u[q].user # x.user
    PROVE  OneRowPerPair(Put(u, r, x))
<1> DEFINE w == Put(u, r, x)
<1>1. w[r] = x /\ \A q \in MemberId \ {r} : w[q] = u[q]
  BY DEF MembersKept, Put
<1> HIDE DEF w
<1>2. \A q \in Used(w) : q = r \/ (q \in Used(u) /\ w[q] = u[q])
  BY <1>1 DEF Used
<1>3. OneRowPerPair(w)
  BY <1>1, <1>2 DEF OneRowPerPair, MembersKept
<1> QED BY <1>3 DEF w

(* An upsert or an add leaves one row as it was asked for: a row that was not
   active, or that had the pair or the key already. *)
Wrote(u, w, m) ==
    \E r \in MemberId :
       /\ w[r].status = "live" /\ w[r].node = m.node /\ w[r].user = m.user
       /\ m.ext # NoExt => w[r].source = m.source /\ w[r].ext = m.ext
       /\ \A q \in MemberId \ {r} : w[q] = u[q]
       /\ r \in Used(u) => \/ u[r].node = m.node /\ u[r].user = m.user
                           \/ /\ r \in Active(u) /\ m.ext # NoExt
                              /\ u[r].source = m.source /\ u[r].ext = m.ext

LEMMA RevivedKept ==
    ASSUME NEW t, NEW u, MembersKept(t, u), NEW m \in Membership, Grounded(t, m),
           NEW r \in Used(u), u[r].node = m.node, u[r].user = m.user,
           m.ext # NoExt => KeyedMember(u, m.source, m.ext) \subseteq {r}
    PROVE  MembersKept(t, Revived(u, r, m)) /\ Wrote(u, Revived(u, r, m), m)
<1> DEFINE x == [u[r] EXCEPT !.status = "live", !.role = m.role,
                             !.source = m.source, !.ext = m.ext]
           w == Revived(u, r, m)
<1>1. r \in MemberId /\ u[r] \in MemberRow
  BY MemberOf
<1>2. /\ x \in MemberRow /\ x.status = "live"
      /\ x.node = m.node /\ x.user = m.user /\ x.source = m.source /\ x.ext = m.ext
  BY <1>1 DEF Membership, MemberRow
<1>3. w = Put(u, r, x)
  BY DEF Revived, Put
<1> HIDE DEF x, w
<1>4. Grounded(t, x)
  BY <1>2 DEF Grounded
<1>5. OneRowPerPair(w)
  <2>1. \A q \in Used(u) : q # r => u[q].node # x.node \/ u[q].user # x.user
    BY <1>2 DEF MembersKept, OneRowPerPair
  <2> QED BY <1>1, <1>3, <2>1, PairFree
<1>6. /\ MembersKept(t, w)
      /\ w[r] = x /\ \A q \in MemberId \ {r} : w[q] = u[q]
  BY <1>1, <1>2, <1>3, <1>4, <1>5, WrittenKept
<1>7. Wrote(u, w, m)
  BY <1>1, <1>2, <1>6 DEF Wrote
<1> QED BY <1>6, <1>7 DEF w

LEMMA InsertedMemberKept ==
    ASSUME NEW t, NEW u, MembersKept(t, u), NEW m \in Membership, Grounded(t, m),
           NEW r \in MemberId \ Used(u),
           \A q \in Used(u) : u[q].node # m.node \/ u[q].user # m.user,
           m.ext # NoExt => KeyedMember(u, m.source, m.ext) = {}
    PROVE  MembersKept(t, InsertedMember(u, r, m)) /\ Wrote(u, InsertedMember(u, r, m), m)
<1> DEFINE x == [status |-> "live", node |-> m.node, user |-> m.user,
                 role |-> m.role, source |-> m.source, ext |-> m.ext]
           w == InsertedMember(u, r, m)
<1>1. /\ x \in MemberRow /\ x.status = "live"
      /\ x.node = m.node /\ x.user = m.user /\ x.source = m.source /\ x.ext = m.ext
  BY DEF Membership, MemberRow
<1>2. w = Put(u, r, x)
  BY DEF InsertedMember, Put
<1> HIDE DEF x, w
<1>3. Grounded(t, x)
  BY <1>1 DEF Grounded
<1>4. OneRowPerPair(w)
  BY <1>1, <1>2, PairFree
<1>5. /\ MembersKept(t, w)
      /\ w[r] = x /\ \A q \in MemberId \ {r} : w[q] = u[q]
  BY <1>1, <1>2, <1>3, <1>4, WrittenKept
<1>6. Wrote(u, w, m)
  BY <1>1, <1>5, ActiveIsUsed DEF Wrote
<1> QED BY <1>5, <1>6 DEF w

LEMMA AddedKept ==
    ASSUME NEW t, NEW u, MembersKept(t, u), NEW m \in Membership, Grounded(t, m),
           ActiveAt(u, m.node, m.user) = {},
           m.ext # NoExt => KeyedMember(u, m.source, m.ext) = {},
           NEW w \in Added(u, m)
    PROVE  MembersKept(t, w) /\ Wrote(u, w, m)
<1> DEFINE removed == RemovedAt(u, m.node, m.user)
<1>1. CASE removed # {}
  <2>1. PICK r \in removed : w = Revived(u, r, m)
    BY <1>1 DEF Added
  <2>2. r \in Used(u) /\ u[r].node = m.node /\ u[r].user = m.user
    BY DEF RemovedAt
  <2> QED BY <2>1, <2>2, RevivedKept
<1>2. CASE removed = {}
  <2>1. PICK r \in MemberId \ Used(u) : w = InsertedMember(u, r, m)
    BY <1>2 DEF Added
  <2>2. \A q \in Used(u) : u[q].node # m.node \/ u[q].user # m.user
    BY <1>2 DEF RemovedAt, ActiveAt
  <2> QED BY <2>1, <2>2, InsertedMemberKept
<1> QED BY <1>1, <1>2

(* An upsert of a sync, into a node of its source *)
LEMMA UpsertedKept ==
    ASSUME NEW t, NEW u, MembersKept(t, u), NEW m \in Membership, m.node \in Rows(t),
           m.source \in Source, t[m.node].source = m.source,
           NEW w \in Upserted(u, m)
    PROVE  MembersKept(t, w) /\ Wrote(u, w, m)
<1> DEFINE keyed == IF m.ext = NoExt THEN {} ELSE KeyedMember(u, m.source, m.ext)
           active == ActiveAt(u, m.node, m.user)
<1>1. Grounded(t, m)
  BY DEF Grounded
<1>2. m.source # Local
  BY DirectoryAssumption
<1>3. CASE keyed # {}
  <2>1. PICK r \in keyed : w = Rekeyed(u, r, m) /\ OneRowPerPair(w)
    BY <1>3 DEF Upserted
  <2>2. /\ m.ext # NoExt /\ r \in Active(u) /\ r \in Used(u)
        /\ u[r].source = m.source /\ u[r].ext = m.ext
    BY ActiveIsUsed DEF KeyedMember
  <2> DEFINE x == [u[r] EXCEPT !.status = "live", !.node = m.node,
                               !.user = m.user, !.role = m.role]
  <2>3. r \in MemberId /\ u[r] \in MemberRow
    BY <2>2, MemberOf
  <2>4. /\ x \in MemberRow /\ x.status = "live" /\ x.node = m.node
        /\ x.user = m.user /\ x.source = m.source /\ x.ext = m.ext
    BY <2>2, <2>3 DEF Membership, MemberRow
  <2>5. w = Put(u, r, x)
    BY <2>1 DEF Rekeyed, Put
  <2> HIDE DEF x
  <2>6. Grounded(t, x)
    BY <2>4 DEF Grounded
  <2>7. KeyedMember(u, x.source, x.ext) \subseteq {r}
    BY <2>2, <2>4 DEF KeyedMember, MembersKept
  <2>8. /\ MembersKept(t, w)
        /\ w[r] = x /\ \A q \in MemberId \ {r} : w[q] = u[q]
    BY <2>1, <2>3, <2>4, <2>5, <2>6, <2>7, WrittenKept
  <2> QED BY <2>2, <2>3, <2>4, <2>8 DEF Wrote
<1>4. CASE keyed = {} /\ active # {}
  <2> DEFINE ext(r) == IF m.ext = NoExt THEN u[r].ext ELSE m.ext
  <2>1. PICK r \in active : w = Revived(u, r, [m EXCEPT !.ext = ext(r)])
    BY <1>4 DEF Upserted
  <2> DEFINE m2 == [m EXCEPT !.ext = ext(r)]
  <2>2. r \in Active(u) /\ r \in Used(u) /\ u[r].node = m.node /\ u[r].user = m.user
    BY ActiveIsUsed DEF ActiveAt
  <2>3. u[r] \in MemberRow /\ Grounded(t, u[r])
    BY <2>2, MemberOf
  <2>4. /\ m2 \in Membership /\ m2.node = m.node /\ m2.user = m.user
        /\ m2.source = m.source /\ m2.ext = ext(r)
    BY <2>3 DEF Membership, MemberRow
  <2>5. m2.ext # NoExt => KeyedMember(u, m2.source, m2.ext) \subseteq {r}
    <3>1. CASE m.ext = NoExt
      <4>1. m2.ext = u[r].ext
        BY <2>4, <3>1
      <4>2. u[r].ext # NoExt => u[r].source = m.source
        BY <2>2, <2>3 DEF Grounded
      <4> QED BY <2>2, <2>4, <4>1, <4>2 DEF KeyedMember, MembersKept
    <3>2. CASE m.ext # NoExt
      <4>1. m2.ext = m.ext
        BY <2>4, <3>2
      <4> QED BY <1>4, <2>4, <3>2, <4>1
    <3> QED BY <3>1, <3>2
  <2>6. w = Revived(u, r, m2)
    BY <2>1
  <2>7. m.ext # NoExt => m2.ext = m.ext
    BY <2>4
  <2> HIDE DEF m2, ext
  <2>8. Grounded(t, m2)
    BY <2>4 DEF Grounded
  <2>9. MembersKept(t, w) /\ Wrote(u, w, m2)
    BY <2>2, <2>4, <2>5, <2>6, <2>8, RevivedKept
  <2>10. Wrote(u, w, m)
    <3>1. PICK q \in MemberId :
            /\ w[q].status = "live" /\ w[q].node = m.node /\ w[q].user = m.user
            /\ m2.ext # NoExt => w[q].source = m.source /\ w[q].ext = m2.ext
            /\ \A p \in MemberId \ {q} : w[p] = u[p]
            /\ q \in Used(u) => \/ u[q].node = m.node /\ u[q].user = m.user
                                \/ /\ q \in Active(u) /\ m2.ext # NoExt
                                   /\ u[q].source = m.source /\ u[q].ext = m2.ext
      BY <2>4, <2>9 DEF Wrote
    <3>2. ASSUME q \in Used(u) PROVE u[q].node = m.node /\ u[q].user = m.user
      <4>1. CASE /\ q \in Active(u) /\ m2.ext # NoExt
                 /\ u[q].source = m.source /\ u[q].ext = m2.ext
        <5>1. q \in KeyedMember(u, m2.source, m2.ext)
          BY <2>4, <4>1 DEF KeyedMember
        <5>2. q = r
          BY <2>5, <4>1, <5>1
        <5> QED BY <2>2, <5>2
      <4> QED BY <3>1, <3>2, <4>1
    <3> QED BY <2>7, <3>1, <3>2 DEF Wrote
  <2> QED BY <2>9, <2>10
<1>5. CASE keyed = {} /\ active = {}
  <2>1. w \in Added(u, m)
    BY <1>5 DEF Upserted
  <2>2. m.ext # NoExt => KeyedMember(u, m.source, m.ext) = {}
    BY <1>5
  <2> QED BY <1>1, <1>5, <2>1, <2>2, AddedKept
<1> QED BY <1>3, <1>4, <1>5

-----------------------------------------------------------------------------
(* The run *)

LEMMA NodeItemIs ==
    ASSUME NEW x \in NodeItem
    PROVE  /\ x.action \in {"upsert", "delete"} /\ x.ext \in ExtId
           /\ x.parent \in ExtId \cup {NoExt}
  BY DEF NodeItem

LEMMA MemberItemIs ==
    ASSUME NEW x \in MemberItem
    PROVE  /\ x.action \in {"upsert", "delete"} /\ x.node \in ExtId
           /\ x.user \in UserId /\ x.role \in Role /\ x.ext \in ExtId \cup {NoExt}
  BY DEF MemberItem

LEMMA RequestIs ==
    ASSUME NEW q \in Request
    PROVE  /\ q.source \in Source
           /\ q.nodes \in Seq(NodeItem) /\ q.members \in Seq(MemberItem)
           /\ \A i, j \in 1 .. Len(q.nodes) : q.nodes[i].ext = q.nodes[j].ext => i = j
<1>1. /\ q.source \in Source
      /\ q.nodes \in SeqOf(NodeItem, MaxItems)
      /\ q.members \in SeqOf(MemberItem, MaxItems)
      /\ \A i, j \in 1 .. Len(q.nodes) : q.nodes[i].ext = q.nodes[j].ext => i = j
  BY DEF Request
<1>2. ASSUME NEW S, NEW x \in SeqOf(S, MaxItems) PROVE x \in Seq(S)
  <2>1. PICK n \in 0 .. MaxItems : x \in [1 .. n -> S]
    BY DEF SeqOf
  <2>2. n \in Nat
    BY SyncAssumption
  <2> QED BY <2>1, <2>2, SeqDef
<1> QED BY <1>1, <1>2

(* A run keeps its other fields when it is given new values for some. *)
LEMMA Counted ==
    ASSUME NEW k \in RunState
    PROVE  /\ \A v \in Seq(NodeItem) : [k EXCEPT !.todo = v] \in RunState
           /\ \A v \in BOOLEAN : [k EXCEPT !.errors = v] \in RunState
           /\ \A v \in BOOLEAN : [k EXCEPT !.skipped = v] \in RunState
           /\ \A v \in BOOLEAN : [k EXCEPT !.quiet = v] \in RunState
           /\ \A v \in Nat \ {0} : [k EXCEPT !.next = v] \in RunState
           /\ \A e \in SUBSET ExtId, v \in BOOLEAN :
                [k EXCEPT !.kept = e, !.written = v] \in RunState
           /\ \A e \in SUBSET ExtId, v \in BOOLEAN :
                [k EXCEPT !.errors = v, !.kept = e] \in RunState
           /\ \A e \in SUBSET ExtId, v, w \in BOOLEAN :
                [k EXCEPT !.kept = e, !.written = v, !.errors = w] \in RunState
           /\ \A e \in SUBSET ExtId, p \in SUBSET (NodeId \X UserId) :
                [k EXCEPT !.keptExts = e, !.keptPairs = p] \in RunState
           /\ \A v \in BOOLEAN :
                [k EXCEPT !.pc = "finish", !.cleaned = v] \in RunState
<1>1. \A v \in Seq(NodeItem) : [k EXCEPT !.todo = v] \in RunState
  BY Zenon DEF RunState
<1>2. \A v \in BOOLEAN : [k EXCEPT !.errors = v] \in RunState
  BY Zenon DEF RunState
<1>3. \A v \in BOOLEAN : [k EXCEPT !.skipped = v] \in RunState
  BY Zenon DEF RunState
<1>4. \A v \in BOOLEAN : [k EXCEPT !.quiet = v] \in RunState
  BY Zenon DEF RunState
<1>5. \A v \in Nat \ {0} : [k EXCEPT !.next = v] \in RunState
  BY Zenon DEF RunState
<1>6. \A e \in SUBSET ExtId, v \in BOOLEAN :
         [k EXCEPT !.kept = e, !.written = v] \in RunState
  BY Zenon DEF RunState
<1>7. \A e \in SUBSET ExtId, v \in BOOLEAN :
         [k EXCEPT !.errors = v, !.kept = e] \in RunState
  BY Zenon DEF RunState
<1>8. \A e \in SUBSET ExtId, v, w \in BOOLEAN :
         [k EXCEPT !.kept = e, !.written = v, !.errors = w] \in RunState
  BY Zenon DEF RunState
<1>9. \A e \in SUBSET ExtId, p \in SUBSET (NodeId \X UserId) :
         [k EXCEPT !.keptExts = e, !.keptPairs = p] \in RunState
  BY Zenon DEF RunState
<1>10. \A v \in BOOLEAN : [k EXCEPT !.pc = "finish", !.cleaned = v] \in RunState
  BY Zenon DEF RunState
<1> QED BY <1>1, <1>2, <1>3, <1>4, <1>5, <1>6, <1>7, <1>8, <1>9, <1>10

(* A node item has been processed. *)
NodeItemDone(k, l) ==
    /\ l \in RunState /\ l.pc = k.pc /\ l.req = k.req /\ l.todo = Tail(k.todo)
    /\ l.keptExts = k.keptExts /\ l.keptPairs = k.keptPairs /\ l.next = k.next
    /\ l.skipped = k.skipped /\ l.quiet = k.quiet

LEMMA NodeDoneIs ==
    ASSUME NEW k \in RunState, k.todo # <<>>
    PROVE  LET l == [k EXCEPT !.todo = Tail(k.todo)]
           IN NodeItemDone(k, l) /\ l.kept = k.kept /\ l.errors = k.errors
              /\ l.written = k.written
<1>1. k.todo \in Seq(NodeItem)
  BY DEF RunState
<1>2. Tail(k.todo) \in Seq(NodeItem)
  BY <1>1, RangeTail
<1> DEFINE l == [k EXCEPT !.todo = Tail(k.todo)]
<1>3. l \in RunState
  BY <1>2, Counted
<1>4. /\ l.pc = k.pc /\ l.req = k.req /\ l.todo = Tail(k.todo)
      /\ l.keptExts = k.keptExts /\ l.keptPairs = k.keptPairs /\ l.next = k.next
      /\ l.skipped = k.skipped /\ l.quiet = k.quiet
      /\ l.kept = k.kept /\ l.errors = k.errors /\ l.written = k.written
  BY DEF RunState
<1> QED BY <1>3, <1>4 DEF NodeItemDone

(* The item has been processed, e counts as synced, and w tells of an error. *)
Outcome(k, l, e, w) == NodeItemDone(k, l) /\ l.kept = e /\ l.errors = w

LEMMA NodeCounted ==
    ASSUME NEW k \in RunState, NEW l \in RunState, NodeItemDone(k, l),
           NEW e \in SUBSET ExtId, NEW v \in BOOLEAN, NEW w \in BOOLEAN
    PROVE  /\ Outcome(k, [l EXCEPT !.errors = w], l.kept, w)
           /\ Outcome(k, [l EXCEPT !.kept = e, !.written = v], e, l.errors)
           /\ Outcome(k, [l EXCEPT !.errors = w, !.kept = e], e, w)
           /\ Outcome(k, [l EXCEPT !.kept = e, !.written = v, !.errors = w], e, w)
<1> DEFINE a == [l EXCEPT !.errors = w]
           b == [l EXCEPT !.kept = e, !.written = v]
           c == [l EXCEPT !.errors = w, !.kept = e]
           d == [l EXCEPT !.kept = e, !.written = v, !.errors = w]
<1>1. a \in RunState /\ b \in RunState /\ c \in RunState /\ d \in RunState
  BY Counted
<1>2. \A x \in {a, b, c, d} :
        /\ x.pc = l.pc /\ x.req = l.req /\ x.todo = l.todo
        /\ x.keptExts = l.keptExts /\ x.keptPairs = l.keptPairs /\ x.next = l.next
        /\ x.skipped = l.skipped /\ x.quiet = l.quiet
  BY DEF RunState
<1>3. /\ a.kept = l.kept /\ a.errors = w /\ b.kept = e /\ b.errors = l.errors
      /\ c.kept = e /\ c.errors = w /\ d.kept = e /\ d.errors = w
  BY DEF RunState
<1> HIDE DEF a, b, c, d
<1>4. NodeItemDone(k, a) /\ NodeItemDone(k, b) /\ NodeItemDone(k, c) /\ NodeItemDone(k, d)
  BY <1>1, <1>2 DEF NodeItemDone
<1> QED BY <1>3, <1>4 DEF Outcome, a, b, c, d

(* A sync that processes a node item: what counts as synced grows by it at
   most, errors stay, and without errors no node that a later item may need
   has gone. *)
LEMMA NodeItemKept ==
    ASSUME NEW t, NEW u, NEW k, RunKept(t, u, k), k.pc = "items", k.todo # <<>>,
           NEW v, NEW l, NodeItemDone(k, l),
           k.kept \subseteq l.kept, l.kept \subseteq k.kept \cup {Head(k.todo).ext},
           k.errors => l.errors,
           NodeMet(v, l, Head(k.todo)),
           NodesFine(l) /\ l.quiet =>
              \A e : Keyed(t, k.req.source, e) # {} => Keyed(v, k.req.source, e) # {}
    PROVE  RunKept(v, u, l)
<1> DEFINE items == k.req.nodes
           head == Head(k.todo)
<1>1. /\ k \in RunState /\ k.next = 1 /\ NodeItemsKept(t, k) /\ ParentsAhead(t, k)
      /\ MemberItemsKept(t, u, k)
  BY DEF RunKept
<1>2. /\ l \in RunState /\ l.pc = "items" /\ l.req = k.req /\ l.todo = Tail(k.todo)
      /\ l.keptExts = k.keptExts /\ l.keptPairs = k.keptPairs /\ l.next = k.next
      /\ l.skipped = k.skipped /\ l.quiet = k.quiet
  BY DEF NodeItemDone
<1>3. k.todo \in Seq(NodeItem)
  BY <1>1 DEF RunState
<1>4. /\ head \in NodeItem /\ l.todo \in Seq(NodeItem)
      /\ Len(l.todo) = Len(k.todo) - 1
      /\ \A i \in 1 .. Len(l.todo) : l.todo[i] = k.todo[i + 1]
      /\ head = k.todo[1]
  BY <1>2, <1>3, HeadTailProperties
<1>5. Range(k.todo) = {head} \cup Range(l.todo)
  BY <1>2, <1>3, RangeTail
<1>6. Len(k.todo) \in Nat /\ Len(k.todo) > 0
  BY <1>3, LenProperties, EmptySeq
<1>7. NodesFine(l) => NodesFine(k)
  BY <1>2 DEF NodesFine
<1> HIDE DEF head
<1>8. NodeItemsKept(v, l)
  <2>1. ASSUME NEW j \in 1 .. Len(l.todo) PROVE l.todo[j] \in Range(items)
    <3>1. j + 1 \in 1 .. Len(k.todo)
      BY <1>4, <1>6
    <3> QED BY <1>1, <1>4, <3>1 DEF NodeItemsKept
  <2>2. ASSUME NEW e \in l.kept PROVE \E i \in 1 .. Len(items) : items[i].ext = e
    <3>1. CASE e \in k.kept
      BY <1>1, <3>1 DEF NodeItemsKept
    <3>2. CASE e = head.ext
      <4>1. 1 \in 1 .. Len(k.todo)
        BY <1>6
      <4>2. head \in Range(items)
        BY <1>1, <1>4, <4>1 DEF NodeItemsKept
      <4>3. items \in Seq(NodeItem)
        BY <1>1, RequestIs DEF RunState
      <4>4. Range(items) = {items[i] : i \in 1 .. Len(items)}
        BY <4>3, RangeEquality
      <4> QED BY <3>2, <4>2, <4>4
    <3> QED BY <3>1, <3>2 DEF head
  <2>3. ASSUME NEW i \in 1 .. Len(items)
        PROVE  items[i] \in Range(l.todo) \/ NodeMet(v, l, items[i])
    <3>1. items[i] \in Range(k.todo) \/ NodeMet(t, k, items[i])
      BY <1>1 DEF NodeItemsKept
    <3>2. CASE items[i] = head
      BY <3>2 DEF head
    <3>3. CASE NodeMet(t, k, items[i])
      <4>1. ASSUME items[i].action = "upsert", items[i].parent = NoExt
            PROVE  items[i].ext \in l.kept
        BY <3>3, <4>1 DEF NodeMet
      <4>2. ASSUME NodesFine(l) PROVE items[i].ext \in l.kept
        BY <1>7, <3>3, <4>2 DEF NodeMet
      <4>3. ASSUME NodesFine(l), l.quiet
            PROVE  Keyed(v, l.req.source, items[i].ext) # {}
        BY <1>2, <1>7, <3>3, <4>3 DEF NodeMet
      <4> QED BY <4>1, <4>2, <4>3 DEF NodeMet
    <3> QED BY <1>5, <3>1, <3>2, <3>3
  <2> QED BY <1>2, <2>1, <2>2, <2>3 DEF NodeItemsKept
<1>9. ParentsAhead(v, l)
  <2> SUFFICES ASSUME NEW j \in 1 .. Len(l.todo),
                      l.todo[j].ext \in Rooted(items), l.todo[j].parent # NoExt,
                      ~(\E h \in 1 .. j - 1 : l.todo[h].ext = l.todo[j].parent),
                      NodesFine(l), l.quiet
               PROVE  Keyed(v, k.req.source, l.todo[j].parent) # {}
    BY <1>2 DEF ParentsAhead
  <2> DEFINE parent == l.todo[j].parent
  <2>1. j + 1 \in 1 .. Len(k.todo) /\ k.todo[j + 1] = l.todo[j] /\ (j + 1) - 1 = j
    BY <1>4, <1>6
  <2>2. \/ \E h \in 1 .. j : k.todo[h].ext = parent
        \/ Keyed(t, k.req.source, parent) # {}
    BY <1>1, <1>2, <1>7, <2>1 DEF ParentsAhead
  <2>3. CASE Keyed(t, k.req.source, parent) # {}
    BY <2>3
  <2>4. ASSUME NEW h \in 1 .. j, k.todo[h].ext = parent
        PROVE  Keyed(v, k.req.source, parent) # {}
    <3>1. CASE h = 1
      <4>1. head.ext = parent
        BY <1>4, <2>4, <3>1
      <4> QED BY <1>2, <4>1 DEF NodeMet, head
    <3>2. CASE h # 1
      <4>1. h - 1 \in 1 .. j - 1 /\ h - 1 \in 1 .. Len(l.todo) /\ (h - 1) + 1 = h
        BY <1>4, <1>6, <3>2
      <4>2. l.todo[h - 1].ext = parent
        BY <1>4, <2>4, <4>1
      <4> QED BY <4>1, <4>2
    <3> QED BY <3>1, <3>2
  <2> QED BY <2>2, <2>3, <2>4
<1>10. MemberItemsKept(v, u, l)
  <2> SUFFICES ASSUME MembersFine(l)
               PROVE  /\ {i \in 1 .. Len(l.req.members) : i < l.next} = {}
                      /\ l.keptExts = {} /\ l.keptPairs = {}
    BY DEF MemberItemsKept
  <2>1. MembersFine(k)
    BY <1>2, <1>7 DEF MembersFine
  <2>2. {i \in 1 .. Len(k.req.members) : i < k.next} = {}
    BY <1>1
  <2>3. k.keptExts = {} /\ k.keptPairs = {}
    BY <1>1, <2>1, <2>2 DEF MemberItemsKept
  <2> QED BY <1>2, <2>2, <2>3
<1> QED BY <1>1, <1>2, <1>8, <1>9, <1>10 DEF RunKept

(* A member item has been processed. *)
MemberItemDone(k, l) ==
    /\ l \in RunState /\ l.pc = k.pc /\ l.req = k.req /\ l.todo = k.todo
    /\ l.kept = k.kept /\ l.next = k.next + 1 /\ l.quiet = k.quiet

LEMMA MemberItemKept ==
    ASSUME NEW t, NEW u, NEW k, RunKept(t, u, k), k.pc = "items", k.todo = <<>>,
           NEW v, NEW l, MemberItemDone(k, l), k.errors => l.errors,
           MemberItemsKept(t, v, l)
    PROVE  RunKept(t, v, l)
<1>1. /\ k \in RunState /\ NodeItemsKept(t, k) /\ ParentsAhead(t, k)
  BY DEF RunKept
<1>2. /\ l \in RunState /\ l.pc = "items" /\ l.req = k.req /\ l.todo = <<>>
      /\ l.kept = k.kept /\ l.quiet = k.quiet
  BY DEF MemberItemDone
<1>3. NodesFine(l) => NodesFine(k)
  BY <1>2 DEF NodesFine
<1>4. NodeItemsKept(t, l)
  <2>1. \A item : NodeMet(t, k, item) => NodeMet(t, l, item)
    BY <1>2, <1>3 DEF NodeMet
  <2> QED BY <1>1, <1>2, <2>1 DEF NodeItemsKept
<1>5. ParentsAhead(t, l)
  <2>1. 1 .. Len(l.todo) = {}
    BY <1>2
  <2> QED BY <2>1 DEF ParentsAhead
<1> QED BY <1>2, <1>4, <1>5 DEF RunKept

(* An administrator's edit, at any point of a run *)
LEMMA EditedRun ==
    ASSUME NEW t, NEW u, NEW k, RunKept(t, u, k), NEW v, NEW w
    PROVE  RunKept(v, w, [k EXCEPT !.quiet = FALSE])
<1> DEFINE l == [k EXCEPT !.quiet = FALSE]
<1>1. k \in RunState
  BY DEF RunKept
<1>2. l \in RunState
  BY <1>1, Counted
<1>3. /\ l.pc = k.pc /\ l.req = k.req /\ l.todo = k.todo /\ l.next = k.next
      /\ l.kept = k.kept /\ l.errors = k.errors /\ l.quiet = FALSE
  BY <1>1 DEF RunState
<1> HIDE DEF l
<1>4. ASSUME k.pc = "items"
      PROVE  /\ l.todo # <<>> => l.next = 1
             /\ NodeItemsKept(v, l) /\ ParentsAhead(v, l) /\ MemberItemsKept(v, w, l)
  <2>1. (k.todo # <<>> => k.next = 1) /\ NodeItemsKept(t, k)
    BY <1>4 DEF RunKept
  <2>2. \A item : NodeMet(t, k, item) => NodeMet(v, l, item)
    BY <1>3 DEF NodeMet, NodesFine
  <2>3. NodeItemsKept(v, l)
    BY <1>3, <2>1, <2>2 DEF NodeItemsKept
  <2>4. ParentsAhead(v, l)
    BY <1>3 DEF ParentsAhead
  <2>5. MemberItemsKept(v, w, l)
    BY <1>3 DEF MemberItemsKept, MembersFine
  <2> QED BY <1>3, <2>1, <2>3, <2>4, <2>5
<1>5. RunKept(v, w, l)
  BY <1>2, <1>3, <1>4 DEF RunKept
<1> QED BY <1>5 DEF l

-----------------------------------------------------------------------------
(* The initial state *)

LEMMA InitKept == Init => SyncInv
<1> SUFFICES ASSUME Init PROVE SyncInv
  OBVIOUS
<1>1. Rows(nodes) = {} /\ Live(nodes) = {}
  BY DEF Init, Rows, Live, NoRow
<1>2. <<>> \in Seq(NodeId)
  OBVIOUS
<1>3. NoRow \in Row
  BY <1>2 DEF NoRow, Row, Status
<1>4. nodes \in [NodeId -> Row]
  BY <1>3 DEF Init
<1>5. NodesKept(nodes)
  BY <1>1, <1>4 DEF NodesKept, Shaped
<1>6. Used(members) = {} /\ Active(members) = {}
  BY DEF Init, Used, Active, Absent
<1>7. members \in [MemberId -> MemberRow \cup {Absent}]
  BY DEF Init
<1>8. MembersKept(nodes, members)
  BY <1>6, <1>7 DEF MembersKept, OneRowPerPair
<1> QED BY <1>5, <1>8 DEF SyncInv, Init

-----------------------------------------------------------------------------
(* The steps of a sync over the node items *)

LEMMA Running ==
    ASSUME SyncInv, run.pc \in {"items", "finish"}
    PROVE  RunKept(nodes, members, run) /\ run \in RunState
  BY DEF SyncInv, Idle, RunKept

LEMMA RequestRuns ==
    ASSUME SyncInv, run.pc \in {"items", "finish"}
    PROVE  /\ run.req \in Request /\ run.req.source \in Source
           /\ run.todo \in Seq(NodeItem)
           /\ run.req.nodes \in Seq(NodeItem) /\ run.req.members \in Seq(MemberItem)
           /\ \A i, j \in 1 .. Len(run.req.nodes) :
                 run.req.nodes[i].ext = run.req.nodes[j].ext => i = j
<1>1. run.req \in Request /\ run.todo \in Seq(NodeItem)
  BY Running DEF RunState
<1> QED BY <1>1, RequestIs

LEMMA StartKept ==
    ASSUME SyncInv, Start
    PROVE  SyncInv'
<1>1. PICK q \in Request :
         run' = [pc |-> "items", req |-> q, todo |-> Sorted(q.nodes), kept |-> {},
                 keptExts |-> {}, keptPairs |-> {}, next |-> 1,
                 errors |-> FALSE, written |-> FALSE, skipped |-> FALSE,
                 quiet |-> TRUE, cleaned |-> FALSE]
  BY DEF Start
<1> DEFINE items == q.nodes
           k == run'
<1>2. /\ items \in Seq(NodeItem)
      /\ \A i, j \in 1 .. Len(items) : items[i].ext = items[j].ext => i = j
  BY RequestIs
<1> HIDE DEF items
<1>3. /\ Sorted(items) \in Seq(NodeItem)
      /\ Range(Sorted(items)) = Range(items)
      /\ \A j \in 1 .. Len(Sorted(items)) :
            /\ Sorted(items)[j].ext \in Rooted(items)
            /\ Sorted(items)[j].parent # NoExt
            => \E h \in 1 .. j - 1 : Sorted(items)[h].ext = Sorted(items)[j].parent
  BY <1>2, SortedIs
<1>4. /\ k.pc = "items" /\ k.req = q /\ k.todo = Sorted(items) /\ k.kept = {}
      /\ k.keptExts = {} /\ k.keptPairs = {} /\ k.next = 1
      /\ k.errors = FALSE /\ k.written = FALSE /\ k.skipped = FALSE
      /\ k.quiet = TRUE /\ k.cleaned = FALSE
  BY <1>1 DEF items
<1>5. k \in RunState
  <2>1. Sorted(q.nodes) \in Seq(NodeItem)
    BY <1>3 DEF items
  <2>2. 1 \in Nat \ {0}
    OBVIOUS
  <2> QED BY <1>1, <2>1, <2>2 DEF RunState
<1>6. NodeItemsKept(nodes', k)
  <2>1. \A j \in 1 .. Len(k.todo) : k.todo[j] \in Range(k.todo)
    BY <1>3, <1>4, RangeEquality
  <2>2. \A i \in 1 .. Len(items) : items[i] \in Range(items)
    BY <1>2, RangeEquality
  <2> QED BY <1>3, <1>4, <2>1, <2>2 DEF NodeItemsKept, items
<1>7. ParentsAhead(nodes', k)
  BY <1>3, <1>4 DEF ParentsAhead, items
<1>8. MemberItemsKept(nodes', members', k)
  <2>1. {i \in 1 .. Len(q.members) : i < 1} = {}
    OBVIOUS
  <2> QED BY <1>4, <2>1 DEF MemberItemsKept
<1>9. RunKept(nodes', members', run')
  BY <1>4, <1>5, <1>6, <1>7, <1>8 DEF RunKept
<1> QED BY <1>9 DEF Start, SyncInv

LEMMA NodeStepKept ==
    ASSUME SyncInv, At("items"), run.todo # <<>>, NodeItemDone(run, run'),
           run.kept \subseteq run'.kept, run'.kept \subseteq run.kept \cup {Item.ext},
           run.errors => run'.errors, NodeMet(nodes', run', Item),
           NodesFine(run') /\ run'.quiet =>
              \A e : LiveKeyed(e) # {} => Keyed(nodes', run.req.source, e) # {},
           NodesKept(nodes'), SameSources(nodes, nodes'), UNCHANGED members
    PROVE  SyncInv'
<1>1. RunKept(nodes, members, run)
  BY Running DEF At
<1>2. RunKept(nodes', members, run')
  BY <1>1, NodeItemKept DEF At, Item, LiveKeyed
<1>3. MembersKept(nodes', members)
  BY StillGrounded DEF SyncInv
<1> QED BY <1>2, <1>3 DEF SyncInv

LEMMA ItemIs ==
    ASSUME SyncInv, At("items"), run.todo # <<>>
    PROVE  /\ Item \in NodeItem /\ Item \in Range(run.req.nodes)
           /\ NodeItemDone(run, NodeDone) /\ NodeDone \in RunState
           /\ NodeDone.kept = run.kept /\ NodeDone.errors = run.errors
           /\ NodeDone.written = run.written
           /\ run.kept \in SUBSET ExtId /\ run.kept \cup {Item.ext} \in SUBSET ExtId
           /\ run.errors \in BOOLEAN /\ run.written \in BOOLEAN
<1>1. RunKept(nodes, members, run) /\ run \in RunState
  BY Running DEF At
<1>2. run.todo \in Seq(NodeItem) /\ run.kept \in SUBSET ExtId /\ run.errors \in BOOLEAN
      /\ run.written \in BOOLEAN
  BY <1>1 DEF RunState
<1>3. Item \in NodeItem /\ Item = run.todo[1] /\ 1 \in 1 .. Len(run.todo)
  <2>1. Len(run.todo) \in Nat /\ Len(run.todo) > 0
    BY <1>2, LenProperties, EmptySeq
  <2> QED BY <1>2, <2>1, HeadTailProperties DEF Item
<1>4. Item \in Range(run.req.nodes)
  BY <1>1, <1>3 DEF RunKept, NodeItemsKept, At
<1>5. Item.ext \in ExtId
  BY <1>3, NodeItemIs
<1>6. /\ NodeItemDone(run, NodeDone) /\ NodeDone.kept = run.kept
      /\ NodeDone.errors = run.errors /\ NodeDone.written = run.written
  BY <1>1, NodeDoneIs DEF NodeDone
<1>7. NodeDone \in RunState
  BY <1>6 DEF NodeItemDone
<1> QED BY <1>2, <1>3, <1>4, <1>5, <1>6, <1>7

LEMMA NodesStay == SameSources(nodes, nodes)
  BY DEF SameSources

(* An item that fails, and counts as synced or not *)
LEMMA FailureKept ==
    ASSUME SyncInv, At("items"), run.todo # <<>>, UNCHANGED <<nodes, members>>,
           \/ run' = [NodeDone EXCEPT !.errors = TRUE, !.kept = @ \cup {Item.ext}]
           \/ /\ Item.action = "delete" \/ Item.parent # NoExt
              /\ run' = [NodeDone EXCEPT !.errors = TRUE]
    PROVE  SyncInv'
<1> DEFINE e == run.kept \cup {Item.ext}
<1>1. /\ NodeItemDone(run, NodeDone) /\ NodeDone \in RunState /\ run \in RunState
      /\ NodeDone.kept = run.kept /\ e \in SUBSET ExtId
  BY ItemIs, Running DEF At
<1> HIDE DEF e
<1>2. /\ Outcome(run, [NodeDone EXCEPT !.errors = TRUE], NodeDone.kept, TRUE)
      /\ Outcome(run, [NodeDone EXCEPT !.errors = TRUE, !.kept = e], e, TRUE)
  BY <1>1, TRUE \in BOOLEAN, NodeCounted
<1>3. /\ NodeItemDone(run, run') /\ run'.errors = TRUE
      /\ run.kept \subseteq run'.kept /\ run'.kept \subseteq run.kept \cup {Item.ext}
      /\ Item.action = "upsert" /\ Item.parent = NoExt => Item.ext \in run'.kept
  <2>1. CASE run' = [NodeDone EXCEPT !.errors = TRUE, !.kept = @ \cup {Item.ext}]
    <3>1. run' = [NodeDone EXCEPT !.errors = TRUE, !.kept = e]
      BY <1>1, <2>1 DEF e
    <3> QED BY <1>2, <3>1 DEF e, Outcome
  <2>2. CASE /\ Item.action = "delete" \/ Item.parent # NoExt
             /\ run' = [NodeDone EXCEPT !.errors = TRUE]
    BY <1>1, <1>2, <2>2 DEF Outcome
  <2> QED BY <2>1, <2>2
<1>4. ~NodesFine(run')
  BY <1>3 DEF NodesFine
<1>5. NodeMet(nodes', run', Item)
  BY <1>3, <1>4 DEF NodeMet
<1>6. NodesKept(nodes') /\ SameSources(nodes, nodes')
  BY NodesStay DEF SyncInv
<1> QED BY <1>3, <1>4, <1>5, <1>6, NodeStepKept

LEMMA NodeWithoutParentKept ==
    ASSUME SyncInv, NodeWithoutParent
    PROVE  SyncInv'
  BY FailureKept DEF NodeWithoutParent, AtNode

LEMMA NodeFailsKept ==
    ASSUME SyncInv, NodeFails
    PROVE  SyncInv'
  BY FailureKept DEF NodeFails

(* The upsert of a node that has no live row yet *)
LEMMA NodeInsertedKept ==
    ASSUME SyncInv, AtNode("upsert"), UNCHANGED members, LiveKeyed(Item.ext) = {},
           NEW p \in Live(nodes) \cup {NoParent}, NEW n \in NodeId \ Rows(nodes),
           LET path == IF p = NoParent THEN <<>> ELSE nodes[p].path
               depth == IF p = NoParent THEN -1 ELSE nodes[p].depth
               t == Inserted(nodes, n, p, path, depth, run.req.source, Item.ext)
           IN /\ nodes' = IF Fits(t) THEN t ELSE nodes
              /\ run' = [NodeDone EXCEPT !.kept = @ \cup {Item.ext},
                                         !.written = @ \/ Fits(t),
                                         !.errors = @ \/ ~Fits(t)]
    PROVE  /\ SyncInv'
           /\ SameSources(nodes, nodes')
           /\ \A m \in NodeId : nodes'[m] # nodes[m] => nodes'[m].source = run.req.source
<1> DEFINE path == IF p = NoParent THEN <<>> ELSE nodes[p].path
           depth == IF p = NoParent THEN -1 ELSE nodes[p].depth
           t == Inserted(nodes, n, p, path, depth, run.req.source, Item.ext)
           e == run.kept \cup {Item.ext}
           v == run.written \/ Fits(t)
           w == run.errors \/ ~Fits(t)
<1>1. /\ At("items") /\ run.todo # <<>> /\ run.pc \in {"items", "finish"}
      /\ NodesKept(nodes) /\ run.req.source \in Source
      /\ Item.ext \in ExtId
  BY ItemIs, NodeItemIs, RequestRuns DEF AtNode, At, SyncInv
<1>2. /\ NodesKept(t) /\ SameSources(nodes, t) /\ n \in Live(t)
      /\ t[n].source = run.req.source /\ t[n].ext = Item.ext
      /\ \A m \in NodeId : m # n => t[m] = nodes[m]
  <2> DEFINE src == run.req.source
             ext == Item.ext
  <2>1. /\ src \in Source => Keyed(nodes, src, ext) = {}
        /\ src \in Source \cup {Local} /\ ext \in ExtId \cup {NoExt}
    BY <1>1 DEF LiveKeyed
  <2>2. path = IF p = NoParent THEN <<>> ELSE nodes[p].path
    OBVIOUS
  <2>3. depth = IF p = NoParent THEN -1 ELSE nodes[p].depth
    OBVIOUS
  <2> HIDE DEF path, depth, src, ext
  <2>4. /\ NodesKept(Inserted(nodes, n, p, path, depth, src, ext))
        /\ SameSources(nodes, Inserted(nodes, n, p, path, depth, src, ext))
        /\ n \in Live(Inserted(nodes, n, p, path, depth, src, ext))
        /\ Inserted(nodes, n, p, path, depth, src, ext)[n].source = src
        /\ Inserted(nodes, n, p, path, depth, src, ext)[n].ext = ext
        /\ \A m \in NodeId : m # n =>
              Inserted(nodes, n, p, path, depth, src, ext)[m] = nodes[m]
    BY <1>1, <2>1, <2>2, <2>3, InsertedKept
  <2> QED BY <2>4 DEF src, ext
<1> HIDE DEF t
<1>3. /\ NodeItemDone(run, NodeDone) /\ NodeDone \in RunState /\ run \in RunState
      /\ NodeDone.kept = run.kept /\ NodeDone.written = run.written
      /\ NodeDone.errors = run.errors /\ e \in SUBSET ExtId
      /\ v \in BOOLEAN /\ w \in BOOLEAN
  BY <1>1, ItemIs, Running DEF Fits
<1>4. run' = [NodeDone EXCEPT !.kept = e, !.written = v, !.errors = w]
  BY <1>3 DEF t
<1>5. nodes' = IF Fits(t) THEN t ELSE nodes
  BY DEF t
<1> HIDE DEF e, v, w
<1>6. Outcome(run, [NodeDone EXCEPT !.kept = e, !.written = v, !.errors = w], e, w)
  BY <1>3, NodeCounted
<1>7. NodeItemDone(run, run') /\ run'.kept = e /\ run'.errors = w
  BY <1>4, <1>6 DEF Outcome
<1>8. \A x : LiveKeyed(x) # {} => Keyed(nodes', run.req.source, x) # {}
  <2>1. CASE Fits(t)
    <3>1. Live(nodes) \subseteq Live(t)
      BY <1>2, LiveRow DEF Live
    <3>2. \A x : LiveKeyed(x) \subseteq Keyed(t, run.req.source, x)
      <4> SUFFICES ASSUME NEW x, NEW m \in LiveKeyed(x)
                   PROVE  m \in Keyed(t, run.req.source, x)
        OBVIOUS
      <4>1. m \in Live(nodes) /\ m # n /\ m \in NodeId
        BY LiveRow DEF LiveKeyed, Keyed, Live, Rows
      <4> QED BY <1>2, <3>1, <4>1 DEF LiveKeyed, Keyed
    <3> QED BY <1>5, <2>1, <3>2
  <2>2. CASE ~Fits(t)
    BY <1>5, <2>2 DEF LiveKeyed
  <2> QED BY <2>1, <2>2
<1>9. NodeMet(nodes', run', Item)
  <2>1. Item.ext \in run'.kept
    BY <1>7 DEF e
  <2>2. ASSUME NodesFine(run') PROVE Keyed(nodes', run'.req.source, Item.ext) # {}
    <3>1. Fits(t)
      BY <1>7, <2>2 DEF NodesFine, w
    <3>2. nodes' = t /\ run'.req = run.req
      BY <1>5, <1>7, <3>1 DEF NodeItemDone
    <3>3. n \in Keyed(t, run.req.source, Item.ext)
      BY <1>2 DEF Keyed
    <3> QED BY <3>2, <3>3
  <2> QED BY <2>1, <2>2 DEF NodeMet
<1>10. NodesKept(nodes') /\ SameSources(nodes, nodes')
  BY <1>1, <1>2, <1>5, NodesStay
<1>11. run.kept \subseteq e /\ e \subseteq run.kept \cup {Item.ext} /\ (run.errors => w)
  BY DEF e, w
<1>12. SyncInv'
  BY <1>1, <1>7, <1>8, <1>9, <1>10, <1>11, NodeStepKept
<1>13. \A m \in NodeId : nodes'[m] # nodes[m] => nodes'[m].source = run.req.source
  BY <1>2, <1>5
<1> QED BY <1>10, <1>12, <1>13

LEMMA UpsertNodeKept ==
    ASSUME SyncInv, UpsertNode
    PROVE  /\ SyncInv'
           /\ SameSources(nodes, nodes')
           /\ \A m \in NodeId : nodes'[m] # nodes[m] => nodes'[m].source = run.req.source
<1>1. AtNode("upsert") /\ UNCHANGED members /\ At("items") /\ run.todo # <<>>
  BY DEF UpsertNode, AtNode
<1>2. PICK p \in IF Item.parent = NoExt THEN {NoParent} ELSE LiveKeyed(Item.parent) :
         IF LiveKeyed(Item.ext) # {}
           THEN /\ run' = [NodeDone EXCEPT !.kept = @ \cup {Item.ext},
                                           !.written = TRUE]
                /\ UNCHANGED nodes
           ELSE \E n \in NodeId \ Rows(nodes) :
                  LET path == IF p = NoParent THEN <<>> ELSE nodes[p].path
                      depth == IF p = NoParent THEN -1 ELSE nodes[p].depth
                      t == Inserted(nodes, n, p, path, depth, run.req.source, Item.ext)
                  IN /\ nodes' = IF Fits(t) THEN t ELSE nodes
                     /\ run' = [NodeDone EXCEPT !.kept = @ \cup {Item.ext},
                                                !.written = @ \/ Fits(t),
                                                !.errors = @ \/ ~Fits(t)]
  BY DEF UpsertNode
<1>3. p \in Live(nodes) \cup {NoParent}
  BY DEF LiveKeyed, Keyed
<1>4. CASE LiveKeyed(Item.ext) = {}
  BY <1>1, <1>2, <1>3, <1>4, NodeInsertedKept
<1>5. CASE LiveKeyed(Item.ext) # {}
  <2> DEFINE e == run.kept \cup {Item.ext}
  <2>1. /\ NodeItemDone(run, NodeDone) /\ NodeDone \in RunState /\ run \in RunState
        /\ NodeDone.kept = run.kept /\ NodeDone.errors = run.errors /\ e \in SUBSET ExtId
        /\ run.errors \in BOOLEAN
    BY <1>1, ItemIs, Running DEF At
  <2>2. run' = [NodeDone EXCEPT !.kept = e, !.written = TRUE] /\ UNCHANGED nodes
    BY <1>2, <1>5, <2>1
  <2> HIDE DEF e
  <2>3. Outcome(run, [NodeDone EXCEPT !.kept = e, !.written = TRUE], e, NodeDone.errors)
    BY <2>1, TRUE \in BOOLEAN, NodeCounted
  <2>4. /\ NodeItemDone(run, run') /\ run'.kept = e /\ run'.errors = run.errors
        /\ run'.req = run.req
    BY <2>1, <2>2, <2>3 DEF Outcome, NodeItemDone
  <2>5. NodeMet(nodes', run', Item)
    BY <1>5, <2>2, <2>4 DEF NodeMet, LiveKeyed, e
  <2>6. NodesKept(nodes') /\ SameSources(nodes, nodes')
    BY <2>2, NodesStay DEF SyncInv
  <2>7. \A x : LiveKeyed(x) # {} => Keyed(nodes', run.req.source, x) # {}
    BY <2>2 DEF LiveKeyed
  <2>8. run.kept \subseteq e /\ e \subseteq run.kept \cup {Item.ext}
    BY DEF e
  <2>9. SyncInv'
    BY <1>1, <2>4, <2>5, <2>6, <2>7, <2>8, NodeStepKept
  <2> QED BY <2>2, <2>6, <2>9
<1> QED BY <1>4, <1>5

(* An item that deletes: this sync is not one of upserts. *)
LEMMA DeletesAreSeen ==
    ASSUME SyncInv, AtNode("delete"), NEW l, l.req = run.req
    PROVE  ~NodesFine(l) /\ NodeMet(nodes', l, Item)
<1>1. At("items") /\ run.todo # <<>> /\ Item.action = "delete" /\ run.pc \in {"items", "finish"}
  BY DEF AtNode, At
<1>2. Item \in Range(run.req.nodes) /\ run.req.nodes \in Seq(NodeItem)
  BY <1>1, ItemIs, RequestRuns
<1>3. PICK i \in 1 .. Len(run.req.nodes) : run.req.nodes[i] = Item
  BY <1>2, RangeEquality
<1>4. ~UpsertsOnly(run.req.nodes)
  BY <1>1, <1>3 DEF UpsertsOnly
<1> QED BY <1>1, <1>4 DEF NodesFine, NodeMet

LEMMA DeleteNodeKept ==
    ASSUME SyncInv, DeleteNode
    PROVE  /\ SyncInv'
           /\ SameSources(nodes, nodes')
           /\ \A m \in NodeId : nodes'[m] # nodes[m] =>
                 NamedForDeletion(m)
<1>1. /\ AtNode("delete") /\ UNCHANGED members /\ At("items") /\ run.todo # <<>>
      /\ Item.action = "delete"
  BY DEF DeleteNode, AtNode
<1>2. /\ NodeItemDone(run, NodeDone) /\ NodeDone.kept = run.kept
      /\ NodeDone.errors = run.errors /\ NodeDone.req = run.req
  BY <1>1, ItemIs DEF NodeItemDone
<1>3. ASSUME NEW n \in LiveKeyed(Item.ext),
             nodes' = DeletedNode(n, CascadeStrategy), run' = NodeDone
      PROVE  SyncInv' /\ SameSources(nodes, nodes')
             /\ \A m \in NodeId : nodes'[m] # nodes[m] =>
                   IsPrefix(nodes[n].path, nodes[m].path)
  <2>1. n \in Live(nodes) /\ NodesKept(nodes)
    BY DEF LiveKeyed, Keyed, SyncInv
  <2>2. /\ NodesKept(nodes') /\ SameSources(nodes, nodes')
        /\ \A m \in NodeId : nodes'[m] # nodes[m] =>
              IsPrefix(nodes[n].path, nodes[m].path)
    BY <1>3, <2>1, DeletedNodeKept, SyncAssumption
  <2>3. ~NodesFine(run') /\ NodeMet(nodes', run', Item)
    BY <1>1, <1>2, <1>3, DeletesAreSeen
  <2>4. SyncInv'
    BY <1>1, <1>2, <1>3, <2>2, <2>3, NodeStepKept
  <2> QED BY <2>2, <2>4
<1>4. CASE /\ LiveKeyed(Item.ext) = {}
           /\ run' = [NodeDone EXCEPT !.errors = TRUE]
           /\ UNCHANGED nodes
  <2>1. SyncInv'
    BY <1>1, <1>4, FailureKept
  <2> QED BY <1>4, <2>1, NodesStay
<1>5. CASE \E n \in LiveKeyed(Item.ext) :
              nodes' = DeletedNode(n, CascadeStrategy) /\ run' = NodeDone
  <2>1. PICK n \in LiveKeyed(Item.ext) :
              nodes' = DeletedNode(n, CascadeStrategy) /\ run' = NodeDone
    BY <1>5
  <2> QED BY <1>1, <1>3, <2>1 DEF NamedForDeletion
<1> QED BY <1>4, <1>5 DEF DeleteNode

-----------------------------------------------------------------------------
(* The steps of a sync over the member items *)

(* What SyncTouchesNamed lets a step change of the memberships *)
MemberTouched(r) ==
    /\ members'[r].node \in NodeId
    /\ nodes[members'[r].node].source = run.req.source
    /\ \/ r \in Active(members) /\ members[r].source = run.req.source
       \/ AtMember /\ \A row \in {members[r], members'[r]} \ {Absent} :
             row.node \in LiveKeyed(MItem.node) /\ row.user = MItem.user

LEMMA MemberDoneIs ==
    ASSUME SyncInv, AtMember
    PROVE  /\ run \in RunState /\ run.next \in 1 .. Len(run.req.members)
           /\ run.todo = <<>> /\ run.pc = "items"
           /\ MemberDone \in RunState /\ MemberItemDone(run, MemberDone)
           /\ MemberDone.errors = run.errors /\ MemberDone.skipped = run.skipped
           /\ MemberDone.keptExts = run.keptExts /\ MemberDone.keptPairs = run.keptPairs
           /\ MItem \in MemberItem
<1>1. /\ run \in RunState /\ run.pc = "items" /\ run.todo = <<>>
      /\ run.next <= Len(run.req.members)
  BY Running DEF AtMember, At
<1>2. run.next \in Nat \ {0}
  BY <1>1 DEF RunState
<1>3. run.req.members \in Seq(MemberItem)
  BY <1>1, RequestRuns
<1>4. run.next \in 1 .. Len(run.req.members)
  BY <1>1, <1>2, <1>3
<1>5. MItem \in MemberItem
  BY <1>3, <1>4, ElementOfSeq DEF MItem
<1>6. run.next + 1 \in Nat \ {0}
  BY <1>2
<1>7. MemberDone \in RunState
  BY <1>1, <1>6, Counted DEF MemberDone
<1>8. /\ MemberDone.pc = run.pc /\ MemberDone.req = run.req /\ MemberDone.todo = run.todo
      /\ MemberDone.kept = run.kept /\ MemberDone.next = run.next + 1
      /\ MemberDone.quiet = run.quiet
      /\ MemberDone.errors = run.errors /\ MemberDone.skipped = run.skipped
      /\ MemberDone.keptExts = run.keptExts /\ MemberDone.keptPairs = run.keptPairs
  BY <1>1 DEF MemberDone, RunState
<1> QED BY <1>1, <1>4, <1>5, <1>7, <1>8 DEF MemberItemDone

(* The outcomes of a member item *)
LEMMA MemberFails ==
    ASSUME NEW k \in RunState, NEW l \in RunState, MemberItemDone(k, l)
    PROVE  /\ MemberItemDone(k, [l EXCEPT !.errors = TRUE])
           /\ [l EXCEPT !.errors = TRUE].errors
<1> DEFINE a == [l EXCEPT !.errors = TRUE]
<1>1. a \in RunState
  BY Counted
<1>2. /\ a.pc = l.pc /\ a.req = l.req /\ a.todo = l.todo /\ a.kept = l.kept
      /\ a.next = l.next /\ a.quiet = l.quiet /\ a.errors = TRUE
  BY DEF RunState
<1> QED BY <1>1, <1>2 DEF MemberItemDone

LEMMA MemberSkips ==
    ASSUME NEW k \in RunState, NEW l \in RunState, MemberItemDone(k, l)
    PROVE  /\ MemberItemDone(k, [l EXCEPT !.skipped = TRUE])
           /\ [l EXCEPT !.skipped = TRUE].skipped
           /\ [l EXCEPT !.skipped = TRUE].errors = l.errors
<1> DEFINE a == [l EXCEPT !.skipped = TRUE]
<1>1. a \in RunState
  BY Counted
<1>2. /\ a.pc = l.pc /\ a.req = l.req /\ a.todo = l.todo /\ a.kept = l.kept
      /\ a.next = l.next /\ a.quiet = l.quiet /\ a.errors = l.errors /\ a.skipped = TRUE
  BY DEF RunState
<1> QED BY <1>1, <1>2 DEF MemberItemDone

LEMMA MemberCounts ==
    ASSUME SyncInv, NEW n \in NodeId, AtMember
    PROVE  /\ MemberCounted(n) \in RunState /\ MemberItemDone(run, MemberCounted(n))
           /\ MemberCounted(n).errors = run.errors
           /\ MemberCounted(n).skipped = run.skipped
           /\ MItem.ext # NoExt => MemberCounted(n).keptExts = run.keptExts \cup {MItem.ext}
           /\ MemberCounted(n).keptPairs = run.keptPairs \cup {<<n, MItem.user>>}
<1> DEFINE l == MemberDone
           e == IF MItem.ext = NoExt THEN l.keptExts ELSE l.keptExts \cup {MItem.ext}
           p == l.keptPairs \cup {<<n, MItem.user>>}
           a == [l EXCEPT !.keptExts = e, !.keptPairs = p]
<1>1. /\ l \in RunState /\ MemberItemDone(run, l) /\ l.errors = run.errors
      /\ l.skipped = run.skipped /\ l.keptExts = run.keptExts
      /\ l.keptPairs = run.keptPairs /\ MItem \in MemberItem
  BY MemberDoneIs
<1>2. MItem.ext \in ExtId \cup {NoExt} /\ MItem.user \in UserId
  BY <1>1, MemberItemIs
<1>3. l.keptExts \in SUBSET ExtId /\ l.keptPairs \in SUBSET (NodeId \X UserId)
  BY <1>1 DEF RunState
<1>4. e \in SUBSET ExtId /\ p \in SUBSET (NodeId \X UserId)
  BY <1>2, <1>3
<1>5. MemberCounted(n) = a
  BY DEF MemberCounted
<1>6. MItem.ext # NoExt => e = run.keptExts \cup {MItem.ext}
  BY <1>1
<1>7. p = run.keptPairs \cup {<<n, MItem.user>>}
  BY <1>1
<1> HIDE DEF l, e, p
<1>8. a \in RunState
  BY <1>1, <1>4, Counted
<1>9. /\ a.pc = l.pc /\ a.req = l.req /\ a.todo = l.todo /\ a.kept = l.kept
      /\ a.next = l.next /\ a.quiet = l.quiet /\ a.errors = l.errors
      /\ a.skipped = l.skipped /\ a.keptExts = e /\ a.keptPairs = p
  BY <1>1 DEF RunState
<1>10. MemberItemDone(run, a)
  BY <1>1, <1>8, <1>9 DEF MemberItemDone
<1> QED BY <1>1, <1>5, <1>6, <1>7, <1>8, <1>9, <1>10

LEMMA MemberStepKept ==
    ASSUME SyncInv, AtMember, MemberItemDone(run, run'), run.errors => run'.errors,
           UNCHANGED nodes, MembersKept(nodes, members'),
           MemberItemsKept(nodes, members', run')
    PROVE  SyncInv'
<1>1. RunKept(nodes, members, run) /\ run.pc = "items" /\ run.todo = <<>>
  BY Running DEF AtMember, At
<1>2. RunKept(nodes, members', run')
  BY <1>1, MemberItemKept
<1> QED BY <1>2 DEF SyncInv

(* An item that fails, or is skipped *)
LEMMA MemberFailureKept ==
    ASSUME SyncInv, AtMember, UNCHANGED <<nodes, members>>,
           MemberItemDone(run, run'), run.errors => run'.errors,
           run'.errors \/ run'.skipped
    PROVE  SyncInv'
<1>1. MembersKept(nodes, members')
  BY DEF SyncInv
<1>2. MemberItemsKept(nodes, members', run')
  BY DEF MemberItemsKept, MembersFine, NodesFine
<1> QED BY <1>1, <1>2, MemberStepKept

LEMMA MemberWithoutNodeKept ==
    ASSUME SyncInv, MemberWithoutNode
    PROVE  SyncInv'
<1>1. AtMember /\ UNCHANGED <<nodes, members>> /\ run' = [MemberDone EXCEPT !.errors = TRUE]
  BY DEF MemberWithoutNode
<1>2. MemberItemDone(run, run') /\ run'.errors
  BY <1>1, MemberDoneIs, MemberFails
<1> QED BY <1>1, <1>2, MemberFailureKept

LEMMA MemberSkippedKept ==
    ASSUME SyncInv, MemberSkipped
    PROVE  SyncInv'
<1>1. AtMember /\ UNCHANGED <<nodes, members>> /\ run' = [MemberDone EXCEPT !.skipped = TRUE]
  BY DEF MemberSkipped
<1>2. MemberItemDone(run, run') /\ run'.skipped /\ run'.errors = MemberDone.errors
  BY <1>1, MemberDoneIs, MemberSkips
<1>3. MemberDone.errors = run.errors
  BY <1>1, MemberDoneIs
<1> QED BY <1>1, <1>2, <1>3, MemberFailureKept

LEMMA UpsertMemberFailsKept ==
    ASSUME SyncInv, UpsertMemberFails
    PROVE  SyncInv'
<1>1. PICK n \in NodeId : AtMemberOf("upsert", n) /\ run' = [MemberCounted(n) EXCEPT !.errors = TRUE]
  BY DEF UpsertMemberFails
<1>2. AtMember /\ UNCHANGED <<nodes, members>>
  BY <1>1 DEF AtMemberOf, UpsertMemberFails
<1>3. MemberItemDone(run, run') /\ run'.errors
  BY <1>1, <1>2, MemberCounts, MemberDoneIs, MemberFails
<1> QED BY <1>2, <1>3, MemberFailureKept

LEMMA DeleteMemberKept ==
    ASSUME SyncInv, DeleteMember
    PROVE  /\ SyncInv' /\ UNCHANGED nodes
           /\ \A r \in MemberId : members'[r] # members[r] => MemberTouched(r)
<1>1. PICK n \in NodeId :
         /\ AtMemberOf("delete", n)
         /\ \/ /\ members' = MemberRemoved(members, n, MItem.user)
               /\ run' = MemberDone
            \/ /\ run' = [MemberDone EXCEPT !.errors = TRUE]
               /\ UNCHANGED members
  BY DEF DeleteMember
<1>2. /\ AtMember /\ UNCHANGED nodes /\ MItem.action = "delete"
      /\ nodes[n].source = run.req.source /\ n \in LiveKeyed(MItem.node)
  BY <1>1 DEF AtMemberOf, DeleteMember, LiveKeyed, Keyed
<1>3. /\ run \in RunState /\ run.next \in 1 .. Len(run.req.members)
      /\ MemberDone \in RunState /\ MemberItemDone(run, MemberDone)
      /\ MemberDone.errors = run.errors
  BY <1>2, MemberDoneIs
<1>4. CASE run' = [MemberDone EXCEPT !.errors = TRUE] /\ UNCHANGED members
  <2>1. MemberItemDone(run, run') /\ run'.errors
    BY <1>3, <1>4, MemberFails
  <2>2. SyncInv'
    BY <1>2, <1>4, <2>1, MemberFailureKept
  <2> QED BY <1>2, <1>4, <2>2
<1>5. CASE members' = MemberRemoved(members, n, MItem.user) /\ run' = MemberDone
  <2> DEFINE D == ActiveAt(members, n, MItem.user)
  <2>1. D \in SUBSET Active(members) /\ \A r \in D : members[r].node = n
    BY DEF ActiveAt
  <2>2. members' = [r \in MemberId |-> IF r \in D
                      THEN [members[r] EXCEPT !.status = "deleted"] ELSE members[r]]
    BY <1>5 DEF MemberRemoved
  <2> HIDE DEF D
  <2>3. /\ MembersKept(nodes, members')
        /\ \A r \in MemberId \ D : members'[r] = members[r]
        /\ \A r \in D : members'[r].node = members[r].node
    BY <2>1, <2>2, MembersDeletedKept DEF SyncInv
  <2>4. run'.req = run.req
    BY <1>3, <1>5 DEF MemberItemDone
  <2>5. ~UpsertsOnly(run.req.members)
    BY <1>2, <1>3 DEF UpsertsOnly, MItem
  <2>6. MemberItemsKept(nodes, members', run')
    BY <2>4, <2>5 DEF MemberItemsKept, MembersFine
  <2>7. SyncInv'
    BY <1>2, <1>3, <1>5, <2>3, <2>6, MemberStepKept
  <2>8. ASSUME NEW r \in D
        PROVE  /\ members[r].node = n /\ members[r].user = MItem.user
               /\ members'[r].node = n /\ members'[r].user = MItem.user
    <3>1. members[r].node = n /\ members[r].user = MItem.user
      BY DEF D, ActiveAt
    <3>2. r \in MemberId /\ members[r] \in MemberRow
      BY <2>1, ActiveIsUsed, MemberOf DEF SyncInv
    <3>3. members'[r] = [members[r] EXCEPT !.status = "deleted"]
      BY <2>2, <3>2
    <3> QED BY <3>1, <3>2, <3>3 DEF MemberRow
  <2>9. ASSUME NEW r \in MemberId, members'[r] # members[r] PROVE MemberTouched(r)
    <3>1. r \in D
      BY <2>3, <2>9
    <3> QED BY <1>2, <2>8, <3>1 DEF MemberTouched
  <2> QED BY <1>2, <2>7, <2>9
<1> QED BY <1>1, <1>4, <1>5

(* The node that a member item names is one. *)
LEMMA NamedOnce ==
    ASSUME SyncInv, NEW item, run.pc \in {"items", "finish"},
           NEW m \in Named(nodes, run.req, item), NEW n \in Named(nodes, run.req, item)
    PROVE  m = n
<1>1. run.req.source \in Source
  BY RequestRuns
<1>2. /\ m \in Live(nodes) /\ n \in Live(nodes)
      /\ nodes[m].source = run.req.source /\ nodes[n].source = run.req.source
      /\ nodes[m].ext = item.node /\ nodes[n].ext = item.node
  BY DEF Named, Keyed
<1> QED BY <1>1, <1>2 DEF SyncInv, NodesKept

(* The upsert of item number run.next, w being the table it leaves: the items
   before it keep their memberships. *)
LEMMA MemberItemsGrow ==
    ASSUME SyncInv, AtMember, NEW n \in LiveKeyed(MItem.node),
           NEW m, m.node = n, m.user = MItem.user, m.source = run.req.source,
           m.ext = MItem.ext, NEW w, Wrote(members, w, m),
           NEW l, MemberItemDone(run, l), l.errors = run.errors, l.skipped = run.skipped,
           MItem.ext # NoExt => l.keptExts = run.keptExts \cup {MItem.ext},
           l.keptPairs = run.keptPairs \cup {<<n, MItem.user>>}
    PROVE  MemberItemsKept(nodes, w, l)
<1> DEFINE items == run.req.members
           done == {i \in 1 .. Len(items) : i < run.next}
           at == run.next
<1>1. /\ run \in RunState /\ at \in 1 .. Len(items) /\ run.pc = "items"
      /\ items \in Seq(MemberItem) /\ MItem = items[at]
  BY MemberDoneIs, RequestRuns DEF MItem
<1>2. /\ l.req = run.req /\ l.next = at + 1 /\ l.quiet = run.quiet
  BY DEF MemberItemDone
<1> SUFFICES ASSUME MembersFine(l)
             PROVE  /\ \A i \in done \cup {at} : MemberMet(nodes, w, l, items[i])
                    /\ \A e \in l.keptExts : \E i \in done \cup {at} : items[i].ext = e
                    /\ \A p \in l.keptPairs : \E i \in done \cup {at} :
                          p[1] \in Named(nodes, run.req, items[i]) /\ p[2] = items[i].user
  <2>1. {i \in 1 .. Len(items) : i < at + 1} = done \cup {at}
    BY <1>1
  <2>2. {i \in 1 .. Len(l.req.members) : i < l.next} = done \cup {at}
    BY <1>2, <2>1
  <2> DEFINE now == {i \in 1 .. Len(l.req.members) : i < l.next}
  <2>3. now = done \cup {at}
    BY <2>2
  <2> HIDE DEF now, done, at
  <2>4. ASSUME MembersFine(l)
        PROVE  /\ \A i \in now : MemberMet(nodes, w, l, l.req.members[i])
               /\ \A e \in l.keptExts : \E i \in now : l.req.members[i].ext = e
               /\ \A p \in l.keptPairs : \E i \in now :
                     /\ p[1] \in Named(nodes, l.req, l.req.members[i])
                     /\ p[2] = l.req.members[i].user
    BY <1>2, <2>3, <2>4
  <2>5. MemberItemsKept(nodes, w, l)
    BY <2>4, Zenon DEF MemberItemsKept, now
  <2> QED BY <2>5
<1>3. MembersFine(run) /\ MembersDistinct(run.req)
  BY <1>2 DEF MembersFine, NodesFine
<1>4. /\ \A i \in done : MemberMet(nodes, members, run, items[i])
      /\ \A e \in run.keptExts : \E i \in done : items[i].ext = e
      /\ \A p \in run.keptPairs : \E i \in done :
            p[1] \in Named(nodes, run.req, items[i]) /\ p[2] = items[i].user
  BY <1>1, <1>3, Running DEF RunKept, MemberItemsKept
<1>5. MItem.ext # NoExt /\ l.keptExts = run.keptExts \cup {MItem.ext}
  BY <1>1, <1>3 DEF MembersDistinct
<1>6. n \in Named(nodes, run.req, MItem) /\ n \in Live(nodes) /\ nodes[n].ext = MItem.node
  BY DEF LiveKeyed, Named, Keyed
<1>7. PICK r \in MemberId :
         /\ w[r].status = "live" /\ w[r].node = n /\ w[r].user = MItem.user
         /\ w[r].source = run.req.source /\ w[r].ext = MItem.ext
         /\ \A q \in MemberId \ {r} : w[q] = members[q]
         /\ r \in Active(members) =>
               \/ members[r].node = n /\ members[r].user = MItem.user
               \/ members[r].source = run.req.source /\ members[r].ext = MItem.ext
  BY <1>5, ActiveIsUsed DEF Wrote
<1>8. MemberMet(nodes, w, l, items[at])
  <2>1. r \in Active(w)
    BY <1>7 DEF Active
  <2>2. \A x \in Named(nodes, run.req, MItem) : x = n
    BY <1>1, <1>6, NamedOnce
  <2>3. MItem.ext \in l.keptExts /\ Named(nodes, run.req, MItem) # {}
    BY <1>5, <1>6
  <2> QED BY <1>1, <1>2, <1>7, <2>1, <2>2, <2>3 DEF MemberMet
<1>9. ASSUME NEW i \in done PROVE MemberMet(nodes, w, l, items[i])
  <2>1. MemberMet(nodes, members, run, items[i])
    BY <1>4
  <2>2. ASSUME NEW x \in Named(nodes, run.req, items[i])
        PROVE  \E q \in Active(w) : /\ w[q].node = x /\ w[q].user = items[i].user
                                    /\ w[q].source = run.req.source
                                    /\ w[q].ext = items[i].ext
    <3>1. PICK q \in Active(members) :
             /\ members[q].node = x /\ members[q].user = items[i].user
             /\ members[q].source = run.req.source /\ members[q].ext = items[i].ext
      BY <2>1, <2>2 DEF MemberMet
    <3>2. nodes[x].ext = items[i].node
      BY <2>2 DEF Named, Keyed
    <3>3. ~(items[i].ext = MItem.ext)
          /\ ~(items[i].node = MItem.node /\ items[i].user = MItem.user)
      <4>1. i \in 1 .. Len(items) /\ i # at
        BY <1>1
      <4> QED BY <1>1, <1>3, <4>1 DEF MembersDistinct
    <3>4. q # r
      BY <1>6, <1>7, <3>1, <3>2, <3>3
    <3>5. q \in MemberId /\ w[q] = members[q] /\ q \in Active(w)
      BY <1>7, <3>1, <3>4 DEF Active
    <3> QED BY <3>1, <3>5
  <2>3. items[i].ext \in l.keptExts /\ Named(nodes, run.req, items[i]) # {}
    BY <1>5, <2>1 DEF MemberMet
  <2> QED BY <1>2, <2>2, <2>3 DEF MemberMet
<1>10. \A e \in l.keptExts : \E i \in done \cup {at} : items[i].ext = e
  BY <1>1, <1>4, <1>5
<1>11. ASSUME NEW p \in l.keptPairs
       PROVE  \E i \in done \cup {at} :
                 p[1] \in Named(nodes, run.req, items[i]) /\ p[2] = items[i].user
  <2>1. CASE p \in run.keptPairs
    BY <1>4, <2>1
  <2>2. CASE p = <<n, MItem.user>>
    BY <1>1, <1>6, <2>2
  <2> QED BY <2>1, <2>2
<1> QED BY <1>8, <1>9, <1>10, <1>11

LEMMA UpsertMemberKept ==
    ASSUME SyncInv, UpsertMember
    PROVE  /\ SyncInv' /\ UNCHANGED nodes
           /\ \A r \in MemberId : members'[r] # members[r] => MemberTouched(r)
<1>1. PICK n \in NodeId :
         /\ AtMemberOf("upsert", n)
         /\ members' \in Upserted(members,
              [node |-> n, user |-> MItem.user, role |-> MItem.role,
               source |-> run.req.source, ext |-> MItem.ext])
         /\ run' = MemberCounted(n)
  BY DEF UpsertMember
<1> DEFINE m == [node |-> n, user |-> MItem.user, role |-> MItem.role,
                 source |-> run.req.source, ext |-> MItem.ext]
<1>2. /\ AtMember /\ n \in LiveKeyed(MItem.node) /\ UNCHANGED nodes
  BY <1>1 DEF AtMemberOf, UpsertMember
<1>3. n \in Rows(nodes) /\ nodes[n].source = run.req.source /\ run.req.source \in Source
  BY <1>2, LiveRow, MemberDoneIs, RequestRuns DEF LiveKeyed, Keyed
<1>4. /\ MItem.user \in UserId /\ MItem.role \in Role
      /\ MItem.ext \in ExtId \cup {NoExt}
  BY <1>2, MemberDoneIs, MemberItemIs
<1>5. /\ m \in Membership /\ m.node = n /\ m.user = MItem.user
      /\ m.source = run.req.source /\ m.ext = MItem.ext
  BY <1>3, <1>4 DEF Membership
<1>6. members' \in Upserted(members, m)
  BY <1>1
<1> HIDE DEF m
<1>7. MembersKept(nodes, members') /\ Wrote(members, members', m)
  BY <1>3, <1>5, <1>6, UpsertedKept DEF SyncInv
<1>8. /\ MemberItemDone(run, run') /\ run'.errors = run.errors
      /\ run'.skipped = run.skipped
      /\ MItem.ext # NoExt => run'.keptExts = run.keptExts \cup {MItem.ext}
      /\ run'.keptPairs = run.keptPairs \cup {<<n, MItem.user>>}
  BY <1>1, <1>2, MemberCounts
<1>9. MemberItemsKept(nodes, members', run')
  BY <1>2, <1>5, <1>7, <1>8, MemberItemsGrow
<1>10. SyncInv'
  BY <1>2, <1>7, <1>8, <1>9, MemberStepKept
<1>11. ASSUME NEW r \in MemberId, members'[r] # members[r] PROVE MemberTouched(r)
  <2>1. /\ members'[r].node = n /\ members'[r].user = MItem.user
        /\ r \in Used(members) =>
              \/ members[r].node = n /\ members[r].user = MItem.user
              \/ r \in Active(members) /\ members[r].source = run.req.source
    BY <1>5, <1>7, <1>11 DEF Wrote
  <2>2. r \notin Used(members) => members[r] = Absent
    BY DEF Used, SyncInv, MembersKept, MemberRow
  <2> QED BY <1>2, <1>3, <2>1, <2>2 DEF MemberTouched
<1> QED BY <1>2, <1>10, <1>11

-----------------------------------------------------------------------------
(* The clean-up *)

(* When the node items are done, each has been met. *)
LEMMA NodesMet ==
    ASSUME SyncInv, At("items"), run.todo = <<>>, NEW i \in 1 .. Len(run.req.nodes)
    PROVE  NodeMet(nodes, run, run.req.nodes[i])
<1>1. NodeItemsKept(nodes, run)
  BY Running DEF RunKept, At
<1> QED BY <1>1, RangeEmpty DEF NodeItemsKept

LEMMA NodesCleanedKept ==
    ASSUME SyncInv, run.pc \in {"items", "finish"}
    PROVE  /\ NodesKept(NodesCleaned) /\ SameSources(nodes, NodesCleaned)
           /\ \A m \in NodeId : /\ NodesCleaned[m].source = nodes[m].source
                                /\ NodesCleaned[m].ext = nodes[m].ext
                                /\ NodesCleaned[m] # nodes[m] =>
                                      NodesCleaned[m].source = run.req.source
           /\ Live(NodesCleaned) \subseteq Live(nodes)
           /\ \A m \in Live(nodes) :
                 nodes[m].ext \in run.kept => m \in Live(NodesCleaned)
           /\ run.req.nodes # <<>> => \A m \in Live(NodesCleaned) :
                 nodes[m].source = run.req.source => nodes[m].ext \in run.kept
<1>1. CASE run.req.nodes = <<>>
  <2>1. NodesCleaned = nodes
    BY <1>1 DEF NodesCleaned
  <2> QED BY <1>1, <2>1, NodesStay DEF SyncInv
<1>2. CASE run.req.nodes # <<>>
  <2> DEFINE u == SourceDeleted(nodes, run.req.source, run.kept)
  <2>1. NodesCleaned = u
    BY <1>2 DEF NodesCleaned
  <2>2. /\ NodesKept(u) /\ SameSources(nodes, u)
        /\ Live(u) = {m \in Live(nodes) : nodes[m].source = run.req.source =>
                                             nodes[m].ext \in run.kept}
        /\ \A m \in NodeId : /\ u[m].source = nodes[m].source /\ u[m].ext = nodes[m].ext
                             /\ u[m] # nodes[m] => u[m].source = run.req.source
    BY SourceDeletedKept DEF SyncInv
  <2> HIDE DEF u
  <2> QED BY <2>1, <2>2
<1> QED BY <1>1, <1>2

(* What the clean-up of memberships leaves *)
Dropped == {r \in Active(members) :
              /\ members[r].source = run.req.source
              /\ members[r].ext = NoExt \/ members[r].ext \notin run.keptExts
              /\ <<members[r].node, members[r].user>> \notin run.keptPairs}

LEMMA MembersCleanedKept ==
    ASSUME SyncInv
    PROVE  /\ MembersKept(nodes, MembersCleaned)
           /\ \A r \in MemberId : /\ MembersCleaned[r].node = members[r].node
                                  /\ MembersCleaned[r] # members[r] => r \in Dropped
           /\ run.req.members # <<>> => Active(MembersCleaned) = Active(members) \ Dropped
<1>1. CASE run.req.members = <<>>
  <2>1. MembersCleaned = members
    BY <1>1 DEF MembersCleaned
  <2> QED BY <1>1, <2>1 DEF SyncInv
<1>2. CASE run.req.members # <<>>
  <2> DEFINE w == [r \in MemberId |-> IF r \in Dropped
                     THEN [members[r] EXCEPT !.status = "deleted"] ELSE members[r]]
  <2>1. Dropped \in SUBSET Active(members)
    BY DEF Dropped
  <2>2. MembersCleaned = w
    <3>1. \A r \in MemberId :
             (r \in Dropped) <=>
                /\ r \in Active(members) /\ members[r].source = run.req.source
                /\ members[r].ext = NoExt \/ members[r].ext \notin run.keptExts
                /\ <<members[r].node, members[r].user>> \notin run.keptPairs
      BY DEF Dropped
    <3>2. MembersCleaned = MembersSourceDeleted(members, run.req.source, run.keptExts,
                                                  run.keptPairs)
      BY <1>2 DEF MembersCleaned
    <3> QED BY <3>1, <3>2, Zenon DEF MembersSourceDeleted
  <2>3. /\ MembersKept(nodes, w) /\ Active(w) = Active(members) \ Dropped
        /\ \A r \in MemberId \ Dropped : w[r] = members[r]
        /\ \A r \in Dropped : w[r].node = members[r].node
    BY <2>1, MembersDeletedKept DEF SyncInv
  <2> HIDE DEF w
  <2> QED BY <2>2, <2>3
<1> QED BY <1>1, <1>2

(* A full sync of upserts without an error leaves the nodes that it lists. *)
LEMMA NodesAreMirrored ==
    ASSUME SyncInv, At("items"), run.todo = <<>>, run.quiet, ~run.errors,
           run.req.nodes # <<>>, UpsertsOnly(run.req.nodes)
    PROVE  NodesMirrored(NodesCleaned, run.req)
<1> DEFINE q == run.req
           items == q.nodes
<1>1. run.pc \in {"items", "finish"} /\ NodesFine(run)
  BY DEF At, NodesFine
<1>2. /\ NodesKept(NodesCleaned) /\ Live(NodesCleaned) \subseteq Live(nodes)
      /\ \A m \in NodeId : /\ NodesCleaned[m].source = nodes[m].source
                           /\ NodesCleaned[m].ext = nodes[m].ext
      /\ \A m \in Live(nodes) : nodes[m].ext \in run.kept => m \in Live(NodesCleaned)
      /\ \A m \in Live(NodesCleaned) :
            nodes[m].source = run.req.source => nodes[m].ext \in run.kept
  BY <1>1, NodesCleanedKept
<1>3. ASSUME NEW i \in 1 .. Len(items)
      PROVE  Cardinality(Keyed(NodesCleaned, q.source, items[i].ext)) = 1
  <2>1. /\ items[i].ext \in run.kept
        /\ Keyed(nodes, q.source, items[i].ext) # {}
    BY <1>1, NodesMet DEF NodeMet
  <2>2. PICK n \in Keyed(nodes, q.source, items[i].ext) : TRUE
    BY <2>1
  <2>3. /\ n \in Live(nodes) /\ nodes[n].source = q.source
        /\ nodes[n].ext = items[i].ext /\ n \in NodeId
    BY DEF Keyed, Live
  <2>4. n \in Keyed(NodesCleaned, q.source, items[i].ext)
    BY <1>2, <2>1, <2>3 DEF Keyed
  <2>5. q.source \in Source
    BY <1>1, RequestRuns
  <2>6. ASSUME NEW m \in Keyed(NodesCleaned, q.source, items[i].ext) PROVE m = n
    BY <1>2, <2>4, <2>5 DEF Keyed, NodesKept
  <2>7. Keyed(NodesCleaned, q.source, items[i].ext) = {n}
    BY <2>4, <2>6
  <2> QED BY <2>7, FS_Singleton
<1>4. ASSUME NEW n \in Live(NodesCleaned), NodesCleaned[n].source = q.source
      PROVE  \E i \in 1 .. Len(items) : NodesCleaned[n].ext = items[i].ext
  <2>1. nodes[n].ext \in run.kept /\ NodesCleaned[n].ext = nodes[n].ext
    BY <1>2, <1>4 DEF Live
  <2>2. NodeItemsKept(nodes, run)
    BY <1>1, Running DEF RunKept, At
  <2> QED BY <2>1, <2>2 DEF NodeItemsKept
<1> QED BY <1>3, <1>4 DEF NodesMirrored

(* A full sync of upserts without an error, and with distinct member items,
   leaves the memberships that it lists. *)
LEMMA MembersAreMirrored ==
    ASSUME SyncInv, At("items"), run.todo = <<>>, run.next > Len(run.req.members),
           run.quiet, ~run.errors, ~run.skipped, run.req.members # <<>>,
           UpsertsOnly(run.req.nodes), UpsertsOnly(run.req.members),
           MembersDistinct(run.req)
    PROVE  MembersMirrored(NodesCleaned, MembersCleaned, run.req)
<1> DEFINE q == run.req
           items == q.members
           t == NodesCleaned
           w == MembersCleaned
<1>1. run.pc \in {"items", "finish"} /\ NodesFine(run) /\ MembersFine(run)
  BY DEF At, NodesFine, MembersFine
<1>2. /\ items \in Seq(MemberItem) /\ Len(items) \in Nat /\ run.next \in Nat
      /\ q.source \in Source
  BY <1>1, RequestRuns, Running, LenProperties DEF RunState
<1>3. {i \in 1 .. Len(items) : i < run.next} = 1 .. Len(items)
  BY <1>2
<1>4. /\ \A i \in 1 .. Len(items) : MemberMet(nodes, members, run, items[i])
      /\ \A e \in run.keptExts : \E i \in 1 .. Len(items) : items[i].ext = e
      /\ \A p \in run.keptPairs : \E i \in 1 .. Len(items) :
            p[1] \in Named(nodes, q, items[i]) /\ p[2] = items[i].user
  <2> DEFINE now == {i \in 1 .. Len(items) : i < run.next}
  <2>1. MemberItemsKept(nodes, members, run)
    BY <1>1, Running DEF RunKept, At
  <2>2. /\ \A i \in now : MemberMet(nodes, members, run, items[i])
        /\ \A e \in run.keptExts : \E i \in now : items[i].ext = e
        /\ \A p \in run.keptPairs : \E i \in now :
              p[1] \in Named(nodes, q, items[i]) /\ p[2] = items[i].user
    BY <1>1, <2>1, Zenon DEF MemberItemsKept
  <2>3. now = 1 .. Len(items)
    BY <1>3
  <2> HIDE DEF now
  <2> QED BY <2>2, <2>3
<1>5. /\ Live(t) \subseteq Live(nodes)
      /\ \A m \in NodeId : t[m].source = nodes[m].source /\ t[m].ext = nodes[m].ext
      /\ \A m \in Live(nodes) : nodes[m].ext \in run.kept => m \in Live(t)
      /\ q.nodes = <<>> => t = nodes
  BY <1>1, NodesCleanedKept DEF NodesCleaned
<1>6. Active(w) = Active(members) \ Dropped
      /\ \A r \in Active(w) : w[r] = members[r]
  BY MembersCleanedKept DEF Active
<1> HIDE DEF t, w
<1>7. ASSUME NEW i \in 1 .. Len(items)
      PROVE  Named(t, q, items[i]) = Named(nodes, q, items[i])
  <2>1. Named(t, q, items[i]) \subseteq Named(nodes, q, items[i])
    BY <1>5 DEF Named, Keyed, Live
  <2>2. ASSUME NEW n \in Named(nodes, q, items[i]) PROVE n \in Named(t, q, items[i])
    <3>1. n \in Live(nodes) /\ n \in NodeId /\ nodes[n].ext = items[i].node
          /\ nodes[n].source = q.source
      BY DEF Named, Keyed, Live
    <3>2. CASE q.nodes = <<>>
      BY <1>5, <3>2
    <3>3. CASE q.nodes # <<>>
      <4>1. PICK j \in 1 .. Len(q.nodes) : q.nodes[j].ext = items[i].node
        BY <3>3 DEF MembersDistinct
      <4>2. q.nodes[j].ext \in run.kept
        BY <1>1, NodesMet DEF NodeMet
      <4>3. n \in Live(t)
        BY <1>5, <3>1, <4>1, <4>2
      <4> QED BY <1>5, <3>1, <4>3 DEF Named, Keyed
    <3> QED BY <3>2, <3>3
  <2> QED BY <2>1, <2>2
<1>8. ASSUME NEW r \in Active(w), w[r].source = q.source
      PROVE  \E i \in 1 .. Len(items) : \E n \in Named(t, q, items[i]) :
                w[r].node = n /\ w[r].user = items[i].user /\ w[r].ext = items[i].ext
  <2>1. /\ r \in Active(members) /\ r \notin Dropped /\ w[r] = members[r]
        /\ r \in MemberId /\ r \in Used(members)
    BY <1>6, ActiveIsUsed DEF Active
  <2>2. \/ members[r].ext # NoExt /\ members[r].ext \in run.keptExts
        \/ <<members[r].node, members[r].user>> \in run.keptPairs
    BY <1>8, <2>1 DEF Dropped
  <2>3. CASE members[r].ext # NoExt /\ members[r].ext \in run.keptExts
    <3>1. PICK i \in 1 .. Len(items) : items[i].ext = members[r].ext
      BY <1>4, <2>3
    <3>2. PICK n \in Named(nodes, q, items[i]) :
             \E p \in Active(members) :
                /\ members[p].node = n /\ members[p].user = items[i].user
                /\ members[p].source = q.source /\ members[p].ext = items[i].ext
      <4>1. MemberMet(nodes, members, run, items[i])
        BY <1>4
      <4> QED BY <4>1, Zenon DEF MemberMet
    <3>3. PICK p \in Active(members) :
             /\ members[p].node = n /\ members[p].user = items[i].user
             /\ members[p].source = q.source /\ members[p].ext = items[i].ext
      BY <3>2
    <3>4. p = r
      BY <1>8, <2>1, <2>3, <3>1, <3>3 DEF SyncInv, MembersKept
    <3> QED BY <1>7, <2>1, <3>1, <3>3, <3>4
  <2>4. CASE <<members[r].node, members[r].user>> \in run.keptPairs
    <3>1. PICK i \in 1 .. Len(items) :
             members[r].node \in Named(nodes, q, items[i]) /\ members[r].user = items[i].user
      BY <1>4, <2>4
    <3>2. PICK p \in Active(members) :
             /\ members[p].node = members[r].node /\ members[p].user = items[i].user
             /\ members[p].source = q.source /\ members[p].ext = items[i].ext
      BY <1>4, <3>1 DEF MemberMet
    <3>3. p \in Used(members)
      BY ActiveIsUsed
    <3>4. p = r
      BY <2>1, <3>1, <3>2, <3>3 DEF SyncInv, MembersKept, OneRowPerPair
    <3> QED BY <1>7, <2>1, <3>1, <3>2, <3>4
  <2> QED BY <2>2, <2>3, <2>4
<1>9. ASSUME NEW i \in 1 .. Len(items), NEW n \in Named(t, q, items[i])
      PROVE  \E r \in Active(w) : /\ w[r].source = q.source /\ w[r].node = n
                                  /\ w[r].user = items[i].user
                                  /\ w[r].ext = items[i].ext
  <2>1. n \in Named(nodes, q, items[i]) /\ items[i].ext \in run.keptExts
    BY <1>4, <1>7 DEF MemberMet
  <2>2. PICK r \in Active(members) :
           /\ members[r].node = n /\ members[r].user = items[i].user
           /\ members[r].source = q.source /\ members[r].ext = items[i].ext
    BY <1>4, <2>1 DEF MemberMet
  <2>3. items[i].ext # NoExt
    BY DEF MembersDistinct
  <2>4. r \in Active(w) /\ w[r] = members[r]
    BY <1>6, <2>1, <2>2, <2>3 DEF Dropped
  <2> QED BY <2>2, <2>4
<1>10. MembersMirrored(t, w, q)
  <2> DEFINE L == {<<w[r].node, w[r].user, w[r].ext>> :
                     r \in {r \in Active(w) : w[r].source = q.source}}
             R == UNION {{<<n, items[i].user, items[i].ext>> :
                            n \in Named(t, q, items[i])} : i \in 1 .. Len(items)}
  <2>1. L \subseteq R
    <3> SUFFICES ASSUME NEW r \in Active(w), w[r].source = q.source
                 PROVE  <<w[r].node, w[r].user, w[r].ext>> \in R
      OBVIOUS
    <3>1. PICK i \in 1 .. Len(items) : \E n \in Named(t, q, items[i]) :
             w[r].node = n /\ w[r].user = items[i].user /\ w[r].ext = items[i].ext
      BY <1>8
    <3>2. PICK n \in Named(t, q, items[i]) :
             w[r].node = n /\ w[r].user = items[i].user /\ w[r].ext = items[i].ext
      BY <3>1
    <3> QED BY <3>2
  <2>2. R \subseteq L
    <3> SUFFICES ASSUME NEW x \in R PROVE x \in L
      OBVIOUS
    <3>1. PICK i \in 1 .. Len(items) :
             x \in {<<n, items[i].user, items[i].ext>> : n \in Named(t, q, items[i])}
      BY Zenon
    <3>2. PICK n \in Named(t, q, items[i]) : x = <<n, items[i].user, items[i].ext>>
      BY <3>1
    <3>3. PICK r \in Active(w) : /\ w[r].source = q.source /\ w[r].node = n
                                 /\ w[r].user = items[i].user
                                 /\ w[r].ext = items[i].ext
      BY <1>9
    <3> QED BY <3>2, <3>3
  <2>3. L = R
    BY <2>1, <2>2
  <2> QED BY <2>3 DEF MembersMirrored
<1> QED BY <1>10 DEF t, w

LEMMA CleanupKept ==
    ASSUME SyncInv, Cleanup
    PROVE  /\ SyncInv'
           /\ nodes' \in {nodes, NodesCleaned} /\ members' \in {members, MembersCleaned}
<1>1. /\ At("items") /\ run.todo = <<>> /\ run.next > Len(run.req.members)
      /\ run.pc \in {"items", "finish"}
  BY DEF Cleanup, At
<1>2. PICK ok \in IF run.req.full THEN SUBSET {"nodes", "members"} ELSE {{}} :
         /\ nodes' = IF "nodes" \in ok THEN NodesCleaned ELSE nodes
         /\ members' = IF "members" \in ok THEN MembersCleaned ELSE members
         /\ run' = [run EXCEPT !.pc = "finish", !.cleaned = (ok = {"nodes", "members"})]
  BY DEF Cleanup
<1>3. NodesKept(nodes') /\ SameSources(nodes, nodes')
  BY <1>1, <1>2, NodesCleanedKept, NodesStay DEF SyncInv
<1>4. MembersKept(nodes, members')
  BY <1>2, MembersCleanedKept DEF SyncInv
<1>5. MembersKept(nodes', members')
  BY <1>3, <1>4, StillGrounded
<1>6. run \in RunState
  BY <1>1, Running
<1>7. run' \in RunState
  BY <1>2, <1>6, Counted
<1>8. /\ run'.pc = "finish" /\ run'.req = run.req /\ run'.errors = run.errors
      /\ run'.skipped = run.skipped /\ run'.quiet = run.quiet
      /\ run'.cleaned = (ok = {"nodes", "members"})
  BY <1>2, <1>6 DEF RunState
<1>9. ASSUME run'.quiet, run'.cleaned, ~run'.errors, ~run'.skipped
      PROVE  Mirrored(nodes', members', run'.req)
  <2>1. nodes' = NodesCleaned /\ members' = MembersCleaned
    BY <1>2, <1>8, <1>9
  <2>2. run.quiet /\ ~run.errors /\ ~run.skipped
    BY <1>8, <1>9
  <2>3. run.req.nodes # <<>> /\ UpsertsOnly(run.req.nodes) =>
           NodesMirrored(NodesCleaned, run.req)
    BY <1>1, <2>2, NodesAreMirrored
  <2>4. /\ run.req.members # <<>>
        /\ UpsertsOnly(run.req.nodes) /\ UpsertsOnly(run.req.members)
        /\ MembersDistinct(run.req)
        => MembersMirrored(NodesCleaned, MembersCleaned, run.req)
    BY <1>1, <2>2, MembersAreMirrored
  <2>5. Mirrored(NodesCleaned, MembersCleaned, run.req)
    BY <2>3, <2>4 DEF Mirrored
  <2> QED BY <1>8, <2>1, <2>5
<1>10. RunKept(nodes', members', run')
  BY <1>7, <1>8, <1>9 DEF RunKept
<1> QED BY <1>2, <1>3, <1>5, <1>10 DEF SyncInv

(* It reaches the source's own nodes, and the memberships in them, only. *)
LEMMA CleanupTouches ==
    ASSUME SyncInv, Cleanup
    PROVE  /\ \A m \in NodeId : /\ nodes'[m].source = nodes[m].source
                                /\ nodes'[m] # nodes[m] => nodes'[m].source = run.req.source
           /\ \A r \in MemberId : members'[r] # members[r] => MemberTouched(r)
<1>1. run.pc \in {"items", "finish"}
  BY DEF Cleanup, At
<1>2. nodes' \in {nodes, NodesCleaned} /\ members' \in {members, MembersCleaned}
  BY CleanupKept
<1>3. \A m \in NodeId : /\ nodes'[m].source = nodes[m].source
                        /\ nodes'[m] # nodes[m] => nodes'[m].source = run.req.source
  BY <1>1, <1>2, NodesCleanedKept
<1>4. \A r \in MemberId : members'[r] # members[r] =>
         r \in Dropped /\ members'[r].node = members[r].node
  BY <1>2, MembersCleanedKept
<1>5. ASSUME NEW r \in Dropped
      PROVE  /\ members[r].node \in NodeId /\ nodes[members[r].node].source = run.req.source
             /\ r \in Active(members) /\ members[r].source = run.req.source
  <2>1. /\ r \in Active(members) /\ r \in Used(members)
        /\ members[r].source = run.req.source
    BY ActiveIsUsed DEF Dropped
  <2>2. Grounded(nodes, members[r])
    BY <2>1, MemberOf DEF SyncInv
  <2>3. members[r].source \in Source
    BY <1>1, <2>1, RequestRuns
  <2> QED BY <2>1, <2>2, <2>3, DirectoryAssumption DEF Grounded, Rows
<1> QED BY <1>3, <1>4, <1>5 DEF MemberTouched

-----------------------------------------------------------------------------
(* The administrators' handlers, and the steps that leave the tables alone *)

LEMMA EditKept ==
    ASSUME SyncInv, Edited, NodesKept(nodes'), MembersKept(nodes', members')
    PROVE  SyncInv'
<1>1. CASE run = Idle
  <2>1. run' = Idle
    BY <1>1 DEF Edited, At, Idle
  <2> QED BY <2>1 DEF SyncInv
<1>2. CASE RunKept(nodes, members, run)
  <2>1. ~At("idle")
    BY <1>2 DEF At, RunKept, RunState
  <2>2. run' = [run EXCEPT !.quiet = FALSE]
    BY <2>1 DEF Edited
  <2>3. RunKept(nodes', members', run')
    BY <1>2, <2>2, EditedRun
  <2> QED BY <2>3 DEF SyncInv
<1> QED BY <1>1, <1>2 DEF SyncInv

LEMMA AdminCreateNodeKept ==
    ASSUME SyncInv, NEW n \in NodeId, NEW p \in Live(nodes) \cup {NoParent},
           AdminCreateNode(n, p)
    PROVE  SyncInv'
<1> DEFINE path == IF p = NoParent THEN <<>> ELSE nodes[p].path
           depth == IF p = NoParent THEN -1 ELSE nodes[p].depth
<1>1. /\ n \in NodeId \ Rows(nodes) /\ Edited /\ UNCHANGED members
      /\ nodes' = Inserted(nodes, n, p, path, depth, Local, NoExt)
  BY DEF AdminCreateNode
<1>2. /\ Local \in Source \cup {Local} /\ NoExt \in ExtId \cup {NoExt}
      /\ Local \in Source => Keyed(nodes, Local, NoExt) = {}
      /\ NodesKept(nodes)
  BY DirectoryAssumption DEF SyncInv
<1>3. path = IF p = NoParent THEN <<>> ELSE nodes[p].path
  OBVIOUS
<1>4. depth = IF p = NoParent THEN -1 ELSE nodes[p].depth
  OBVIOUS
<1> HIDE DEF path, depth
<1>5. /\ NodesKept(Inserted(nodes, n, p, path, depth, Local, NoExt))
      /\ SameSources(nodes, Inserted(nodes, n, p, path, depth, Local, NoExt))
  BY <1>1, <1>2, <1>3, <1>4, InsertedKept
<1>6. NodesKept(nodes') /\ SameSources(nodes, nodes')
  BY <1>1, <1>5
<1>7. MembersKept(nodes', members')
  BY <1>1, <1>6, StillGrounded DEF SyncInv
<1> QED BY <1>1, <1>6, <1>7, EditKept

LEMMA AdminDeleteNodeKept ==
    ASSUME SyncInv, NEW n \in Live(nodes),
           NEW strategy \in {"cascade_delete", "move_to_parent"},
           AdminDeleteNode(n, strategy)
    PROVE  SyncInv'
<1>1. Edited /\ UNCHANGED members /\ nodes' = DeletedNode(n, strategy)
  BY DEF AdminDeleteNode
<1>2. NodesKept(DeletedNode(n, strategy)) /\ SameSources(nodes, DeletedNode(n, strategy))
  BY DeletedNodeKept DEF SyncInv
<1>3. NodesKept(nodes') /\ SameSources(nodes, nodes')
  BY <1>1, <1>2
<1>4. MembersKept(nodes', members')
  BY <1>1, <1>3, StillGrounded DEF SyncInv
<1> QED BY <1>1, <1>3, <1>4, EditKept

LEMMA AdminAddMemberKept ==
    ASSUME SyncInv, NEW n \in Live(nodes), NEW u \in UserId, AdminAddMember(n, u)
    PROVE  SyncInv'
<1>1. ActiveAt(members, n, u) = {} /\ Edited /\ UNCHANGED nodes
  BY DEF AdminAddMember
<1>2. PICK role \in Role :
         members' \in Added(members, [node |-> n, user |-> u, role |-> role,
                                      source |-> Local, ext |-> NoExt])
  BY DEF AdminAddMember
<1> DEFINE m == [node |-> n, user |-> u, role |-> role,
                 source |-> Local, ext |-> NoExt]
<1>3. n \in NodeId /\ n \in Rows(nodes)
  BY LiveRow DEF Live
<1>4. /\ m \in Membership /\ m.node = n /\ m.user = u /\ m.source = Local
      /\ m.ext = NoExt
  BY <1>3 DEF Membership
<1>5. members' \in Added(members, m)
  BY <1>2
<1> HIDE DEF m
<1>6. Grounded(nodes, m)
  BY <1>3, <1>4 DEF Grounded
<1>7. MembersKept(nodes, members')
  BY <1>1, <1>4, <1>5, <1>6, AddedKept DEF SyncInv
<1> QED BY <1>1, <1>7, EditKept DEF SyncInv

LEMMA AdminRemoveMemberKept ==
    ASSUME SyncInv, NEW n \in Live(nodes), NEW u \in UserId, AdminRemoveMember(n, u)
    PROVE  SyncInv'
<1> DEFINE D == ActiveAt(members, n, u)
<1>1. /\ Edited /\ UNCHANGED nodes
      /\ members' = [r \in MemberId |-> IF r \in D
                       THEN [members[r] EXCEPT !.status = "deleted"] ELSE members[r]]
  BY DEF AdminRemoveMember, MemberRemoved
<1>2. D \in SUBSET Active(members)
  BY DEF ActiveAt
<1> HIDE DEF D
<1>3. MembersKept(nodes, members')
  BY <1>1, <1>2, MembersDeletedKept DEF SyncInv
<1> QED BY <1>1, <1>3, EditKept DEF SyncInv

LEMMA StepKept == SyncInv /\ [Next]_vars => SyncInv'
<1> SUFFICES ASSUME SyncInv, [Next]_vars PROVE SyncInv'
  OBVIOUS
<1>1. CASE Start
  BY <1>1, StartKept
<1>2. CASE SyncStep
  <2>1. CASE NodeWithoutParent
    BY <2>1, NodeWithoutParentKept
  <2>2. CASE UpsertNode
    BY <2>2, UpsertNodeKept
  <2>3. CASE DeleteNode
    BY <2>3, DeleteNodeKept
  <2>4. CASE NodeFails
    BY <2>4, NodeFailsKept
  <2>5. CASE MemberWithoutNode
    BY <2>5, MemberWithoutNodeKept
  <2>6. CASE MemberSkipped
    BY <2>6, MemberSkippedKept
  <2>7. CASE UpsertMember
    BY <2>7, UpsertMemberKept
  <2>8. CASE UpsertMemberFails
    BY <2>8, UpsertMemberFailsKept
  <2>9. CASE DeleteMember
    BY <2>9, DeleteMemberKept
  <2>10. CASE Cleanup
    BY <2>10, CleanupKept
  <2> QED BY <1>2, <2>1, <2>2, <2>3, <2>4, <2>5, <2>6, <2>7, <2>8, <2>9, <2>10 DEF SyncStep
<1>3. CASE Finish \/ Crash
  <2>1. run' = Idle /\ UNCHANGED <<nodes, members>>
    BY <1>3 DEF Finish, Crash
  <2> QED BY <2>1 DEF SyncInv
<1>4. CASE Admin
  <2>1. ASSUME NEW n \in NodeId, NEW p \in Live(nodes) \cup {NoParent},
               AdminCreateNode(n, p)
        PROVE  SyncInv'
    BY <2>1, AdminCreateNodeKept
  <2>2. ASSUME NEW n \in Live(nodes),
               NEW strategy \in {"cascade_delete", "move_to_parent"},
               AdminDeleteNode(n, strategy)
        PROVE  SyncInv'
    BY <2>2, AdminDeleteNodeKept
  <2>3. ASSUME NEW n \in Live(nodes), NEW u \in UserId,
               AdminAddMember(n, u) \/ AdminRemoveMember(n, u)
        PROVE  SyncInv'
    BY <2>3, AdminAddMemberKept, AdminRemoveMemberKept
  <2> QED BY <1>4, <2>1, <2>2, <2>3 DEF Admin
<1>5. CASE UNCHANGED vars
  BY <1>5 DEF vars, SyncInv
<1> QED BY <1>1, <1>2, <1>3, <1>4, <1>5 DEF Next

-----------------------------------------------------------------------------
(* The theorems *)

(* Whatever syncs, crashes, failures and edits have made of the tables, every
   row hangs below a row, every membership is in a row of its own source, a
   key names one live row, and a run has met the items it has processed. *)
THEOREM SyncInvariant == Spec => []SyncInv
<1>1. Init => SyncInv
  BY InitKept
<1>2. SyncInv /\ [Next]_vars => SyncInv'
  BY StepKept
<1> QED BY <1>1, <1>2, PTL DEF Spec

(* The tables hold rows, one membership per pair, and a run what it has got
   from its request. *)
THEOREM SyncTypeCorrect == Spec => []TypeOK
<1>1. SyncInv => TypeOK
  BY DEF SyncInv, NodesKept, Shaped, MembersKept, RunKept, TypeOK
<1> QED BY <1>1, SyncInvariant, PTL

(* A full sync that reports success, with its clean-up done and no edit in
   between, leaves the source as the request lists it. *)
THEOREM FullSyncsMirror == Spec => []FullSyncMirrors
<1>1. ASSUME SyncInv, At("finish"), run.quiet, run.cleaned, Verdict = "success"
      PROVE  Mirrored(nodes, members, run.req)
  <2>1. RunKept(nodes, members, run) /\ run.pc = "finish" /\ run \in RunState
    BY <1>1, Running DEF At
  <2>2. ~run.errors /\ ~run.skipped
    BY <1>1, <2>1 DEF Verdict, RunState
  <2> QED BY <1>1, <2>1, <2>2 DEF RunKept
<1>2. SyncInv => FullSyncMirrors
  BY <1>1 DEF FullSyncMirrors
<1> QED BY <1>2, SyncInvariant, PTL

(* A step of a sync changes nodes of its source or below one that it deletes by
   name; memberships in nodes of its source, and of these what was made by hand
   or removed only where the item at hand names the node and the user. *)
THEOREM SyncsTouchWhatTheyName == Spec => SyncTouchesNamed
<1> DEFINE Touches ==
      /\ \A n \in NodeId : nodes'[n] # nodes[n] =>
            n \in Owned(run.req.source) \/ NamedForDeletion(n)
      /\ \A r \in MemberId : members'[r] # members[r] =>
            /\ members'[r].node \in Owned(run.req.source)
            /\ \/ r \in Active(members) /\ members[r].source = run.req.source
               \/ AtMember /\ \A row \in {members[r], members'[r]} \ {Absent} :
                     row.node \in LiveKeyed(MItem.node) /\ row.user = MItem.user
<1>1. ASSUME SyncInv, SyncStep PROVE Touches
  <2>1. CASE NodeWithoutParent \/ NodeFails \/ MemberWithoutNode \/ MemberSkipped
             \/ UpsertMemberFails
    BY <2>1 DEF NodeWithoutParent, NodeFails, MemberWithoutNode, MemberSkipped,
                UpsertMemberFails
  <2>2. CASE UpsertNode
    <3>1. UNCHANGED members
      BY <2>2 DEF UpsertNode
    <3>2. \A m \in NodeId : nodes'[m] # nodes[m] => nodes'[m].source = run.req.source
      BY <1>1, <2>2, UpsertNodeKept
    <3> QED BY <3>1, <3>2 DEF Owned
  <2>3. CASE DeleteNode
    <3>1. UNCHANGED members
      BY <2>3 DEF DeleteNode
    <3>2. \A m \in NodeId : nodes'[m] # nodes[m] => NamedForDeletion(m)
      BY <1>1, <2>3, DeleteNodeKept
    <3> QED BY <3>1, <3>2
  <2>4. CASE UpsertMember \/ DeleteMember
    <3>1. /\ UNCHANGED nodes
          /\ \A r \in MemberId : members'[r] # members[r] => MemberTouched(r)
      BY <1>1, <2>4, UpsertMemberKept, DeleteMemberKept
    <3> QED BY <3>1 DEF Owned, MemberTouched
  <2>5. CASE Cleanup
    <3>1. /\ \A m \in NodeId : /\ nodes'[m].source = nodes[m].source
                               /\ nodes'[m] # nodes[m] => nodes'[m].source = run.req.source
          /\ \A r \in MemberId : members'[r] # members[r] => MemberTouched(r)
      BY <1>1, <2>5, CleanupTouches
    <3> QED BY <3>1 DEF Owned, MemberTouched
  <2> QED BY <1>1, <2>1, <2>2, <2>3, <2>4, <2>5 DEF SyncStep
<1>2. SyncInv /\ [Next]_vars => [SyncStep => Touches]_vars
  BY <1>1
<1> QED BY <1>2, SyncInvariant, PTL DEF SyncTouchesNamed, Spec

(* An item whose chain of parents lies in the request fails for its parent
   only after a deletion, an edit or an error. *)
THEOREM ParentsFirst == Spec => ParentsComeFirst
<1>1. ASSUME SyncInv, NodeWithoutParent, run.quiet, ~run.errors,
             UpsertsOnly(run.req.nodes)
      PROVE  Item.ext \notin Rooted(run.req.nodes)
  <2>1. /\ run.pc = "items" /\ run.todo # <<>> /\ Item.parent # NoExt
        /\ LiveKeyed(Item.parent) = {}
    BY <1>1 DEF NodeWithoutParent, AtNode, At
  <2>2. run.todo \in Seq(NodeItem) /\ ParentsAhead(nodes, run)
    BY <1>1, <2>1, Running, RequestRuns DEF RunKept
  <2>3. Item = run.todo[1] /\ 1 \in 1 .. Len(run.todo)
    <3>1. Len(run.todo) \in Nat /\ Len(run.todo) > 0
      BY <2>1, <2>2, LenProperties, EmptySeq
    <3> QED BY <2>2, <3>1, HeadTailProperties DEF Item
  <2>4. NodesFine(run)
    BY <1>1 DEF NodesFine
  <2>5. 1 .. 1 - 1 = {}
    OBVIOUS
  <2> QED BY <1>1, <2>1, <2>2, <2>3, <2>4, <2>5 DEF ParentsAhead, LiveKeyed
<1>2. SyncInv /\ [Next]_vars =>
         [NodeWithoutParent /\ run.quiet /\ ~run.errors /\ UpsertsOnly(run.req.nodes)
            => Item.ext \notin Rooted(run.req.nodes)]_vars
  BY <1>1
<1> QED BY <1>2, SyncInvariant, PTL DEF ParentsComeFirst, Spec

(* A node listed without a parent survives the clean-up, even if its own
   upsert has failed. *)
THEOREM ListedRootsStay == Spec => ListedRootsSurvive
<1>1. ASSUME SyncInv, Cleanup, NEW n \in ListedAsRoot
      PROVE  n \in Live(nodes')
  <2>1. /\ At("items") /\ run.todo = <<>> /\ run.pc \in {"items", "finish"}
        /\ nodes' \in {nodes, NodesCleaned}
    BY <1>1, CleanupKept DEF Cleanup, At
  <2>2. n \in Listed
    BY DEF ListedAsRoot
  <2>3. PICK i \in 1 .. Len(run.req.nodes) :
           run.req.nodes[i].action = "upsert" /\ run.req.nodes[i].ext = nodes[n].ext
    BY <2>2 DEF Listed
  <2>4. PICK j \in 1 .. Len(run.req.nodes) :
           run.req.nodes[j].ext = nodes[n].ext /\ run.req.nodes[j].parent = NoExt
    BY DEF ListedAsRoot
  <2>5. i = j
    BY <1>1, <2>1, <2>3, <2>4, RequestRuns
  <2>6. NodeMet(nodes, run, run.req.nodes[i])
    BY <1>1, <2>1, NodesMet
  <2>7. nodes[n].ext \in run.kept
    BY <2>3, <2>4, <2>5, <2>6 DEF NodeMet
  <2>8. n \in Live(nodes)
    BY <2>2 DEF Listed
  <2>9. n \in Live(NodesCleaned)
    BY <1>1, <2>1, <2>7, <2>8, NodesCleanedKept
  <2> QED BY <2>1, <2>8, <2>9
<1>2. SyncInv /\ [Next]_vars => [Cleanup => ListedAsRoot \subseteq Live(nodes')]_vars
  BY <1>1
<1> QED BY <1>2, SyncInvariant, PTL DEF ListedRootsSurvive, Spec
=============================================================================
