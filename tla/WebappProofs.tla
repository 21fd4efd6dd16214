---------------------------- MODULE WebappProofs ----------------------------
(***************************************************************************)
(* The browser's copies, for any number of nodes and requests and any      *)
(* order of commits, broadcasts, answers and events: a node loads once at a*)
(* time, and what the store holds for fresh equals what the master stores, *)
(* but for what no event has been broadcast about yet and for the copies   *)
(* that came after the event about them.                                   *)
(***************************************************************************)
EXTENDS WebappStore, FiniteSetTheorems, TLAPS

(* What the reducers leave in the store *)

LEMMA AgedOK == \A c \in Cached : /\ Aged(c) \in Cached
                                  /\ c = "none" <=> Aged(c) = "none"
  BY DEF Aged, Cached

LEMMA OvertakenOK == \A c \in Cached : Overtaken(c) \in Cached \ {"old"}
  BY DEF Overtaken, Cached

LEMMA AgedTreeStore ==
  ASSUME NEW s \in Store
  PROVE  LET z == StoreAgedTree(s) IN
           /\ z \in Store
           /\ z.members = s.members /\ z.loadedNodes = s.loadedNodes
           /\ z.loadingNodes = s.loadingNodes
           /\ z.treeNeedsRefresh = s.treeNeedsRefresh
           /\ \A n \in Node : z.children[n] = Aged(s.children[n])
<1> DEFINE f == [n \in Node |-> Aged(s.children[n])]
<1>1. s.tree \in Cached /\ s.children \in [Node -> Cached]
  BY DEF Store
<1>2. Aged(s.tree) \in Cached /\ f \in [Node -> Cached]
  BY <1>1, AgedOK
<1>3. StoreAgedTree(s) = [s EXCEPT !.tree = Aged(s.tree), !.children = f]
  BY DEF StoreAgedTree
<1>4. \A n \in Node : f[n] = Aged(s.children[n])
  OBVIOUS
<1> HIDE DEF f
<1>5. \A c \in Cached, g \in [Node -> Cached] :
         [s EXCEPT !.tree = c, !.children = g] \in Store
  BY Zenon DEF Store
<1>6. StoreAgedTree(s) \in Store
  BY <1>2, <1>3, <1>5
<1>7. /\ StoreAgedTree(s).members = s.members
      /\ StoreAgedTree(s).loadedNodes = s.loadedNodes
      /\ StoreAgedTree(s).loadingNodes = s.loadingNodes
      /\ StoreAgedTree(s).treeNeedsRefresh = s.treeNeedsRefresh
      /\ StoreAgedTree(s).children = f
  BY <1>3 DEF Store
<1> QED BY <1>4, <1>6, <1>7

LEMMA AgedMembersStore ==
  ASSUME NEW s \in Store, NEW n \in Node
  PROVE  LET z == StoreAgedMembers(s, n) IN
           /\ z \in Store
           /\ z.tree = s.tree /\ z.children = s.children
           /\ z.loadedNodes = s.loadedNodes /\ z.loadingNodes = s.loadingNodes
           /\ z.treeNeedsRefresh = s.treeNeedsRefresh
           /\ \A m \in Node : m # n => z.members[m] = s.members[m]
           /\ z.members[n] = Aged(s.members[n])
<1> DEFINE f == [s.members EXCEPT ![n] = Aged(s.members[n])]
<1>1. s.members \in [Node -> Cached]
  BY DEF Store
<1>2. f \in [Node -> Cached]
  BY <1>1, AgedOK
<1>3. StoreAgedMembers(s, n) = [s EXCEPT !.members = f]
  BY DEF StoreAgedMembers
<1>4. f[n] = Aged(s.members[n]) /\ \A m \in Node : m # n => f[m] = s.members[m]
  BY <1>1
<1> HIDE DEF f
<1>5. \A g \in [Node -> Cached] : [s EXCEPT !.members = g] \in Store
  BY Zenon DEF Store
<1>6. StoreAgedMembers(s, n) \in Store
  BY <1>2, <1>3, <1>5
<1>7. /\ StoreAgedMembers(s, n).tree = s.tree
      /\ StoreAgedMembers(s, n).children = s.children
      /\ StoreAgedMembers(s, n).loadedNodes = s.loadedNodes
      /\ StoreAgedMembers(s, n).loadingNodes = s.loadingNodes
      /\ StoreAgedMembers(s, n).treeNeedsRefresh = s.treeNeedsRefresh
      /\ StoreAgedMembers(s, n).members = f
  BY <1>3 DEF Store
<1> QED BY <1>4, <1>6, <1>7

LEMMA FetchedStore ==
  ASSUME NEW s \in Store, NEW c \in Cached
  PROVE  LET z == FetchTreeSuccess(s, c) IN
           /\ z \in Store
           /\ z.tree = c /\ z.loadedNodes = {} /\ z.loadingNodes = s.loadingNodes
<1> DEFINE f == [n \in Node |-> "none"]
<1>1. f \in [Node -> Cached]
  BY DEF Cached
<1>2. FetchTreeSuccess(s, c) =
        [s EXCEPT !.isLoading = FALSE, !.tree = c, !.children = f,
                  !.loadedNodes = {}, !.treeNeedsRefresh = FALSE]
  BY DEF FetchTreeSuccess
<1> HIDE DEF f
<1>3. \A b \in BOOLEAN, g \in [Node -> Cached], L \in SUBSET Node, d \in BOOLEAN :
        [s EXCEPT !.isLoading = b, !.tree = c, !.children = g,
                  !.loadedNodes = L, !.treeNeedsRefresh = d] \in Store
  BY Zenon DEF Store
<1>4. FALSE \in BOOLEAN /\ {} \in SUBSET Node
  OBVIOUS
<1>5. FetchTreeSuccess(s, c) \in Store
  BY <1>1, <1>2, <1>3, <1>4
<1>6. /\ FetchTreeSuccess(s, c).tree = c
      /\ FetchTreeSuccess(s, c).loadedNodes = {}
      /\ FetchTreeSuccess(s, c).loadingNodes = s.loadingNodes
  BY <1>2 DEF Store
<1> QED BY <1>5, <1>6

(* z is s with the answer c and d about the children of n attached. *)
Attached(s, n, c, d, z) ==
    /\ z \in Store
    /\ z.tree = s.tree /\ z.treeNeedsRefresh = s.treeNeedsRefresh
    /\ z.loadedNodes = s.loadedNodes \cup {n}
    /\ z.loadingNodes = s.loadingNodes \ {n}
    /\ z.children[n] = c /\ z.members[n] = d
    /\ \A m \in Node : m # n => /\ z.children[m] = s.children[m]
                                /\ z.members[m] = s.members[m]

LEMMA ChildrenStore ==
  ASSUME NEW s \in Store, NEW n \in Node, NEW c \in Cached, NEW d \in Cached
  PROVE  Attached(s, n, c, d,
                  ToggleExpand(LoadChildrenSuccess(s, n, c, d), n, TRUE))
<1> DEFINE f == [s.children EXCEPT ![n] = c]
           g == [s.members EXCEPT ![n] = d]
           A == s.loadingNodes \ {n}
           B == s.loadedNodes \cup {n}
           C == s.expandedNodes \cup {n}
           y == LoadChildrenSuccess(s, n, c, d)
           z == ToggleExpand(y, n, TRUE)
<1>1. /\ s.children \in [Node -> Cached] /\ s.members \in [Node -> Cached]
      /\ s.loadingNodes \in SUBSET Node /\ s.loadedNodes \in SUBSET Node
      /\ s.expandedNodes \in SUBSET Node
  BY DEF Store
<1>2. /\ f \in [Node -> Cached] /\ g \in [Node -> Cached]
      /\ A \in SUBSET Node /\ B \in SUBSET Node /\ C \in SUBSET Node
  BY <1>1
<1>3. /\ f[n] = c /\ g[n] = d
      /\ \A m \in Node : m # n => f[m] = s.children[m] /\ g[m] = s.members[m]
  BY <1>1
<1>4. y = [s EXCEPT !.loadingNodes = A, !.loadedNodes = B,
                    !.members = g, !.children = f]
  BY DEF LoadChildrenSuccess
<1> HIDE DEF f, g, A, B, y
<1>5. \A a \in SUBSET Node, b \in SUBSET Node, h \in [Node -> Cached],
          k \in [Node -> Cached] :
        [s EXCEPT !.loadingNodes = a, !.loadedNodes = b,
                  !.members = h, !.children = k] \in Store
  BY Zenon DEF Store
<1>6. y \in Store
  BY <1>2, <1>4, <1>5
<1>7. /\ y.tree = s.tree /\ y.treeNeedsRefresh = s.treeNeedsRefresh
      /\ y.loadedNodes = B /\ y.loadingNodes = A
      /\ y.children = f /\ y.members = g /\ y.expandedNodes = s.expandedNodes
  BY <1>4 DEF Store
<1>8. z = [y EXCEPT !.expandedNodes = C]
  BY <1>7 DEF ToggleExpand
<1> HIDE DEF z, C
<1>9. \A x \in Store, e \in SUBSET Node : [x EXCEPT !.expandedNodes = e] \in Store
  BY Zenon DEF Store
<1>10. z \in Store
  BY <1>2, <1>6, <1>8, <1>9
<1>11. /\ z.tree = y.tree /\ z.treeNeedsRefresh = y.treeNeedsRefresh
       /\ z.loadedNodes = y.loadedNodes /\ z.loadingNodes = y.loadingNodes
       /\ z.children = y.children /\ z.members = y.members
  BY <1>6, <1>8 DEF Store
<1>12. Attached(s, n, c, d, z)
  BY <1>3, <1>7, <1>10, <1>11 DEF A, B, Attached
<1> QED BY <1>12 DEF z, y

SameCopies(s, z) ==
    /\ z.tree = s.tree /\ z.children = s.children /\ z.members = s.members
    /\ z.loadedNodes = s.loadedNodes

LEMMA UpdatedStore ==
  ASSUME NEW s \in Store, NEW b \in BOOLEAN, NEW S \in SUBSET Node
  PROVE  /\ [s EXCEPT !.isLoading = b] \in Store
         /\ [s EXCEPT !.treeNeedsRefresh = b] \in Store
         /\ [s EXCEPT !.loadingNodes = S] \in Store
         /\ [s EXCEPT !.expandedNodes = S] \in Store
  BY Zenon DEF Store

LEMMA SpinnerStore ==
  ASSUME NEW s \in Store
  PROVE  /\ FetchTreeRequest(s) \in Store /\ FetchTreeFailure(s) \in Store
         /\ SameCopies(s, FetchTreeRequest(s)) /\ SameCopies(s, FetchTreeFailure(s))
         /\ FetchTreeRequest(s).loadingNodes = s.loadingNodes
         /\ FetchTreeFailure(s).loadingNodes = s.loadingNodes
         /\ FetchTreeRequest(s).treeNeedsRefresh = s.treeNeedsRefresh
         /\ FetchTreeFailure(s).treeNeedsRefresh = s.treeNeedsRefresh
<1>1. FetchTreeRequest(s) \in Store /\ FetchTreeFailure(s) \in Store
  BY UpdatedStore DEF FetchTreeRequest, FetchTreeFailure
<1> QED BY <1>1 DEF FetchTreeRequest, FetchTreeFailure, SameCopies, Store

LEMMA ToggledStore ==
  ASSUME NEW s \in Store, NEW n \in Node, NEW b \in BOOLEAN
  PROVE  LET z == ToggleExpand(s, n, b) IN
           /\ z \in Store /\ SameCopies(s, z) /\ z.loadingNodes = s.loadingNodes
           /\ z.treeNeedsRefresh = s.treeNeedsRefresh
<1> DEFINE C == IF b THEN s.expandedNodes \cup {n} ELSE s.expandedNodes \ {n}
           z == ToggleExpand(s, n, b)
<1>1. C \in SUBSET Node
  BY DEF Store
<1>2. z = [s EXCEPT !.expandedNodes = C]
  BY DEF ToggleExpand
<1> HIDE DEF C, z
<1>3. z \in Store
  BY <1>1, <1>2, UpdatedStore
<1>4. /\ SameCopies(s, z) /\ z.loadingNodes = s.loadingNodes
      /\ z.treeNeedsRefresh = s.treeNeedsRefresh
  BY <1>2 DEF SameCopies, Store
<1> QED BY <1>3, <1>4 DEF z

LEMMA LoadingStore ==
  ASSUME NEW s \in Store, NEW n \in Node
  PROVE  /\ LoadChildrenRequest(s, n) \in Store
         /\ LoadChildrenFailure(s, n) \in Store
         /\ SameCopies(s, LoadChildrenRequest(s, n))
         /\ SameCopies(s, LoadChildrenFailure(s, n))
         /\ LoadChildrenRequest(s, n).loadingNodes = s.loadingNodes \cup {n}
         /\ LoadChildrenFailure(s, n).loadingNodes = s.loadingNodes \ {n}
         /\ LoadChildrenRequest(s, n).treeNeedsRefresh = s.treeNeedsRefresh
         /\ LoadChildrenFailure(s, n).treeNeedsRefresh = s.treeNeedsRefresh
<1>1. s.loadingNodes \cup {n} \in SUBSET Node /\ s.loadingNodes \ {n} \in SUBSET Node
  BY DEF Store
<1>2. LoadChildrenRequest(s, n) \in Store /\ LoadChildrenFailure(s, n) \in Store
  BY <1>1, UpdatedStore DEF LoadChildrenRequest, LoadChildrenFailure
<1> QED BY <1>2 DEF LoadChildrenRequest, LoadChildrenFailure, SameCopies, Store

LEMMA StaleStore ==
  ASSUME NEW s \in Store
  PROVE  LET z == ReduceTreeUpdate(s) IN
           /\ z \in Store /\ SameCopies(s, z) /\ z.loadingNodes = s.loadingNodes
           /\ z.treeNeedsRefresh
<1>1. ReduceTreeUpdate(s) \in Store
  BY UpdatedStore DEF ReduceTreeUpdate
<1> QED BY <1>1 DEF ReduceTreeUpdate, SameCopies, Store

LEMMA MemberUpdateStore ==
  ASSUME NEW s \in Store, NEW n \in Node
  PROVE  LET z == ReduceMemberUpdate(s, n) IN
           /\ z \in Store
           /\ z.tree = s.tree /\ z.children = s.children
           /\ z.treeNeedsRefresh = s.treeNeedsRefresh
           /\ z.loadedNodes = s.loadedNodes \ {n}
           /\ z.loadingNodes = s.loadingNodes
           /\ \A m \in Node : m # n => z.members[m] = s.members[m]
<1> DEFINE z == ReduceMemberUpdate(s, n)
           g == [s.members EXCEPT ![n] = "none"]
           L == s.loadedNodes \ {n}
<1>1. s.members \in [Node -> Cached] /\ s.loadedNodes \in SUBSET Node
  BY DEF Store
<1>2. g \in [Node -> Cached] /\ L \in SUBSET Node
  BY <1>1 DEF Cached
<1>3. \A m \in Node : m # n => g[m] = s.members[m]
  BY <1>1
<1>4. z = [s EXCEPT !.members = g, !.loadedNodes = L]
  BY DEF ReduceMemberUpdate
<1> HIDE DEF g, z, L
<1>5. \A h \in [Node -> Cached], S \in SUBSET Node :
        [s EXCEPT !.members = h, !.loadedNodes = S] \in Store
  BY Zenon DEF Store
<1>6. z \in Store
  BY <1>2, <1>4, <1>5
<1>7. /\ z.tree = s.tree /\ z.children = s.children /\ z.members = g
      /\ z.treeNeedsRefresh = s.treeNeedsRefresh
      /\ z.loadedNodes = L /\ z.loadingNodes = s.loadingNodes
  BY <1>4 DEF Store
<1> QED BY <1>3, <1>6, <1>7 DEF z, L

LEMMA ReloadedStore ==
  ASSUME NEW s \in Store, NEW n \in Node, NEW d \in Cached
  PROVE  LET z == ReloadMembersSuccess(s, n, d) IN
           /\ z \in Store
           /\ z.tree = s.tree /\ z.children = s.children
           /\ z.treeNeedsRefresh = s.treeNeedsRefresh
           /\ z.loadedNodes = s.loadedNodes /\ z.loadingNodes = s.loadingNodes
           /\ z.members[n] = d
           /\ \A m \in Node : m # n => z.members[m] = s.members[m]
<1> DEFINE z == ReloadMembersSuccess(s, n, d)
           g == [s.members EXCEPT ![n] = d]
<1>1. s.members \in [Node -> Cached]
  BY DEF Store
<1>2. g \in [Node -> Cached]
  BY <1>1
<1>3. g[n] = d /\ \A m \in Node : m # n => g[m] = s.members[m]
  BY <1>1
<1>4. z = [s EXCEPT !.members = g]
  BY DEF ReloadMembersSuccess
<1> HIDE DEF g, z
<1>5. \A h \in [Node -> Cached] : [s EXCEPT !.members = h] \in Store
  BY Zenon DEF Store
<1>6. z \in Store
  BY <1>2, <1>4, <1>5
<1>7. /\ z.tree = s.tree /\ z.children = s.children /\ z.members = g
      /\ z.treeNeedsRefresh = s.treeNeedsRefresh
      /\ z.loadedNodes = s.loadedNodes /\ z.loadingNodes = s.loadingNodes
  BY <1>4 DEF Store
<1> QED BY <1>3, <1>6, <1>7 DEF z

-----------------------------------------------------------------------------
(* Requests *)

LEMMA Kinds ==
  ASSUME NEW q \in Requests
  PROVE  /\ q.kind = "none" => q = Free
         /\ q.kind = "tree" => q \in TreeRequests
         /\ q.kind = "children" => q \in ChildrenRequests
         /\ q.kind = "members" => q \in MembersRequests
         /\ q.kind = "editTree" => q \in [kind : {"editTree"}, done : BOOLEAN]
         /\ q.kind = "editMembers" =>
              q \in [kind : {"editMembers"}, node : Node, done : BOOLEAN]
         /\ q.kind \in {"none", "tree", "children", "members", "editTree",
                        "editMembers"}
<1>1. CASE q = Free
  BY <1>1 DEF Free
<1>2. CASE q \in TreeRequests
  BY <1>2 DEF TreeRequests
<1>3. CASE q \in ChildrenRequests
  BY <1>3 DEF ChildrenRequests
<1>4. CASE q \in MembersRequests
  BY <1>4 DEF MembersRequests
<1>5. CASE q \in [kind : {"editTree"}, done : BOOLEAN]
  BY <1>5
<1>6. CASE q \in [kind : {"editMembers"}, node : Node, done : BOOLEAN]
  BY <1>6
<1> QED BY <1>1, <1>2, <1>3, <1>4, <1>5, <1>6 DEF Requests, Edits

LEMMA FieldTypes ==
  ASSUME NEW q \in Requests
  PROVE  /\ q.kind \in {"tree", "children"} => q.tree \in Cached
         /\ q.kind \in {"children", "members"} => q.members \in Cached
         /\ q.kind \in {"children", "members", "editMembers"} => q.node \in Node
<1>1. q.kind = "tree" => q.tree \in Cached
  BY Kinds DEF TreeRequests
<1>2. q.kind = "children" => /\ q.tree \in Cached /\ q.members \in Cached
                             /\ q.node \in Node
  BY Kinds DEF ChildrenRequests
<1>3. q.kind = "members" => q.members \in Cached /\ q.node \in Node
  BY Kinds DEF MembersRequests
<1>4. q.kind = "editMembers" => q.node \in Node
  BY Kinds
<1> QED BY <1>1, <1>2, <1>3, <1>4

(* z asks for what q asks for. *)
SameQuestion(q, z) ==
    /\ z \in Requests /\ z.kind = q.kind
    /\ q.kind \in {"children", "members", "editMembers"} => z.node = q.node

SameTree(q, z) == q.kind \in {"tree", "children"} => z.tree = q.tree
SameMembers(q, z) == q.kind \in {"children", "members"} => z.members = q.members

LEMMA TreeAnswered ==
  ASSUME NEW q \in Requests, q.kind \in {"tree", "children"}, NEW c \in Cached
  PROVE  LET z == [q EXCEPT !.tree = c] IN
           /\ SameQuestion(q, z) /\ SameMembers(q, z)
           /\ z.tree = c
<1> DEFINE z == [q EXCEPT !.tree = c]
<1>1. CASE q.kind = "tree"
  <2>1. q \in TreeRequests
    BY <1>1, Kinds
  <2>2. z \in TreeRequests
    BY <2>1, Zenon DEF TreeRequests
  <2>3. z.kind = "tree" /\ z.tree = c
    BY <2>1 DEF TreeRequests
  <2> HIDE DEF z
  <2>4. z \in Requests
    BY <2>2 DEF Requests
  <2> QED BY <1>1, <2>3, <2>4 DEF SameQuestion, SameMembers, z
<1>2. CASE q.kind = "children"
  <2>1. q \in ChildrenRequests
    BY <1>2, Kinds
  <2>2. z \in ChildrenRequests
    BY <2>1, Zenon DEF ChildrenRequests
  <2>3. /\ z.kind = "children" /\ z.tree = c
        /\ z.node = q.node /\ z.members = q.members
    BY <2>1 DEF ChildrenRequests
  <2> HIDE DEF z
  <2>4. z \in Requests
    BY <2>2 DEF Requests
  <2> QED BY <1>2, <2>3, <2>4 DEF SameQuestion, SameMembers, z
<1> QED BY <1>1, <1>2

LEMMA MembersAnswered ==
  ASSUME NEW q \in Requests, q.kind \in {"children", "members"}, NEW c \in Cached
  PROVE  LET z == [q EXCEPT !.members = c] IN
           /\ SameQuestion(q, z) /\ SameTree(q, z)
           /\ z.members = c
<1> DEFINE z == [q EXCEPT !.members = c]
<1>1. CASE q.kind = "members"
  <2>1. q \in MembersRequests
    BY <1>1, Kinds
  <2>2. z \in MembersRequests
    BY <2>1, Zenon DEF MembersRequests
  <2>3. z.kind = "members" /\ z.members = c /\ z.node = q.node
    BY <2>1 DEF MembersRequests
  <2> HIDE DEF z
  <2>4. z \in Requests
    BY <2>2 DEF Requests
  <2> QED BY <1>1, <2>3, <2>4 DEF SameQuestion, SameTree, z
<1>2. CASE q.kind = "children"
  <2>1. q \in ChildrenRequests
    BY <1>2, Kinds
  <2>2. z \in ChildrenRequests
    BY <2>1, Zenon DEF ChildrenRequests
  <2>3. /\ z.kind = "children" /\ z.tree = q.tree
        /\ z.node = q.node /\ z.members = c
    BY <2>1 DEF ChildrenRequests
  <2> HIDE DEF z
  <2>4. z \in Requests
    BY <2>2 DEF Requests
  <2> QED BY <1>2, <2>3, <2>4 DEF SameQuestion, SameTree, z
<1> QED BY <1>1, <1>2

LEMMA DoneEdit ==
  ASSUME NEW q \in Requests, q.kind \in {"editTree", "editMembers"}
  PROVE  SameQuestion(q, [q EXCEPT !.done = TRUE])
<1> DEFINE z == [q EXCEPT !.done = TRUE]
<1>1. CASE q.kind = "editTree"
  <2>1. q \in [kind : {"editTree"}, done : BOOLEAN]
    BY <1>1, Kinds
  <2>2. z \in [kind : {"editTree"}, done : BOOLEAN]
    BY <2>1, Zenon
  <2>3. z.kind = "editTree"
    BY <2>1
  <2> HIDE DEF z
  <2> QED BY <1>1, <2>2, <2>3 DEF SameQuestion, Requests, Edits, z
<1>2. CASE q.kind = "editMembers"
  <2>1. q \in [kind : {"editMembers"}, node : Node, done : BOOLEAN]
    BY <1>2, Kinds
  <2>2. z \in [kind : {"editMembers"}, node : Node, done : BOOLEAN]
    BY <2>1, Zenon
  <2>3. z.kind = "editMembers" /\ z.node = q.node
    BY <2>1
  <2> HIDE DEF z
  <2> QED BY <1>2, <2>2, <2>3 DEF SameQuestion, Requests, Edits, z
<1> QED BY <1>1, <1>2

LEMMA NewRequests ==
  /\ Free \in Requests /\ Free.kind = "none"
  /\ TreeRequest \in Requests /\ TreeRequest.kind = "tree"
  /\ TreeRequest.tree = "none"
  /\ EditTreeRequest \in Requests /\ EditTreeRequest.kind = "editTree"
  /\ \A n \in Node :
       /\ ChildrenRequest(n) \in Requests /\ ChildrenRequest(n).kind = "children"
       /\ ChildrenRequest(n).node = n /\ ChildrenRequest(n).tree = "none"
       /\ ChildrenRequest(n).members = "none"
       /\ MembersRequest(n) \in Requests /\ MembersRequest(n).kind = "members"
       /\ MembersRequest(n).members = "none"
       /\ EditMembersRequest(n) \in Requests
       /\ EditMembersRequest(n).kind = "editMembers"
<1>1. TreeRequest \in TreeRequests
  BY DEF TreeRequest, TreeRequests, Cached
<1>2. EditTreeRequest \in [kind : {"editTree"}, done : BOOLEAN]
  BY DEF EditTreeRequest
<1>3. ASSUME NEW n \in Node
      PROVE  /\ ChildrenRequest(n) \in ChildrenRequests
             /\ MembersRequest(n) \in MembersRequests
             /\ EditMembersRequest(n) \in
                  [kind : {"editMembers"}, node : Node, done : BOOLEAN]
  BY <1>3 DEF ChildrenRequest, ChildrenRequests, MembersRequest,
              MembersRequests, EditMembersRequest, Cached
<1>4. /\ Free \in Requests /\ TreeRequest \in Requests
      /\ EditTreeRequest \in Requests
      /\ \A n \in Node : /\ ChildrenRequest(n) \in Requests
                         /\ MembersRequest(n) \in Requests
                         /\ EditMembersRequest(n) \in Requests
  BY <1>1, <1>2, <1>3 DEF Requests, Edits
<1> QED BY <1>4 DEF Free, TreeRequest, EditTreeRequest, ChildrenRequest,
                    MembersRequest, EditMembersRequest

LEMMA AgedTreeRequest ==
  ASSUME NEW q \in Requests
  PROVE  SameQuestion(q, AgedTree(q)) /\ SameMembers(q, AgedTree(q))
<1>1. CASE q.kind \in {"tree", "children"}
  <2> DEFINE c == Aged(q.tree)
  <2>1. c \in Cached
    BY <1>1, FieldTypes, AgedOK
  <2>2. AgedTree(q) = [q EXCEPT !.tree = c]
    BY <1>1 DEF AgedTree
  <2> HIDE DEF c
  <2> QED BY <1>1, <2>1, <2>2, TreeAnswered
<1>2. CASE q.kind \notin {"tree", "children"}
  BY <1>2 DEF AgedTree, SameQuestion, SameMembers
<1> QED BY <1>1, <1>2

LEMMA AgedMembersRequest ==
  ASSUME NEW q \in Requests, NEW n \in Node
  PROVE  /\ SameQuestion(q, AgedMembers(q, n)) /\ SameTree(q, AgedMembers(q, n))
         /\ q.kind \in {"children", "members"} /\ q.node # n =>
              SameMembers(q, AgedMembers(q, n))
<1>1. CASE q.kind \in {"children", "members"} /\ q.node = n
  <2> DEFINE c == Aged(q.members)
  <2>1. c \in Cached
    BY <1>1, FieldTypes, AgedOK
  <2>2. AgedMembers(q, n) = [q EXCEPT !.members = c]
    BY <1>1 DEF AgedMembers
  <2> HIDE DEF c
  <2> QED BY <1>1, <2>1, <2>2, MembersAnswered
<1>2. CASE ~(q.kind \in {"children", "members"} /\ q.node = n)
  BY <1>2 DEF AgedMembers, SameQuestion, SameTree, SameMembers
<1> QED BY <1>1, <1>2

(* What an event overtakes is not old any more. *)
NoOldTree(z) == z.kind \in {"tree", "children"} => z.tree # "old"
NoOldMembers(z) == z.kind \in {"children", "members"} => z.members # "old"

LEMMA OvertakenTreeRequest ==
  ASSUME NEW q \in Requests
  PROVE  SameQuestion(q, OvertakenTree(q)) /\ NoOldTree(OvertakenTree(q))
<1>1. CASE q.kind \in {"tree", "children"}
  <2> DEFINE c == Overtaken(q.tree)
             z == [q EXCEPT !.tree = c]
  <2>1. c \in Cached /\ c # "old"
    BY <1>1, FieldTypes, OvertakenOK
  <2>2. OvertakenTree(q) = z
    BY <1>1 DEF OvertakenTree
  <2> HIDE DEF c
  <2>3. SameQuestion(q, z) /\ z.tree = c
    BY <1>1, <2>1, TreeAnswered
  <2> QED BY <2>1, <2>2, <2>3 DEF NoOldTree
<1>2. CASE q.kind \notin {"tree", "children"}
  BY <1>2 DEF OvertakenTree, SameQuestion, NoOldTree
<1> QED BY <1>1, <1>2

LEMMA OvertakenMembersRequest ==
  ASSUME NEW q \in Requests, NEW n \in Node
  PROVE  LET z == OvertakenMembers(q, n) IN
           /\ SameQuestion(q, z) /\ SameTree(q, z)
           /\ q.kind \in {"children", "members"} /\ q.node = n => NoOldMembers(z)
           /\ q.kind \in {"children", "members"} /\ q.node # n => z = q
<1> DEFINE z == OvertakenMembers(q, n)
<1>1. CASE q.kind \in {"children", "members"} /\ q.node = n
  <2> DEFINE c == Overtaken(q.members)
             y == [q EXCEPT !.members = c]
  <2>1. c \in Cached /\ c # "old"
    BY <1>1, FieldTypes, OvertakenOK
  <2>2. z = y
    BY <1>1 DEF OvertakenMembers
  <2> HIDE DEF c
  <2>3. SameQuestion(q, y) /\ SameTree(q, y) /\ y.members = c
    BY <1>1, <2>1, MembersAnswered
  <2> QED BY <1>1, <2>1, <2>2, <2>3 DEF NoOldMembers
<1>2. CASE ~(q.kind \in {"children", "members"} /\ q.node = n)
  BY <1>2 DEF OvertakenMembers, SameQuestion, SameTree
<1> QED BY <1>1, <1>2

LEMMA OvertakenAllRequest ==
  ASSUME NEW q \in Requests
  PROVE  LET z == OvertakenAll(q) IN
           SameQuestion(q, z) /\ NoOldTree(z) /\ NoOldMembers(z)
<1> DEFINE t == OvertakenTree(q)
           z == OvertakenAll(q)
<1>1. SameQuestion(q, t) /\ NoOldTree(t) /\ t \in Requests /\ t.kind = q.kind
  BY OvertakenTreeRequest DEF SameQuestion
<1> HIDE DEF t
<1>2. CASE q.kind \in {"children", "members"}
  <2>1. z = OvertakenMembers(t, q.node) /\ q.node \in Node /\ t.node = q.node
    BY <1>1, <1>2, FieldTypes DEF OvertakenAll, SameQuestion, t
  <2>2. SameQuestion(t, z) /\ SameTree(t, z) /\ NoOldMembers(z)
    BY <1>1, <1>2, <2>1, OvertakenMembersRequest
  <2> HIDE DEF z
  <2>3. SameQuestion(q, z) /\ NoOldTree(z)
    BY <1>1, <2>2 DEF SameQuestion, SameTree, NoOldTree
  <2> QED BY <2>2, <2>3 DEF z
<1>3. CASE q.kind \notin {"children", "members"}
  <2>1. z = t
    BY <1>3 DEF OvertakenAll, t
  <2> QED BY <1>1, <1>3, <2>1 DEF NoOldMembers
<1> QED BY <1>2, <1>3

(* k unused slots exist if k of them are unused. *)
LEMMA SlotsUnused ==
  ASSUME NEW k \in {1, 2}, k <= Cardinality(Unused)
  PROVE  Slots(k) \in SUBSET Unused
<1>1. IsFiniteSet(Unused)
  BY WebappAssumption, FS_Subset DEF Unused
<1>2. Cardinality(Unused) \in Nat
  BY <1>1, FS_CardinalityType
<1>3. Unused # {}
  BY <1>1, <1>2, FS_EmptySet
<1>4. PICK x \in Unused : TRUE
  BY <1>3
<1>5. \E rs \in SUBSET Unused : Cardinality(rs) = k
  <2>1. CASE k = 1
    <3>1. {x} \in SUBSET Unused /\ Cardinality({x}) = 1
      BY <1>4, FS_Singleton
    <3> QED BY <2>1, <3>1
  <2>2. CASE k = 2
    <3>1. /\ IsFiniteSet(Unused \ {x})
          /\ Cardinality(Unused \ {x}) = Cardinality(Unused) - 1
      BY <1>1, <1>4, FS_RemoveElement
    <3>2. Unused \ {x} # {}
      BY <1>2, <2>2, <3>1, FS_EmptySet
    <3>3. PICK y \in Unused : y # x
      BY <3>2
    <3>4. IsFiniteSet({x}) /\ Cardinality({x}) = 1
      BY FS_Singleton
    <3>5. Cardinality({x} \cup {y}) = 2
      BY <3>3, <3>4, FS_AddElement
    <3>6. {x} \cup {y} \in SUBSET Unused
      BY <1>4, <3>3
    <3> QED BY <2>2, <3>5, <3>6
  <2> QED BY <2>1, <2>2
<1> QED BY <1>5 DEF Slots

LEMMA UnusedRequest == \A r \in Unused : r \in Request /\ requests[r] = Free
  BY DEF Unused

-----------------------------------------------------------------------------
(* What a step does to the announcements, *)

KeepsTold ==
    /\ TreeTold => TreeTold'
    /\ \A n \in Node : MembersTold(n) => MembersTold(n)'

LEMMA BroadcastTold ==
  ASSUME TypeOK, NEW e \in Event, Broadcast(e)
  PROVE  /\ events' \in Seq(Event) /\ OnItsWay(e)'
         /\ \A x : OnItsWay(x) => OnItsWay(x)'
<1>1. events \in Seq(Event) /\ online \in BOOLEAN /\ UNCHANGED online
  BY DEF TypeOK, Broadcast
<1>2. CASE online
  <2>1. events' = Append(events, e)
    BY <1>2 DEF Broadcast
  <2>2. /\ events' \in Seq(Event) /\ Len(events') = Len(events) + 1
        /\ Len(events) \in Nat
        /\ events'[Len(events) + 1] = e
        /\ \A i \in 1..Len(events) : events'[i] = events[i]
    BY <1>1, <2>1
  <2>3. OnItsWay(e)'
    BY <2>2 DEF OnItsWay
  <2>4. ASSUME NEW x, OnItsWay(x) PROVE OnItsWay(x)'
    BY <1>1, <2>2, <2>4 DEF OnItsWay
  <2> QED BY <2>2, <2>3, <2>4
<1>3. CASE ~online
  <2>1. events' = events
    BY <1>3 DEF Broadcast
  <2> QED BY <1>1, <1>3, <2>1 DEF OnItsWay
<1> QED BY <1>2, <1>3

LEMMA SameTold ==
  ASSUME UNCHANGED <<unsaid, events, online>>
  PROVE  KeepsTold
  BY DEF KeepsTold, TreeTold, MembersTold, OnItsWay

(* What an event that is delivered leaves announced *)
LEMMA DeliveredTold ==
  ASSUME TypeOK, events # <<>>, events' = Tail(events), UNCHANGED online
  PROVE  /\ events' \in Seq(Event) /\ Head(events) \in Event
         /\ \A x : OnItsWay(x) /\ x # Head(events) => OnItsWay(x)'
<1>1. events \in Seq(Event)
  BY DEF TypeOK
<1>2. /\ events' \in Seq(Event) /\ Len(events) \in Nat
      /\ Len(events) >= 1 /\ Len(events') = Len(events) - 1
      /\ Head(events) = events[1] /\ Head(events) \in Event
      /\ \A i \in 1..Len(events') : events'[i] = events[i + 1]
  BY <1>1
<1>3. ASSUME NEW x, OnItsWay(x), x # Head(events) PROVE OnItsWay(x)'
  <2>1. CASE ~online
    BY <2>1 DEF OnItsWay
  <2>2. CASE online
    <3>1. PICK i \in 1..Len(events) : events[i] = x
      BY <1>3, <2>2 DEF OnItsWay
    <3>2. i # 1
      BY <1>2, <1>3, <3>1
    <3>3. i - 1 \in 1..Len(events') /\ (i - 1) + 1 = i
      BY <1>2, <3>2
    <3>4. events'[i - 1] = x
      BY <1>2, <3>1, <3>3
    <3> QED BY <3>3, <3>4 DEF OnItsWay
  <2> QED BY <2>1, <2>2
<1> QED BY <1>2, <1>3

-----------------------------------------------------------------------------
(* and to the two halves of the invariant. *)

(* z holds no copy that is old and that q does not hold. *)
Carries(q, z) ==
    /\ z.kind \in {"tree", "children"} /\ z.tree = "old" =>
         q.kind \in {"tree", "children"} /\ q.tree = "old"
    /\ z.kind \in {"children", "members"} /\ z.members = "old" =>
         /\ q.kind \in {"children", "members"} /\ q.members = "old"
         /\ q.node = z.node

LEMMA NothingOlder ==
  ASSUME StoreInv, KeepsTold, SameCopies(store, store'),
         store'.treeNeedsRefresh = store.treeNeedsRefresh,
         \A r \in Request : Carries(requests[r], requests'[r])
  PROVE  OldIsTold'
<1>1. ASSUME NEW r \in Request PROVE RequestFresh(requests[r])'
  <2>1. /\ RequestFresh(requests[r]) /\ Carries(requests[r], requests'[r])
        /\ requests[r] \in Requests
    BY DEF StoreInv, OldIsTold, TypeOK
  <2>2. requests[r].kind \in {"children", "members"} => requests[r].node \in Node
    BY <2>1, FieldTypes
  <2> QED BY <2>1, <2>2 DEF RequestFresh, Carries, KeepsTold
<1>2. (store.tree = "old" => TreeTold \/ store.treeNeedsRefresh)'
  BY DEF StoreInv, OldIsTold, SameCopies, KeepsTold
<1>3. ASSUME NEW n \in store'.loadedNodes PROVE NodeFresh(n)'
  <2>1. n \in store.loadedNodes /\ n \in Node
    BY DEF SameCopies, StoreInv, TypeOK, Store
  <2>2. NodeFresh(n)
    BY <2>1 DEF StoreInv, OldIsTold
  <2> QED BY <2>1, <2>2 DEF NodeFresh, SameCopies, KeepsTold
<1> QED BY <1>1, <1>2, <1>3 DEF OldIsTold

LEMMA SameLoads ==
  ASSUME TypeOK, LoadsPaired, store'.loadingNodes = store.loadingNodes,
         \A r \in Request, n \in Node : Loads(r, n)' <=> Loads(r, n)
  PROVE  LoadsPaired'
<1>1. \A n \in store.loadingNodes : n \in Node
  BY DEF TypeOK, Store
<1> QED BY <1>1 DEF LoadsPaired, Loads

LEMMA QuestionsLoad ==
  ASSUME \A r \in Request : SameQuestion(requests[r], requests'[r])
  PROVE  \A r \in Request, n \in Node : Loads(r, n)' <=> Loads(r, n)
  BY DEF SameQuestion, Loads

(* Steps that bring no copy and neither start nor end a load *)

Harmless(q, z) ==
    /\ z \in Requests /\ Carries(q, z)
    /\ q.kind = "children" <=> z.kind = "children"
    /\ z.kind = "children" => z.node = q.node

LEMMA HarmlessSelf == \A q \in Requests : Harmless(q, q)
  BY DEF Harmless, Carries

LEMMA HarmlessSlots ==
  ASSUME TypeOK, NEW rs \in SUBSET Request, NEW z,
         \A r \in rs : Harmless(requests[r], z),
         requests' = [r \in Request |-> IF r \in rs THEN z ELSE requests[r]]
  PROVE  /\ requests' \in [Request -> Requests]
         /\ \A r \in Request : Harmless(requests[r], requests'[r])
<1>1. \A r \in Request : requests[r] \in Requests
  BY DEF TypeOK
<1>2. ASSUME NEW r \in Request PROVE Harmless(requests[r], requests'[r])
  BY <1>1, <1>2, HarmlessSelf
<1>3. \A r \in Request : requests'[r] \in Requests
  BY <1>2 DEF Harmless
<1> QED BY <1>2, <1>3

LEMMA HarmlessSlot ==
  ASSUME TypeOK, NEW s \in Request, NEW z, Harmless(requests[s], z),
         requests' = [requests EXCEPT ![s] = z]
  PROVE  /\ requests' \in [Request -> Requests]
         /\ \A r \in Request : Harmless(requests[r], requests'[r])
<1>1. requests' = [r \in Request |-> IF r \in {s} THEN z ELSE requests[r]]
  BY DEF TypeOK
<1> QED BY <1>1, HarmlessSlots

LEMMA HarmlessStep ==
  ASSUME StoreInv, KeepsTold,
         unsaid' \in SUBSET Event, events' \in Seq(Event), online' \in BOOLEAN,
         mounted' \in BOOLEAN, seen' \in BOOLEAN,
         store' \in Store, SameCopies(store, store'),
         store'.loadingNodes = store.loadingNodes,
         store'.treeNeedsRefresh = store.treeNeedsRefresh,
         requests' \in [Request -> Requests],
         \A r \in Request : Harmless(requests[r], requests'[r])
  PROVE  StoreInv'
<1>1. TypeOK'
  BY DEF StoreInv, TypeOK, SameCopies
<1>2. LoadsPaired'
  <2>1. ASSUME NEW r \in Request, NEW n \in Node PROVE Loads(r, n)' <=> Loads(r, n)
    BY DEF Harmless, Loads
  <2> QED BY <2>1, SameLoads DEF StoreInv
<1>3. OldIsTold'
  BY NothingOlder DEF Harmless
<1> QED BY <1>1, <1>2, <1>3 DEF StoreInv

LEMMA SendTreeHarmless ==
  ASSUME StoreInv, NEW rs \in SUBSET Request, SendTree(rs),
         \A r \in rs : requests[r].kind # "children"
  PROVE  /\ requests' \in [Request -> Requests]
         /\ \A r \in Request : Harmless(requests[r], requests'[r])
         /\ store' \in Store /\ SameCopies(store, store')
         /\ store'.loadingNodes = store.loadingNodes
         /\ store'.treeNeedsRefresh = store.treeNeedsRefresh
<1>1. TypeOK /\ store \in Store
  BY DEF StoreInv, TypeOK
<1>2. \A r \in rs : Harmless(requests[r], TreeRequest)
  BY NewRequests DEF Harmless, Carries
<1>3. /\ requests' \in [Request -> Requests]
      /\ \A r \in Request : Harmless(requests[r], requests'[r])
  BY <1>1, <1>2, HarmlessSlots DEF SendTree
<1>4. store' = store \/ store' = FetchTreeRequest(store)
  BY DEF SendTree
<1> QED BY <1>1, <1>3, <1>4, SpinnerStore DEF SameCopies

LEMMA MountInv == ASSUME StoreInv, Mount PROVE StoreInv'
<1> DEFINE k == IF store.treeNeedsRefresh THEN 2 ELSE 1
<1>1. k \in {1, 2} /\ k <= Cardinality(Unused) /\ SendTree(Slots(k))
  BY DEF Mount
<1> HIDE DEF k
<1>2. Slots(k) \in SUBSET Unused
  BY <1>1, SlotsUnused
<1>3. Slots(k) \in SUBSET Request /\ \A r \in Slots(k) : requests[r].kind # "children"
  BY <1>2, UnusedRequest, NewRequests
<1>4. store.treeNeedsRefresh \in BOOLEAN /\ TypeOK
  BY DEF StoreInv, TypeOK, Store
<1>5. /\ UNCHANGED <<unsaid, events, online>>
      /\ mounted' \in BOOLEAN /\ seen' \in BOOLEAN
  BY <1>4 DEF Mount
<1>6. unsaid' \in SUBSET Event /\ events' \in Seq(Event) /\ online' \in BOOLEAN
  BY <1>4, <1>5 DEF TypeOK
<1> QED BY <1>1, <1>3, <1>5, <1>6, SameTold, SendTreeHarmless, HarmlessStep

LEMMA RefreshInv == ASSUME StoreInv, Refresh PROVE StoreInv'
<1>1. TypeOK /\ store.treeNeedsRefresh \in BOOLEAN
  BY DEF StoreInv, TypeOK, Store
<1>2. PICK rs \in SUBSET Unused : SendTree(rs)
  <2>1. CASE store.treeNeedsRefresh
    <3>1. Unused # {} /\ SendTree(Slots(1))
      BY <2>1 DEF Refresh
    <3>2. IsFiniteSet(Unused)
      BY WebappAssumption, FS_Subset DEF Unused
    <3>3. Cardinality(Unused) \in Nat /\ Cardinality(Unused) # 0
      BY <3>1, <3>2, FS_CardinalityType, FS_EmptySet
    <3>4. Slots(1) \in SUBSET Unused
      BY <3>3, SlotsUnused
    <3> QED BY <3>1, <3>4
  <2>2. CASE ~store.treeNeedsRefresh
    BY <2>2 DEF Refresh
  <2> QED BY <2>1, <2>2
<1>3. rs \in SUBSET Request /\ \A r \in rs : requests[r].kind # "children"
  BY <1>2, UnusedRequest, NewRequests
<1>4. /\ UNCHANGED <<unsaid, events, online>>
      /\ mounted' \in BOOLEAN /\ seen' \in BOOLEAN
  BY <1>1 DEF Refresh, TypeOK
<1>5. unsaid' \in SUBSET Event /\ events' \in Seq(Event) /\ online' \in BOOLEAN
  BY <1>1, <1>4 DEF TypeOK
<1> QED BY <1>2, <1>3, <1>4, <1>5, SameTold, SendTreeHarmless, HarmlessStep

(* A step of an idle store that puts z in the slot s *)
LEMMA SlotStep ==
  ASSUME StoreInv, UNCHANGED <<unsaid, events, online, store, mounted, seen>>,
         NEW s \in Request, NEW z, Harmless(requests[s], z),
         requests' = [requests EXCEPT ![s] = z]
  PROVE  StoreInv'
<1>1. TypeOK
  BY DEF StoreInv
<1>2. /\ requests' \in [Request -> Requests]
      /\ \A r \in Request : Harmless(requests[r], requests'[r])
  BY <1>1, HarmlessSlot
<1>3. SameCopies(store, store')
  BY DEF SameCopies
<1> QED BY <1>1, <1>2, <1>3, SameTold, HarmlessStep DEF TypeOK

LEMMA UserSendsSlot ==
  ASSUME NEW q, UserSends(q)
  PROVE  \E r \in Request : requests[r] = Free /\ Send(r, q)
<1>1. IsFiniteSet(Unused)
  BY WebappAssumption, FS_Subset DEF Unused
<1>2. Cardinality(Unused) \in Nat /\ (Unused # {} => Cardinality(Unused) # 0)
  BY <1>1, FS_CardinalityType, FS_EmptySet
<1>3. Cardinality(Unused) > 1 \/ Unused # {}
  BY DEF UserSends
<1>4. Slots(1) \in SUBSET Unused
  BY <1>2, <1>3, SlotsUnused
<1> QED BY <1>4, UnusedRequest DEF UserSends

(* The member manager's question, and the edits *)
LEMMA AskedInv ==
  ASSUME StoreInv, UNCHANGED <<unsaid, events, online, store, mounted, seen>>,
         NEW q, UserSends(q), q = EditTreeRequest \/ \E n \in Node :
                                q = MembersRequest(n) \/ q = EditMembersRequest(n)
  PROVE  StoreInv'
<1>1. PICK r \in Request : requests[r] = Free /\ Send(r, q)
  BY UserSendsSlot
<1>2. Harmless(requests[r], q)
  BY <1>1, NewRequests DEF Harmless, Carries
<1>3. requests' = [requests EXCEPT ![r] = q]
  BY <1>1 DEF Send
<1> QED BY <1>2, <1>3, SlotStep

LEMMA ToggledInv ==
  ASSUME StoreInv, UNCHANGED <<unsaid, events, online, mounted, seen, requests>>,
         NEW n \in Node, NEW b \in BOOLEAN, store' = ToggleExpand(store, n, b)
  PROVE  StoreInv'
<1>1. TypeOK /\ store \in Store
  BY DEF StoreInv, TypeOK
<1>2. /\ store' \in Store /\ SameCopies(store, store')
      /\ store'.loadingNodes = store.loadingNodes
      /\ store'.treeNeedsRefresh = store.treeNeedsRefresh
  BY <1>1, ToggledStore
<1>3. /\ requests' \in [Request -> Requests]
      /\ \A r \in Request : Harmless(requests[r], requests'[r])
  BY <1>1, HarmlessSelf DEF TypeOK
<1> QED BY <1>1, <1>2, <1>3, SameTold, HarmlessStep DEF TypeOK

(* An answer z, of which an event is to come if it is old, fills the slot r. *)
LEMMA AnsweredInv ==
  ASSUME StoreInv, UNCHANGED <<unsaid, events, online, store, mounted, seen>>,
         NEW r \in Request, NEW z, SameQuestion(requests[r], z), RequestFresh(z),
         requests' = [requests EXCEPT ![r] = z]
  PROVE  StoreInv'
<1>1. TypeOK /\ LoadsPaired /\ OldIsTold /\ requests \in [Request -> Requests]
  BY DEF StoreInv, TypeOK
<1>2. /\ requests' \in [Request -> Requests] /\ requests'[r] = z
      /\ \A q \in Request : q # r => requests'[q] = requests[q]
  BY <1>1 DEF SameQuestion
<1>3. ASSUME NEW q \in Request PROVE SameQuestion(requests[q], requests'[q])
  BY <1>1, <1>2 DEF SameQuestion
<1>4. ASSUME NEW q \in Request PROVE RequestFresh(requests[q])'
  <2>1. RequestFresh(requests[q]) /\ (q # r => requests'[q] = requests[q])
    BY <1>1, <1>2 DEF OldIsTold
  <2> QED BY <1>2, <2>1 DEF RequestFresh, TreeTold, MembersTold, OnItsWay
<1>5. OldIsTold'
  BY <1>1, <1>4 DEF OldIsTold, NodeFresh, TreeTold, MembersTold, OnItsWay
<1>6. LoadsPaired'
  BY <1>1, <1>3, QuestionsLoad, SameLoads
<1>7. TypeOK'
  BY <1>1, <1>2 DEF TypeOK
<1> QED BY <1>5, <1>6, <1>7 DEF StoreInv

LEMMA AnswerTreeInv ==
  ASSUME StoreInv, NEW r \in Request, AnswerTree(r),
         UNCHANGED <<events, online, mounted, seen>>
  PROVE  StoreInv'
<1>1. /\ requests \in [Request -> Requests] /\ requests[r] \in Requests
      /\ RequestFresh(requests[r])
  BY DEF StoreInv, TypeOK, OldIsTold
<1>2. PICK c \in {"new", Lagging(TreeTold)} :
         requests' = [requests EXCEPT ![r].tree = c]
  BY DEF AnswerTree
<1> DEFINE z == [requests[r] EXCEPT !.tree = c]
<1>3. /\ requests[r].kind \in {"tree", "children"}
      /\ c \in Cached /\ (c = "old" => TreeTold)
  BY DEF AnswerTree, Cached, Lagging
<1>4. SameQuestion(requests[r], z) /\ SameMembers(requests[r], z) /\ z.tree = c
  BY <1>1, <1>3, TreeAnswered
<1>5. requests' = [requests EXCEPT ![r] = z]
  BY <1>2
<1> HIDE DEF z
<1>6. RequestFresh(z)
  BY <1>1, <1>3, <1>4 DEF RequestFresh, SameQuestion, SameMembers
<1>7. UNCHANGED <<unsaid, store>>
  BY DEF AnswerTree
<1> QED BY <1>4, <1>5, <1>6, <1>7, AnsweredInv

LEMMA AnswerMembersInv ==
  ASSUME StoreInv, NEW r \in Request, AnswerMembers(r),
         UNCHANGED <<events, online, mounted, seen>>
  PROVE  StoreInv'
<1>1. /\ requests \in [Request -> Requests] /\ requests[r] \in Requests
      /\ RequestFresh(requests[r])
  BY DEF StoreInv, TypeOK, OldIsTold
<1>2. PICK c \in {"new", Lagging(MembersTold(requests[r].node))} :
         requests' = [requests EXCEPT ![r].members = c]
  BY DEF AnswerMembers
<1> DEFINE z == [requests[r] EXCEPT !.members = c]
<1>3. /\ requests[r].kind \in {"children", "members"}
      /\ c \in Cached /\ (c = "old" => MembersTold(requests[r].node))
  BY DEF AnswerMembers, Cached, Lagging
<1>4. SameQuestion(requests[r], z) /\ SameTree(requests[r], z) /\ z.members = c
  BY <1>1, <1>3, MembersAnswered
<1>5. requests' = [requests EXCEPT ![r] = z]
  BY <1>2
<1> HIDE DEF z
<1>6. RequestFresh(z)
  BY <1>1, <1>3, <1>4 DEF RequestFresh, SameQuestion, SameTree
<1>7. UNCHANGED <<unsaid, store>>
  BY DEF AnswerMembers
<1> QED BY <1>4, <1>5, <1>6, <1>7, AnsweredInv

LEMMA ArriveEditInv ==
  ASSUME StoreInv, NEW r \in Request, ArriveEdit(r) \/ ArriveEditWithoutBody(r)
  PROVE  StoreInv'
<1>1. TypeOK /\ requests[r] \in Requests
  BY DEF StoreInv, TypeOK
<1>2. /\ requests[r].kind \in {"editTree", "editMembers"}
      /\ UNCHANGED <<unsaid, events, online, mounted, seen>>
  BY DEF ArriveEdit, ArriveEditWithoutBody
<1>3. CASE ArriveEdit(r) /\ requests[r].kind = "editTree"
  <2>1. SendTree({r}) /\ {r} \in SUBSET Request
    BY <1>3 DEF ArriveEdit
  <2>2. \A q \in {r} : requests[q].kind # "children"
    BY <1>2
  <2>3. /\ requests' \in [Request -> Requests]
        /\ \A q \in Request : Harmless(requests[q], requests'[q])
        /\ store' \in Store /\ SameCopies(store, store')
        /\ store'.loadingNodes = store.loadingNodes
        /\ store'.treeNeedsRefresh = store.treeNeedsRefresh
    BY <2>1, <2>2, SendTreeHarmless
  <2> QED BY <1>1, <1>2, <2>3, SameTold, HarmlessStep DEF TypeOK
<1>4. CASE ArriveEdit(r) /\ requests[r].kind # "editTree"
  <2>1. requests[r].kind = "editMembers" /\ requests[r].node \in Node
    BY <1>1, <1>2, <1>4, FieldTypes
  <2> DEFINE z == MembersRequest(requests[r].node)
  <2>2. Harmless(requests[r], z)
    BY <2>1, NewRequests DEF Harmless, Carries
  <2>3. requests' = [requests EXCEPT ![r] = z] /\ UNCHANGED store
    BY <1>4 DEF ArriveEdit, Send
  <2> HIDE DEF z
  <2> QED BY <1>2, <2>2, <2>3, SlotStep
<1>5. CASE ArriveEditWithoutBody(r)
  <2>1. Harmless(requests[r], Free)
    BY <1>2, NewRequests DEF Harmless, Carries
  <2> QED BY <1>5, <2>1, SlotStep DEF ArriveEditWithoutBody
<1> QED BY <1>3, <1>4, <1>5

(* The end of a load, whether it brings children or fails *)
LEMMA LoadEnds ==
  ASSUME TypeOK, LoadsPaired, NEW r \in Request, requests[r].kind = "children",
         requests' = [requests EXCEPT ![r] = Free],
         store'.loadingNodes = store.loadingNodes \ {requests[r].node}
  PROVE  LoadsPaired'
<1> DEFINE m == requests[r].node
<1>1. /\ requests \in [Request -> Requests] /\ m \in Node
      /\ \A n \in store.loadingNodes : n \in Node
  BY FieldTypes DEF TypeOK, Store
<1>2. Loads(r, m)
  BY DEF Loads
<1>3. ASSUME NEW q \in Request, NEW n \in Node
      PROVE  Loads(q, n)' <=> Loads(q, n) /\ q # r
  BY <1>1, NewRequests DEF Loads
<1>4. \A q \in Request : Loads(q, m) => q = r
  BY <1>1, <1>2 DEF LoadsPaired
<1>5. \A n \in Node : n # m => ~Loads(r, n)
  BY DEF Loads
<1> HIDE DEF m
<1>6. store'.loadingNodes = store.loadingNodes \ {m}
  BY DEF m
<1>7. ASSUME NEW q \in Request, NEW n \in Node, Loads(q, n)'
      PROVE  /\ n \in store'.loadingNodes
             /\ \A p \in Request : Loads(p, n)' => p = q
  <2>1. Loads(q, n) /\ q # r
    BY <1>3, <1>7
  <2>2. n # m
    BY <1>4, <2>1
  <2> QED BY <1>3, <1>6, <2>1, <2>2 DEF LoadsPaired
<1>8. ASSUME NEW n \in store'.loadingNodes
      PROVE  \E q \in Request : Loads(q, n)'
  <2>1. n \in store.loadingNodes /\ n # m /\ n \in Node
    BY <1>1, <1>6
  <2>2. PICK q \in Request : Loads(q, n)
    BY <2>1 DEF LoadsPaired
  <2> QED BY <1>3, <1>5, <2>1, <2>2
<1> QED BY <1>7, <1>8 DEF LoadsPaired

LEMMA FreedSlot ==
  ASSUME TypeOK, NEW r \in Request, requests' = [requests EXCEPT ![r] = Free]
  PROVE  /\ requests' \in [Request -> Requests]
         /\ \A q \in Request : Carries(requests[q], requests'[q])
         /\ requests'[r] = Free
         /\ \A q \in Request : q # r => requests'[q] = requests[q]
<1>1. requests \in [Request -> Requests]
  BY DEF TypeOK
<1>2. Carries(requests[r], Free) /\ Free \in Requests
  BY NewRequests DEF Carries
<1>3. \A q \in Request : Carries(requests[q], requests[q])
  BY DEF Carries
<1> QED BY <1>1, <1>2, <1>3

LEMMA FailInv == ASSUME StoreInv, NEW r \in Request, Fail(r) PROVE StoreInv'
<1> DEFINE q == requests[r]
<1>1. TypeOK /\ LoadsPaired /\ q \in Requests /\ store \in Store
  BY DEF StoreInv, TypeOK
<1>2. /\ requests' = [requests EXCEPT ![r] = Free]
      /\ UNCHANGED <<unsaid, events, online, mounted, seen>>
  BY DEF Fail
<1>3. KeepsTold
  BY <1>2, SameTold
<1>4. CASE q.kind = "children"
  <2>1. store' = LoadChildrenFailure(store, q.node) /\ q.node \in Node
    BY <1>1, <1>4, FieldTypes DEF Fail
  <2>2. /\ store' \in Store /\ SameCopies(store, store')
        /\ store'.loadingNodes = store.loadingNodes \ {q.node}
        /\ store'.treeNeedsRefresh = store.treeNeedsRefresh
    BY <1>1, <2>1, LoadingStore
  <2>3. LoadsPaired'
    BY <1>1, <1>2, <1>4, <2>2, LoadEnds
  <2>4. /\ requests' \in [Request -> Requests]
        /\ \A s \in Request : Carries(requests[s], requests'[s])
    BY <1>1, <1>2, FreedSlot
  <2>5. OldIsTold'
    BY <1>2, <1>3, <2>2, <2>4, NothingOlder
  <2>6. TypeOK'
    BY <1>1, <1>2, <2>2, <2>4 DEF TypeOK, SameCopies
  <2> QED BY <2>3, <2>5, <2>6 DEF StoreInv
<1>5. CASE q.kind # "children"
  <2>1. store' = FetchTreeFailure(store) \/ store' = store
    BY <1>5 DEF Fail
  <2>2. /\ store' \in Store /\ SameCopies(store, store')
        /\ store'.loadingNodes = store.loadingNodes
        /\ store'.treeNeedsRefresh = store.treeNeedsRefresh
    BY <1>1, <2>1, SpinnerStore DEF SameCopies
  <2>3. Harmless(q, Free)
    BY <1>5, NewRequests DEF Harmless, Carries
  <2>4. /\ requests' \in [Request -> Requests]
        /\ \A s \in Request : Harmless(requests[s], requests'[s])
    BY <1>1, <1>2, <2>3, HarmlessSlot
  <2> QED BY <1>1, <1>2, <1>3, <2>2, <2>4, HarmlessStep DEF TypeOK
<1> QED BY <1>4, <1>5

LEMMA DisconnectInv == ASSUME StoreInv, Disconnect PROVE StoreInv'
<1>1. TypeOK
  BY DEF StoreInv
<1>2. /\ ~online' /\ events' = <<>> /\ online' = FALSE
      /\ UNCHANGED <<unsaid, store, mounted, seen, requests>>
  BY DEF Disconnect, client
<1>3. KeepsTold /\ events' \in Seq(Event)
  BY <1>2 DEF KeepsTold, TreeTold, MembersTold, OnItsWay
<1>4. \A r \in Request : Harmless(requests[r], requests'[r])
  BY <1>1, <1>2, HarmlessSelf DEF TypeOK
<1> QED BY <1>1, <1>2, <1>3, <1>4, HarmlessStep DEF TypeOK, SameCopies

LEMMA UnmountInv == ASSUME StoreInv, Unmount PROVE StoreInv'
<1>1. TypeOK
  BY DEF StoreInv
<1>2. /\ mounted' = FALSE /\ seen' = FALSE
      /\ UNCHANGED <<unsaid, events, online, store, requests>>
  BY DEF Unmount
<1>3. KeepsTold
  BY <1>2, SameTold
<1>4. \A r \in Request : Harmless(requests[r], requests'[r])
  BY <1>1, <1>2, HarmlessSelf DEF TypeOK
<1> QED BY <1>1, <1>2, <1>3, <1>4, HarmlessStep DEF TypeOK, SameCopies

LEMMA ExpandNewInv ==
  ASSUME StoreInv, NEW n \in Node, ExpandNew(n) PROVE StoreInv'
<1>1. TypeOK /\ LoadsPaired /\ store \in Store /\ requests \in [Request -> Requests]
  BY DEF StoreInv, TypeOK
<1>2. /\ n \notin store.loadingNodes /\ UserSends(ChildrenRequest(n))
      /\ store' = LoadChildrenRequest(store, n)
      /\ UNCHANGED <<unsaid, events, online, mounted, seen>>
  BY DEF ExpandNew
<1>3. PICK r \in Request : requests[r] = Free /\ Send(r, ChildrenRequest(n))
  BY <1>2, UserSendsSlot
<1> DEFINE z == ChildrenRequest(n)
<1>4. /\ z \in Requests /\ z.kind = "children" /\ z.node = n
      /\ z.tree = "none" /\ z.members = "none"
  BY NewRequests
<1>5. requests' = [requests EXCEPT ![r] = z]
  BY <1>3 DEF Send
<1> HIDE DEF z
<1>6. /\ store' \in Store /\ SameCopies(store, store')
      /\ store'.loadingNodes = store.loadingNodes \cup {n}
      /\ store'.treeNeedsRefresh = store.treeNeedsRefresh
  BY <1>1, <1>2, LoadingStore
<1>7. /\ requests' \in [Request -> Requests]
      /\ requests'[r] = z /\ \A q \in Request : q # r => requests'[q] = requests[q]
  BY <1>1, <1>4, <1>5
<1>8. \A q \in Request : Carries(requests[q], requests'[q])
  BY <1>4, <1>7 DEF Carries
<1>9. \A q \in Request, m \in Node :
         Loads(q, m)' <=> Loads(q, m) \/ (q = r /\ m = n)
  BY <1>3, <1>4, <1>7, NewRequests DEF Loads
<1>10. \A q \in Request : ~Loads(q, n)
  BY <1>1, <1>2 DEF LoadsPaired
<1>11. \A m \in Node : ~Loads(r, m)
  BY <1>3, NewRequests DEF Loads
<1>12. LoadsPaired'
  <2>1. ASSUME NEW q \in Request, NEW m \in Node, Loads(q, m)'
        PROVE  /\ m \in store'.loadingNodes
               /\ \A p \in Request : Loads(p, m)' => p = q
    <3>1. CASE m = n
      BY <1>6, <1>9, <1>10, <2>1, <3>1
    <3>2. CASE m # n
      BY <1>1, <1>6, <1>9, <2>1, <3>2 DEF LoadsPaired
    <3> QED BY <3>1, <3>2
  <2>2. ASSUME NEW m \in store'.loadingNodes PROVE \E q \in Request : Loads(q, m)'
    <3>1. m \in store.loadingNodes \cup {n} /\ m \in Node
      BY <1>1, <1>6 DEF Store
    <3> QED BY <1>1, <1>9, <3>1 DEF LoadsPaired
  <2> QED BY <2>1, <2>2 DEF LoadsPaired
<1>13. OldIsTold'
  BY <1>2, <1>6, <1>8, SameTold, NothingOlder
<1>14. TypeOK'
  BY <1>1, <1>2, <1>6, <1>7 DEF TypeOK, SameCopies
<1> QED BY <1>12, <1>13, <1>14 DEF StoreInv

(* Other requests stay as fresh as they were, as a slot is freed. *)
LEMMA FreedFresh ==
  ASSUME StoreInv, NEW r \in Request, requests' = [requests EXCEPT ![r] = Free],
         UNCHANGED <<unsaid, events, online>>
  PROVE  /\ requests' \in [Request -> Requests]
         /\ \A q \in Request : RequestFresh(requests[q])'
<1>1. TypeOK /\ \A q \in Request : RequestFresh(requests[q])
  BY DEF StoreInv, OldIsTold
<1>2. /\ requests' \in [Request -> Requests] /\ requests'[r] = Free
      /\ \A q \in Request : q # r => requests'[q] = requests[q]
  BY <1>1, FreedSlot
<1>3. ASSUME NEW q \in Request PROVE RequestFresh(requests[q])'
  <2>1. CASE q = r
    BY <1>2, <2>1, NewRequests DEF RequestFresh
  <2>2. CASE q # r
    BY <1>1, <1>2, <2>2 DEF RequestFresh, TreeTold, MembersTold, OnItsWay
  <2> QED BY <2>1, <2>2
<1> QED BY <1>2, <1>3

LEMMA ArriveTreeInv ==
  ASSUME StoreInv, NEW r \in Request, ArriveTree(r) PROVE StoreInv'
<1> DEFINE q == requests[r]
<1>1. TypeOK /\ LoadsPaired /\ q \in Requests /\ store \in Store
  BY DEF StoreInv, TypeOK
<1>2. /\ q.kind = "tree" /\ store' = FetchTreeSuccess(store, q.tree)
      /\ requests' = [requests EXCEPT ![r] = Free]
      /\ UNCHANGED <<unsaid, events, online, mounted, seen>>
  BY DEF ArriveTree
<1>3. q.tree \in Cached
  BY <1>1, <1>2, FieldTypes
<1>4. /\ store' \in Store /\ store'.tree = q.tree /\ store'.loadedNodes = {}
      /\ store'.loadingNodes = store.loadingNodes
  BY <1>1, <1>2, <1>3, FetchedStore
<1>5. /\ requests' \in [Request -> Requests]
      /\ \A s \in Request : RequestFresh(requests[s])'
  BY <1>2, FreedFresh
<1>7. LoadsPaired'
  <2>1. ASSUME NEW s \in Request, NEW n \in Node PROVE Loads(s, n)' <=> Loads(s, n)
    <3>1. requests'[r] = Free /\ (s # r => requests'[s] = requests[s])
      BY <1>1, <1>2, FreedSlot
    <3> QED BY <1>2, <3>1, NewRequests DEF Loads
  <2> QED BY <1>1, <1>4, <2>1, SameLoads
<1>8. RequestFresh(q)
  BY DEF StoreInv, OldIsTold
<1>9. q.tree = "old" => TreeTold'
  BY <1>2, <1>8 DEF RequestFresh, TreeTold, OnItsWay
<1>10. OldIsTold'
  BY <1>2, <1>4, <1>5, <1>9 DEF OldIsTold
<1>11. TypeOK'
  BY <1>1, <1>2, <1>4, <1>5 DEF TypeOK
<1> QED BY <1>7, <1>10, <1>11 DEF StoreInv

LEMMA ArriveChildrenInv ==
  ASSUME StoreInv, NEW r \in Request, ArriveChildren(r) PROVE StoreInv'
<1> DEFINE q == requests[r]
           m == q.node
<1>1. TypeOK /\ LoadsPaired /\ OldIsTold /\ q \in Requests /\ store \in Store
  BY DEF StoreInv, TypeOK
<1>2. /\ q.kind = "children" /\ q.tree # "none" /\ q.members # "none"
      /\ store' = ToggleExpand(LoadChildrenSuccess(store, m, q.tree, q.members),
                               m, TRUE)
      /\ requests' = [requests EXCEPT ![r] = Free]
      /\ UNCHANGED <<unsaid, events, online, mounted, seen>>
  BY DEF ArriveChildren
<1>3. q.tree \in Cached /\ q.members \in Cached /\ m \in Node
  BY <1>1, <1>2, FieldTypes
<1>4. Attached(store, m, q.tree, q.members, store')
  BY <1>1, <1>2, <1>3, ChildrenStore
<1>5. /\ requests' \in [Request -> Requests]
      /\ \A s \in Request : RequestFresh(requests[s])'
  BY <1>2, FreedFresh
<1>8. LoadsPaired'
  BY <1>1, <1>2, <1>4, LoadEnds DEF Attached
<1>9. /\ TreeTold' <=> TreeTold
      /\ \A n : MembersTold(n)' <=> MembersTold(n)
  BY <1>2 DEF TreeTold, MembersTold, OnItsWay
<1>10. RequestFresh(q)
  BY <1>1 DEF OldIsTold
<1>11. ASSUME NEW n \in store'.loadedNodes PROVE NodeFresh(n)'
  <2>1. CASE n = m
    BY <1>2, <1>4, <1>9, <1>10, <2>1 DEF Attached, NodeFresh, RequestFresh
  <2>2. CASE n # m
    <3>1. n \in store.loadedNodes /\ n \in Node
      BY <1>1, <1>4, <2>2 DEF Attached, Store
    <3>2. NodeFresh(n)
      BY <1>1, <3>1 DEF OldIsTold
    <3> QED BY <1>4, <1>9, <2>2, <3>1, <3>2 DEF Attached, NodeFresh
  <2> QED BY <2>1, <2>2
<1>12. (store.tree = "old" => TreeTold \/ store.treeNeedsRefresh)'
  BY <1>1, <1>4, <1>9 DEF Attached, OldIsTold
<1>13. OldIsTold'
  BY <1>5, <1>11, <1>12 DEF OldIsTold
<1>14. TypeOK'
  <2>1. ASSUME NEW n \in store'.loadedNodes PROVE store'.children[n] # "none"
    BY <1>1, <1>2, <1>4 DEF Attached, TypeOK, Store
  <2>2. store' \in Store
    BY <1>4 DEF Attached
  <2> QED BY <1>1, <1>2, <1>5, <2>1, <2>2 DEF TypeOK
<1> QED BY <1>8, <1>13, <1>14 DEF StoreInv

LEMMA ArriveMembersInv ==
  ASSUME StoreInv, NEW r \in Request, ArriveMembers(r) PROVE StoreInv'
<1> DEFINE q == requests[r]
           m == q.node
<1>1. TypeOK /\ LoadsPaired /\ OldIsTold /\ q \in Requests /\ store \in Store
  BY DEF StoreInv, TypeOK
<1>2. /\ q.kind = "members" /\ q.members # "none"
      /\ store' = ReloadMembersSuccess(store, m, q.members)
      /\ requests' = [requests EXCEPT ![r] = Free]
      /\ UNCHANGED <<unsaid, events, online, mounted, seen>>
  BY DEF ArriveMembers
<1>3. q.members \in Cached /\ m \in Node
  BY <1>1, <1>2, FieldTypes
<1>4. /\ store' \in Store
      /\ store'.tree = store.tree /\ store'.children = store.children
      /\ store'.treeNeedsRefresh = store.treeNeedsRefresh
      /\ store'.loadedNodes = store.loadedNodes
      /\ store'.loadingNodes = store.loadingNodes
      /\ store'.members[m] = q.members
      /\ \A n \in Node : n # m => store'.members[n] = store.members[n]
  BY <1>1, <1>2, <1>3, ReloadedStore
<1>5. /\ requests' \in [Request -> Requests]
      /\ \A s \in Request : RequestFresh(requests[s])'
  BY <1>2, FreedFresh
<1>8. LoadsPaired'
  <2>1. ASSUME NEW s \in Request, NEW n \in Node PROVE Loads(s, n)' <=> Loads(s, n)
    <3>1. requests'[r] = Free /\ (s # r => requests'[s] = requests[s])
      BY <1>1, <1>2, FreedSlot
    <3> QED BY <1>2, <3>1, NewRequests DEF Loads
  <2> QED BY <1>1, <1>4, <2>1, SameLoads
<1>9. /\ TreeTold' <=> TreeTold
      /\ \A n : MembersTold(n)' <=> MembersTold(n)
  BY <1>2 DEF TreeTold, MembersTold, OnItsWay
<1>10. RequestFresh(q)
  BY <1>1 DEF OldIsTold
<1>11. ASSUME NEW n \in store'.loadedNodes PROVE NodeFresh(n)'
  <2>1. n \in store.loadedNodes /\ n \in Node /\ NodeFresh(n)
    BY <1>1, <1>4 DEF Store, OldIsTold
  <2>2. CASE n = m
    BY <1>2, <1>4, <1>9, <1>10, <2>1, <2>2 DEF NodeFresh, RequestFresh
  <2>3. CASE n # m
    BY <1>4, <1>9, <2>1, <2>3 DEF NodeFresh
  <2> QED BY <2>2, <2>3
<1>12. OldIsTold'
  BY <1>1, <1>4, <1>5, <1>9, <1>11 DEF OldIsTold
<1>13. TypeOK'
  BY <1>1, <1>2, <1>4, <1>5 DEF TypeOK
<1> QED BY <1>8, <1>12, <1>13 DEF StoreInv

-----------------------------------------------------------------------------
(* The server's commits.  qs asks for what requests asks for, and holds the
   same copies: an edit in it may have been executed. *)
SameRequests(qs) ==
    /\ qs \in [Request -> Requests]
    /\ \A r \in Request : LET q == requests[r] IN
         SameQuestion(q, qs[r]) /\ SameTree(q, qs[r]) /\ SameMembers(q, qs[r])

(* What is owed is not forgotten by a commit. *)
LEMMA OwedTold ==
  ASSUME UNCHANGED <<events, online>>, NEW e \in Event, unsaid' = unsaid \cup {e}
  PROVE  KeepsTold /\ e \in unsaid'
  BY DEF KeepsTold, TreeTold, MembersTold, OnItsWay

LEMMA LoadedTypes ==
  ASSUME StoreInv, NEW n \in store.loadedNodes
  PROVE  /\ n \in Node
         /\ store.children[n] \in Cached \ {"none"}
         /\ store.members[n] \in Cached \ {"none"}
<1>1. n \in Node /\ store.children[n] \in Cached /\ store.members[n] \in Cached
  BY DEF StoreInv, TypeOK, Store
<1> QED BY <1>1 DEF StoreInv, TypeOK, OldIsTold, NodeFresh

LEMMA CommitTreeInv ==
  ASSUME StoreInv, NEW qs, SameRequests(qs), CommitTree(qs),
         UNCHANGED <<events, online, mounted, seen>>
  PROVE  StoreInv'
<1>1. /\ TypeOK /\ LoadsPaired /\ OldIsTold
      /\ store \in Store /\ requests \in [Request -> Requests]
  BY DEF StoreInv, TypeOK
<1>2. /\ store' = StoreAgedTree(store)
      /\ requests' = [r \in Request |-> AgedTree(qs[r])]
      /\ unsaid' = unsaid \cup {TreeUpdate}
  BY DEF CommitTree
<1>3. /\ store' \in Store
      /\ store'.members = store.members /\ store'.loadedNodes = store.loadedNodes
      /\ store'.loadingNodes = store.loadingNodes
      /\ store'.treeNeedsRefresh = store.treeNeedsRefresh
      /\ \A n \in Node : store'.children[n] = Aged(store.children[n])
  BY <1>1, <1>2, AgedTreeStore
<1>4. TreeUpdate \in Event
  BY DEF Event
<1>5. KeepsTold /\ TreeTold' /\ unsaid' \in SUBSET Event
  BY <1>1, <1>2, <1>4, OwedTold DEF TreeTold, TypeOK
<1>6. ASSUME NEW r \in Request
      PROVE  /\ SameQuestion(requests[r], requests'[r])
             /\ SameMembers(requests[r], requests'[r])
  <2>1. qs[r] \in Requests /\ requests'[r] = AgedTree(qs[r])
    BY <1>2 DEF SameRequests
  <2>2. SameQuestion(qs[r], requests'[r]) /\ SameMembers(qs[r], requests'[r])
    BY <2>1, AgedTreeRequest
  <2>3. SameQuestion(requests[r], qs[r]) /\ SameMembers(requests[r], qs[r])
    BY DEF SameRequests
  <2> QED BY <2>2, <2>3 DEF SameQuestion, SameMembers
<1>7. requests' \in [Request -> Requests]
  BY <1>2, <1>6 DEF SameQuestion
<1>8. ASSUME NEW r \in Request PROVE RequestFresh(requests[r])'
  <2>1. RequestFresh(requests[r]) /\ requests[r] \in Requests
    BY <1>1 DEF OldIsTold
  <2>2. requests[r].kind \in {"children", "members"} => requests[r].node \in Node
    BY <2>1, FieldTypes
  <2> QED BY <1>5, <1>6, <2>1, <2>2
          DEF RequestFresh, SameQuestion, SameMembers, KeepsTold
<1>9. ASSUME NEW n \in store'.loadedNodes PROVE NodeFresh(n)'
  <2>1. n \in store.loadedNodes /\ NodeFresh(n) /\ n \in Node
    BY <1>1, <1>3, LoadedTypes DEF OldIsTold
  <2> QED BY <1>3, <1>5, <2>1 DEF NodeFresh, KeepsTold
<1>10. OldIsTold'
  BY <1>5, <1>8, <1>9 DEF OldIsTold
<1>11. LoadsPaired'
  BY <1>1, <1>3, <1>6, QuestionsLoad, SameLoads
<1>12. ASSUME NEW n \in store'.loadedNodes PROVE store'.children[n] # "none"
  BY <1>3, LoadedTypes, AgedOK
<1>13. TypeOK'
  BY <1>1, <1>3, <1>5, <1>7, <1>12 DEF TypeOK
<1> QED BY <1>10, <1>11, <1>13 DEF StoreInv

LEMMA CommitMembersInv ==
  ASSUME StoreInv, NEW qs, SameRequests(qs), NEW n \in Node, CommitMembers(qs, n),
         UNCHANGED <<events, online, mounted, seen>>
  PROVE  StoreInv'
<1>1. /\ TypeOK /\ LoadsPaired /\ OldIsTold
      /\ store \in Store /\ requests \in [Request -> Requests]
  BY DEF StoreInv, TypeOK
<1>2. /\ store' = StoreAgedMembers(store, n)
      /\ requests' = [r \in Request |-> AgedMembers(qs[r], n)]
      /\ unsaid' = unsaid \cup {MemberUpdate(n)}
  BY DEF CommitMembers
<1>3. /\ store' \in Store
      /\ store'.tree = store.tree /\ store'.children = store.children
      /\ store'.loadedNodes = store.loadedNodes
      /\ store'.loadingNodes = store.loadingNodes
      /\ store'.treeNeedsRefresh = store.treeNeedsRefresh
      /\ \A m \in Node : m # n => store'.members[m] = store.members[m]
      /\ store'.members[n] = Aged(store.members[n])
  BY <1>1, <1>2, AgedMembersStore
<1>4. MemberUpdate(n) \in Event
  BY DEF Event
<1>5. KeepsTold /\ MembersTold(n)' /\ unsaid' \in SUBSET Event
  BY <1>1, <1>2, <1>4, OwedTold DEF MembersTold, TypeOK
<1>6. ASSUME NEW r \in Request
      PROVE  /\ SameQuestion(requests[r], requests'[r])
             /\ SameTree(requests[r], requests'[r])
             /\ requests[r].kind \in {"children", "members"}
                  /\ requests[r].node # n => SameMembers(requests[r], requests'[r])
  <2>1. qs[r] \in Requests /\ requests'[r] = AgedMembers(qs[r], n)
    BY <1>2 DEF SameRequests
  <2>2. /\ SameQuestion(qs[r], requests'[r]) /\ SameTree(qs[r], requests'[r])
        /\ qs[r].kind \in {"children", "members"} /\ qs[r].node # n =>
             SameMembers(qs[r], requests'[r])
    BY <2>1, AgedMembersRequest
  <2>3. /\ SameQuestion(requests[r], qs[r]) /\ SameTree(requests[r], qs[r])
        /\ SameMembers(requests[r], qs[r])
    BY DEF SameRequests
  <2> QED BY <2>2, <2>3 DEF SameQuestion, SameTree, SameMembers
<1>7. requests' \in [Request -> Requests]
  BY <1>2, <1>6 DEF SameQuestion
<1>8. ASSUME NEW r \in Request PROVE RequestFresh(requests[r])'
  <2>1. RequestFresh(requests[r]) /\ requests[r] \in Requests
    BY <1>1 DEF OldIsTold
  <2>2. requests[r].kind \in {"children", "members"} => requests[r].node \in Node
    BY <2>1, FieldTypes
  <2>3. requests'[r].kind \in {"tree", "children"} /\ requests'[r].tree = "old" =>
          TreeTold'
    BY <1>5, <1>6, <2>1 DEF RequestFresh, SameQuestion, SameTree, KeepsTold
  <2>4. ASSUME requests'[r].kind \in {"children", "members"},
               requests'[r].members = "old", NEW m, m = requests'[r].node
        PROVE  MembersTold(m)'
    <3>1. /\ requests[r].kind \in {"children", "members"}
          /\ m = requests[r].node /\ m \in Node
      BY <1>6, <2>2, <2>4 DEF SameQuestion
    <3>2. CASE m = n
      BY <1>5, <3>2
    <3>3. CASE m # n
      <4>1. requests[r].members = "old"
        BY <1>6, <2>4, <3>1, <3>3 DEF SameMembers
      <4> QED BY <1>5, <2>1, <3>1, <4>1 DEF RequestFresh, KeepsTold
    <3> QED BY <3>2, <3>3
  <2> QED BY <2>3, <2>4 DEF RequestFresh
<1>9. ASSUME NEW m \in store'.loadedNodes PROVE NodeFresh(m)'
  <2>1. m \in store.loadedNodes /\ NodeFresh(m)
    BY <1>1, <1>3 DEF OldIsTold
  <2>2. m \in Node /\ store.members[m] \in Cached \ {"none"}
    BY <2>1, LoadedTypes
  <2>3. store'.members[m] # "none" /\ store'.children[m] = store.children[m]
    BY <1>3, <2>2, AgedOK
  <2>4. store'.members[m] = "old" => MembersTold(m)' \/ store.treeNeedsRefresh
    BY <1>3, <1>5, <2>1, <2>2 DEF NodeFresh, KeepsTold
  <2>5. store.children[m] = "old" => TreeTold' \/ store.treeNeedsRefresh
    BY <1>5, <2>1 DEF NodeFresh, KeepsTold
  <2> QED BY <1>3, <2>3, <2>4, <2>5 DEF NodeFresh
<1>10. OldIsTold'
  <2>1. (store.tree = "old" => TreeTold \/ store.treeNeedsRefresh)'
    BY <1>1, <1>3, <1>5 DEF OldIsTold, KeepsTold
  <2> QED BY <1>8, <1>9, <2>1 DEF OldIsTold
<1>11. LoadsPaired'
  BY <1>1, <1>3, <1>6, QuestionsLoad, SameLoads
<1>12. TypeOK'
  BY <1>1, <1>3, <1>5, <1>7 DEF TypeOK
<1> QED BY <1>10, <1>11, <1>12 DEF StoreInv

LEMMA ExecuteEditInv ==
  ASSUME StoreInv, NEW r \in Request, ExecuteEdit(r),
         UNCHANGED <<events, online, mounted, seen>>
  PROVE  StoreInv'
<1> DEFINE z == [requests[r] EXCEPT !.done = TRUE]
           qs == [requests EXCEPT ![r] = z]
<1>1. requests \in [Request -> Requests]
  BY DEF StoreInv, TypeOK
<1>2. requests[r].kind \in {"editTree", "editMembers"}
  BY DEF ExecuteEdit
<1>3. SameQuestion(requests[r], z)
  BY <1>1, <1>2, DoneEdit
<1>4. [requests EXCEPT ![r].done = TRUE] = qs
  OBVIOUS
<1>5. IF requests[r].kind = "editTree"
        THEN CommitTree(qs) ELSE CommitMembers(qs, requests[r].node)
  BY <1>4 DEF ExecuteEdit
<1> HIDE DEF z
<1>6. qs \in [Request -> Requests] /\ qs[r] = z
      /\ \A q \in Request : q # r => qs[q] = requests[q]
  BY <1>1, <1>3 DEF SameQuestion
<1> HIDE DEF qs
<1>7. SameRequests(qs)
  BY <1>1, <1>2, <1>3, <1>6
     DEF SameRequests, SameQuestion, SameTree, SameMembers
<1>8. CASE requests[r].kind = "editTree"
  BY <1>5, <1>7, <1>8, CommitTreeInv
<1>9. CASE requests[r].kind # "editTree"
  <2>1. requests[r].node \in Node
    BY <1>1, <1>2, <1>9, FieldTypes
  <2> QED BY <1>5, <1>7, <1>9, <2>1, CommitMembersInv
<1> QED BY <1>8, <1>9

LEMMA ElsewhereInv == ASSUME StoreInv, CommitElsewhere PROVE StoreInv'
<1>1. UNCHANGED <<events, online, mounted, seen>>
  BY DEF CommitElsewhere
<1>2. SameRequests(requests)
  BY DEF SameRequests, SameQuestion, SameTree, SameMembers, StoreInv, TypeOK
<1> QED BY <1>1, <1>2, CommitTreeInv, CommitMembersInv DEF CommitElsewhere

(* What is said is on its way. *)
LEMMA BroadcastInv ==
  ASSUME StoreInv, NEW e \in Event, Broadcast(e), KeepsTold,
         unsaid' \in SUBSET Event
  PROVE  StoreInv'
<1>1. TypeOK
  BY DEF StoreInv
<1>2. events' \in Seq(Event)
  BY <1>1, BroadcastTold
<1>3. UNCHANGED <<online, store, mounted, seen, requests>>
  BY DEF Broadcast, client
<1>4. \A r \in Request : Harmless(requests[r], requests'[r])
  BY <1>1, <1>3, HarmlessSelf DEF TypeOK
<1> QED BY <1>1, <1>2, <1>3, <1>4, HarmlessStep DEF TypeOK, SameCopies

LEMMA BroadcastTreeUpdateInv ==
  ASSUME StoreInv, BroadcastTreeUpdate PROVE StoreInv'
<1>1. TypeOK /\ TreeUpdate \in Event
  BY DEF StoreInv, Event
<1>2. Broadcast(TreeUpdate) /\ unsaid' = {}
  BY DEF BroadcastTreeUpdate
<1>3. OnItsWay(TreeUpdate)'
  BY <1>1, <1>2, BroadcastTold
<1>4. KeepsTold
  BY <1>3 DEF KeepsTold, TreeTold, MembersTold
<1> QED BY <1>1, <1>2, <1>4, BroadcastInv

LEMMA BroadcastMemberUpdateInv ==
  ASSUME StoreInv, NEW n \in Node, BroadcastMemberUpdate(n) PROVE StoreInv'
<1>1. TypeOK /\ MemberUpdate(n) \in Event /\ unsaid \in SUBSET Event
  BY DEF StoreInv, TypeOK, Event
<1>2. Broadcast(MemberUpdate(n)) /\ unsaid' = unsaid \ {MemberUpdate(n)}
  BY DEF BroadcastMemberUpdate
<1>3. OnItsWay(MemberUpdate(n))' /\ \A x : OnItsWay(x) => OnItsWay(x)'
  BY <1>1, <1>2, BroadcastTold
<1>4. TreeUpdate # MemberUpdate(n)
      /\ \A m : MemberUpdate(m) = MemberUpdate(n) => m = n
  <2>1. TreeUpdate.type = "tree_update" /\ MemberUpdate(n).type = "member_update"
    BY DEF TreeUpdate, MemberUpdate
  <2>2. \A m : MemberUpdate(m).node = m
    BY DEF MemberUpdate
  <2> QED BY <2>1, <2>2
<1>5. TreeTold => TreeTold'
  BY <1>2, <1>3, <1>4 DEF TreeTold
<1>6. ASSUME NEW m \in Node, MembersTold(m) PROVE MembersTold(m)'
  <2>1. CASE m = n
    BY <1>3, <2>1 DEF MembersTold
  <2>2. CASE m # n
    BY <1>2, <1>3, <1>4, <1>6, <2>2 DEF MembersTold
  <2> QED BY <2>1, <2>2
<1>7. KeepsTold
  BY <1>5, <1>6 DEF KeepsTold
<1> QED BY <1>1, <1>2, <1>7, BroadcastInv

-----------------------------------------------------------------------------
(* Events arrive. *)

LEMMA StaleInv ==
  ASSUME StoreInv, MarkTreeStale, events' \in Seq(Event), online' \in BOOLEAN,
         UNCHANGED <<unsaid, mounted, seen>>
  PROVE  StoreInv'
<1>1. TypeOK /\ LoadsPaired /\ store \in Store /\ requests \in [Request -> Requests]
  BY DEF StoreInv, TypeOK
<1>2. /\ store' = ReduceTreeUpdate(store)
      /\ requests' = [r \in Request |-> OvertakenAll(requests[r])]
  BY DEF MarkTreeStale
<1>3. ASSUME NEW r \in Request
      PROVE  /\ SameQuestion(requests[r], requests'[r])
             /\ NoOldTree(requests'[r]) /\ NoOldMembers(requests'[r])
  <2>1. requests[r] \in Requests /\ requests'[r] = OvertakenAll(requests[r])
    BY <1>1, <1>2
  <2> QED BY <2>1, OvertakenAllRequest
<1>4. requests' \in [Request -> Requests]
  BY <1>2, <1>3 DEF SameQuestion
<1>5. /\ store' \in Store /\ SameCopies(store, store')
      /\ store'.loadingNodes = store.loadingNodes /\ store'.treeNeedsRefresh
  BY <1>1, <1>2, StaleStore
<1>6. ASSUME NEW n \in store'.loadedNodes PROVE NodeFresh(n)'
  <2>1. store'.members[n] # "none"
    BY <1>5, LoadedTypes DEF SameCopies
  <2> QED BY <1>5, <2>1 DEF NodeFresh
<1>7. OldIsTold'
  <2>1. ASSUME NEW r \in Request PROVE RequestFresh(requests[r])'
    BY <1>3 DEF RequestFresh, NoOldTree, NoOldMembers
  <2> QED BY <1>5, <1>6, <2>1 DEF OldIsTold
<1>8. LoadsPaired'
  BY <1>1, <1>3, <1>5, QuestionsLoad, SameLoads
<1>9. TypeOK'
  BY <1>1, <1>4, <1>5 DEF TypeOK, SameCopies
<1> QED BY <1>7, <1>8, <1>9 DEF StoreInv

LEMMA DeliverMemberUpdateInv ==
  ASSUME StoreInv, DeliverMemberUpdate PROVE StoreInv'
<1> DEFINE n == Head(events).node
<1>1. /\ TypeOK /\ LoadsPaired /\ OldIsTold /\ store \in Store
      /\ requests \in [Request -> Requests]
  BY DEF StoreInv, TypeOK
<1>2. /\ events # <<>> /\ Head(events).type = "member_update"
      /\ events' = Tail(events) /\ store' = ReduceMemberUpdate(store, n)
      /\ requests' = [r \in Request |-> OvertakenMembers(requests[r], n)]
      /\ UNCHANGED <<unsaid, online, mounted, seen>>
  BY DEF DeliverMemberUpdate
<1>3. /\ events' \in Seq(Event) /\ Head(events) \in Event
      /\ \A x : OnItsWay(x) /\ x # Head(events) => OnItsWay(x)'
  BY <1>1, <1>2, DeliveredTold
<1>4. n \in Node /\ TreeUpdate # Head(events)
      /\ \A m \in Node : m # n => MemberUpdate(m) # Head(events)
  <2>1. TreeUpdate.type = "tree_update"
    BY DEF TreeUpdate
  <2>2. \A m : MemberUpdate(m).node = m
    BY DEF MemberUpdate
  <2>3. PICK m \in Node : Head(events) = MemberUpdate(m)
    BY <1>2, <1>3, <2>1 DEF Event
  <2> QED BY <1>2, <2>1, <2>2, <2>3
<1>5. /\ TreeTold => TreeTold'
      /\ \A m \in Node : m # n /\ MembersTold(m) => MembersTold(m)'
  BY <1>2, <1>3, <1>4 DEF TreeTold, MembersTold
<1> HIDE DEF n
<1>6. ASSUME NEW r \in Request
      PROVE  LET q == requests[r] z == requests'[r] IN
               /\ SameQuestion(q, z) /\ SameTree(q, z)
               /\ q.kind \in {"children", "members"} /\ q.node = n => NoOldMembers(z)
               /\ q.kind \in {"children", "members"} /\ q.node # n => z = q
  <2>1. requests[r] \in Requests /\ requests'[r] = OvertakenMembers(requests[r], n)
    BY <1>1, <1>2
  <2> QED BY <1>4, <2>1, OvertakenMembersRequest
<1>7. requests' \in [Request -> Requests]
  BY <1>2, <1>6 DEF SameQuestion
<1>8. /\ store' \in Store
      /\ store'.tree = store.tree /\ store'.children = store.children
      /\ store'.treeNeedsRefresh = store.treeNeedsRefresh
      /\ store'.loadedNodes = store.loadedNodes \ {n}
      /\ store'.loadingNodes = store.loadingNodes
      /\ \A m \in Node : m # n => store'.members[m] = store.members[m]
  BY <1>1, <1>2, <1>4, MemberUpdateStore
<1>9. ASSUME NEW r \in Request PROVE RequestFresh(requests[r])'
  <2>1. RequestFresh(requests[r]) /\ requests[r] \in Requests
    BY <1>1 DEF OldIsTold
  <2>2. requests'[r].kind \in {"tree", "children"} /\ requests'[r].tree = "old" =>
          TreeTold'
    BY <1>5, <1>6, <2>1 DEF RequestFresh, SameQuestion, SameTree
  <2>3. ASSUME requests'[r].kind \in {"children", "members"},
               requests'[r].members = "old", NEW m, m = requests'[r].node
        PROVE  MembersTold(m)'
    <3>1. /\ requests[r].kind \in {"children", "members"}
          /\ m = requests[r].node /\ m \in Node
      BY <1>6, <2>1, <2>3, FieldTypes DEF SameQuestion
    <3>2. m # n
      BY <1>6, <2>3, <3>1 DEF NoOldMembers
    <3>3. requests[r].members = "old"
      BY <1>6, <2>3, <3>1, <3>2
    <3>4. MembersTold(m)
      BY <2>1, <3>1, <3>3 DEF RequestFresh
    <3> QED BY <1>5, <3>1, <3>2, <3>4
  <2> QED BY <2>2, <2>3 DEF RequestFresh
<1>10. ASSUME NEW m \in store'.loadedNodes PROVE NodeFresh(m)'
  <2>1. m \in store.loadedNodes /\ m # n /\ m \in Node
    BY <1>8 DEF Store
  <2>2. NodeFresh(m)
    BY <1>1, <2>1 DEF OldIsTold
  <2> QED BY <1>5, <1>8, <2>1, <2>2 DEF NodeFresh
<1>11. OldIsTold'
  <2>1. (store.tree = "old" => TreeTold \/ store.treeNeedsRefresh)'
    BY <1>1, <1>5, <1>8 DEF OldIsTold
  <2> QED BY <1>9, <1>10, <2>1 DEF OldIsTold
<1>12. LoadsPaired'
  BY <1>1, <1>6, <1>8, QuestionsLoad, SameLoads
<1>13. TypeOK'
  BY <1>1, <1>2, <1>3, <1>7, <1>8 DEF TypeOK
<1> QED BY <1>11, <1>12, <1>13 DEF StoreInv

-----------------------------------------------------------------------------
LEMMA InitStore == Init => StoreInv
<1> SUFFICES ASSUME Init PROVE StoreInv
  OBVIOUS
<1>1. store \in Store /\ store.loadedNodes = {} /\ store.loadingNodes = {}
      /\ store.tree = "none"
  BY DEF Init, Store, Cached
<1>2. /\ requests \in [Request -> Requests]
      /\ \A r \in Request : requests[r].kind = "none"
  BY NewRequests DEF Init
<1>3. unsaid = {}
  BY DEF Init
<1>4. /\ events = <<>> /\ online \in BOOLEAN
      /\ mounted \in BOOLEAN /\ seen \in BOOLEAN
  BY DEF Init
<1>5. TypeOK
  BY <1>1, <1>2, <1>3, <1>4 DEF TypeOK
<1> QED BY <1>1, <1>2, <1>5 DEF StoreInv, LoadsPaired, OldIsTold, Loads, RequestFresh

LEMMA NextStore == StoreInv /\ [Next]_vars => StoreInv'
<1> SUFFICES ASSUME StoreInv, [Next]_vars PROVE StoreInv'
  OBVIOUS
<1>0. CASE \/ BroadcastTreeUpdate
           \/ \E n \in Node : BroadcastMemberUpdate(n)
  BY <1>0, BroadcastTreeUpdateInv, BroadcastMemberUpdateInv
<1>1. CASE CommitElsewhere
  BY <1>1, ElsewhereInv
<1>2. ASSUME NEW r \in Request, Answer(r) PROVE StoreInv'
  BY <1>2, AnswerTreeInv, AnswerMembersInv, ExecuteEditInv DEF Answer
<1>3. ASSUME NEW r \in Request, Arrive(r) PROVE StoreInv'
  BY <1>3, ArriveTreeInv, ArriveChildrenInv, ArriveMembersInv, ArriveEditInv
     DEF Arrive
<1>4. ASSUME NEW r \in Request, Fail(r) PROVE StoreInv'
  BY <1>4, FailInv
<1>5. CASE DeliverTreeUpdate
  <2>1. TypeOK
    BY DEF StoreInv
  <2>2. events' \in Seq(Event)
    BY <1>5, <2>1, DeliveredTold DEF DeliverTreeUpdate
  <2> QED BY <1>5, <2>1, <2>2, StaleInv DEF DeliverTreeUpdate, TypeOK
<1>6. CASE DeliverMemberUpdate
  BY <1>6, DeliverMemberUpdateInv
<1>7. CASE Disconnect
  BY <1>7, DisconnectInv
<1>8. CASE Reconnect
  BY <1>8, StaleInv DEF Reconnect, StoreInv, TypeOK
<1>9. CASE Mount
  BY <1>9, MountInv
<1>10. CASE Unmount
  BY <1>10, UnmountInv
<1>11. CASE Refresh
  BY <1>11, RefreshInv
<1>12. ASSUME NEW n \in Node, User(n) PROVE StoreInv'
  <2>1. CASE Collapse(n)
    BY <2>1, ToggledInv DEF Collapse
  <2>2. CASE ExpandLoaded(n)
    BY <2>2, ToggledInv DEF ExpandLoaded
  <2>3. CASE ExpandNew(n)
    BY <2>3, ExpandNewInv
  <2>4. CASE ReloadMembers(n)
    BY <2>4, AskedInv DEF ReloadMembers
  <2>5. CASE Edit(EditMembersRequest(n))
    BY <2>5, AskedInv DEF Edit
  <2> QED BY <1>12, <2>1, <2>2, <2>3, <2>4, <2>5 DEF User
<1>13. CASE Edit(EditTreeRequest)
  BY <1>13, AskedInv DEF Edit
<1>14. CASE UNCHANGED vars
  <2>1. /\ UNCHANGED <<unsaid, events, online, store, mounted, seen, requests>>
        /\ TypeOK
    BY <1>14 DEF vars, client, StoreInv
  <2>2. \A r \in Request : Harmless(requests[r], requests'[r])
    BY <2>1, HarmlessSelf DEF TypeOK
  <2> QED BY <2>1, <2>2, SameTold, HarmlessStep DEF TypeOK, SameCopies
<1> QED BY <1>0, <1>1, <1>2, <1>3, <1>4, <1>5, <1>6, <1>7, <1>8, <1>9, <1>10, <1>11,
           <1>12, <1>13, <1>14 DEF Next

(* The store keeps its types, and no reducer takes the children of a node from
   under its being loaded. *)
THEOREM StoreTypes == Spec => []TypeOK
<1>1. StoreInv => TypeOK
  BY DEF StoreInv
<1> QED BY InitStore, NextStore, <1>1, PTL DEF Spec

(* A node's spinner turns while exactly one request loads it: no reducer, no
   answer and no failure loses track of a load. *)
THEOREM OneLoadAtATime == Spec => []LoadInFlight
<1>1. StoreInv => LoadInFlight
  <2> SUFFICES ASSUME StoreInv, NEW n \in Node
               PROVE  Cardinality({r \in InFlight("children") : requests[r].node = n})
                      = IF n \in store.loadingNodes THEN 1 ELSE 0
    BY DEF LoadInFlight
  <2> DEFINE R == {r \in InFlight("children") : requests[r].node = n}
  <2>1. \A r : r \in R <=> r \in Request /\ Loads(r, n)
    BY DEF InFlight, Loads
  <2>2. LoadsPaired
    BY DEF StoreInv
  <2> HIDE DEF R
  <2>3. CASE n \in store.loadingNodes
    <3>1. PICK r \in Request : Loads(r, n)
      BY <2>2, <2>3 DEF LoadsPaired
    <3>2. R = {r}
      BY <2>1, <2>2, <3>1 DEF LoadsPaired
    <3>3. Cardinality(R) = 1
      BY <3>2, FS_Singleton
    <3> QED BY <2>3, <3>3 DEF R
  <2>4. CASE n \notin store.loadingNodes
    <3>1. R = {}
      BY <2>1, <2>2, <2>4 DEF LoadsPaired
    <3>2. Cardinality(R) = 0
      BY <3>1, FS_EmptySet
    <3> QED BY <2>4, <3>2 DEF R
  <2> QED BY <2>3, <2>4
<1> QED BY InitStore, NextStore, <1>1, PTL DEF Spec

LEMMA HeardAll == ASSUME Heard PROVE \A x : ~OnItsWay(x)
<1>1. Len(events) = 0
  BY DEF Heard
<1> QED BY <1>1 DEF Heard, OnItsWay

(* Once the server has said what it has committed, a browser that has heard
   every event and holds its tree for fresh holds the master's tree, or one
   whose answer came after the event about it: no refetch, failure, lost
   connection or batched render loses what an event has told. *)
THEOREM FreshTree == Spec => []TreeFresh
<1>1. StoreInv => TreeFresh
  <2> SUFFICES ASSUME StoreInv, Heard, TreeUpdate \notin unsaid
               PROVE  store.tree \in {"none", "new", "missed"}
    BY DEF TreeFresh
  <2>1. store.tree \in Cached
    BY DEF StoreInv, TypeOK, Store
  <2>2. store.tree # "old"
    BY HeardAll DEF StoreInv, OldIsTold, Heard, TreeTold
  <2> QED BY <2>1, <2>2 DEF Cached
<1> QED BY InitStore, NextStore, <1>1, PTL DEF Spec

(* So are the children and the members of every node that counts as loaded:
   member_update, refetch and reload together invalidate enough. *)
THEOREM FreshLoads == Spec => []LoadedFresh
<1>1. StoreInv => LoadedFresh
  <2> SUFFICES ASSUME StoreInv, NEW n \in store.loadedNodes, Heard
               PROVE  /\ MemberUpdate(n) \notin unsaid =>
                           store.members[n] \in {"new", "missed"}
                      /\ TreeUpdate \notin unsaid =>
                           store.children[n] \in {"new", "missed"}
    BY DEF LoadedFresh
  <2>1. /\ store.children[n] \in Cached \ {"none"}
        /\ store.members[n] \in Cached \ {"none"}
    BY LoadedTypes
  <2>2. NodeFresh(n)
    BY DEF StoreInv, OldIsTold
  <2>3. /\ ~store.treeNeedsRefresh
        /\ TreeTold => TreeUpdate \in unsaid
        /\ MembersTold(n) => MemberUpdate(n) \in unsaid
    BY HeardAll DEF Heard, TreeTold, MembersTold
  <2> QED BY <2>1, <2>2, <2>3 DEF NodeFresh, Cached
<1> QED BY InitStore, NextStore, <1>1, PTL DEF Spec
=============================================================================
