----------------------------- MODULE WebappStore -----------------------------
(***************************************************************************)
(* One browser: the reducer and the thunks of webapp/src/store, the effects*)
(* of the sidebar and the WebSocket events.  A copy of what the master     *)
(* database stores is "new" while it equals the master's and "old" from the*)
(* next commit on: the tree to depth 1, and the children and the members of*)
(* each node that it lists.  The server commits first and broadcasts later,*)
(* or never; its handlers read a replica, which may lag behind both.  An   *)
(* old copy whose event reached the browser before the copy did is         *)
(* "missed".  Not part of a copy are the member counts which the tree      *)
(* carries and no member_update refreshes.  A thunk runs between its awaits*)
(* without interruption; answers arrive in any order.                      *)
(***************************************************************************)
EXTENDS Integers, Sequences, FiniteSets

CONSTANTS Node,        \* nodes whose children and members are loaded lazily
          Request,     \* HTTP requests that can be in flight together
          MaxEvents    \* bound: events on their way to the browser

ASSUME WebappAssumption == MaxEvents \in Nat /\ IsFiniteSet(Request)

VARIABLES unsaid,    \* events owed: committed, no event about it broadcast since
          events,    \* broadcast and not yet delivered
          online,    \* whether the WebSocket is connected
          store,     \* the reducer's state
          mounted,   \* whether the sidebar is open
          seen,      \* treeNeedsRefresh as the sidebar has last rendered it
          requests   \* in flight

client == <<store, mounted, seen, requests>>
vars == <<unsaid, events, online, client>>

Free == [kind |-> "none"]

(* What is asked for; "none" until the server has answered that part. *)
TreeRequest == [kind |-> "tree", tree |-> "none"]
ChildrenRequest(n) == [kind |-> "children", node |-> n, tree |-> "none",
                       members |-> "none"]
MembersRequest(n) == [kind |-> "members", node |-> n, members |-> "none"]
EditTreeRequest == [kind |-> "editTree", done |-> FALSE]
EditMembersRequest(n) == [kind |-> "editMembers", node |-> n, done |-> FALSE]

TreeUpdate == [type |-> "tree_update"]
MemberUpdate(n) == [type |-> "member_update", node |-> n]

Init ==
    /\ unsaid = {} /\ events = <<>> /\ online = TRUE
    /\ store = [tree |-> "none",
                children |-> [n \in Node |-> "none"],    \* attached below n
                members |-> [n \in Node |-> "none"],
                loadedNodes |-> {}, loadingNodes |-> {}, expandedNodes |-> {},
                isLoading |-> FALSE, treeNeedsRefresh |-> FALSE]
    /\ mounted = FALSE /\ seen = FALSE
    /\ requests = [r \in Request |-> Free]

InFlight(kind) == {r \in Request : requests[r].kind = kind}
Unused == {r \in Request : requests[r] = Free}

(* k unused slots: it does not matter which *)
Slots(k) == CHOOSE rs \in SUBSET Unused : Cardinality(rs) = k

-----------------------------------------------------------------------------
(* The server commits a change, which makes every copy of it old and leaves
   the server owing an event about it. *)
Aged(copy) == IF copy = "new" THEN "old" ELSE copy

AgedTree(q) == IF q.kind \in {"tree", "children"} THEN [q EXCEPT !.tree = Aged(@)] ELSE q

AgedMembers(q, n) ==
    IF q.kind \in {"children", "members"} /\ q.node = n
      THEN [q EXCEPT !.members = Aged(@)] ELSE q

StoreAgedTree(s) == [s EXCEPT !.tree = Aged(@),
                              !.children = [n \in Node |-> Aged(@[n])]]

StoreAgedMembers(s, n) == [s EXCEPT !.members[n] = Aged(@)]

(* qs are the requests in flight *)
CommitTree(qs) ==
    /\ store' = StoreAgedTree(store)
    /\ requests' = [r \in Request |-> AgedTree(qs[r])]
    /\ unsaid' = unsaid \cup {TreeUpdate}

CommitMembers(qs, n) ==
    /\ store' = StoreAgedMembers(store, n)
    /\ requests' = [r \in Request |-> AgedMembers(qs[r], n)]
    /\ unsaid' = unsaid \cup {MemberUpdate(n)}

(* Handlers and syncs of others commit statement by statement. *)
CommitElsewhere ==
    /\ CommitTree(requests) \/ \E n \in Node : CommitMembers(requests, n)
    /\ UNCHANGED <<events, online, mounted, seen>>

(* A tree_update, as of a completed sync, is about all that was committed
   before.  A commit of another handler may come in between a handler's own
   and its broadcast, and an event may be about nothing new; nothing obliges
   the server to broadcast: a sync that dies does not, nor do the handlers of
   a member's position and of the order of members.  A browser that is not
   connected misses the event. *)
Broadcast(e) ==
    /\ Len(events) < MaxEvents
    /\ events' = IF online THEN Append(events, e) ELSE events
    /\ UNCHANGED <<online, client>>

BroadcastTreeUpdate == Broadcast(TreeUpdate) /\ unsaid' = {}

BroadcastMemberUpdate(n) ==
    Broadcast(MemberUpdate(n)) /\ unsaid' = unsaid \ {MemberUpdate(n)}

(* An event that is on its way, or is made up for when the browser is
   connected again. *)
OnItsWay(e) == ~online \/ \E i \in 1..Len(events) : events[i] = e

(* The browser is still to be told, if the server broadcasts what it owes. *)
TreeTold == OnItsWay(TreeUpdate) \/ TreeUpdate \in unsaid
MembersTold(n) == \/ OnItsWay(TreeUpdate) \/ OnItsWay(MemberUpdate(n))
                  \/ MemberUpdate(n) \in unsaid

(* The server answers (a part of) a request from a replica, which may be
   behind what is committed, and even behind what the browser was told. *)
Lagging(told) == IF told THEN "old" ELSE "missed"

AnswerTree(r) ==
    /\ requests[r].kind \in {"tree", "children"} /\ requests[r].tree = "none"
    /\ \E copy \in {"new", Lagging(TreeTold)} :
         requests' = [requests EXCEPT ![r].tree = copy]
    /\ UNCHANGED <<store, unsaid>>

AnswerMembers(r) ==
    /\ requests[r].kind \in {"children", "members"}
    /\ requests[r].members = "none"
    /\ \E copy \in {"new", Lagging(MembersTold(requests[r].node))} :
         requests' = [requests EXCEPT ![r].members = copy]
    /\ UNCHANGED <<store, unsaid>>

(* Its broadcast, if the handler makes one, reaches the browser before or after
   the answer. *)
ExecuteEdit(r) ==
    /\ requests[r].kind \in {"editTree", "editMembers"} /\ ~requests[r].done
    /\ LET qs == [requests EXCEPT ![r].done = TRUE] IN
         IF requests[r].kind = "editTree"
           THEN CommitTree(qs) ELSE CommitMembers(qs, requests[r].node)

Answer(r) ==
    /\ AnswerTree(r) \/ AnswerMembers(r) \/ ExecuteEdit(r)
    /\ UNCHANGED <<events, online, mounted, seen>>

-----------------------------------------------------------------------------
(* The reducer *)

FetchTreeRequest(s) == [s EXCEPT !.isLoading = TRUE]

(* Variants of the next operator, which keep too much and too little. *)
FetchTreeKeepsLoaded(s, tree) ==
    [s EXCEPT !.isLoading = FALSE, !.tree = tree,
              !.children = [n \in Node |-> "none"], !.treeNeedsRefresh = FALSE]

FetchTreeClearsLoading(s, tree) ==
    [FetchTreeKeepsLoaded(s, tree) EXCEPT !.loadedNodes = {}, !.loadingNodes = {}]

FetchTreeSuccess(s, tree) ==
    [s EXCEPT !.isLoading = FALSE, !.tree = tree,
              !.children = [n \in Node |-> "none"],
              !.loadedNodes = {}, !.treeNeedsRefresh = FALSE]

FetchTreeFailureIgnored(s) == s    \* a variant of the next

FetchTreeFailure(s) == [s EXCEPT !.isLoading = FALSE]

LoadChildrenRequest(s, n) == [s EXCEPT !.loadingNodes = @ \cup {n}]

LoadChildrenSuccess(s, n, tree, members) ==
    [s EXCEPT !.loadingNodes = @ \ {n}, !.loadedNodes = @ \cup {n},
              !.members[n] = members, !.children[n] = tree]

LoadChildrenFailure(s, n) == [s EXCEPT !.loadingNodes = @ \ {n}]

ToggleExpand(s, n, expanded) ==
    [s EXCEPT !.expandedNodes = IF expanded THEN @ \cup {n} ELSE @ \ {n}]

ReduceTreeUpdate(s) == [s EXCEPT !.treeNeedsRefresh = TRUE]

ReduceMembersOnly(s, n) == [s EXCEPT !.members[n] = "none"]    \* a variant

ReduceMemberUpdate(s, n) ==
    [s EXCEPT !.members[n] = "none", !.loadedNodes = @ \ {n}]

ReloadMembersSuccess(s, n, members) == [s EXCEPT !.members[n] = members]

-----------------------------------------------------------------------------
(* Events and the connection *)

(* Answers under way that an event overtakes *)
Overtaken(copy) == IF copy = "old" THEN "missed" ELSE copy

OvertakenTree(q) ==
    IF q.kind \in {"tree", "children"} THEN [q EXCEPT !.tree = Overtaken(@)] ELSE q

OvertakenMembers(q, n) ==
    IF q.kind \in {"children", "members"} /\ q.node = n
      THEN [q EXCEPT !.members = Overtaken(@)] ELSE q

(* A tree_update may be about anything. *)
OvertakenAll(q) ==
    LET t == OvertakenTree(q) IN
      IF q.kind \in {"children", "members"} THEN OvertakenMembers(t, q.node) ELSE t

MarkTreeStale ==
    /\ store' = ReduceTreeUpdate(store)
    /\ requests' = [r \in Request |-> OvertakenAll(requests[r])]

DeliverTreeUpdate ==
    /\ events # <<>> /\ Head(events) = TreeUpdate
    /\ events' = Tail(events)
    /\ MarkTreeStale
    /\ UNCHANGED <<unsaid, online, mounted, seen>>

DeliverMemberUpdate ==
    /\ events # <<>> /\ Head(events).type = "member_update"
    /\ events' = Tail(events)
    /\ LET n == Head(events).node IN
         /\ store' = ReduceMemberUpdate(store, n)
         /\ requests' = [r \in Request |-> OvertakenMembers(requests[r], n)]
    /\ UNCHANGED <<unsaid, online, mounted, seen>>

Disconnect ==
    /\ online /\ online' = FALSE
    /\ events' = <<>>
    /\ UNCHANGED <<unsaid, client>>

(* A variant that trusts the connection to have lost nothing. *)
ReconnectOnly == ~online /\ online' = TRUE /\ UNCHANGED <<unsaid, events, client>>

(* "On reconnect: mark tree stale" *)
Reconnect ==
    /\ ~online /\ online' = TRUE
    /\ MarkTreeStale
    /\ UNCHANGED <<unsaid, events, mounted, seen>>

-----------------------------------------------------------------------------
(* Requests start *)

(* fetchOrgTree, on the slots rs *)
SendTree(rs) ==
    /\ requests' = [r \in Request |-> IF r \in rs THEN TreeRequest ELSE requests[r]]
    /\ store' = IF rs = {} THEN store ELSE FetchTreeRequest(store)

Send(r, q) == requests' = [requests EXCEPT ![r] = q]

(* Both effects run when the sidebar opens: the initial load, and the refresh
   if the flag is up. *)
Mount ==
    /\ ~mounted /\ mounted' = TRUE
    /\ LET fetches == IF store.treeNeedsRefresh THEN 2 ELSE 1 IN
         /\ fetches <= Cardinality(Unused)
         /\ SendTree(Slots(fetches))
    /\ seen' = store.treeNeedsRefresh
    /\ UNCHANGED <<unsaid, events, online>>

Unmount ==
    /\ mounted /\ mounted' = FALSE /\ seen' = FALSE
    /\ UNCHANGED <<unsaid, events, online, store, requests>>

(* The sidebar renders with another value of the flag, and the refresh effect
   runs.  React 17 renders between any two changes, React 18 may batch them. *)
Refresh ==
    /\ mounted /\ seen # store.treeNeedsRefresh
    /\ seen' = store.treeNeedsRefresh
    /\ IF store.treeNeedsRefresh THEN Unused # {} /\ SendTree(Slots(1))
                                 ELSE SendTree({})
    /\ UNCHANGED <<unsaid, events, online, mounted>>

(* A user's own requests leave a slot for those of the effects, but a load may
   follow another. *)
UserSends(q) ==
    /\ \/ Cardinality(Unused) > 1
       \/ Unused # {} /\ q.kind = "children" /\ InFlight("children") # {}
    /\ \E r \in Slots(1) : Send(r, q)

Shown(n) == mounted /\ ~store.isLoading /\ store.tree # "none"

Collapse(n) ==
    /\ Shown(n) /\ n \in store.expandedNodes
    /\ store' = ToggleExpand(store, n, FALSE)
    /\ UNCHANGED <<unsaid, events, online, mounted, seen, requests>>

ExpandLoaded(n) ==
    /\ Shown(n) /\ n \notin store.expandedNodes
    /\ n \in store.loadedNodes /\ n \notin store.loadingNodes
    /\ store' = ToggleExpand(store, n, TRUE)
    /\ UNCHANGED <<unsaid, events, online, mounted, seen, requests>>

ExpandNew(n) ==
    /\ Shown(n) /\ n \notin store.expandedNodes
    /\ n \notin store.loadedNodes /\ n \notin store.loadingNodes
    /\ UserSends(ChildrenRequest(n))
    /\ store' = LoadChildrenRequest(store, n)
    /\ UNCHANGED <<unsaid, events, online, mounted, seen>>

(* The member manager opens: reloadNodeMembers. *)
ReloadMembers(n) ==
    /\ Shown(n)
    /\ UserSends(MembersRequest(n))
    /\ UNCHANGED <<unsaid, events, online, store, mounted, seen>>

Edit(q) ==
    /\ mounted
    /\ UserSends(q)
    /\ UNCHANGED <<unsaid, events, online, store, mounted, seen>>

-----------------------------------------------------------------------------
(* Answers arrive *)

ArriveTree(r) ==
    /\ requests[r].kind = "tree" /\ requests[r].tree # "none"
    /\ store' = FetchTreeSuccess(store, requests[r].tree)
    /\ requests' = [requests EXCEPT ![r] = Free]
    /\ UNCHANGED <<unsaid, events, online, mounted, seen>>

(* Promise.all: both answers, then the node expands. *)
ArriveChildren(r) ==
    LET q == requests[r] IN
      /\ q.kind = "children" /\ q.tree # "none" /\ q.members # "none"
      /\ store' = ToggleExpand(
                    LoadChildrenSuccess(store, q.node, q.tree, q.members),
                    q.node, TRUE)
      /\ requests' = [requests EXCEPT ![r] = Free]
      /\ UNCHANGED <<unsaid, events, online, mounted, seen>>

ArriveMembers(r) ==
    LET q == requests[r] IN
      /\ q.kind = "members" /\ q.members # "none"
      /\ store' = ReloadMembersSuccess(store, q.node, q.members)
      /\ requests' = [requests EXCEPT ![r] = Free]
      /\ UNCHANGED <<unsaid, events, online, mounted, seen>>

(* The thunk goes on with fetchOrgTree or reloadNodeMembers. *)
ArriveEdit(r) ==
    LET q == requests[r] IN
      /\ q.kind \in {"editTree", "editMembers"} /\ q.done
      /\ IF q.kind = "editTree"
           THEN SendTree({r})
           ELSE Send(r, MembersRequest(q.node)) /\ UNCHANGED store
      /\ UNCHANGED <<unsaid, events, online, mounted, seen>>

(* An edit that the server executes and answers without a body, as it does a
   deletion or a change of role: request() rejects, the thunk ends. *)
ArriveEditWithoutBody(r) ==
    /\ requests[r].kind \in {"editTree", "editMembers"} /\ requests[r].done
    /\ requests' = [requests EXCEPT ![r] = Free]
    /\ UNCHANGED <<unsaid, events, online, store, mounted, seen>>

Fail(r) ==
    LET q == requests[r] IN
      /\ q # Free
      /\ requests' = [requests EXCEPT ![r] = Free]
      /\ store' = CASE q.kind = "tree" -> FetchTreeFailure(store)
                    [] q.kind = "children" -> LoadChildrenFailure(store, q.node)
                    [] OTHER -> store
      /\ UNCHANGED <<unsaid, events, online, mounted, seen>>

Arrive(r) == ArriveTree(r) \/ ArriveChildren(r) \/ ArriveMembers(r)
             \/ ArriveEdit(r) \/ ArriveEditWithoutBody(r)

User(n) == \/ Collapse(n) \/ ExpandLoaded(n) \/ ExpandNew(n) \/ ReloadMembers(n)
           \/ Edit(EditMembersRequest(n))

Next ==
    \/ CommitElsewhere \/ BroadcastTreeUpdate
    \/ \E n \in Node : BroadcastMemberUpdate(n)
    \/ \E r \in Request : Answer(r) \/ Arrive(r) \/ Fail(r)
    \/ DeliverTreeUpdate \/ DeliverMemberUpdate \/ Disconnect \/ Reconnect
    \/ Mount \/ Unmount \/ Refresh
    \/ \E n \in Node : User(n)
    \/ Edit(EditTreeRequest)

(* A request in flight is answered and its answer arrives, if it does not fail;
   users, servers and events may stop. *)
Fairness == \A r \in Request : WF_vars(Answer(r) \/ Arrive(r))

Spec == Init /\ [][Next]_vars /\ Fairness

-----------------------------------------------------------------------------
Cached == {"none", "new", "old", "missed"}

Store == [tree : Cached, children : [Node -> Cached], members : [Node -> Cached],
          loadedNodes : SUBSET Node, loadingNodes : SUBSET Node,
          expandedNodes : SUBSET Node,
          isLoading : BOOLEAN, treeNeedsRefresh : BOOLEAN]

Event == {TreeUpdate} \cup {MemberUpdate(n) : n \in Node}

TreeRequests == [kind : {"tree"}, tree : Cached]
ChildrenRequests == [kind : {"children"}, node : Node, tree : Cached,
                     members : Cached]
MembersRequests == [kind : {"members"}, node : Node, members : Cached]
Edits == [kind : {"editTree"}, done : BOOLEAN]
         \cup [kind : {"editMembers"}, node : Node, done : BOOLEAN]
Requests == {Free} \cup TreeRequests \cup ChildrenRequests
            \cup MembersRequests \cup Edits

(* The store holds what its types allow, and a node that counts as loaded has
   its children attached. *)
TypeOK ==
    /\ unsaid \in SUBSET Event /\ events \in Seq(Event) /\ online \in BOOLEAN
    /\ store \in Store /\ mounted \in BOOLEAN /\ seen \in BOOLEAN
    /\ requests \in [Request -> Requests]
    /\ \A n \in store.loadedNodes : store.children[n] # "none"

(* The spinner of a node turns if and only if one request about its children
   is in flight: a node is never loaded twice at a time, nor stuck. *)
LoadInFlight ==
    \A n \in Node :
        Cardinality({r \in InFlight("children") : requests[r].node = n})
        = IF n \in store.loadingNodes THEN 1 ELSE 0

Heard == online /\ events = <<>> /\ ~store.treeNeedsRefresh

(* A browser that holds its tree for fresh and has heard every event holds the
   master's tree, once a tree_update has been broadcast since the last commit
   that changed the tree: no refetch, failed request, lost connection or
   batched render makes it lose what an event has told.  The one excuse is a
   missed tree: the last event about it came before the tree's answer did,
   which a replica or the way to the browser held back. *)
TreeFresh ==
    Heard /\ TreeUpdate \notin unsaid => store.tree \in {"none", "new", "missed"}

(* The children and the members of a node that counts as loaded are likewise
   the master's or missed, once an event about them has been broadcast since
   the last commit, whatever refetches, reloads, edits and lost connections
   came in between. *)
LoadedFresh ==
    \A n \in store.loadedNodes :
        /\ Heard /\ MemberUpdate(n) \notin unsaid
              => store.members[n] \in {"new", "missed"}
        /\ Heard /\ TreeUpdate \notin unsaid
              => store.children[n] \in {"new", "missed"}

(* An old copy, in flight or in the store, is yet to be spoken of, or the flag
   is up. *)
RequestFresh(q) ==
    /\ q.kind \in {"tree", "children"} /\ q.tree = "old" => TreeTold
    /\ q.kind \in {"children", "members"} /\ q.members = "old" =>
          MembersTold(q.node)

NodeFresh(n) ==
    /\ store.children[n] = "old" => TreeTold \/ store.treeNeedsRefresh
    /\ store.members[n] = "old" => MembersTold(n) \/ store.treeNeedsRefresh
    /\ store.members[n] # "none"

Loads(r, n) == requests[r].kind = "children" /\ requests[r].node = n

(* The nodes that load and the requests that load them pair up. *)
LoadsPaired ==
    /\ \A r \in Request, n \in Node : Loads(r, n) =>
          n \in store.loadingNodes /\ \A q \in Request : Loads(q, n) => q = r
    /\ \A n \in store.loadingNodes : \E r \in Request : Loads(r, n)

(* An old copy, in the store or in an answer under way, has an event about it
   to come or owed; once in the store, a raised refresh flag will do. *)
OldIsTold ==
    /\ \A r \in Request : RequestFresh(requests[r])
    /\ store.tree = "old" => TreeTold \/ store.treeNeedsRefresh
    /\ \A n \in store.loadedNodes : NodeFresh(n)

(* The inductive invariant behind the three. *)
StoreInv == TypeOK /\ LoadsPaired /\ OldIsTold

(* The sidebar does not show its spinner for ever. *)
SpinnerStops == store.isLoading ~> ~store.isLoading
=============================================================================
