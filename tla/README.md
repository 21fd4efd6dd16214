# A TLA+ model of the organization directory plugin

This directory models and verifies the Mattermost plugin "organization
directory" (`src/`): its tree of nodes, the memberships in them, and the
external systems that synchronise both.

## The system

| component | state | operations | talks to |
|---|---|---|---|
| node store (`server/store/node_store.go`, `server/api_node.go`) | table `org_directory_nodes`: parent pointer, materialized path, depth, source, external id, soft-delete mark | create, update, delete (`cascade_delete`, `move_to_parent`), move, upsert by external id, delete by source, subtree, breadcrumb | called by the node handlers and by the sync engine; cascade deletion also writes the members table |
| member store (`server/store/member_store.go`, `server/api_member.go`) | table `org_directory_members`: (node, user) unique, role, source, external id, soft-delete mark | add (restores a removed row), remove, role, position, order, upsert by external id or by pair, delete by source | called by the member handlers and by the sync engine; read by the permission check |
| sync engine (`server/api_sync.go`) | one request in flight per HTTP call; the sync log | topological sort, per-item upserts and deletes, user resolution, full-sync cleanup, status | node store, member store, user mappings, sync log, WebSocket event |
| user mapping (`server/store/user_mapping_store.go`) | table `org_directory_user_mappings`: (source, external user) to Mattermost user, no unique key | lookup, upsert; resolution by mapping, email, username | sync engine, registration handler, the query for a user's nodes |
| logs (`server/store/sync_store.go`) | sync log, audit log | create, update, append | sync engine, handlers |
| permissions (`server/permissions.go`) | none | system admin, role on the node or an ancestor, sync token | every handler |
| tree reads (`server/api_tree.go`, queries of `api_sync.go`) | none | full tree, subtree, roots, listing with depth filters, children, members, breadcrumb | node store, webapp, external systems |
| search, slash command | none | queries and text | node and member store |
| plugin, schema (`server/plugin.go`, `server/store/sql_store.go`) | schema version in the key-value store, tables and indexes, connections | activation, migrations, deactivation, WebSocket events | everything |
| router, configuration | configuration | routing, loading and validating the configuration | everything |
| webapp store (`webapp/src/store`) | cached tree, loaded and expanded nodes, member and user caches, refresh flag, search | fetch, expand, search, CRUD thunks, WebSocket handlers | HTTP API, WebSocket |
| webapp components | dialogs, forms | rendering, the refresh effect | webapp store |
| build tooling | none | packaging | not part of the running system |

HTTP requests run concurrently in goroutines; nothing in the plugin
serialises them. Each SQL statement commits by itself, except in `DeleteNode`
and `MoveNode`, which use a READ COMMITTED transaction. Reads go to a replica
when there is one. So the hard behaviour is what happens between the
statements of a request: paths, parents, row ids and lookups that are stale
when they are used.

## Modules

| module | models | proved in |
|---|---|---|
| `Directory` | the values of the key columns | |
| `NodeTable` | the nodes table and each SQL statement on it, as operators | `NodeTableProofs` |
| `OrgTree` | the node requests, interleaved statement by statement | `OrgTreeProofs`, `TreeProofs` |
| `Reads` | the read handlers and the permission walk, as operators over the nodes table | `TreeProofs` |
| `ParentTree` | what the tree promises: parent pointers, add, remove a subtree, hang a subtree elsewhere | `TreeProofs` |
| `MemberTable` | the members table and each SQL statement on it | |
| `Members` | the member requests, interleaved statement by statement | `MembersProofs` |
| `SyncOrder` | `topologicalSortNodes` | `SyncProofs` |
| `Sync` | `executeSyncRequest` over both tables, item by item, with editing administrators | `SyncProofs` |
| `SyncUsers` | who external users are: the mapping table on master and replica, the requests that resolve and register users, the life of a sync's log | `SyncUsersProofs` |
| `Activation` | `OnActivate` and the migrations on the servers of a cluster | `ActivationProofs` |
| `WebappStore` | one browser: reducer, thunks, refresh effect, events, requests in flight | `WebappProofs` |
| `MCOrgTree`, `MCOrgTreeCascade`, `MCMembers`, `MCSync`, `MCSyncUsers` | instances for TLC: every action with the requests counted; the node handlers and the items of a sync one at a time, with `cascade_delete`; the members; the syncs and edits counted; one user whom email and username take for two accounts | |

`OrgTree`, `Members` and `Sync` share the tables' operators: the first two
interleave the statements of concurrent requests on one table each, `Sync`
composes both tables and takes one item, or one administrator's request, as a
step. `Reads` extends `OrgTree`. `SyncUsers` is the other half of a sync's member
item: `Sync` lets the resolution find the user or nobody, `SyncUsers` says whom,
and leaves out what is then done to the members. `Activation` stands before all
of them. `WebappStore` sees the server through events and answers only.

**Requests.** A request occupies a *session*. `session[s].pc` names the
statement that comes next, the other fields are the Go variables the earlier
statements have filled. A single-statement request is one action. A write
transaction takes effect in one step at its commit: what another transaction
could observe of it before is nothing, and what it does to rows committed by
others since its reads is what the operators compute from the *current*
table and the *remembered* path. In these modules a read from a lagging replica
is a read that happened earlier: a session that reads and is then delayed;
`SyncUsers`, whose requests read what they themselves have just written, has the
replica as a variable. `Fail` ends a
request after any of its statements: a lost connection, an SQL error, or a
crash of the plugin, after which only the tables remain.

**Paths.** `/a/b/c` is the sequence `<<a, b, c>>`; ids have a fixed length and
contain neither `/` nor `%`, so `path LIKE p || '/%'` is "strict extension of p"
and `SUBSTRING(path FROM len(old)+1)` cuts off the old prefix.
`VARCHAR(2048)` is `MaxPathLen` ids; a write that does not fit is rolled back.

**Syncs.** `run` is the sync in flight: its request, the items still to come,
and the Go variables it collects (`syncedNodeExtIDs` is `kept`,
`syncedMemberExtIDs` `keptExts`, `syncedMemberNodeUserKeys` `keptPairs`; of the
counters, what the verdict asks of them). `quiet` and `cleaned` are history:
whether an administrator has edited meanwhile, and whether both clean-up
statements have gone through, whose errors the code drops. Any statement of an
item may fail, which the code counts as an error; the plugin may crash between
items, which leaves the tables as they are. An item to delete has a parent too,
which `topologicalSortNodes` reads and nothing else does.

**Users.** A request of `SyncUsers` is a sync or a registration; `pc` names its
next statement and `todo` its items. What an account answers to is a
function from external users, for each of the three calls of `resolveMMUser`,
any of which may fail, which the code takes for "no such user". `applied` and
`disturbed` are history: the accounts that syncs took users for, and the users of
whom a lookup failed, or was made while another request was between its own
lookup of them and its end, or while the replica did not have their row as the
master has it. The table has no unique key on (source, external_user_id),
so a disturbed user may have two mappings; the properties say that nothing else
gives him two.

**Activations.** Each call of `OnActivate` that may fail is an action, and `Stop`
may come between any two: the call's error, the death of the process, a
deactivation. A migration is its objects, created in one query that commits as a
whole. An `Exec` that would have to fail for want of an object, or because of one
that is there, has no step, so that `ActivationEnds` shows there is none: as an
error it would end this activation and every later one. Servers run different releases during an upgrade: a release is its last
migration.

**Reads.** A handler's reads are taken at one moment. Reads along the path
(breadcrumb, recursive counts and members, the list filters, the permission walk)
and reads along `parent_id` (full tree, subtree, children, `parent_external_id`)
are operators of their own, so that their agreement is a property and not an
assumption.

**Browsers.** A copy of server data is `"new"` while it equals what the master
stores and `"old"` from the next commit on, so changes need no bound. Commit and
broadcast are steps of their own. A commit makes copies old and adds to `unsaid`
the event that the server owes about it; a broadcast takes events out of
`unsaid`, and need never come: a sync commits item by item and broadcasts a
`tree_update` at its end (`api_sync.go:809`), which it may not live to see, and
the handlers of a member's position and of the order of members broadcast
nothing (`api_member.go:145-200`). A `tree_update` is about everything, since
it makes the browser fetch everything; a `member_update` about one node's
members. A request in flight is split into its answer (one for each GET of a
`Promise.all`) and its arrival, and either may be late. Answers are read from
the replica (`sql_store.go:205`), so an answer may be old although the commit
and even its event came first. A copy whose event reaches the browser before
the copy does, for one or the other reason, is `"missed"`: nothing will tell
the browser any more. `seen` is the value of `treeNeedsRefresh` that the
sidebar has rendered: its effect compares with it, and React may batch several
changes into one render. The number of members that the tree shows beside a
node is not part of a copy: no `member_update` refreshes it.

**Left out.** name, icon, description, metadata, positions, sort orders,
timestamps: no decision of the modelled operations reads them. Permission
checks guard who may start a request, not what it does.

## Runs

| run | instance | shows |
|---|---|---|
| `tree_interleaved` | 3 ids, 2 sessions, 1 source with 1 external id, paths of at most 4 ids, both strategies, stale ids, at most 6 requests | `TypeOK`, `PathWellFormed`, `ParentOnPath` survive every interleaving |
| `tree_sequential` | 4 ids, 1 session, 1 source with 2 external ids and local nodes, cascade only, live ids, paths of at most 6 ids, ids interchangeable | `TreeConsistent`, `Acyclic`, `SubTreeByPath`, the table implements `ParentTree`, and every reader sees that tree: `BreadcrumbIsLineage`, `RightsInherited`, `EndpointsAgree`, `ListingRebuildsTree` |
| `tree_cycle` | 3 ids, 2 sessions | two crossing moves make a cycle (violation) |
| `upsert_moves` | 3 ids, 1 session | an upsert never moves its node (violation) |
| `upsert_twice` | 2 ids, 2 sessions | a retried sync duplicates a node (violation) |
| `members_one_sync` | 3 rows, 2 nodes of 2 sources, 2 users, 1 external id, one sync and one admin session, no bound on requests | sources stay within their nodes, an external id is unambiguous |
| `sync_full` | 3 ids, 2 external ids, 2 member rows, 2 users, every request of at most 2 items, 2 syncs, 1 edit | after whatever a crashed or failing sync left, a successful full sync mirrors its request (`FullSyncMirrors`); what is not its source's a sync changes only where an item names it (`SyncTouchesNamed`); parents come first, in chains that lead to a root within the request (`ParentsComeFirst`); a listed root survives its own failed upsert (`ListedRootsSurvive`) |
| `sync_users` | 1 external user, 2 accounts, 2 rows, a sync of two items, a sync of one that finds `mapping_only` or `email_only` configured, a registration, at most 2 requests in flight | `OneMapping`, `AppliedAsMapped` and `MatchKeepsMapping` for a user no lookup of whom met a bad moment; `LogTellsOutcome`, `LogSettles` |
| `activation` | 2 servers, 3 migrations, releases 2 and 3, no other bound | `VersionTrue`, `ActiveHasSchema`, `MigrationsInOrder`, and `ActivationEnds` |
| `cascade_members` | 2 ids, 1 member row, 2 edits | a cascade leaves the memberships of the deleted nodes (violation) |
| `webapp_store` | 1 lazily loaded node, 2 requests in flight, 1 event on its way, no other bound | once the server has broadcast after its last commit and the browser has heard it, caches held for fresh are fresh, or their answer came after the event (`TreeFresh`, `LoadedFresh`); one load per node (`LoadInFlight`); the spinner stops |
| `members_wrong_row` | 2 rows, 1 node, 2 users, 2 roles | a late restore by row id gives the membership to another user (violation) |

*Bounds.* A cycle or a stale path needs a chain of two nodes and one to move
them under: 3 ids are the smallest set with all of them, 4 let a subtree of
three be moved. Ids are never reused (`NewId`), so the number of creations is
bounded by the ids, and moves reach every tree over them; `MaxRequests`
bounds the interleaved run only, where 6 requests are two moves or a move and
a deletion on top of four creations. `members_one_sync` has one role because
none of its properties mentions roles. Deadlock is not checked: when every id
has been used and deleted, no request has anything left to change, and a
server may be idle for ever.

In `sync_full` the first sync builds what the second one repairs: it may
crash after any item, fail at any statement, be incremental or full, or come
from the second request itself (a retry). Two items are a parent and its
child, a node and its member, or two members that compete for a pair or an
external id; they are enough to list, omit, delete and re-key each. In
`webapp_store` two requests are enough for answers in the wrong order (two
fetches), for a load that a fetch overtakes, and for a second load of a node
while the first is in flight, which the guard of `expandNode` must refuse; any
other request of a user leaves the other slot to the effects, which stand for a
pool without bound. One event on its way is enough: what matters of an event is
whether it comes before or after an answer, and the next is broadcast when it
has come. The proof has no bound on either.

In `sync_users` one external user is enough, since requests meet on a user
only; two rows are what a second mapping needs, and when no row is free an
insertion can only fail, as any insertion may. The same email and another
username is the case in which a failed call changes the answer. `MaxBusy` is 2:
three requests in their own statements at once add no pair that two do not
have; the proof has no such bound. Requests that have ended leave room for
the third, which finds what they left. In `activation` three migrations and two
releases let the older release note a lower version after the newer one.

`tree_sequential` treats node ids and external ids as interchangeable
(`SYMMETRY`); it has no liveness property. Four ids make a chain of four, which
is deeper than any filter of `EndpointsAgree` and leaves every depth below a
named parent to compare.

*Fairness.* `SyncUsers` assumes `WF` for each request's next step: a goroutine
that runs is scheduled and a statement returns, if only with an error; it does
not assume that statements succeed, that the replica catches up, or that a
request begins. `Activation` assumes the same of the calls of one `OnActivate`.
`WebappStore` assumes that a request in flight is answered and that
the answer arrives, unless it fails (`WF` per request): HTTP requests end. No
event, render, user or server is assumed to do anything. `SpinnerStops` needs
no more. All other properties are safety properties.

*Divergences met while modelling that have no run of their own.*
`move_to_parent` (`src/README.md:67`) gives the children a new parent_id and
leaves their path and depth (`node_store.go:86-98`), so paths and parents disagree
even for a single request; `tree_sequential` has cascade deletion only for
that reason. A full sync deletes a live node that its request lists when the
lookup of its parent fails: the item is skipped before it is counted as synced
(`api_sync.go:649-653`, against `docs/sync-api-guide.md:110`); hence
`ListedRootsSurvive` speaks of roots. `email_only` (`docs/sync-api-guide.md:759`,
"match by email only") still takes the mapping table first. The status `failed`
(`docs/sync-api-guide.md:732`, "no node or member written") looks at the counters of
created and updated nodes only (`api_sync.go:786`).
Sources are not "completely isolated, without influence on each other", and what
was made by hand is not "protected, not affected by external syncs"
(`docs/sync-api-guide.md:93` and `:99`). A member item whose node and user have a
membership made by hand makes it the source's (`member_store.go:349-355`,
`378-388`), and a later full sync may then delete it. A member item that deletes
removes whatever membership the pair has (`api_sync.go:711`). A node item that
deletes takes everything below the node with it, whoever made it
(`node_store.go:101-105`). `SyncTouchesNamed` says that this is all: the
clean-up of a full sync never reaches what is not its source's, nor does an
item reach more than the node or the pair that it names.
The comment "parents always come before their children" (`api_sync.go:870`) is not
true of a chain whose first parent is in the table and not in the request: its
items keep their input order, and a child that comes before its parent fails.
It takes three external ids; `ParentsComeFirst` speaks of the other chains.
The README's "changes are pushed to all online users" (`src/README.md:15`)
is not true of the order of members, of their positions, and of a sync that
crashes.

*What the webapp run does not promise.* Before the server has broadcast what
it owes, a browser may show old data and not know it: until the next event about
them, changes that are never broadcast are not seen by browsers that have the
node loaded. A missed copy stays until the next event: an event that comes while
a fetch is in flight is forgotten when its older answer clears the flag
(`reducer.ts:75`), and a fetch that the event has caused may be answered by
a replica that lags behind it. `TreeFresh` and `LoadedFresh` exempt these copies
and no others. Nor is a raised `treeNeedsRefresh` always served: after a failed
fetch the flag stays up, the effect runs on changes only, and neither an event
nor a reconnection changes it.

## Proofs

Every safety property of a passing run is also a theorem, for every value of
the constants. In each module the properties follow from one inductive
invariant, which TLC checked on the run's instance before it was proved; a
lemma per action says that the action keeps it.

| module | specification | invariant | theorems |
|---|---|---|---|
| `OrgTreeProofs` | `OrgTree!Spec` | `ShapeInv` | `TypeCorrect`, `PathsWellFormed`, `ParentsOnPaths` |
| `TreeProofs` | `CascadeSpec`, with `StaleIds = FALSE` | `TreeInv` | `PathsFollowParents`, `NoCycle`, `PrefixQueryIsSubtree`, `KeysNameOneNode`, `TreeRefinement`, `BreadcrumbsAreLineages`, `RightsFollowTheTree`, `EndpointsShowOneTree`, `ListingsRebuildTrees` |
| `MembersProofs` | `Members!Spec` | `OwnerInv`; `KeyInv`, with one sync session | `MembersTypeCorrect`, `SourcesOwnTheirNodes`; `KeysNameOneMembership` |
| `SyncProofs` | `Sync!Spec` | `SyncInv` | `SyncTypeCorrect`, `FullSyncsMirror`, `SyncsTouchWhatTheyName`, `ParentsFirst`, `ListedRootsStay` |
| `SyncUsersProofs` | `SyncUsers!Spec` | `UserInv` | all of `sync_users` but its liveness |
| `ActivationProofs` | `Activation!Spec` | `SchemaInv` | all of `activation` but its liveness |
| `WebappProofs` | `WebappStore!Spec` | `StoreInv` | `StoreTypes`, `OneLoadAtATime`, `FreshTree`, `FreshLoads` |

**Interleaved node requests.** `PathWellFormed` alone is not inductive: a
`WriteMove` writes what its session remembers. `ShapeInv` therefore adds
`SessionOK`: what is remembered was read from *some* row with the shape, at some
time. That is enough, because (`RebasedPath`) the move replaces a prefix that
ends at the moved node by another one that ends at the same node, and changes
depth by the difference of their lengths: however stale both are, the result
ends where it ended, names the same parent, and has the right depth.
`NodeTableProofs` has one lemma per SQL statement, each saying that it keeps the
shape whatever was read.

**The tree, one request at a time.** `CascadeSpec` lets a request begin only
while no other one is between its statements (`Alone`), deletes by cascade, and
takes ids of live nodes: without the first `tree_cycle` and `upsert_twice` break
the tree, without the second a single `move_to_parent` does. Any number of
sessions, ids, sources and external ids is allowed, and any path width.
`TreeInv` adds to `ShapeInv` that the path of a live node is its parent's path
and its own id, that a key names one live node, and (`Current`) that what the
one request in flight has read is still what the table says. Paths then grow
from parent to child, so there is no cycle, and the prefix query, the
breadcrumb and the recursion of `buildTreeNode` meet the same nodes: that is
all the theorems about `Reads` need, by induction on the length of a path
(`LeastNat`: a least counterexample). `TreeRefinement` shows each step to be a
step of `ParentTree` or to leave its tree alone.

**Members.** `SourceOwnsNode` speaks of the table; a request acts on a row id
that it found statements ago. `OwnerInv` says of each pc what survives until
then: a row that a request remembers may have been moved, removed or revived by
others since, but only ever to a node of the same owner, so what the request
writes into it stays within its owner's nodes. `KeyInv` says what
`ExternalIdUnique` relies on between the lookup of an external id and the
write: nobody else writes external ids, so the row that was found is still the
only one, and none has come where none was. Hence its hypothesis, one sync
session; administrators are any number.

**Syncs.** `SyncInv` has a part for the tables and one for the run.
`NodesKept` and `MembersKept` hold at all times, whatever crashes and failures
have left: a row hangs below a row whose path its own continues, a key names one
live node and one active membership, and a membership is in a node of its own
source or local. They are why a deletion reaches its own subtree only, why the
clean-up of memberships stays in the source's nodes, and, with `Wrote` about an
upsert, why an item changes no membership but the source's own or the one at the
pair that it names (`SyncsTouchWhatTheyName`).
`RunKept` follows the items: one that has been processed counts as synced and
its node is there (`NodeMet`), or an error has been counted, or an administrator
has edited; the parent of one still to come is ahead of it in `todo` or in the
table (`ParentsAhead`), which `SortedIs` establishes about
`topologicalSortNodes` for requests of any length; and the memberships of the
member items so far are those counted as synced (`MemberItemsKept`), which the
next item leaves in place because distinct items have distinct pairs and
external ids. When the items are done, the clean-up keeps exactly what was
counted, so the tables mirror the request. There is no bound on items, syncs
or edits; `sync_full` has one source, the theorems have any number.

**Users.** That one user has one mapping is not inductive: a request that is
about to insert has seen no row, a request that is about to update has seen one,
and what they saw may be old. `Aware` says what such a request may still rely on
if its user is undisturbed, and `Alone` that two requests at work on one user
have disturbed him; `Past` says that the replica holds rows the master has, of
the same user. Each action then keeps the invariant because it either disturbs
the user, about whom nothing is claimed any more, or is alone with him and sees
the table as it is. The theorems have no bound on requests in flight.

**Activations.** `Progress` says of each call that comes next what the database
then has; since migrations are only ever added, a server's progress is kept by
every step of another one, and a version noted late or twice is covered still.

**Browsers.** `LoadsPaired` says that each node marked as loading has exactly
one request that loads it, so that the guard of `expandNode` is enough.
`OldIsTold` says of every copy that is old and not missed, in the store or in an
answer on its way, that the browser may yet be told: an event about it is on its
way or owed, the connection is lost, or, once it is in the store, the refresh
flag is up. A commit establishes that for all copies at once, a delivery turns
the old answers under way into missed ones and raises the flag for the store,
and an answer that the lagging replica gives when nothing is on its way or
owed is missed from the start. When all has been broadcast and heard, and the
flag is down, no copy can be old.

Assumptions: the named ASSUMEs of the modules, which TLC evaluates in every run
(a column's "none" value is not one of its proper values; a browser has a
finite set of requests), and the hypotheses in the table above.

Model-checked only: the liveness properties `LogSettles`, `ActivationEnds` and
`SpinnerStops`, since the provers at hand know neither ENABLED nor fairness. The
violations are TLC's counterexamples.

## Not modelled

- Search and the slash command: text queries and formatting, no state. Name,
  position, icon and order columns with their updates and reorderings: no
  decision reads them (`handleUpdateNode` may lose one of two concurrent
  updates of different fields).
- The audit log: appended after the fact, its errors only logged, read by nothing.
  Its `target_id` is `VARCHAR(26)`, while the member handlers write
  `nodeID:userID` into it, so those entries are refused by the database.
- `checkSyncToken` and the session checks: stateless decisions on one request.
  Routing and configuration: a table, and a value replaced under a lock.
- Functions of the store that nothing calls: `DeleteUserMapping`,
  `DeleteUserMappingsBySource`, `GetUserMappingsByMmUserID`, `GetLatestSyncLog`,
  `GetAuditLogs`, `SoftDeleteNodes`, `SoftDeleteMembersByNodeID`.
- Rendering, forms and packaging.

## Plan

1. (done) node store and member store, each with its inductive invariant
   proved; the sync engine over both; the webapp store; user mappings and the
   sync log, proved; activation and migrations, proved; the reads and the
   permission walk.
2. `WebappStore`: nodes below the depth-1 tree, search and its late answers,
   the user detail view.
3. Proofs: (done) the safety properties of every passing run, and the refinement
   of `ParentTree`. What `WebappStore` gains under 2 needs its part of `StoreInv`.
4. Requests that repeat an external id: the sort meets its children twice.
