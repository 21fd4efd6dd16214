------------------------------ MODULE SyncUsers ------------------------------
(***************************************************************************)
(* Who an external user is: the table org_directory_user_mappings, the     *)
(* member items of the syncs that resolve users through it (resolveMMUser  *)
(* of server/api_sync.go), the requests that register mappings, and the    *)
(* log row of each sync.  Every statement commits by itself, reads go to   *)
(* the replica, which lags, and requests run side by side.  What a sync    *)
(* does to nodes and members is in Sync; here an item is only applied to   *)
(* an account.                                                             *)
(***************************************************************************)
EXTENDS SequencesExt, FiniteSets

CONSTANTS ExtUser,      \* external users: a source and an id there
          User,         \* Mattermost accounts
          NoUser,       \* nobody
          MappingId,    \* the ids that model.NewId() may hand out to rows
          NoRow,        \* no row found
          SyncReq,      \* the syncs, one log row each
          RegisterReq,  \* the requests to /sync/user-mappings
          Configured,   \* the strategies each sync may find configured
          ByEmail, ByLowerEmail, ByUsername,  \* what the accounts answer to
          MaxBusy,      \* how many requests may be in flight together
          Items         \* how many items each request has

Strategy == {"mapping_email_username", "mapping_only", "email_only"}
Request == SyncReq \cup RegisterReq

ASSUME SyncUsersAssumption ==
    /\ SyncReq \cap RegisterReq = {}
    /\ Configured \in [SyncReq -> SUBSET Strategy]
    /\ NoUser \notin User /\ NoRow \notin MappingId
    /\ \A f \in {ByEmail, ByLowerEmail, ByUsername} :
          f \in [ExtUser -> User \cup {NoUser}]
    /\ MaxBusy \in Nat
    /\ Items \in [Request -> Nat]

VARIABLES mappings,    \* the table, as the master has it
          replica,     \* the table, as db() reads it
          logs,        \* the log row of each sync
          req,         \* the requests
          applied,     \* history: the accounts that syncs took users for
          disturbed    \* history: the users met at a bad moment

vars == <<mappings, replica, logs, req, applied, disturbed>>

Mapping == [ext : ExtUser, user : User]
Absent == [user |-> NoUser]          \* not yet inserted; no row is deleted

(* A registered item names its account, a member item does not. *)
Item == [ext : ExtUser, user : User \cup {NoUser}]

(* "flawed" is "partial_success" or "failed", which Sync tells apart. *)
LogStatus == {"none", "running", "success", "flawed"}

(* pc names the statement that comes next.  The table is read in "item" and
   "find"; "apply" is the rest of a member item.  trouble says that an error
   or a skipped user has been noted, owed how many items were not applied. *)
PC == {"new", "item", "match", "find", "insert", "update", "apply",
       "done", "unlogged", "crashed"}

RequestState ==
    [pc : PC, todo : Seq(Item), user : User \cup {NoUser}, row : MappingId \cup {NoRow},
     strategy : Strategy \cup {"none"}, trouble : BOOLEAN, owed : Nat]

New == [pc |-> "new", todo |-> <<>>, user |-> NoUser, row |-> NoRow,
        strategy |-> "none", trouble |-> FALSE, owed |-> 0]

Ended(pc) == [New EXCEPT !.pc = pc]

Init == /\ mappings = [m \in MappingId |-> Absent]
        /\ replica = [m \in MappingId |-> Absent]
        /\ logs = [y \in SyncReq |-> "none"]
        /\ req = [r \in Request |-> New]
        /\ applied = {}
        /\ disturbed = {}

Rows(t) == {m \in MappingId : t[m] # Absent}

(* the rows GetUserMappingByExternalID may return the first of *)
RowsOf(t, e) == {m \in Rows(t) : t[m].ext = e}

At(r, pc) == req[r].pc = pc
Now(r) == Head(req[r].todo)
Busy(r) == req[r].pc \notin {"new", "done", "unlogged", "crashed"}
MayStart(r) == /\ At(r, "new")
               /\ Cardinality({q \in Request : Busy(q)}) < MaxBusy
Goto(r, state) == req' = [req EXCEPT ![r] = state]
Next1(r) == [req[r] EXCEPT !.pc = IF r \in SyncReq THEN "item" ELSE "find",
                           !.todo = Tail(@), !.user = NoUser, !.row = NoRow]
Known(r, u, pc) == [req[r] EXCEPT !.user = u, !.pc = pc]
Account(r) == IF r \in SyncReq THEN req[r].user ELSE Now(r).user

(* History: a lookup of e meets a bad moment if another request is between
   its own lookup of e and the end of its item, or the replica lags. *)
WorksOn(r, e) ==
    /\ req[r].pc \in {"match", "insert", "update", "apply"}
          \cup (IF r \in SyncReq THEN {"find"} ELSE {})
    /\ Now(r).ext = e

BadMoment(r, e) ==
    \/ \E q \in Request \ {r} : WorksOn(q, e)
    \/ \E m \in RowsOf(mappings, e) : replica[m] # mappings[m]

Met(r, e) == disturbed' = IF BadMoment(r, e) THEN disturbed \cup {e} ELSE disturbed

(* What a failed statement leaves unknown or unwritten. *)
Disturbs(r, e) == disturbed' = IF r \in SyncReq THEN disturbed \cup {e}
                               ELSE disturbed

-----------------------------------------------------------------------------
CreateSyncLog(y) == [logs EXCEPT ![y] = "running"]

(* executeSyncRequest ignores the failure of CreateSyncLog. *)
StartSync(y) ==
    /\ MayStart(y)
    /\ \E users \in [1..Items[y] -> ExtUser], strategy \in Configured[y] :
         Goto(y, [New EXCEPT !.pc = "item", !.strategy = strategy,
                             !.todo = [i \in 1..Items[y] |->
                                         [ext |-> users[i], user |-> NoUser]],
                             !.owed = Items[y]])
    /\ \E created \in BOOLEAN :
         logs' = IF created THEN CreateSyncLog(y) ELSE logs
    /\ UNCHANGED <<mappings, replica, applied, disturbed>>

AtItem(y) == At(y, "item") /\ req[y].todo # <<>>

(* The item's node is not found. *)
ItemWithoutNode(y) ==
    /\ AtItem(y)
    /\ Goto(y, [Next1(y) EXCEPT !.trouble = TRUE])
    /\ UNCHANGED <<mappings, replica, logs, applied, disturbed>>

SkippedUnnoted(y) == Next1(y)        \* a variant that forgets to count it

Skipped(y) == [Next1(y) EXCEPT !.trouble = TRUE]

(* Two variants of resolveMMUser: one that matches first, one that takes the
   match for an account without writing it down. *)
MatchFirst(y) ==
    /\ AtItem(y)
    /\ Goto(y, [req[y] EXCEPT !.pc = "match"])
    /\ UNCHANGED <<mappings, replica, logs, applied, disturbed>>

(* resolveMMUser, step 1: the mapping table. *)
LookupMapping(y) ==
    /\ AtItem(y)
    /\ LET e == Now(y).ext
           missed == IF req[y].strategy = "mapping_only" THEN Skipped(y)
                     ELSE [req[y] EXCEPT !.pc = "match"]
       IN \/ /\ \E m \in RowsOf(replica, e) :
                  Goto(y, Known(y, replica[m].user, "apply"))
             /\ Met(y, e)
          \/ /\ RowsOf(replica, e) = {}
             /\ Goto(y, missed) /\ Met(y, e)
          \/ Goto(y, missed) /\ Disturbs(y, e)      \* the query fails
    /\ UNCHANGED <<mappings, replica, logs, applied>>

(* Steps 2 and 3, in their order. *)
Candidates(e, strategy) ==
    <<ByEmail[e], ByLowerEmail[e]>>
       \o (IF strategy = "email_only" THEN <<>> ELSE <<ByUsername[e]>>)

MatchUnwritten(y) ==
    /\ At(y, "match")
    /\ \E u \in ToSet(Candidates(Now(y).ext, req[y].strategy)) \ {NoUser} :
         Goto(y, Known(y, u, "apply"))
    /\ UNCHANGED <<mappings, replica, logs, applied, disturbed>>

MatchUnchecked(y) ==         \* a variant that overlooks a call's failure
    /\ At(y, "match")
    /\ \E u \in ToSet(Candidates(Now(y).ext, req[y].strategy)) :
         Goto(y, Known(y, u, "find"))
    /\ UNCHANGED <<mappings, replica, logs, applied, disturbed>>

(* Any call to the server may fail, and then counts as finding nobody. *)
Match(y) ==
    /\ At(y, "match")
    /\ LET found == ToSet(Candidates(Now(y).ext, req[y].strategy)) IN
         \/ \E u \in found \ {NoUser} :
              Goto(y, Known(y, u, "find"))
         \/ Goto(y, Skipped(y))
    /\ UNCHANGED <<mappings, replica, logs, applied, disturbed>>

-----------------------------------------------------------------------------
(* handleSyncUserMappings *)
StartRegister(g) ==
    /\ MayStart(g)
    /\ \E items \in [1..Items[g] -> [ext : ExtUser, user : User]] :
         Goto(g, [New EXCEPT !.pc = "find", !.todo = items])
    /\ UNCHANGED <<mappings, replica, logs, applied, disturbed>>

(* What follows UpsertUserMapping, whether it has written or not. *)
Upserted(r) == IF r \in SyncReq THEN [req[r] EXCEPT !.pc = "apply", !.row = NoRow]
               ELSE Next1(r)

AtFind(r) == At(r, "find") /\ req[r].todo # <<>>

NeverFindRow(r) ==           \* a variant that inserts without looking
    /\ AtFind(r)
    /\ Goto(r, [req[r] EXCEPT !.pc = "insert"])
    /\ Met(r, Now(r).ext)
    /\ UNCHANGED <<mappings, replica, logs, applied>>

(* UpsertUserMapping looks for the row. *)
FindRow(r) ==
    /\ AtFind(r)
    /\ LET e == Now(r).ext IN
         \/ /\ \E m \in RowsOf(replica, e) :
                 Goto(r, [req[r] EXCEPT !.pc = "update", !.row = m])
            /\ Met(r, e)
         \/ /\ RowsOf(replica, e) = {}
            /\ Goto(r, [req[r] EXCEPT !.pc = "insert"])
            /\ Met(r, e)
         \/ Goto(r, Upserted(r)) /\ Disturbs(r, e)    \* the query fails
    /\ UNCHANGED <<mappings, replica, logs, applied>>

(* A registration decides anew who e is. *)
Registers(r, e) ==
    applied' = IF r \in RegisterReq THEN {p \in applied : p[1] # e} ELSE applied

UpdateRow(r) ==
    /\ At(r, "update")
    /\ Goto(r, Upserted(r))
    /\ LET e == Now(r).ext IN
         \/ /\ mappings' = [mappings EXCEPT ![req[r].row].user = Account(r)]
            /\ Registers(r, e) /\ UNCHANGED disturbed
         \/ Disturbs(r, e) /\ UNCHANGED <<mappings, applied>>   \* it fails
    /\ UNCHANGED <<replica, logs>>

InsertRow(r) ==
    /\ At(r, "insert")
    /\ Goto(r, Upserted(r))
    /\ LET e == Now(r).ext
           free == MappingId \ Rows(mappings)
       IN \/ /\ free # {}
             /\ mappings' = [mappings EXCEPT ![CHOOSE m \in free : TRUE] =
                               [ext |-> e, user |-> Account(r)]]
             /\ Registers(r, e) /\ UNCHANGED disturbed
          \/ Disturbs(r, e) /\ UNCHANGED <<mappings, applied>>  \* it fails
    /\ UNCHANGED <<replica, logs>>

-----------------------------------------------------------------------------
(* The member is upserted or removed for the account found; or that fails. *)
Apply(y) ==
    /\ At(y, "apply")
    /\ \/ /\ Goto(y, [Next1(y) EXCEPT !.owed = @ - 1])
          /\ applied' = applied \cup {<<Now(y).ext, Account(y)>>}
       \/ /\ Goto(y, [Next1(y) EXCEPT !.trouble = TRUE])
          /\ UNCHANGED applied
    /\ UNCHANGED <<mappings, replica, logs, disturbed>>

(* The node items, see Sync, may have met errors too. *)
Verdicts(q) == {"flawed"} \cup (IF q.trouble THEN {} ELSE {"success"})

FinishUnlogged(y) ==         \* a variant that returns early after trouble
    /\ At(y, "item") /\ req[y].todo = <<>>
    /\ logs' = [logs EXCEPT ![y] = IF @ = "none" \/ req[y].trouble THEN @
                                   ELSE "success"]
    /\ Goto(y, Ended("done"))
    /\ UNCHANGED <<mappings, replica, applied, disturbed>>

(* The id of a log that was never inserted matches no row. *)
UpdateSyncLog(y, verdict) ==
    [logs EXCEPT ![y] = IF @ = "none" THEN @ ELSE verdict]

(* The failure of UpdateSyncLog is ignored too. *)
Finish(y) ==
    /\ At(y, "item") /\ req[y].todo = <<>>
    /\ \/ /\ \E verdict \in Verdicts(req[y]) :
               logs' = UpdateSyncLog(y, verdict)
          /\ Goto(y, Ended("done"))
       \/ Goto(y, Ended("unlogged")) /\ UNCHANGED logs
    /\ UNCHANGED <<mappings, replica, applied, disturbed>>

Registered(g) ==
    /\ At(g, "find") /\ req[g].todo = <<>>
    /\ Goto(g, Ended("done"))
    /\ UNCHANGED <<mappings, replica, logs, applied, disturbed>>

(* The plugin dies with the request. *)
Crash(r) ==
    /\ Busy(r)
    /\ Goto(r, Ended("crashed"))
    /\ UNCHANGED <<mappings, replica, logs, applied, disturbed>>

Replicate ==
    /\ replica # mappings
    /\ replica' = mappings
    /\ UNCHANGED <<mappings, logs, req, applied, disturbed>>

SyncStep(y) == \/ ItemWithoutNode(y) \/ LookupMapping(y)
               \/ Match(y) \/ Apply(y) \/ Finish(y)

Step(r) == \/ r \in SyncReq /\ SyncStep(r)
           \/ FindRow(r) \/ UpdateRow(r) \/ InsertRow(r)
           \/ r \in RegisterReq /\ Registered(r)

Next == \/ \E y \in SyncReq : StartSync(y)
        \/ \E g \in RegisterReq : StartRegister(g)
        \/ \E r \in Request : Step(r) \/ Crash(r)
        \/ Replicate

(* A request that has begun goes on: its goroutine is scheduled, and every
   statement returns, if only with an error. *)
Spec == Init /\ [][Next]_vars /\ \A r \in Request : WF_vars(Step(r))

-----------------------------------------------------------------------------
TypeOK == /\ mappings \in [MappingId -> Mapping \cup {Absent}]
          /\ replica \in [MappingId -> Mapping \cup {Absent}]
          /\ logs \in [SyncReq -> LogStatus]
          /\ req \in [Request -> RequestState]
          /\ applied \subseteq ExtUser \X User
          /\ disturbed \subseteq ExtUser

(* "creates or updates": an external user gets a second mapping only if a
   lookup of his met a bad moment or failed. *)
OneMapping ==
    \A m, k \in Rows(mappings) :
        /\ mappings[m].ext = mappings[k].ext
        /\ mappings[m].ext \notin disturbed
        => m = k

(* "the next sync hits step 1": whoever a sync took for an account is mapped
   to it, so later syncs, whatever their strategy and whichever calls to the
   server fail, and the query for a user's nodes take him for the same one,
   until a request registers another. *)
AppliedAsMapped ==
    \A p \in applied : p[1] \notin disturbed =>
        {mappings[m].user : m \in RowsOf(mappings, p[1])} = {p[2]}

(* An automatic match never overwrites a mapping. *)
MatchKeepsMapping ==
    [][\A m \in Rows(mappings) :
          mappings'[m] # mappings[m] /\ mappings[m].ext \notin disturbed
             => \E g \in RegisterReq : UpdateRow(g)]_vars

(* The log says "success" only if every item was applied to an account; and it
   says that once, when the sync ends. *)
LogTellsOutcome ==
    [][\A y \in SyncReq : logs'[y] # logs[y] =>
          \/ At(y, "new") /\ logs'[y] = "running"
          \/ /\ Busy(y) /\ req'[y].pc = "done"
             /\ logs'[y] = "success" => req[y].owed = 0]_vars

(* When the requests have ended no log says "running", unless the plugin has
   died or the last statement has failed. *)
LogSettles ==
    <>[](\A y \in SyncReq :
            logs[y] = "running" => req[y].pc \in {"crashed", "unlogged"})
=============================================================================
