--------------------------- MODULE SyncUsersProofs ---------------------------
(***************************************************************************)
(* For any number of syncs and registrations, however they interleave and  *)
(* however far the replica lags: an external user whose lookups met no bad *)
(* moment has one mapping at most, and it is the account that syncs took   *)
(* him for.                                                                *)
(***************************************************************************)
EXTENDS SyncUsers, TLAPS

Table == [MappingId -> Mapping \cup {Absent}]

UsersOf(t, e) == {t[m].user : m \in RowsOf(t, e)}

(* WorksOn, of request r in state q. *)
Working(r) == {"match", "insert", "update", "apply"}
                 \cup (IF r \in SyncReq THEN {"find"} ELSE {})

WorksIn(r, q, e) == q.pc \in Working(r) /\ Head(q.todo).ext = e

(* What a state of request r knows by itself. *)
StateOK(r, q) ==
    /\ q \in RequestState
    /\ q.pc \in Working(r) => q.todo # <<>>
    /\ r \in SyncReq =>
         /\ q.pc \in {"find", "insert", "update", "apply"} => q.user \in User
         /\ q.owed >= Len(q.todo)
         /\ ~q.trouble => q.owed = Len(q.todo)
    /\ r \in RegisterReq =>
         /\ q.pc # "apply"
         /\ \A i \in 1..Len(q.todo) : q.todo[i].user \in User

(* What it knows of the table t if the users in d met a bad moment: a request
   that is to insert has no row before it, one that is to update has its row,
   and a sync that is to update does so at a bad moment only. *)
Aware(t, d, r, q) ==
    \A e \in ExtUser : WorksIn(r, q, e) =>
        /\ q.pc = "update" => q.row \in RowsOf(t, e) /\ (r \in SyncReq => e \in d)
        /\ q.pc \in {"match", "find", "insert"} /\ e \notin d => RowsOf(t, e) = {}
        /\ q.pc = "apply" /\ e \notin d => UsersOf(t, e) = {q.user}

One(t, d) == \A m, k \in Rows(t) : t[m].ext = t[k].ext /\ t[m].ext \notin d => m = k

Past(rep, t) == \A m \in Rows(rep) : m \in Rows(t) /\ t[m].ext = rep[m].ext

AsMapped(t, d, a) == \A p \in a : p[1] \notin d => UsersOf(t, p[1]) = {p[2]}

TableOK(t, rep, d, a) ==
    /\ t \in Table /\ rep \in Table /\ d \subseteq ExtUser /\ a \subseteq ExtUser \X User
    /\ Past(rep, t) /\ One(t, d) /\ AsMapped(t, d, a)

Alone(r, e) == \A q \in Request \ {r} : ~WorksIn(q, req[q], e)

(* The inductive invariant. *)
UserInv ==
    /\ TableOK(mappings, replica, disturbed, applied)
    /\ logs \in [SyncReq -> LogStatus]
    /\ req \in [Request -> RequestState]
    /\ \A r \in Request : /\ StateOK(r, req[r])
                          /\ Aware(mappings, disturbed, r, req[r])
    /\ \A r \in Request, e \in ExtUser :
         WorksIn(r, req[r], e) => e \in disturbed \/ Alone(r, e)

-----------------------------------------------------------------------------
(* Updates of a request's state are states. *)
LEMMA Updated ==
  ASSUME NEW q \in RequestState
  PROVE  /\ [q EXCEPT !.trouble = TRUE] \in RequestState
         /\ \A owed \in Nat : [q EXCEPT !.owed = owed] \in RequestState
         /\ \A pc \in PC :
              /\ [q EXCEPT !.pc = pc] \in RequestState
              /\ \A row \in MappingId \cup {NoRow} :
                   [q EXCEPT !.pc = pc, !.row = row] \in RequestState
              /\ \A user \in User \cup {NoUser} :
                   [q EXCEPT !.user = user, !.pc = pc] \in RequestState
              /\ \A todo \in Seq(Item) :
                   /\ [q EXCEPT !.pc = pc, !.todo = todo] \in RequestState
                   /\ \A user \in User \cup {NoUser}, row \in MappingId \cup {NoRow} :
                        [q EXCEPT !.pc = pc, !.todo = todo, !.user = user, !.row = row]
                           \in RequestState
                   /\ \A strategy \in Strategy, owed \in Nat :
                        [q EXCEPT !.pc = pc, !.strategy = strategy, !.todo = todo,
                                  !.owed = owed] \in RequestState
  BY Zenon DEF RequestState

LEMMA NewOK == New \in RequestState /\ NoUser \in User \cup {NoUser}
                 /\ NoRow \in MappingId \cup {NoRow}
<1>1. /\ "new" \in PC /\ <<>> \in Seq(Item) /\ NoUser \in User \cup {NoUser}
      /\ NoRow \in MappingId \cup {NoRow} /\ "none" \in Strategy \cup {"none"}
      /\ FALSE \in BOOLEAN /\ 0 \in Nat
  BY DEF PC
<1> QED BY Zenon, <1>1 DEF New, RequestState

(* The item in hand. *)
LEMMA NowOK ==
  ASSUME NEW r \in Request, NEW q, StateOK(r, q), q.todo # <<>>
  PROVE  /\ Head(q.todo) \in Item /\ Head(q.todo).ext \in ExtUser
         /\ r \in RegisterReq => Head(q.todo).user \in User
<1>1. q.todo \in Seq(Item)
  BY DEF StateOK, RequestState
<1>2. Head(q.todo) \in Item /\ Head(q.todo) = q.todo[1] /\ 1 \in 1..Len(q.todo)
  BY <1>1
<1> QED BY <1>2 DEF Item, StateOK

(* A request that has ended. *)
LEMMA EndedOK ==
  ASSUME NEW r \in Request, NEW pc \in {"done", "unlogged", "crashed"}
  PROVE  /\ StateOK(r, Ended(pc)) /\ Ended(pc).pc = pc /\ pc \notin Working(r)
<1>1. Ended(pc) \in RequestState
  BY NewOK, Updated DEF Ended, PC
<1>2. Ended(pc).pc = pc /\ Ended(pc).todo = <<>> /\ Ended(pc).owed = 0
  BY DEF Ended, New
<1>3. pc \notin {"match", "insert", "update", "apply", "find"} /\ Len(<<>>) = 0
  OBVIOUS
<1>4. pc \notin Working(r)
  BY <1>3 DEF Working
<1> HIDE DEF Ended
<1> QED BY <1>1, <1>2, <1>3, <1>4 DEF StateOK

(* The step to the next item. *)
LEMMA NextItem ==
  ASSUME NEW r \in Request, req[r] \in RequestState, StateOK(r, req[r]),
         req[r].todo # <<>>
  PROVE  /\ Next1(r) \in RequestState /\ Next1(r).pc \notin Working(r)
         /\ r \in RegisterReq => StateOK(r, Next1(r))
         /\ r \in SyncReq =>
              /\ StateOK(r, Skipped(r)) /\ Skipped(r).pc \notin Working(r)
              /\ StateOK(r, [Next1(r) EXCEPT !.owed = @ - 1])
              /\ [Next1(r) EXCEPT !.owed = @ - 1].pc \notin Working(r)
<1> DEFINE q == req[r]
           n == Next1(r)
<1>1. /\ q.todo \in Seq(Item) /\ Tail(q.todo) \in Seq(Item)
      /\ Len(Tail(q.todo)) = Len(q.todo) - 1 /\ Len(q.todo) \in Nat
      /\ \A i \in 1..Len(Tail(q.todo)) : i + 1 \in 1..Len(q.todo)
                                         /\ Tail(q.todo)[i] = q.todo[i + 1]
  BY DEF RequestState
<1>2. n \in RequestState
  <2>1. (IF r \in SyncReq THEN "item" ELSE "find") \in PC
    BY DEF PC
  <2> QED BY <1>1, <2>1, NewOK, Updated DEF Next1
<1>3. /\ n.pc = (IF r \in SyncReq THEN "item" ELSE "find")
      /\ n.todo = Tail(q.todo) /\ n.owed = q.owed /\ n.trouble = q.trouble
  BY Zenon DEF Next1, RequestState
<1>4. n.pc \notin Working(r)
  BY <1>3 DEF Working
<1>5. ASSUME r \in RegisterReq PROVE StateOK(r, n)
  <2>1. r \notin SyncReq
    BY <1>5, SyncUsersAssumption
  <2> QED BY <1>1, <1>2, <1>3, <1>4, <2>1 DEF StateOK
<1>6. ASSUME r \in SyncReq
      PROVE  /\ StateOK(r, Skipped(r)) /\ Skipped(r).pc \notin Working(r)
             /\ StateOK(r, [n EXCEPT !.owed = @ - 1])
             /\ [n EXCEPT !.owed = @ - 1].pc \notin Working(r)
  <2>1. r \notin RegisterReq /\ n.pc = "item" /\ q.owed \in Nat
    BY <1>3, <1>6, SyncUsersAssumption DEF RequestState
  <2>2. q.owed >= Len(q.todo) /\ (~q.trouble => q.owed = Len(q.todo))
    BY <1>6 DEF StateOK
  <2>3. Len(q.todo) >= 1 /\ n.owed - 1 \in Nat
    BY <1>1, <1>3, <2>1, <2>2
  <2> DEFINE a == [n EXCEPT !.owed = @ - 1]
  <2> HIDE DEF n
  <2>4. Skipped(r) \in RequestState /\ a \in RequestState
    <3>1. Skipped(r) = [n EXCEPT !.trouble = TRUE]
      BY DEF Skipped, n
    <3> QED BY <1>2, <2>3, <3>1, Updated
  <2>5. /\ Skipped(r).pc = "item" /\ Skipped(r).todo = n.todo
        /\ Skipped(r).owed = n.owed /\ Skipped(r).trouble
    BY <1>2, <2>1 DEF Skipped, RequestState, n
  <2>6. /\ a.pc = "item" /\ a.todo = n.todo
        /\ a.owed = n.owed - 1 /\ a.trouble = n.trouble
    BY <1>2, <2>1 DEF RequestState
  <2>7. "item" \notin Working(r)
    BY DEF Working
  <2>8. StateOK(r, Skipped(r))
    BY <1>1, <1>3, <2>1, <2>2, <2>4, <2>5, <2>7 DEF StateOK
  <2>9. StateOK(r, a)
    <3> HIDE DEF a
    <3> QED BY <1>1, <1>3, <2>1, <2>2, <2>4, <2>6, <2>7 DEF StateOK
  <2> QED BY <2>5, <2>6, <2>7, <2>8, <2>9 DEF n
<1> QED BY <1>2, <1>4, <1>5, <1>6

-----------------------------------------------------------------------------
(* A step of request r to the state p. *)
LEMMA RequestStep ==
  ASSUME UserInv, NEW r \in Request, NEW p, StateOK(r, p),
         req' = [req EXCEPT ![r] = p],
         disturbed \subseteq disturbed',
         TableOK(mappings', replica', disturbed', applied'),
         logs' \in [SyncReq -> LogStatus],
         Aware(mappings', disturbed', r, p),
         \A e \in ExtUser : WorksIn(r, p, e) => e \in disturbed' \/ Alone(r, e),
         \A q \in Request \ {r} : Aware(mappings', disturbed', q, req[q])
  PROVE  UserInv'
<1>1. req \in [Request -> RequestState] /\ p \in RequestState
  BY DEF UserInv, StateOK
<1>2. req' \in [Request -> RequestState]
  BY <1>1
<1>3. req'[r] = p /\ \A q \in Request \ {r} : req'[q] = req[q]
  BY <1>1
<1>4. \A q \in Request : StateOK(q, req'[q]) /\ Aware(mappings', disturbed', q, req'[q])
  BY <1>3 DEF UserInv
<1>5. ASSUME NEW q \in Request, NEW e \in ExtUser, WorksIn(q, req'[q], e),
             e \notin disturbed', NEW o \in Request \ {q}
      PROVE  ~WorksIn(o, req'[o], e)
  <2>1. CASE q = r
    BY <1>3, <1>5, <2>1 DEF Alone
  <2>2. CASE q # r
    <3>1. WorksIn(q, req[q], e) /\ e \notin disturbed
      BY <1>3, <1>5, <2>2
    <3>2. ~WorksIn(o, req[o], e)
      BY <1>5, <3>1 DEF UserInv, Alone
    <3>3. CASE o = r
      BY <1>3, <1>5, <2>2, <3>1, <3>3 DEF Alone
    <3>4. CASE o # r
      BY <1>3, <1>5, <3>2, <3>4
    <3> QED BY <3>3, <3>4
  <2> QED BY <2>1, <2>2
<1>6. \A q \in Request, e \in ExtUser :
        WorksIn(q, req'[q], e) =>
          e \in disturbed' \/ \A o \in Request \ {q} : ~WorksIn(o, req'[o], e)
  BY <1>5
<1> QED BY <1>2, <1>4, <1>6 DEF UserInv, Alone

(* A bad moment more does no harm. *)
LEMMA MoreDisturbed ==
  ASSUME NEW t, NEW d, NEW d2, d \subseteq d2, NEW r, NEW q, Aware(t, d, r, q)
  PROVE  Aware(t, d2, r, q)
  BY DEF Aware

LEMMA TableDisturbed ==
  ASSUME NEW t, NEW rep, NEW d, NEW d2, NEW a, TableOK(t, rep, d, a),
         d \subseteq d2, d2 \subseteq ExtUser
  PROVE  TableOK(t, rep, d2, a)
<1>1. One(t, d2)
  BY DEF TableOK, One
<1>2. AsMapped(t, d2, a)
  BY DEF TableOK, AsMapped
<1> QED BY <1>1, <1>2 DEF TableOK

(* A step that leaves the table and what syncs took users for alone. *)
LEMMA QuietStep ==
  ASSUME UserInv, NEW r \in Request, NEW p, StateOK(r, p),
         req' = [req EXCEPT ![r] = p],
         disturbed \subseteq disturbed', disturbed' \subseteq ExtUser,
         mappings' = mappings, replica' = replica, applied' = applied,
         logs' \in [SyncReq -> LogStatus],
         Aware(mappings, disturbed', r, p),
         \A e \in ExtUser : WorksIn(r, p, e) => e \in disturbed' \/ Alone(r, e)
  PROVE  UserInv'
<1>1. TableOK(mappings', replica', disturbed', applied')
  BY TableDisturbed DEF UserInv
<1>2. \A q \in Request \ {r} : Aware(mappings', disturbed', q, req[q])
  BY MoreDisturbed DEF UserInv
<1> QED BY <1>1, <1>2, RequestStep

(* ... and after which the request works on nobody. *)
LEMMA RestingStep ==
  ASSUME UserInv, NEW r \in Request, NEW p, StateOK(r, p), p.pc \notin Working(r),
         req' = [req EXCEPT ![r] = p],
         disturbed \subseteq disturbed', disturbed' \subseteq ExtUser,
         mappings' = mappings, replica' = replica, applied' = applied,
         logs' \in [SyncReq -> LogStatus]
  PROVE  UserInv'
<1>1. \A e \in ExtUser : ~WorksIn(r, p, e)
  BY DEF WorksIn
<1>2. Aware(mappings, disturbed', r, p)
  BY <1>1 DEF Aware
<1> QED BY <1>1, <1>2, QuietStep

(* A lookup at a good moment sees the master's rows, and nobody else works on
   the user. *)
LEMMA LookedUp ==
  ASSUME UserInv, NEW r \in Request, NEW e \in ExtUser, Met(r, e)
  PROVE  /\ disturbed \subseteq disturbed' /\ disturbed' \subseteq ExtUser
         /\ e \notin disturbed' =>
              /\ e \notin disturbed /\ Alone(r, e)
              /\ RowsOf(replica, e) = RowsOf(mappings, e)
              /\ \A m \in RowsOf(mappings, e) : replica[m] = mappings[m]
<1>1. disturbed \subseteq disturbed' /\ disturbed' \subseteq ExtUser
  BY DEF Met, UserInv, TableOK
<1>2. ASSUME e \notin disturbed'
      PROVE  /\ e \notin disturbed /\ Alone(r, e)
             /\ RowsOf(replica, e) = RowsOf(mappings, e)
             /\ \A m \in RowsOf(mappings, e) : replica[m] = mappings[m]
  <2>1. ~BadMoment(r, e) /\ e \notin disturbed
    BY <1>2 DEF Met
  <2>2. Alone(r, e)
    BY <2>1 DEF BadMoment, Alone, WorksOn, WorksIn, Working, Now
  <2>3. \A m \in RowsOf(mappings, e) : replica[m] = mappings[m]
    BY <2>1 DEF BadMoment
  <2>4. RowsOf(mappings, e) \subseteq RowsOf(replica, e)
    BY <2>3 DEF RowsOf, Rows
  <2>5. RowsOf(replica, e) \subseteq RowsOf(mappings, e)
    BY DEF UserInv, TableOK, Past, RowsOf, Rows
  <2> QED BY <2>1, <2>2, <2>3, <2>4, <2>5
<1> QED BY <1>1, <1>2

(* A used row is a mapping. *)
LEMMA UsedRow ==
  ASSUME NEW t \in Table, NEW e, NEW m \in RowsOf(t, e)
  PROVE  m \in MappingId /\ m \in Rows(t) /\ t[m] \in Mapping
           /\ t[m].ext = e /\ t[m].user \in User
<1>1. m \in MappingId /\ t[m] # Absent /\ t[m].ext = e
  BY DEF RowsOf, Rows
<1>2. t[m] \in Mapping
  BY <1>1 DEF Table
<1> QED BY <1>1, <1>2 DEF Mapping, RowsOf

(* A request that works on e writes rows of e. *)
LEMMA WriteStep ==
  ASSUME UserInv, NEW r \in Request, NEW p, StateOK(r, p),
         req' = [req EXCEPT ![r] = p],
         NEW e \in ExtUser, WorksIn(r, req[r], e), \A x \in ExtUser : WorksIn(r, p, x) => x = e,
         NEW u, mappings' = u, UNCHANGED <<replica, logs, disturbed>>,
         \A m \in Rows(mappings) : m \in Rows(u) /\ u[m].ext = mappings[m].ext,
         \A x \in ExtUser \ {e} : /\ RowsOf(u, x) = RowsOf(mappings, x)
                                 /\ UsersOf(u, x) = UsersOf(mappings, x),
         u \in Table, One(u, disturbed), AsMapped(u, disturbed, applied'),
         applied' \subseteq ExtUser \X User,
         Aware(u, disturbed, r, p)
  PROVE  UserInv'
<1>1. Past(replica, u)
  BY DEF UserInv, TableOK, Past
<1>2. TableOK(u, replica, disturbed, applied')
  BY <1>1 DEF UserInv, TableOK
<1>3. e \in disturbed \/ Alone(r, e)
  BY DEF UserInv
<1>4. ASSUME NEW q \in Request \ {r} PROVE Aware(u, disturbed, q, req[q])
  <2> SUFFICES ASSUME NEW x \in ExtUser, WorksIn(q, req[q], x)
               PROVE  /\ req[q].pc = "update" => /\ req[q].row \in RowsOf(u, x)
                                                 /\ q \in SyncReq => x \in disturbed
                      /\ req[q].pc \in {"match", "find", "insert"} /\ x \notin disturbed
                            => RowsOf(u, x) = {}
                      /\ req[q].pc = "apply" /\ x \notin disturbed
                            => UsersOf(u, x) = {req[q].user}
    BY DEF Aware
  <2>1. /\ req[q].pc = "update" => /\ req[q].row \in RowsOf(mappings, x)
                                   /\ q \in SyncReq => x \in disturbed
        /\ req[q].pc \in {"match", "find", "insert"} /\ x \notin disturbed
              => RowsOf(mappings, x) = {}
        /\ req[q].pc = "apply" /\ x \notin disturbed
              => UsersOf(mappings, x) = {req[q].user}
    BY DEF UserInv, Aware
  <2>2. RowsOf(mappings, x) \subseteq RowsOf(u, x)
    BY DEF RowsOf
  <2>3. CASE x = e
    BY <1>3, <2>1, <2>2, <2>3 DEF Alone
  <2>4. CASE x # e
    BY <2>1, <2>4
  <2> QED BY <2>3, <2>4
<1> QED BY <1>2, <1>3, <1>4, RequestStep DEF UserInv

-----------------------------------------------------------------------------
(* The actions *)

LEMMA InitUsers == Init => UserInv
<1> SUFFICES ASSUME Init PROVE UserInv
  OBVIOUS
<1>1. /\ mappings \in Table /\ replica \in Table /\ Rows(mappings) = {} /\ Rows(replica) = {}
  BY DEF Init, Table, Rows
<1>2. TableOK(mappings, replica, disturbed, applied)
  BY <1>1 DEF Init, TableOK, Past, One, AsMapped
<1>3. New.pc = "new" /\ New.todo = <<>> /\ New.owed = 0 /\ Len(<<>>) = 0
  BY DEF New
<1>4. req \in [Request -> RequestState]
  BY NewOK DEF Init
<1>5. \A r \in Request : StateOK(r, req[r]) /\ req[r].pc \notin Working(r)
  <2>1. ASSUME NEW r \in Request PROVE New.pc \notin Working(r)
    BY <1>3 DEF Working
  <2>2. ASSUME NEW r \in Request PROVE StateOK(r, New)
    BY <1>3, <2>1, NewOK DEF StateOK
  <2> QED BY <2>1, <2>2 DEF Init
<1>6. \A r \in Request, e \in ExtUser : ~WorksIn(r, req[r], e)
  BY <1>5 DEF WorksIn
<1>7. logs \in [SyncReq -> LogStatus]
  BY DEF Init, LogStatus
<1> QED BY <1>2, <1>4, <1>5, <1>6, <1>7 DEF UserInv, Aware

LEMMA Started ==
  ASSUME UserInv,
         (\E y \in SyncReq : StartSync(y)) \/ (\E g \in RegisterReq : StartRegister(g))
  PROVE  UserInv'
<1>1. ASSUME NEW y \in SyncReq, StartSync(y) PROVE UserInv'
  <2>1. PICK users \in [1..Items[y] -> ExtUser], strategy \in Configured[y] :
          Goto(y, [New EXCEPT !.pc = "item", !.strategy = strategy,
                              !.todo = [i \in 1..Items[y] |->
                                          [ext |-> users[i], user |-> NoUser]],
                              !.owed = Items[y]])
    BY <1>1 DEF StartSync, CreateSyncLog
  <2> DEFINE todo == [i \in 1..Items[y] |-> [ext |-> users[i], user |-> NoUser]]
             p == [New EXCEPT !.pc = "item", !.strategy = strategy,
                              !.todo = todo, !.owed = Items[y]]
  <2>2. y \in Request /\ Items[y] \in Nat /\ strategy \in Strategy
    BY SyncUsersAssumption DEF Request
  <2>3. \A i \in 1..Items[y] : [ext |-> users[i], user |-> NoUser] \in Item
    BY DEF Item
  <2>4. todo \in Seq(Item) /\ Len(todo) = Items[y]
    BY <2>2, <2>3
  <2> HIDE DEF todo
  <2>5. p \in RequestState
    BY <2>2, <2>4, NewOK, Updated DEF PC
  <2>6. p.pc = "item" /\ p.todo = todo /\ p.owed = Items[y]
    BY DEF New
  <2>7. Goto(y, p)
    BY <2>1 DEF todo
  <2>8. y \notin RegisterReq /\ "item" \notin Working(y)
    BY SyncUsersAssumption DEF Working
  <2>9. logs' \in [SyncReq -> LogStatus]
    BY <1>1 DEF StartSync, CreateSyncLog, UserInv, LogStatus
  <2> HIDE DEF p
  <2>10. StateOK(y, p)
    BY <2>2, <2>4, <2>5, <2>6, <2>8 DEF StateOK
  <2>11. /\ UNCHANGED <<mappings, replica, applied, disturbed>>
         /\ disturbed \subseteq ExtUser
    BY <1>1 DEF StartSync, CreateSyncLog, UserInv, TableOK
  <2> QED BY <2>2, <2>6, <2>7, <2>8, <2>9, <2>10, <2>11, RestingStep DEF Goto
<1>2. ASSUME NEW g \in RegisterReq, StartRegister(g) PROVE UserInv'
  <2>1. PICK items \in [1..Items[g] -> [ext : ExtUser, user : User]] :
          Goto(g, [New EXCEPT !.pc = "find", !.todo = items])
    BY <1>2 DEF StartRegister
  <2> DEFINE p == [New EXCEPT !.pc = "find", !.todo = items]
  <2>2. g \in Request /\ Items[g] \in Nat /\ g \notin SyncReq
    BY SyncUsersAssumption DEF Request
  <2>3. /\ items \in Seq(Item) /\ Len(items) = Items[g]
        /\ \A i \in 1..Items[g] : items[i].user \in User
    <3>1. \A i \in 1..Items[g] : items[i] \in Item /\ items[i].user \in User
      BY DEF Item
    <3> QED BY <2>2, <3>1
  <2>4. p \in RequestState
    BY <2>3, NewOK, Updated DEF PC
  <2>5. p.pc = "find" /\ p.todo = items
    BY DEF New
  <2>6. Goto(g, p) /\ "find" \notin Working(g)
    BY <2>1, <2>2 DEF Working
  <2> HIDE DEF p
  <2>7. StateOK(g, p)
    BY <2>2, <2>3, <2>4, <2>5, <2>6 DEF StateOK
  <2>8. /\ UNCHANGED <<mappings, replica, logs, applied, disturbed>>
        /\ disturbed \subseteq ExtUser /\ logs \in [SyncReq -> LogStatus]
    BY <1>2 DEF StartRegister, UserInv, TableOK
  <2> QED BY <2>2, <2>5, <2>6, <2>7, <2>8, RestingStep DEF Goto
<1> QED BY <1>1, <1>2

(* The actions of a sync that write to no row. *)
LEMMA SyncReads ==
  ASSUME UserInv, NEW y \in SyncReq,
         ItemWithoutNode(y) \/ LookupMapping(y) \/ Match(y) \/ Finish(y)
  PROVE  UserInv'
<1>0. /\ y \in Request /\ y \notin RegisterReq
      /\ req[y] \in RequestState /\ StateOK(y, req[y])
      /\ Aware(mappings, disturbed, y, req[y])
      /\ disturbed \subseteq ExtUser /\ logs \in [SyncReq -> LogStatus]
      /\ mappings \in Table /\ replica \in Table
  BY SyncUsersAssumption DEF Request, UserInv, TableOK
<1>1. CASE ItemWithoutNode(y)
  <2>1. /\ Goto(y, Skipped(y)) /\ req[y].todo # <<>>
        /\ UNCHANGED <<mappings, replica, logs, applied, disturbed>>
    BY <1>1 DEF ItemWithoutNode, AtItem, Skipped
  <2>2. StateOK(y, Skipped(y)) /\ Skipped(y).pc \notin Working(y)
    BY <1>0, <2>1, NextItem
  <2> QED BY <1>0, <2>1, <2>2, RestingStep DEF Goto
<1>2. CASE LookupMapping(y)
  <2> DEFINE e == Now(y).ext
             q == req[y]
             match == [q EXCEPT !.pc = "match"]
             known(u) == [q EXCEPT !.user = u, !.pc = "apply"]
  <2>1. /\ q.pc = "item" /\ q.todo # <<>> /\ UNCHANGED <<mappings, replica, applied, logs>>
    BY <1>2 DEF LookupMapping, AtItem, At
  <2>2. e \in ExtUser
    BY <1>0, <2>1, NowOK DEF Now
  <2>3. q.owed >= Len(q.todo) /\ (~q.trouble => q.owed = Len(q.todo))
    BY <1>0 DEF StateOK
  <2>4. CASE Goto(y, Skipped(y)) /\ (Met(y, e) \/ Disturbs(y, e))
    <3>1. StateOK(y, Skipped(y)) /\ Skipped(y).pc \notin Working(y)
      BY <1>0, <2>1, NextItem
    <3>2. disturbed \subseteq disturbed' /\ disturbed' \subseteq ExtUser
      BY <1>0, <2>2, <2>4 DEF Met, Disturbs
    <3> QED BY <1>0, <2>1, <2>4, <3>1, <3>2, RestingStep DEF Goto
  <2>5. CASE Goto(y, match) /\ ((Met(y, e) /\ RowsOf(replica, e) = {}) \/ Disturbs(y, e))
    <3>1. match \in RequestState
      BY <1>0, Updated DEF PC
    <3>2. /\ match.pc = "match" /\ match.todo = q.todo /\ match.owed = q.owed
          /\ match.trouble = q.trouble
      BY <1>0 DEF RequestState
    <3>3. /\ disturbed \subseteq disturbed' /\ disturbed' \subseteq ExtUser
          /\ e \notin disturbed' => RowsOf(mappings, e) = {} /\ Alone(y, e)
      BY <1>0, <2>2, <2>5, LookedUp DEF Disturbs
    <3> HIDE DEF match
    <3>4. StateOK(y, match)
      BY <1>0, <2>1, <2>3, <3>1, <3>2 DEF StateOK
    <3>5. \A x \in ExtUser : WorksIn(y, match, x) => x = e
      BY <3>2 DEF WorksIn, Now
    <3>6. Aware(mappings, disturbed', y, match)
      BY <3>2, <3>3, <3>5 DEF Aware
    <3> QED BY <1>0, <2>1, <2>5, <3>3, <3>4, <3>5, <3>6, QuietStep DEF Goto
  <2>6. CASE Met(y, e) /\ \E m \in RowsOf(replica, e) : Goto(y, known(replica[m].user))
    <3>1. PICK m \in RowsOf(replica, e) : Goto(y, known(replica[m].user))
      BY <2>6
    <3> DEFINE u == replica[m].user
               p == known(u)
    <3>2. u \in User /\ m \in RowsOf(mappings, e)
      BY <1>0, UsedRow DEF UserInv, TableOK, Past, RowsOf
    <3>3. p \in RequestState
      BY <1>0, <3>2, Updated DEF PC
    <3>4. /\ p.pc = "apply" /\ p.todo = q.todo /\ p.owed = q.owed
          /\ p.trouble = q.trouble /\ p.user = u
      BY <1>0 DEF RequestState
    <3>5. /\ disturbed \subseteq disturbed' /\ disturbed' \subseteq ExtUser
          /\ e \notin disturbed' => /\ mappings[m].user = u /\ Alone(y, e)
                                   /\ e \notin disturbed
      BY <2>2, <1>0, <2>6, <3>2, LookedUp
    <3>6. e \notin disturbed' => UsersOf(mappings, e) = {u}
      <4>1. \A k \in RowsOf(mappings, e) : k \in Rows(mappings) /\ mappings[k].ext = e
        BY DEF RowsOf
      <4>2. e \notin disturbed => \A k \in RowsOf(mappings, e) : k = m
        BY <3>2, <4>1 DEF UserInv, TableOK, One
      <4> QED BY <3>2, <3>5, <4>2 DEF UsersOf
    <3>7. Goto(y, p)
      BY <3>1
    <3> HIDE DEF p, u
    <3>8. StateOK(y, p)
      BY <1>0, <2>1, <2>3, <3>2, <3>3, <3>4 DEF StateOK
    <3>9. \A x \in ExtUser : WorksIn(y, p, x) => x = e
      BY <3>4 DEF WorksIn, Now
    <3>10. Aware(mappings, disturbed', y, p)
      BY <3>4, <3>6, <3>9 DEF Aware
    <3> QED BY <1>0, <2>1, <3>5, <3>7, <3>8, <3>9, <3>10, QuietStep DEF Goto
  <2> QED BY <1>2, <2>4, <2>5, <2>6 DEF LookupMapping, Known
<1>3. CASE Match(y)
  <2> DEFINE q == req[y]
             e == Now(y).ext
             found == ToSet(Candidates(e, q.strategy))
             known(u) == [q EXCEPT !.user = u, !.pc = "find"]
  <2>1. /\ q.pc = "match" /\ UNCHANGED <<mappings, replica, logs, applied, disturbed>>
        /\ q.todo # <<>>
    BY <1>0, <1>3 DEF Match, At, StateOK, Working
  <2>2. q.owed >= Len(q.todo) /\ (~q.trouble => q.owed = Len(q.todo))
    BY <1>0 DEF StateOK
  <2>3. CASE Goto(y, Skipped(y))
    <3>1. StateOK(y, Skipped(y)) /\ Skipped(y).pc \notin Working(y)
      BY <1>0, <2>1, NextItem
    <3> QED BY <1>0, <2>1, <2>3, <3>1, RestingStep DEF Goto
  <2>4. CASE \E u \in found \ {NoUser} : Goto(y, known(u))
    <3>1. PICK u \in found \ {NoUser} : Goto(y, known(u))
      BY <2>4
    <3> DEFINE p == known(u)
    <3>2. e \in ExtUser
      BY <1>0, <2>1, NowOK DEF Now
    <3>3. u \in User
      <4>1. found \subseteq {ByEmail[e], ByLowerEmail[e], ByUsername[e]}
        BY DEF ToSet, Candidates
      <4> QED BY <3>1, <3>2, <4>1, SyncUsersAssumption
    <3>4. p \in RequestState
      BY <1>0, <3>3, Updated DEF PC
    <3>5. /\ p.pc = "find" /\ p.todo = q.todo /\ p.owed = q.owed
          /\ p.trouble = q.trouble /\ p.user = u
      BY <1>0 DEF RequestState
    <3>6. Goto(y, p)
      BY <3>1
    <3> HIDE DEF p
    <3>7. StateOK(y, p)
      BY <1>0, <2>1, <2>2, <3>3, <3>4, <3>5 DEF StateOK
    <3>8. \A x \in ExtUser : WorksIn(y, p, x) => WorksIn(y, q, x)
      BY <2>1, <3>5 DEF WorksIn, Working
    <3>9. Aware(mappings, disturbed, y, p)
      BY <1>0, <2>1, <3>5, <3>8 DEF Aware
    <3>10. \A x \in ExtUser : WorksIn(y, p, x) => x \in disturbed \/ Alone(y, x)
      BY <1>0, <3>8 DEF UserInv
    <3> QED BY <1>0, <2>1, <3>6, <3>7, <3>9, <3>10, QuietStep DEF Goto
  <2> QED BY <1>3, <2>3, <2>4 DEF Match, Known
<1>4. CASE Finish(y)
  <2>1. PICK pc \in {"done", "unlogged"} : Goto(y, Ended(pc))
    BY <1>4 DEF Finish, UpdateSyncLog
  <2>2. UNCHANGED <<mappings, replica, applied, disturbed>> /\ logs' \in [SyncReq -> LogStatus]
    BY <1>0, <1>4 DEF Finish, UpdateSyncLog, Verdicts, LogStatus
  <2>3. StateOK(y, Ended(pc)) /\ Ended(pc).pc \notin Working(y)
    BY <1>0, EndedOK
  <2> QED BY <1>0, <2>1, <2>2, <2>3, RestingStep DEF Goto
<1> QED BY <1>1, <1>2, <1>3, <1>4

(* What follows UpsertUserMapping: a sync applies the account in hand, a
   registration goes on to its next item. *)
LEMMA UpsertedOK ==
  ASSUME NEW r \in Request, req[r] \in RequestState, StateOK(r, req[r]),
         req[r].todo # <<>>,
         r \in SyncReq => req[r].user \in User
  PROVE  /\ StateOK(r, Upserted(r))
         /\ r \in SyncReq =>
              /\ Upserted(r).pc = "apply" /\ Upserted(r).user = req[r].user
              /\ Upserted(r).todo = req[r].todo
         /\ r \notin SyncReq => Upserted(r).pc \notin Working(r)
<1>0. r \in SyncReq <=> r \notin RegisterReq
  BY SyncUsersAssumption DEF Request
<1>1. CASE r \in RegisterReq
  <2>1. Upserted(r) = Next1(r)
    BY <1>0, <1>1 DEF Upserted
  <2> QED BY <1>0, <1>1, <2>1, NextItem
<1>2. CASE r \in SyncReq
  <2> DEFINE q == req[r]
             p == [q EXCEPT !.pc = "apply", !.row = NoRow]
  <2>1. p \in RequestState
    BY NewOK, Updated DEF PC
  <2>2. /\ p.pc = "apply" /\ p.todo = q.todo /\ p.owed = q.owed
        /\ p.trouble = q.trouble /\ p.user = q.user
    BY DEF RequestState
  <2>3. Upserted(r) = p
    BY <1>2 DEF Upserted
  <2>4. q.owed >= Len(q.todo) /\ (~q.trouble => q.owed = Len(q.todo))
    BY <1>2 DEF StateOK
  <2> HIDE DEF p
  <2>5. StateOK(r, p)
    BY <1>0, <1>2, <2>1, <2>2, <2>4 DEF StateOK
  <2> QED BY <1>2, <2>2, <2>3, <2>5
<1> QED BY <1>0, <1>1, <1>2

(* The lookup of UpsertUserMapping. *)
LEMMA RowFound ==
  ASSUME UserInv, NEW r \in Request, FindRow(r)
  PROVE  UserInv'
<1> DEFINE q == req[r]
           e == Now(r).ext
           insert == [q EXCEPT !.pc = "insert"]
           update(m) == [q EXCEPT !.pc = "update", !.row = m]
<1>0. /\ q \in RequestState /\ StateOK(r, q) /\ Aware(mappings, disturbed, r, q)
      /\ disturbed \subseteq ExtUser /\ logs \in [SyncReq -> LogStatus]
      /\ mappings \in Table /\ replica \in Table
      /\ r \in SyncReq <=> r \notin RegisterReq
  BY SyncUsersAssumption DEF Request, UserInv, TableOK
<1>1. /\ q.pc = "find" /\ q.todo # <<>> /\ UNCHANGED <<mappings, replica, applied, logs>>
  BY DEF FindRow, AtFind, At
<1>2. /\ e \in ExtUser
      /\ r \in SyncReq => /\ q.owed >= Len(q.todo) /\ (~q.trouble => q.owed = Len(q.todo))
                          /\ q.user \in User
      /\ r \in RegisterReq => \A i \in 1..Len(q.todo) : q.todo[i].user \in User
  BY <1>0, <1>1, NowOK DEF Now, StateOK
<1>3. CASE Met(r, e) /\ \E m \in RowsOf(replica, e) : Goto(r, update(m))
  <2>1. PICK m \in RowsOf(replica, e) : Goto(r, update(m))
    BY <1>3
  <2> DEFINE p == update(m)
  <2>2. m \in MappingId /\ m \in RowsOf(mappings, e)
    BY <1>0, UsedRow DEF UserInv, TableOK, Past, RowsOf
  <2>3. p \in RequestState
    BY <1>0, <2>2, Updated DEF PC
  <2>4. /\ p.pc = "update" /\ p.todo = q.todo /\ p.owed = q.owed
        /\ p.trouble = q.trouble /\ p.user = q.user /\ p.row = m
    BY <1>0 DEF RequestState
  <2>5. /\ disturbed \subseteq disturbed' /\ disturbed' \subseteq ExtUser
        /\ e \notin disturbed' => e \notin disturbed /\ Alone(r, e)
    BY <1>2, <1>3, LookedUp
  <2>6. r \in SyncReq => e \in disturbed'
    <3>1. r \in SyncReq => WorksIn(r, q, e)
      BY <1>1 DEF WorksIn, Working, Now
    <3> QED BY <1>0, <1>1, <1>2, <2>2, <2>5, <3>1 DEF Aware
  <2>7. Goto(r, p)
    BY <2>1
  <2> HIDE DEF p
  <2>8. StateOK(r, p)
    BY <1>0, <1>1, <1>2, <2>3, <2>4 DEF StateOK
  <2>9. \A x \in ExtUser : WorksIn(r, p, x) => x = e
    BY <2>4 DEF WorksIn, Now
  <2>10. Aware(mappings, disturbed', r, p)
    BY <2>2, <2>4, <2>6, <2>9 DEF Aware
  <2> QED BY <1>0, <1>1, <2>5, <2>7, <2>8, <2>9, <2>10, QuietStep DEF Goto
<1>4. CASE RowsOf(replica, e) = {} /\ Goto(r, insert) /\ Met(r, e)
  <2>1. insert \in RequestState
    BY <1>0, Updated DEF PC
  <2>2. /\ insert.pc = "insert" /\ insert.todo = q.todo /\ insert.owed = q.owed
        /\ insert.trouble = q.trouble /\ insert.user = q.user
    BY <1>0 DEF RequestState
  <2>3. /\ disturbed \subseteq disturbed' /\ disturbed' \subseteq ExtUser
        /\ e \notin disturbed' => RowsOf(mappings, e) = {} /\ Alone(r, e)
    BY <1>2, <1>4, LookedUp
  <2> HIDE DEF insert
  <2>4. StateOK(r, insert)
    BY <1>0, <1>1, <1>2, <2>1, <2>2 DEF StateOK
  <2>5. \A x \in ExtUser : WorksIn(r, insert, x) => x = e
    BY <2>2 DEF WorksIn, Now
  <2>6. Aware(mappings, disturbed', r, insert)
    BY <2>2, <2>3, <2>5 DEF Aware
  <2> QED BY <1>0, <1>1, <1>4, <2>3, <2>4, <2>5, <2>6, QuietStep DEF Goto
<1>5. CASE Goto(r, Upserted(r)) /\ Disturbs(r, e)
  <2>1. disturbed \subseteq disturbed' /\ disturbed' \subseteq ExtUser
    BY <1>0, <1>2, <1>5 DEF Disturbs
  <2> DEFINE p == Upserted(r)
  <2>2. /\ StateOK(r, p) /\ (r \notin SyncReq => p.pc \notin Working(r))
        /\ r \in SyncReq => p.pc = "apply" /\ p.todo = q.todo /\ e \in disturbed'
    BY <1>0, <1>1, <1>2, <1>5, UpsertedOK DEF Disturbs
  <2> HIDE DEF p
  <2>3. \A x \in ExtUser : WorksIn(r, p, x) => r \in SyncReq /\ x = e
    BY <2>2 DEF WorksIn, Now
  <2>4. Aware(mappings, disturbed', r, p)
    BY <2>2, <2>3 DEF Aware
  <2> QED BY <1>0, <1>1, <1>5, <2>1, <2>2, <2>3, <2>4, QuietStep DEF Goto, p
<1> QED BY <1>3, <1>4, <1>5 DEF FindRow

(* Both writes, when they fail. *)
LEMMA NothingWritten ==
  ASSUME UserInv, NEW r \in Request, req[r].pc \in {"insert", "update"},
         Goto(r, Upserted(r)), Disturbs(r, Now(r).ext),
         UNCHANGED <<mappings, replica, logs, applied>>
  PROVE  UserInv'
<1> DEFINE q == req[r]
           e == Now(r).ext
           p == Upserted(r)
<1>0. /\ q \in RequestState /\ StateOK(r, q) /\ q.todo # <<>>
      /\ disturbed \subseteq ExtUser /\ logs \in [SyncReq -> LogStatus]
      /\ r \in SyncReq => q.user \in User
  BY DEF UserInv, TableOK, StateOK, Working
<1>1. e \in ExtUser
  BY <1>0, NowOK DEF Now
<1>2. disturbed \subseteq disturbed' /\ disturbed' \subseteq ExtUser
  BY <1>0, <1>1 DEF Disturbs
<1>3. /\ StateOK(r, p) /\ (r \notin SyncReq => p.pc \notin Working(r))
      /\ r \in SyncReq => p.pc = "apply" /\ p.todo = q.todo /\ e \in disturbed'
  BY <1>0, UpsertedOK DEF Disturbs
<1> HIDE DEF p
<1>4. \A x \in ExtUser : WorksIn(r, p, x) => r \in SyncReq /\ x = e
  BY <1>3 DEF WorksIn, Now
<1>5. Aware(mappings, disturbed', r, p)
  BY <1>3, <1>4 DEF Aware
<1> QED BY <1>0, <1>2, <1>3, <1>4, <1>5, QuietStep DEF Goto, p

LEMMA RowUpdated ==
  ASSUME UserInv, NEW r \in Request, UpdateRow(r)
  PROVE  UserInv'
<1> DEFINE q == req[r]
           e == Now(r).ext
           p == Upserted(r)
           a == Account(r)
           u == [mappings EXCEPT ![q.row].user = a]
<1>0. /\ q \in RequestState /\ StateOK(r, q) /\ Aware(mappings, disturbed, r, q)
      /\ mappings \in Table /\ applied \subseteq ExtUser \X User
      /\ r \in SyncReq <=> r \notin RegisterReq
  BY SyncUsersAssumption DEF Request, UserInv, TableOK
<1>1. /\ q.pc = "update" /\ q.todo # <<>> /\ Goto(r, p) /\ UNCHANGED <<replica, logs>>
      /\ r \in SyncReq => q.user \in User
  BY <1>0 DEF UpdateRow, At, StateOK, Working
<1>2. e \in ExtUser /\ a \in User
  BY <1>0, <1>1, NowOK DEF Now, Account
<1>3. WorksIn(r, q, e)
  BY <1>1 DEF WorksIn, Working, Now
<1>4. q.row \in RowsOf(mappings, e) /\ (r \in SyncReq => e \in disturbed)
  BY <1>0, <1>1, <1>2, <1>3 DEF Aware
<1>5. CASE mappings' = u /\ Registers(r, e) /\ UNCHANGED disturbed
  <2>1. q.row \in MappingId /\ mappings[q.row] \in Mapping /\ mappings[q.row].ext = e
    BY <1>0, <1>4, UsedRow
  <2>2. /\ [mappings[q.row] EXCEPT !.user = a] \in Mapping
        /\ [mappings[q.row] EXCEPT !.user = a].ext = e
    BY <1>2, <2>1 DEF Mapping
  <2>3. /\ u[q.row] = [mappings[q.row] EXCEPT !.user = a]
        /\ \A m \in MappingId \ {q.row} : u[m] = mappings[m]
        /\ u \in Table
    BY <1>0, <2>1, <2>2 DEF Table
  <2>4. Absent \notin Mapping
    BY DEF Absent, Mapping
  <2> HIDE DEF u
  <2>5. Rows(u) = Rows(mappings)
    BY <2>1, <2>2, <2>3, <2>4 DEF Rows
  <2>6. \A m \in Rows(mappings) : u[m].ext = mappings[m].ext
    BY <2>1, <2>2, <2>3 DEF Rows
  <2>7. \A x \in ExtUser \ {e} : /\ RowsOf(u, x) = RowsOf(mappings, x)
                                /\ UsersOf(u, x) = UsersOf(mappings, x)
    <3>1. ASSUME NEW x \in ExtUser \ {e}
          PROVE  /\ RowsOf(u, x) = RowsOf(mappings, x)
                 /\ \A m \in RowsOf(mappings, x) : u[m] = mappings[m]
      BY <2>1, <2>3, <2>5, <2>6 DEF RowsOf, Rows
    <3> QED BY <3>1 DEF UsersOf
  <2>8. One(u, disturbed)
    BY <2>5, <2>6 DEF One, UserInv, TableOK
  <2>9. /\ applied' \subseteq applied
        /\ \A x \in applied' : x[1] \notin disturbed => x[1] # e
    BY <1>0, <1>4, <1>5 DEF Registers
  <2>10. AsMapped(u, disturbed, applied')
    <3> SUFFICES ASSUME NEW x \in applied', x[1] \notin disturbed
                 PROVE  UsersOf(u, x[1]) = {x[2]}
      BY DEF AsMapped
    <3>1. x \in applied /\ x[1] \in ExtUser \ {e}
      BY <1>0, <2>9
    <3> QED BY <2>7, <3>1 DEF UserInv, TableOK, AsMapped
  <2>11. /\ StateOK(r, p) /\ (r \notin SyncReq => p.pc \notin Working(r))
         /\ r \in SyncReq => p.pc = "apply" /\ p.todo = q.todo
    BY <1>0, <1>1, UpsertedOK
  <2> HIDE DEF p
  <2>12. \A x \in ExtUser : WorksIn(r, p, x) => r \in SyncReq /\ x = e
    BY <2>11 DEF WorksIn, Now
  <2>13. Aware(u, disturbed, r, p)
    BY <1>4, <2>11, <2>12 DEF Aware
  <2> QED BY <1>0, <1>1, <1>2, <1>3, <1>5, <2>3, <2>5, <2>6, <2>7, <2>8, <2>9, <2>10,
             <2>11, <2>12, <2>13, WriteStep DEF Goto
<1>6. CASE Disturbs(r, e) /\ UNCHANGED <<mappings, applied>>
  BY <1>1, <1>6, NothingWritten
<1> QED BY <1>5, <1>6 DEF UpdateRow

LEMMA RowInserted ==
  ASSUME UserInv, NEW r \in Request, InsertRow(r)
  PROVE  UserInv'
<1> DEFINE q == req[r]
           e == Now(r).ext
           p == Upserted(r)
           a == Account(r)
           free == MappingId \ Rows(mappings)
           n == CHOOSE m \in free : TRUE
           u == [mappings EXCEPT ![n] = [ext |-> e, user |-> a]]
<1>0. /\ q \in RequestState /\ StateOK(r, q) /\ Aware(mappings, disturbed, r, q)
      /\ mappings \in Table /\ applied \subseteq ExtUser \X User
      /\ r \in SyncReq <=> r \notin RegisterReq
  BY SyncUsersAssumption DEF Request, UserInv, TableOK
<1>1. /\ q.pc = "insert" /\ q.todo # <<>> /\ Goto(r, p) /\ UNCHANGED <<replica, logs>>
      /\ r \in SyncReq => q.user \in User
  BY <1>0 DEF InsertRow, At, StateOK, Working
<1>2. e \in ExtUser /\ a \in User
  BY <1>0, <1>1, NowOK DEF Now, Account
<1>3. WorksIn(r, q, e)
  BY <1>1 DEF WorksIn, Working, Now
<1>4. e \notin disturbed => RowsOf(mappings, e) = {}
  BY <1>0, <1>1, <1>2, <1>3 DEF Aware
<1>5. CASE free # {} /\ mappings' = u /\ Registers(r, e) /\ UNCHANGED disturbed
  <2>1. n \in MappingId /\ n \notin Rows(mappings)
    BY <1>5
  <2> HIDE DEF n
  <2>2. [ext |-> e, user |-> a] \in Mapping /\ Absent \notin Mapping
    BY <1>2 DEF Mapping, Absent
  <2>3. /\ u[n] = [ext |-> e, user |-> a]
        /\ \A m \in MappingId \ {n} : u[m] = mappings[m]
        /\ u \in Table
    BY <1>0, <2>1, <2>2 DEF Table
  <2>4. u[n].ext = e /\ u[n].user = a /\ u[n] # Absent
    BY <2>2, <2>3
  <2> HIDE DEF u
  <2>5. Rows(u) = Rows(mappings) \cup {n}
    BY <2>1, <2>3, <2>4 DEF Rows
  <2>6. \A m \in Rows(mappings) : m # n /\ u[m] = mappings[m]
    BY <2>1, <2>3 DEF Rows
  <2>7. \A x \in ExtUser \ {e} : /\ RowsOf(u, x) = RowsOf(mappings, x)
                                /\ UsersOf(u, x) = UsersOf(mappings, x)
    <3>1. ASSUME NEW x \in ExtUser \ {e}
          PROVE  /\ RowsOf(u, x) = RowsOf(mappings, x)
                 /\ \A m \in RowsOf(mappings, x) : u[m] = mappings[m]
      BY <2>4, <2>5, <2>6 DEF RowsOf
    <3> QED BY <3>1 DEF UsersOf
  <2>8. e \notin disturbed => RowsOf(u, e) = {n} /\ UsersOf(u, e) = {a}
    <3>1. e \notin disturbed => RowsOf(u, e) = {n}
      BY <1>4, <2>4, <2>5, <2>6 DEF RowsOf
    <3> QED BY <2>4, <3>1 DEF UsersOf
  <2>9. One(u, disturbed)
    <3> SUFFICES ASSUME NEW m \in Rows(u), NEW k \in Rows(u),
                        u[m].ext = u[k].ext, u[m].ext \notin disturbed
                 PROVE  m = k
      BY DEF One
    <3> HIDE DEF e
    <3>1. CASE u[m].ext = e
      <4>1. m \in RowsOf(u, e) /\ k \in RowsOf(u, e) /\ e \notin disturbed
        BY <3>1 DEF RowsOf
      <4> QED BY <2>8, <4>1
    <3>2. CASE u[m].ext # e
      <4>1. m \in Rows(mappings) /\ k \in Rows(mappings)
        BY <2>4, <2>5, <3>2
      <4> QED BY <2>6, <4>1 DEF One, UserInv, TableOK
    <3> QED BY <3>1, <3>2
  <2>10. applied' \subseteq applied /\ AsMapped(u, disturbed, applied')
    <3>1. applied' \subseteq applied
      BY <1>5 DEF Registers
    <3> SUFFICES ASSUME NEW x \in applied', x[1] \notin disturbed
                 PROVE  UsersOf(u, x[1]) = {x[2]}
      BY <3>1 DEF AsMapped
    <3>2. x \in applied /\ x[1] \in ExtUser /\ UsersOf(mappings, x[1]) = {x[2]}
      BY <1>0, <3>1 DEF UserInv, TableOK, AsMapped
    <3>3. x[1] # e
      <4>1. UsersOf(mappings, x[1]) # {}
        BY <3>2
      <4>2. RowsOf(mappings, x[1]) # {}
        BY <4>1 DEF UsersOf
      <4> QED BY <1>4, <4>2
    <3> QED BY <2>7, <3>2, <3>3
  <2>11. /\ StateOK(r, p) /\ (r \notin SyncReq => p.pc \notin Working(r))
         /\ r \in SyncReq => p.pc = "apply" /\ p.todo = q.todo /\ p.user = a
    BY <1>0, <1>1, UpsertedOK DEF Account
  <2> HIDE DEF p
  <2>12. \A x \in ExtUser : WorksIn(r, p, x) => r \in SyncReq /\ x = e
    BY <2>11 DEF WorksIn, Now
  <2>13. Aware(u, disturbed, r, p)
    BY <2>8, <2>11, <2>12 DEF Aware
  <2>14. \A m \in Rows(mappings) : m \in Rows(u) /\ u[m].ext = mappings[m].ext
    BY <2>5, <2>6
  <2>15. mappings' = u
    BY <1>5 DEF u, n
  <2>16. req' = [req EXCEPT ![r] = p] /\ UNCHANGED disturbed
    BY <1>1, <1>5 DEF Goto, p
  <2>17. /\ applied' \subseteq ExtUser \X User /\ WorksIn(r, req[r], e)
         /\ \A x \in ExtUser : WorksIn(r, p, x) => x = e
    BY <1>0, <1>3, <2>10, <2>12
  <2> HIDE DEF a, e, q
  <2> QED BY <1>1, <1>2, <2>3, <2>7, <2>9, <2>10, <2>11, <2>13, <2>14, <2>15,
             <2>16, <2>17, WriteStep
<1>6. CASE Disturbs(r, e) /\ UNCHANGED <<mappings, applied>>
  BY <1>1, <1>6, NothingWritten
<1> QED BY <1>5, <1>6 DEF InsertRow

LEMMA ItemApplied ==
  ASSUME UserInv, NEW y \in SyncReq, Apply(y)
  PROVE  UserInv'
<1> DEFINE q == req[y]
           e == Now(y).ext
           done == [Next1(y) EXCEPT !.owed = @ - 1]
<1>0. /\ y \in Request /\ q \in RequestState /\ StateOK(y, q)
      /\ Aware(mappings, disturbed, y, q)
      /\ TableOK(mappings, replica, disturbed, applied)
      /\ disturbed \subseteq ExtUser /\ logs \in [SyncReq -> LogStatus]
  BY DEF Request, UserInv, TableOK
<1>1. /\ q.pc = "apply" /\ q.todo # <<>> /\ q.user \in User
      /\ UNCHANGED <<mappings, replica, logs, disturbed>>
  BY <1>0 DEF Apply, At, StateOK, Working
<1>2. e \in ExtUser
  BY <1>0, <1>1, NowOK DEF Now
<1>3. CASE Goto(y, done) /\ applied' = applied \cup {<<e, Account(y)>>}
  <2>1. StateOK(y, done) /\ done.pc \notin Working(y)
    BY <1>0, <1>1, NextItem
  <2>2. Account(y) = q.user
    BY DEF Account
  <2>3. e \notin disturbed => UsersOf(mappings, e) = {q.user}
    BY <1>0, <1>1, <1>2 DEF Aware, WorksIn, Working, Now
  <2>4. TableOK(mappings', replica', disturbed', applied')
    <3>1. AsMapped(mappings, disturbed, applied')
      <4> HIDE DEF e, q
      <4> QED BY <1>0, <1>3, <2>2, <2>3 DEF AsMapped, TableOK
    <3>2. applied' \subseteq ExtUser \X User
      BY <1>0, <1>1, <1>2, <1>3, <2>2 DEF TableOK
    <3> QED BY <1>0, <1>1, <3>1, <3>2 DEF TableOK
  <2> HIDE DEF done
  <2>5. \A x \in ExtUser : ~WorksIn(y, done, x)
    BY <2>1 DEF WorksIn
  <2>6. Aware(mappings', disturbed', y, done)
    BY <2>5 DEF Aware
  <2>7. \A o \in Request \ {y} : Aware(mappings', disturbed', o, req[o])
    BY <1>1 DEF UserInv
  <2> QED BY <1>0, <1>1, <1>3, <2>1, <2>4, <2>5, <2>6, <2>7, RequestStep DEF Goto
<1>4. CASE Goto(y, Skipped(y)) /\ UNCHANGED applied
  <2>1. StateOK(y, Skipped(y)) /\ Skipped(y).pc \notin Working(y)
    BY <1>0, <1>1, NextItem
  <2> QED BY <1>0, <1>1, <1>4, <2>1, RestingStep DEF Goto
<1> QED BY <1>3, <1>4 DEF Apply, Skipped

LEMMA RequestOver ==
  ASSUME UserInv, NEW r \in Request, (r \in RegisterReq /\ Registered(r)) \/ Crash(r)
  PROVE  UserInv'
<1>1. PICK pc \in {"done", "crashed"} : Goto(r, Ended(pc))
  BY DEF Registered, Crash
<1>2. UNCHANGED <<mappings, replica, logs, applied, disturbed>>
  BY DEF Registered, Crash
<1>3. StateOK(r, Ended(pc)) /\ Ended(pc).pc \notin Working(r)
  BY EndedOK
<1>4. disturbed \subseteq ExtUser /\ logs \in [SyncReq -> LogStatus]
  BY DEF UserInv, TableOK
<1> QED BY <1>1, <1>2, <1>3, <1>4, RestingStep DEF Goto

(* The replica catches up, or nothing happens at all. *)
LEMMA RequestsIdle ==
  ASSUME UserInv, Replicate \/ UNCHANGED vars
  PROVE  UserInv'
<1>1. UNCHANGED <<mappings, logs, req, applied, disturbed>> /\ replica' \in {replica, mappings}
  BY DEF Replicate, vars
<1>2. Past(mappings, mappings) /\ Past(replica, mappings)
  BY DEF Past, UserInv, TableOK
<1>3. TableOK(mappings', replica', disturbed', applied')
  BY <1>1, <1>2 DEF UserInv, TableOK
<1> QED BY <1>1, <1>3 DEF UserInv, Alone

LEMMA NextUsers == UserInv /\ [Next]_vars => UserInv'
<1> SUFFICES ASSUME UserInv, [Next]_vars PROVE UserInv'
  OBVIOUS
<1>1. \A y \in SyncReq : y \in Request
  BY DEF Request
<1>2. ASSUME NEW r \in Request, Step(r) PROVE UserInv'
  BY <1>2, SyncReads, RowFound, RowUpdated, RowInserted, ItemApplied, RequestOver
     DEF Step, SyncStep
<1> QED BY <1>2, Started, RequestOver, RequestsIdle DEF Next

-----------------------------------------------------------------------------
(* The inductive invariant: what each request knows of the table is true. *)
THEOREM UserInvariant == Spec => []UserInv
  BY InitUsers, NextUsers, PTL DEF Spec

(* Table, replica, logs, requests and histories keep their types. *)
THEOREM SyncUsersTypeCorrect == Spec => []TypeOK
<1>1. UserInv => TypeOK
  BY DEF UserInv, TypeOK, TableOK, Table
<1> QED BY <1>1, UserInvariant, PTL

(* Only a bad moment gives an external user a second mapping. *)
THEOREM UsersHaveOneMapping == Spec => []OneMapping
<1>1. UserInv => OneMapping
  BY DEF UserInv, OneMapping, TableOK, One
<1> QED BY <1>1, UserInvariant, PTL

(* Whoever a sync took for an account is mapped to it from then on. *)
THEOREM UsersAppliedAsMapped == Spec => []AppliedAsMapped
<1>1. UserInv => AppliedAsMapped
  BY DEF UserInv, AppliedAsMapped, TableOK, AsMapped, UsersOf
<1> QED BY <1>1, UserInvariant, PTL

(* No sync's match overwrites a mapping, but at a bad moment. *)
THEOREM MatchesKeepMappings == Spec => MatchKeepsMapping
<1> DEFINE Keeps == \A m \in Rows(mappings) :
                      mappings'[m] # mappings[m] /\ mappings[m].ext \notin disturbed
                        => \E g \in RegisterReq : UpdateRow(g)
<1>1. UserInv /\ [Next]_vars => [Keeps]_vars
  <2> SUFFICES ASSUME UserInv, Next, NEW m \in Rows(mappings),
                      mappings'[m] # mappings[m], mappings[m].ext \notin disturbed
               PROVE  \E g \in RegisterReq : UpdateRow(g)
    OBVIOUS
  <2>1. \E r \in Request : UpdateRow(r) \/ InsertRow(r)
    BY DEF Next, Step, SyncStep, StartSync, CreateSyncLog, StartRegister, ItemWithoutNode, LookupMapping,
           Match, Apply, Finish, UpdateSyncLog, FindRow, Registered, Crash, Replicate
  <2>2. PICK r \in Request : UpdateRow(r) \/ InsertRow(r)
    BY <2>1
  <2>3. m \in MappingId /\ mappings \in Table
    BY DEF Rows, UserInv, TableOK
  <2>4. CASE InsertRow(r)
    <3> DEFINE n == CHOOSE k \in MappingId \ Rows(mappings) : TRUE
    <3>1. /\ MappingId \ Rows(mappings) # {}
          /\ mappings' = [mappings EXCEPT ![n] = [ext |-> Now(r).ext, user |-> Account(r)]]
      BY <2>4 DEF InsertRow
    <3>2. n \notin Rows(mappings)
      BY <3>1
    <3> HIDE DEF n
    <3> QED BY <2>3, <3>1, <3>2 DEF Table
  <2>5. CASE UpdateRow(r)
    <3>1. /\ mappings' = [mappings EXCEPT ![req[r].row].user = Account(r)]
          /\ req[r].pc = "update"
      BY <2>5 DEF UpdateRow, At
    <3>2. m = req[r].row
      BY <2>3, <3>1 DEF Table
    <3>3. StateOK(r, req[r]) /\ Aware(mappings, disturbed, r, req[r])
      BY DEF UserInv
    <3>4. req[r].todo # <<>>
      BY <3>1, <3>3 DEF StateOK, Working
    <3>5. Now(r).ext \in ExtUser /\ WorksIn(r, req[r], Now(r).ext)
      BY <3>1, <3>3, <3>4, NowOK DEF Now, WorksIn, Working
    <3>6. m \in RowsOf(mappings, Now(r).ext) /\ (r \in SyncReq => Now(r).ext \in disturbed)
      BY <3>1, <3>2, <3>3, <3>5 DEF Aware
    <3>7. r \notin SyncReq
      BY <3>6 DEF RowsOf
    <3> QED BY <2>5, <3>7 DEF Request
  <2> QED BY <2>2, <2>4, <2>5
<1> QED BY <1>1, UserInvariant, PTL DEF Spec, MatchKeepsMapping

(* A log says "success" only of a sync that applied every item, and only when
   the sync ends. *)
THEOREM LogsTellOutcomes == Spec => LogTellsOutcome
<1> DEFINE Tells == \A y \in SyncReq : logs'[y] # logs[y] =>
                      \/ At(y, "new") /\ logs'[y] = "running"
                      \/ /\ Busy(y) /\ req'[y].pc = "done"
                         /\ logs'[y] = "success" => req[y].owed = 0
<1>1. UserInv /\ [Next]_vars => [Tells]_vars
  <2> SUFFICES ASSUME UserInv, Next, NEW y \in SyncReq, logs'[y] # logs[y]
               PROVE  \/ At(y, "new") /\ logs'[y] = "running"
                      \/ /\ Busy(y) /\ req'[y].pc = "done"
                         /\ logs'[y] = "success" => req[y].owed = 0
    OBVIOUS
  <2>1. \E z \in SyncReq : StartSync(z) \/ Finish(z)
    BY DEF Next, Step, SyncStep, StartRegister, ItemWithoutNode, LookupMapping,
           Match, Apply, FindRow, UpdateRow, InsertRow, Registered, Crash, Replicate
  <2>2. PICK z \in SyncReq : StartSync(z) \/ Finish(z)
    BY <2>1
  <2>3. logs \in [SyncReq -> LogStatus]
    BY DEF UserInv
  <2>4. CASE StartSync(z)
    BY <2>3, <2>4 DEF StartSync, CreateSyncLog, MayStart, At
  <2>5. CASE Finish(z)
    <3>1. PICK verdict \in Verdicts(req[z]) :
            /\ logs' = [logs EXCEPT ![z] = IF @ = "none" THEN @ ELSE verdict]
            /\ Goto(z, Ended("done"))
      BY <2>5 DEF Finish, UpdateSyncLog
    <3>2. y = z /\ logs'[y] = verdict
      BY <2>3, <3>1
    <3>3. /\ y \in Request /\ req[y].pc = "item" /\ req[y].todo = <<>>
          /\ StateOK(y, req[y]) /\ req \in [Request -> RequestState]
      BY <2>5, <3>2 DEF Finish, UpdateSyncLog, At, UserInv, Request
    <3>4. Busy(y)
      BY <3>3 DEF Busy
    <3>5. req'[y].pc = "done"
      BY <3>1, <3>2, <3>3, EndedOK DEF Goto
    <3>6. verdict = "success" => req[y].owed = 0
      <4>1. Len(<<>>) = 0
        OBVIOUS
      <4> QED BY <3>2, <3>3, <4>1 DEF Verdicts, StateOK
    <3> QED BY <3>2, <3>4, <3>5, <3>6
  <2> QED BY <2>2, <2>4, <2>5
<1> QED BY <1>1, UserInvariant, PTL DEF Spec, LogTellsOutcome

=============================================================================
