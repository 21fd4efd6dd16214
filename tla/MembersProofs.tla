---------------------------- MODULE MembersProofs ----------------------------
(***************************************************************************)
(* However requests interleave, and however many syncs run at a time, the  *)
(* memberships in a node belong to the node's own source or were made by   *)
(* hand.                                                                   *)
(***************************************************************************)
EXTENDS Members, TLAPS

Table == [MemberId -> MemberRow \cup {Absent}]

Good(t) == /\ t \in Table
           /\ OneRowPerPair(t)
           /\ \A r \in Used(t) : Grounded(t[r])

(* No row has gone, and none has moved to a node of another owner. *)
Kept(t, u) == \A r \in Used(t) :
                 r \in Used(u) /\ Owner[u[r].node] = Owner[t[r].node]

-----------------------------------------------------------------------------
(* A used row is a membership row. *)
LEMMA UsedRow ==
  ASSUME NEW t \in Table, NEW r \in Used(t)
  PROVE  r \in MemberId /\ t[r] \in MemberRow
<1>1. r \in MemberId /\ t[r].status # "absent"
  BY DEF Used
<1>2. t[r] \in MemberRow \cup {Absent}
  BY <1>1 DEF Table
<1> QED BY <1>1, <1>2 DEF Absent

(* A write that leaves every used row at its pair, and grounded, is good. *)
LEMMA SamePairs ==
  ASSUME NEW t, Good(t), NEW u \in Table, Used(u) = Used(t),
         \A r \in Used(t) : /\ u[r].node = t[r].node
                            /\ u[r].user = t[r].user
                            /\ Grounded(u[r])
  PROVE  Good(u) /\ Kept(t, u)
<1>1. OneRowPerPair(u)
  BY DEF Good, OneRowPerPair
<1> QED BY <1>1 DEF Good, Kept

(* Deleting rows, whichever they are. *)
LEMMA Removed ==
  ASSUME NEW t, Good(t), NEW R \in SUBSET Used(t)
  PROVE  LET u == [r \in MemberId |-> IF r \in R
                     THEN [t[r] EXCEPT !.status = "deleted"] ELSE t[r]]
         IN  Good(u) /\ Kept(t, u)
<1> DEFINE u == [r \in MemberId |-> IF r \in R
                   THEN [t[r] EXCEPT !.status = "deleted"] ELSE t[r]]
<1>1. t \in Table /\ \A r \in R : r \in MemberId /\ t[r] \in MemberRow
  BY UsedRow DEF Good
<1>2. \A x \in MemberRow :
        /\ [x EXCEPT !.status = "deleted"] \in MemberRow
        /\ [x EXCEPT !.status = "deleted"].status # "absent"
        /\ [x EXCEPT !.status = "deleted"].node = x.node
        /\ [x EXCEPT !.status = "deleted"].user = x.user
        /\ [x EXCEPT !.status = "deleted"].source = x.source
        /\ [x EXCEPT !.status = "deleted"].ext = x.ext
  BY DEF MemberRow
<1>3. u \in Table
  BY <1>1, <1>2 DEF Table
<1>4. Used(u) = Used(t)
  BY <1>1, <1>2 DEF Used
<1>5. \A r \in Used(t) : /\ u[r].node = t[r].node
                         /\ u[r].user = t[r].user
                         /\ u[r].source = t[r].source
                         /\ u[r].ext = t[r].ext
  BY <1>1, <1>2 DEF Used
<1>6. \A r \in Used(t) : Grounded(u[r])
  BY <1>5 DEF Good, Grounded
<1> HIDE DEF u
<1>7. Good(u) /\ Kept(t, u)
  BY <1>3, <1>4, <1>5, <1>6, SamePairs
<1> QED BY <1>7 DEF u

(* Giving rows another role. *)
LEMMA Relabelled ==
  ASSUME NEW t, Good(t), NEW R \in SUBSET Used(t), NEW role \in Role
  PROVE  LET u == [r \in MemberId |-> IF r \in R
                     THEN [t[r] EXCEPT !.role = role] ELSE t[r]]
         IN  Good(u) /\ Kept(t, u)
<1> DEFINE u == [r \in MemberId |-> IF r \in R
                   THEN [t[r] EXCEPT !.role = role] ELSE t[r]]
<1>1. t \in Table /\ \A r \in R : r \in MemberId /\ t[r] \in MemberRow
  BY UsedRow DEF Good
<1>2. \A x \in MemberRow :
        /\ [x EXCEPT !.role = role] \in MemberRow
        /\ [x EXCEPT !.role = role].status = x.status
        /\ [x EXCEPT !.role = role].node = x.node
        /\ [x EXCEPT !.role = role].user = x.user
        /\ [x EXCEPT !.role = role].source = x.source
        /\ [x EXCEPT !.role = role].ext = x.ext
  BY DEF MemberRow
<1>3. u \in Table
  BY <1>1, <1>2 DEF Table
<1>4. Used(u) = Used(t)
  BY <1>1, <1>2 DEF Used
<1>5. \A r \in Used(t) : /\ u[r].node = t[r].node
                         /\ u[r].user = t[r].user
                         /\ u[r].source = t[r].source
                         /\ u[r].ext = t[r].ext
  BY <1>1, <1>2 DEF Used
<1>6. \A r \in Used(t) : Grounded(u[r])
  BY <1>5 DEF Good, Grounded
<1> HIDE DEF u
<1>7. Good(u) /\ Kept(t, u)
  BY <1>3, <1>4, <1>5, <1>6, SamePairs
<1> QED BY <1>7 DEF u

(* AddMember's INSERT, if the UNIQUE constraint lets it pass. *)
LEMMA InsertedGood ==
  ASSUME NEW t, Good(t), NEW r \in MemberId \ Used(t),
         NEW m \in Membership, Grounded(m),
         OneRowPerPair(InsertedMember(t, r, m))
  PROVE  Good(InsertedMember(t, r, m)) /\ Kept(t, InsertedMember(t, r, m))
<1> DEFINE x == [status |-> "live", node |-> m.node, user |-> m.user,
                 role |-> m.role, source |-> m.source, ext |-> m.ext]
           u == InsertedMember(t, r, m)
<1>1. t \in Table
  BY DEF Good
<1>2. x \in MemberRow /\ Grounded(x)
  BY DEF Membership, MemberRow, Grounded
<1>3. u = [t EXCEPT ![r] = x]
  BY DEF InsertedMember
<1>4. u \in Table /\ \A q \in MemberId : u[q] = IF q = r THEN x ELSE t[q]
  <2> HIDE DEF x, u
  <2> QED BY <1>1, <1>2, <1>3 DEF Table
<1>5. Used(u) = Used(t) \cup {r}
  <2>1. x.status # "absent"
    OBVIOUS
  <2> HIDE DEF x, u
  <2> QED BY <1>4, <2>1 DEF Used
<1>6. \A q \in Used(t) : u[q] = t[q]
  <2> HIDE DEF x, u
  <2> QED BY <1>4 DEF Used
<1>7. \A q \in Used(u) : Grounded(u[q])
  <2> HIDE DEF x, u
  <2> QED BY <1>2, <1>4, <1>5, <1>6 DEF Good
<1> HIDE DEF x
<1> QED BY <1>4, <1>5, <1>6, <1>7 DEF Good, Kept

(* The restoring UPDATE, on any used row of the owner that is asked for. *)
LEMMA RevivedGood ==
  ASSUME NEW t, Good(t), NEW r \in Used(t), NEW m \in Membership,
         Grounded(m), Owner[t[r].node] = Owner[m.node]
  PROVE  Good(Revived(t, r, m)) /\ Kept(t, Revived(t, r, m))
<1> DEFINE x == [t[r] EXCEPT !.status = "live", !.role = m.role,
                             !.source = m.source, !.ext = m.ext]
           u == Revived(t, r, m)
<1>1. t \in Table /\ r \in MemberId /\ t[r] \in MemberRow
  BY UsedRow DEF Good
<1>2. /\ x \in MemberRow /\ x.status = "live"
      /\ x.node = t[r].node /\ x.user = t[r].user
      /\ x.source = m.source /\ x.ext = m.ext
  BY <1>1 DEF Membership, MemberRow
<1>3. u = [t EXCEPT ![r] = x]
  BY DEF Revived
<1> HIDE DEF x, u
<1>4. u \in Table /\ \A q \in MemberId : u[q] = IF q = r THEN x ELSE t[q]
  BY <1>1, <1>2, <1>3 DEF Table
<1>5. Used(u) = Used(t)
  BY <1>1, <1>2, <1>4 DEF Used
<1>6. Grounded(x)
  BY <1>2 DEF Grounded
<1>7. \A q \in Used(t) : /\ u[q].node = t[q].node
                         /\ u[q].user = t[q].user
                         /\ Grounded(u[q])
  BY <1>2, <1>4, <1>6 DEF Used, Good
<1> QED BY <1>4, <1>5, <1>7, SamePairs DEF u

(* The UPDATE that moves a row to another pair, if UNIQUE lets it pass. *)
LEMMA RekeyedGood ==
  ASSUME NEW t, Good(t), NEW r \in Used(t), NEW m \in Membership,
         Owner[t[r].node] = Owner[m.node],
         OneRowPerPair(Rekeyed(t, r, m))
  PROVE  Good(Rekeyed(t, r, m)) /\ Kept(t, Rekeyed(t, r, m))
<1> DEFINE x == [t[r] EXCEPT !.status = "live", !.node = m.node,
                             !.user = m.user, !.role = m.role]
           u == Rekeyed(t, r, m)
<1>1. t \in Table /\ r \in MemberId /\ t[r] \in MemberRow
  BY UsedRow DEF Good
<1>2. /\ x \in MemberRow /\ x.status = "live" /\ x.node = m.node
      /\ x.source = t[r].source /\ x.ext = t[r].ext
  BY <1>1 DEF Membership, MemberRow
<1>3. u = [t EXCEPT ![r] = x]
  BY DEF Rekeyed
<1> HIDE DEF x, u
<1>4. u \in Table /\ \A q \in MemberId : u[q] = IF q = r THEN x ELSE t[q]
  BY <1>1, <1>2, <1>3 DEF Table
<1>5. Used(u) = Used(t)
  BY <1>1, <1>2, <1>4 DEF Used
<1>6. Grounded(x)
  BY <1>2 DEF Grounded, Good
<1>7. \A q \in Used(t) : /\ Owner[u[q].node] = Owner[t[q].node]
                         /\ Grounded(u[q])
  BY <1>2, <1>4, <1>6 DEF Used, Good
<1>8. OneRowPerPair(u)
  BY DEF u
<1> QED BY <1>4, <1>5, <1>7, <1>8 DEF Good, Kept, u
-----------------------------------------------------------------------------
(* A session that is not idle remembers what it was asked for and, after a
   lookup that found one, a row. *)
LEMMA BusyState ==
  ASSUME NEW x \in SessionState, x.pc # "idle"
  PROVE  /\ x.asked \in Membership
         /\ x.pc \in {"findRemoved", "insert", "findActive"} =>
              x \in [pc : {"findRemoved", "insert", "findActive"},
                    row : {NoMember}, asked : Membership]
         /\ x.pc \in {"revive", "checkConflict", "rekey"} =>
              x \in [pc : {"revive", "checkConflict", "rekey"},
                    row : MemberId, asked : Membership]
<1>1. x # Idle
  BY DEF Idle
<1> QED BY <1>1 DEF SessionState

(* The states a step may leave a session in. *)
LEMMA NewState ==
  /\ Idle \in SessionState /\ Idle.pc = "idle"
  /\ \A m \in Membership, pc \in {"findRemoved", "insert", "findActive"} :
       [pc |-> pc, row |-> NoMember, asked |-> m] \in SessionState
  /\ \A m \in Membership, r \in MemberId,
        pc \in {"revive", "checkConflict", "rekey"} :
       [pc |-> pc, row |-> r, asked |-> m] \in SessionState
  BY DEF SessionState, Idle

(* Writes of other sessions leave what a session remembers valid. *)
LEMMA StillOK ==
  ASSUME NEW t, NEW u, Kept(t, u), NEW x, StateOK(t, x)
  PROVE  StateOK(u, x)
  BY DEF Kept, StateOK

(* A step that keeps the rows and leaves session s in a valid state. *)
LEMMA Remembered ==
  ASSUME OwnerInv, Good(members'), Kept(members, members'),
         NEW s \in Session, NEW state \in SessionState,
         StateOK(members', state), Goto(s, state)
  PROVE  OwnerInv'
<1>1. session' \in [Session -> SessionState]
  BY DEF OwnerInv, TypeOK, Goto
<1>2. ASSUME NEW q \in Session PROVE StateOK(members', session'[q])
  <2>1. session'[q] = IF q = s THEN state ELSE session[q]
    BY DEF OwnerInv, TypeOK, Goto
  <2>2. StateOK(members', session[q])
    BY StillOK DEF OwnerInv
  <2> QED BY <2>1, <2>2
<1> QED BY <1>1, <1>2 DEF OwnerInv, TypeOK, SourceOwnsNode, Good, Table

(* The same for a request of a single statement, which has no session. *)
LEMMA RememberedAll ==
  ASSUME OwnerInv, Good(members'), Kept(members, members'), UNCHANGED session
  PROVE  OwnerInv'
<1>1. ASSUME NEW q \in Session PROVE StateOK(members', session'[q])
  BY StillOK DEF OwnerInv
<1> QED BY <1>1 DEF OwnerInv, TypeOK, SourceOwnsNode, Good, Table

(* The table is good, and reading it keeps it. *)
LEMMA Reading ==
  ASSUME OwnerInv
  PROVE  /\ Good(members) /\ Kept(members, members)
         /\ UNCHANGED members => Good(members') /\ Kept(members, members')
  BY DEF OwnerInv, TypeOK, SourceOwnsNode, Good, Kept, Table

(* No rows, no requests. *)
LEMMA InitOwner == Init => OwnerInv
<1> SUFFICES ASSUME Init PROVE OwnerInv
  OBVIOUS
<1>1. Used(members) = {}
  BY DEF Init, Used, Absent
<1>2. members \in [MemberId -> MemberRow \cup {Absent}]
  BY DEF Init
<1>3. session \in [Session -> SessionState]
  BY NewState DEF Init
<1>4. \A s \in Session : StateOK(members, session[s])
  BY DEF Init, Idle, StateOK
<1> QED BY <1>1, <1>2, <1>3, <1>4
        DEF OwnerInv, TypeOK, SourceOwnsNode, OneRowPerPair

(* Every step keeps the invariant: one proof step per action. *)
LEMMA NextOwner == OwnerInv /\ [Next]_vars => OwnerInv'
<1> SUFFICES ASSUME OwnerInv, [Next]_vars PROVE OwnerInv'
  OBVIOUS
<1>1. Good(members) /\ session \in [Session -> SessionState]
  BY Reading DEF OwnerInv, TypeOK
<1>2. \A s \in Session : session[s] \in SessionState
                        /\ StateOK(members, session[s])
  BY <1>1 DEF OwnerInv
<1>3. Idle \in SessionState /\ \A t : StateOK(t, Idle)
  BY NewState DEF StateOK
<1>4. ASSUME NEW s \in Session, StartAdd(s) PROVE OwnerInv'
  <2>1. PICK n \in NodeId, u \in UserId, role \in Role :
          Goto(s, [pc |-> "findRemoved", row |-> NoMember,
                   asked |-> [node |-> n, user |-> u, role |-> role,
                              source |-> Local, ext |-> NoExt]])
    BY <1>4 DEF StartAdd
  <2> DEFINE m == [node |-> n, user |-> u, role |-> role,
                   source |-> Local, ext |-> NoExt]
             state == [pc |-> "findRemoved", row |-> NoMember, asked |-> m]
  <2>2. m \in Membership /\ Grounded(m)
    BY DEF Membership, Grounded
  <2> HIDE DEF m
  <2>3. state \in SessionState /\ StateOK(members, state)
    BY <2>2, NewState DEF StateOK
  <2>4. UNCHANGED members /\ Goto(s, state)
    BY <1>4, <2>1 DEF StartAdd, m
  <2> HIDE DEF state
  <2> QED BY <2>3, <2>4, Reading, Remembered
<1>5. ASSUME NEW s \in Session, StartUpsert(s) PROVE OwnerInv'
  <2>1. PICK m \in SyncMembership :
          \/ \E r \in KeyedMember(members, m.source, m.ext) :
               Goto(s, [pc |-> "checkConflict", row |-> r, asked |-> m])
          \/ Goto(s, [pc |-> "findActive", row |-> NoMember, asked |-> m])
    BY <1>5 DEF StartUpsert
  <2>2. /\ m \in Membership /\ Grounded(m)
        /\ m.source \in Source /\ m.source = Owner[m.node]
    BY DEF SyncMembership, Grounded
  <2>3. UNCHANGED members
    BY <1>5 DEF StartUpsert
  <2>4. ASSUME NEW r \in KeyedMember(members, m.source, m.ext),
               Goto(s, [pc |-> "checkConflict", row |-> r, asked |-> m])
        PROVE  OwnerInv'
    <3> DEFINE state == [pc |-> "checkConflict", row |-> r, asked |-> m]
    <3>1. /\ r \in Used(members) /\ r \in MemberId
          /\ members[r].source = m.source
      BY DEF KeyedMember, Active, Used
    <3>2. Owner[members[r].node] = Owner[m.node]
      BY <1>1, <2>2, <3>1, DirectoryAssumption DEF Good, Grounded
    <3>3. state \in SessionState /\ StateOK(members, state)
      BY <2>2, <3>1, <3>2, NewState DEF StateOK
    <3> HIDE DEF state
    <3>4. Goto(s, state)
      BY <2>4 DEF state
    <3> QED BY <2>3, <3>3, <3>4, Reading, Remembered
  <2>5. ASSUME Goto(s, [pc |-> "findActive", row |-> NoMember, asked |-> m])
        PROVE  OwnerInv'
    <3> DEFINE state == [pc |-> "findActive", row |-> NoMember, asked |-> m]
    <3>1. state \in SessionState /\ StateOK(members, state)
      BY <2>2, NewState DEF StateOK
    <3> HIDE DEF state
    <3>2. Goto(s, state)
      BY <2>5 DEF state
    <3> QED BY <2>3, <3>1, <3>2, Reading, Remembered
  <2> QED BY <2>1, <2>4, <2>5
<1>6. ASSUME NEW s \in Session, FindRemoved(s) PROVE OwnerInv'
  <2> DEFINE m == Asked(s)
  <2>1. /\ session[s] \in SessionState /\ session[s].pc = "findRemoved"
        /\ m \in Membership /\ Grounded(m) /\ session[s].row = NoMember
    BY <1>2, <1>6, BusyState DEF FindRemoved, At, Asked, StateOK
  <2>2. UNCHANGED members
    BY <1>6 DEF FindRemoved
  <2>3. ASSUME NEW r \in RemovedAt(members, m.node, m.user),
               Goto(s, [pc |-> "revive", row |-> r, asked |-> m])
        PROVE  OwnerInv'
    <3> DEFINE state == [pc |-> "revive", row |-> r, asked |-> m]
    <3>1. /\ r \in Used(members) /\ r \in MemberId
          /\ members[r].node = m.node
      BY DEF RemovedAt, Used
    <3> HIDE DEF m
    <3>2. state \in SessionState /\ StateOK(members, state)
      BY <2>1, <3>1, NewState DEF StateOK
    <3>3. Goto(s, state)
      BY <2>3
    <3> HIDE DEF state
    <3> QED BY <2>2, <3>2, <3>3, Reading, Remembered
  <2>4. ASSUME Goto(s, [pc |-> "insert", row |-> NoMember, asked |-> m])
        PROVE  OwnerInv'
    <3> DEFINE state == [pc |-> "insert", row |-> NoMember, asked |-> m]
    <3> HIDE DEF m
    <3>1. state \in SessionState /\ StateOK(members, state)
      BY <2>1, NewState DEF StateOK
    <3>2. Goto(s, state)
      BY <2>4
    <3> HIDE DEF state
    <3> QED BY <2>2, <3>1, <3>2, Reading, Remembered
  <2> QED BY <1>6, <2>3, <2>4 DEF FindRemoved
<1>7. ASSUME NEW s \in Session, Revive(s) PROVE OwnerInv'
  <2>1. /\ session[s].row \in Used(members) /\ Asked(s) \in Membership
        /\ Grounded(Asked(s))
        /\ Owner[members[session[s].row].node] = Owner[Asked(s).node]
    BY <1>2, <1>7, BusyState DEF Revive, At, Asked, StateOK
  <2>2. Good(members') /\ Kept(members, members')
    BY <1>1, <1>7, <2>1, RevivedGood DEF Revive
  <2>3. Goto(s, Idle)
    BY <1>7 DEF Revive
  <2> QED BY <1>3, <2>2, <2>3, Remembered
<1>8. ASSUME NEW s \in Session, Insert(s) PROVE OwnerInv'
  <2>1. Asked(s) \in Membership /\ Grounded(Asked(s)) /\ Goto(s, Idle)
    BY <1>2, <1>8, BusyState DEF Insert, At, Asked, StateOK
  <2>2. PICK r \in MemberId \ Used(members) :
          \/ /\ OneRowPerPair(InsertedMember(members, r, Asked(s)))
             /\ members' = InsertedMember(members, r, Asked(s))
          \/ UNCHANGED members
    BY <1>8 DEF Insert
  <2>3. Good(members') /\ Kept(members, members')
    BY <1>1, <2>1, <2>2, InsertedGood, Reading
  <2> QED BY <1>3, <2>1, <2>3, Remembered
<1>9. ASSUME NEW s \in Session, CheckConflict(s) PROVE OwnerInv'
  <2> DEFINE m == Asked(s)
             r == session[s].row
             state == [pc |-> "rekey", row |-> r, asked |-> m]
  <2>1. /\ session[s] \in SessionState /\ session[s].pc = "checkConflict"
        /\ m \in Membership /\ Grounded(m)
        /\ r \in MemberId /\ r \in Used(members)
        /\ Owner[members[r].node] = Owner[m.node]
    BY <1>2, <1>9, BusyState DEF CheckConflict, At, Asked, StateOK
  <2>2. [session[s] EXCEPT !.pc = "rekey"] = state
    <3>1. session[s] \in [pc : {"revive", "checkConflict", "rekey"},
                          row : MemberId, asked : Membership]
      BY <2>1, BusyState
    <3> QED BY <3>1 DEF Asked
  <2>3. UNCHANGED members /\ (Goto(s, state) \/ Goto(s, Idle))
    BY <1>9, <2>2 DEF CheckConflict
  <2> HIDE DEF m, r
  <2>4. state \in SessionState /\ StateOK(members, state)
    BY <2>1, NewState DEF StateOK
  <2> HIDE DEF state
  <2> QED BY <1>3, <2>3, <2>4, Reading, Remembered
<1>10. ASSUME NEW s \in Session, Rekey(s) PROVE OwnerInv'
  <2>1. /\ session[s].row \in Used(members) /\ Asked(s) \in Membership
        /\ Owner[members[session[s].row].node] = Owner[Asked(s).node]
    BY <1>2, <1>10, BusyState DEF Rekey, At, Asked, StateOK
  <2>2. \/ /\ OneRowPerPair(Rekeyed(members, session[s].row, Asked(s)))
           /\ members' = Rekeyed(members, session[s].row, Asked(s))
        \/ UNCHANGED members
    BY <1>10 DEF Rekey
  <2>3. Good(members') /\ Kept(members, members')
    BY <1>1, <2>1, <2>2, RekeyedGood, Reading
  <2>4. Goto(s, Idle)
    BY <1>10 DEF Rekey
  <2> QED BY <1>3, <2>3, <2>4, Remembered
<1>11. ASSUME NEW s \in Session, FindActive(s) PROVE OwnerInv'
  <2> DEFINE m == Asked(s)
             x == session[s]
  <2>1. /\ x \in SessionState /\ x.pc = "findActive"
        /\ m \in Membership /\ Grounded(m) /\ m.source = Owner[m.node]
        /\ x.row = NoMember
    BY <1>2, <1>11, BusyState DEF FindActive, At, Asked, StateOK
  <2>2. UNCHANGED members
    BY <1>11 DEF FindActive
  <2>3. ASSUME NEW r \in ActiveAt(members, m.node, m.user),
               Goto(s, [pc |-> "revive", row |-> r,
                        asked |-> [m EXCEPT !.ext =
                          IF @ = NoExt THEN members[r].ext ELSE @]])
        PROVE  OwnerInv'
    <3> DEFINE ext == IF m.ext = NoExt THEN members[r].ext ELSE m.ext
               m2 == [m EXCEPT !.ext = ext]
               state == [pc |-> "revive", row |-> r, asked |-> m2]
    <3>1. /\ r \in Used(members) /\ r \in MemberId
          /\ members[r].node = m.node
      BY DEF ActiveAt, Active, Used
    <3>2. members[r].ext \in ExtId \cup {NoExt}
      BY <1>1, <3>1, UsedRow DEF Good, MemberRow
    <3>3. /\ m2 \in Membership /\ m2.node = m.node
          /\ m2.source = m.source
      BY <2>1, <3>2 DEF Membership
    <3>4. Goto(s, state)
      BY <2>3
    <3> HIDE DEF m2
    <3>5. Grounded(m2)
      BY <2>1, <3>3 DEF Grounded
    <3>6. state \in SessionState /\ StateOK(members, state)
      BY <3>1, <3>3, <3>5, NewState DEF StateOK
    <3> HIDE DEF state
    <3> QED BY <2>2, <3>4, <3>6, Reading, Remembered
  <2>4. ASSUME Goto(s, [pc |-> "findRemoved", row |-> NoMember, asked |-> m])
        PROVE  OwnerInv'
    <3> DEFINE state == [pc |-> "findRemoved", row |-> NoMember, asked |-> m]
    <3> HIDE DEF m
    <3>1. state \in SessionState /\ StateOK(members, state)
      BY <2>1, NewState DEF StateOK
    <3>2. Goto(s, state)
      BY <2>4
    <3> HIDE DEF state
    <3> QED BY <2>2, <3>1, <3>2, Reading, Remembered
  <2> QED BY <1>11, <2>3, <2>4 DEF FindActive
<1>12. ASSUME NEW s \in Session, Fail(s) PROVE OwnerInv'
  BY <1>3, <1>12, Reading, Remembered DEF Fail
<1>13. ASSUME NEW s \in Session, RemoveMember(s) PROVE OwnerInv'
  <2>1. PICK n \in NodeId, u \in UserId : members' = MemberRemoved(members, n, u)
    BY <1>13 DEF RemoveMember
  <2>2. ActiveAt(members, n, u) \in SUBSET Used(members)
    BY DEF ActiveAt, Active, Used
  <2>3. Good(members') /\ Kept(members, members')
    BY <1>1, <2>1, <2>2, Removed DEF MemberRemoved
  <2> QED BY <1>13, <2>3, RememberedAll DEF RemoveMember
<1>14. ASSUME NEW s \in Session, UpdateRole(s) PROVE OwnerInv'
  <2>1. PICK n \in NodeId, u \in UserId, role \in Role :
          members' = RoleUpdated(members, n, u, role)
    BY <1>14 DEF UpdateRole
  <2>2. ActiveAt(members, n, u) \in SUBSET Used(members)
    BY DEF ActiveAt, Active, Used
  <2>3. Good(members') /\ Kept(members, members')
    BY <1>1, <2>1, <2>2, Relabelled DEF RoleUpdated
  <2> QED BY <1>14, <2>3, RememberedAll DEF UpdateRole
<1>15. ASSUME NEW s \in Session, DeleteBySource(s) PROVE OwnerInv'
  <2>1. PICK src \in Source, exts \in SUBSET ExtId,
             pairs \in SUBSET {<<n, u>> : n \in NodeId, u \in UserId} :
          members' = MembersSourceDeleted(members, src, exts, pairs)
    BY <1>15 DEF DeleteBySource
  <2> DEFINE R == {r \in Active(members) :
                     /\ members[r].source = src
                     /\ members[r].ext = NoExt \/ members[r].ext \notin exts
                     /\ <<members[r].node, members[r].user>> \notin pairs}
  <2>2. R \in SUBSET Used(members)
    BY DEF Active, Used
  <2>3. members' = [r \in MemberId |-> IF r \in R
            THEN [members[r] EXCEPT !.status = "deleted"] ELSE members[r]]
    BY <2>1 DEF MembersSourceDeleted
  <2> HIDE DEF R
  <2>4. Good(members') /\ Kept(members, members')
    BY <1>1, <2>2, <2>3, Removed
  <2> QED BY <1>15, <2>4, RememberedAll DEF DeleteBySource
<1>16. ASSUME UNCHANGED vars PROVE OwnerInv'
  BY <1>16, Reading, RememberedAll DEF vars
<1> QED BY <1>4, <1>5, <1>6, <1>7, <1>8, <1>9, <1>10, <1>11, <1>12, <1>13,
           <1>14, <1>15, <1>16 DEF Next, Begin, Continue

-----------------------------------------------------------------------------
(* Whatever the interleaving of handlers and syncs of member_store.go, and
   whatever the number of nodes, users, rows and requests: the table and what
   the requests remember of it stay in the inductive invariant. *)
THEOREM OwnerInvariant == Spec => []OwnerInv
  BY InitOwner, NextOwner, PTL DEF Spec

(* The table keeps its type and the UNIQUE pair of the schema, and every
   request a legal state. *)
THEOREM MembersTypeCorrect == Spec => []TypeOK
<1>1. OwnerInv => TypeOK
  BY DEF OwnerInv
<1> QED BY <1>1, OwnerInvariant, PTL

(* No source writes its name or its external id on a membership in a node
   that another source, or an administrator, owns: a row that a request has
   found and writes later by id alone may have been removed, restored or
   moved meanwhile, but never to a node of another owner. *)
THEOREM SourcesOwnTheirNodes == Spec => []SourceOwnsNode
<1>1. OwnerInv => SourceOwnsNode
  BY DEF OwnerInv
<1> QED BY <1>1, OwnerInvariant, PTL
-----------------------------------------------------------------------------
(* External ids, with one sync at a time *)

Unique(t) ==
    \A r, q \in Active(t) : /\ t[r].ext # NoExt
                            /\ t[r].ext = t[q].ext
                            /\ t[r].source = t[q].source
                            => r = q

(* Every key in u was there in t, at the same row, and active if it is now. *)
NoNewKeys(t, u) ==
    \A r \in Used(u) : u[r].ext # NoExt =>
        /\ r \in Used(t) /\ (r \in Active(u) => r \in Active(t))
        /\ u[r].ext = t[r].ext /\ u[r].source = t[r].source

LEMMA ActiveIsUsed ==
    ASSUME NEW t
    PROVE  Active(t) \subseteq Used(t)
  BY DEF Active, Used

LEMMA NoNewKeysUnique ==
    ASSUME NEW t, NEW u, Unique(t), NoNewKeys(t, u)
    PROVE  Unique(u)
  BY ActiveIsUsed DEF Unique, NoNewKeys

(* What a session has found of the keys stays so. *)
LEMMA NoNewKeysOK ==
    ASSUME NEW t, NEW u, NoNewKeys(t, u), Kept(t, u), NEW s,
           NEW x \in SessionState, StateOK(t, x), KeyOK(t, s, x)
    PROVE  KeyOK(u, s, x)
<1>1. ASSUME x.pc # "idle", x.asked.ext # NoExt
      PROVE  KeyedMember(u, x.asked.source, x.asked.ext)
               \subseteq KeyedMember(t, x.asked.source, x.asked.ext)
  BY <1>1, ActiveIsUsed DEF NoNewKeys, KeyedMember
<1>2. ASSUME x.pc \in {"checkConflict", "rekey"}, u[x.row].ext # NoExt
      PROVE  u[x.row].ext = x.asked.ext /\ u[x.row].source = x.asked.source
  <2>1. x.row \in Used(u)
    BY <1>2 DEF StateOK, Kept
  <2>2. u[x.row].ext = t[x.row].ext /\ u[x.row].source = t[x.row].source
    BY <1>2, <2>1 DEF NoNewKeys
  <2> QED BY <1>2, <2>2 DEF KeyOK
<1> QED BY <1>1, <1>2 DEF KeyOK

(* A write to row r of a key that no other row has, or of none. *)
LEMMA OneRowKeys ==
    ASSUME NEW t, NEW u, NEW r, Unique(t),
           \A q \in MemberId \ {r} : u[q] = t[q],
           u[r].ext # NoExt => KeyedMember(t, u[r].source, u[r].ext) \subseteq {r}
    PROVE  /\ Unique(u)
           /\ u[r].ext = NoExt => NoNewKeys(t, u)
<1>1. \A q \in Active(u) \ {r} : q \in Active(t) /\ u[q] = t[q]
  BY DEF Active
<1>2. \A q \in Used(u) \ {r} : q \in Used(t) /\ u[q] = t[q]
  BY DEF Used
<1>3. ASSUME NEW q \in Active(u) \ {r}, u[r].ext # NoExt,
             u[r].ext = u[q].ext, u[r].source = u[q].source
      PROVE  FALSE
  <2>1. q \in KeyedMember(t, u[r].source, u[r].ext)
    BY <1>1, <1>3 DEF KeyedMember
  <2> QED BY <1>3, <2>1
<1>4. Unique(u)
  BY <1>1, <1>3 DEF Unique
<1>5. u[r].ext = NoExt => NoNewKeys(t, u)
  BY <1>1, <1>2 DEF NoNewKeys
<1> QED BY <1>4, <1>5

(* Removing rows brings no key, *)
LEMMA RemovedKeys ==
    ASSUME NEW t, Good(t), NEW R \in SUBSET Used(t)
    PROVE  NoNewKeys(t, [r \in MemberId |-> IF r \in R
                           THEN [t[r] EXCEPT !.status = "deleted"] ELSE t[r]])
<1> DEFINE u == [r \in MemberId |-> IF r \in R
                   THEN [t[r] EXCEPT !.status = "deleted"] ELSE t[r]]
<1>1. \A r \in R : r \in MemberId /\ t[r] \in MemberRow
  BY UsedRow DEF Good
<1>2. \A r \in R : /\ u[r].status = "deleted"
                   /\ u[r].ext = t[r].ext /\ u[r].source = t[r].source
  BY <1>1 DEF MemberRow
<1>3. \A r \in MemberId \ R : u[r] = t[r]
  OBVIOUS
<1> HIDE DEF u
<1>4. NoNewKeys(t, u)
  BY <1>2, <1>3 DEF NoNewKeys, Used, Active
<1> QED BY <1>4 DEF u

(* nor does giving them another role. *)
LEMMA RelabelledKeys ==
    ASSUME NEW t, Good(t), NEW R \in SUBSET Used(t), NEW role
    PROVE  NoNewKeys(t, [r \in MemberId |-> IF r \in R
                           THEN [t[r] EXCEPT !.role = role] ELSE t[r]])
<1> DEFINE u == [r \in MemberId |-> IF r \in R
                   THEN [t[r] EXCEPT !.role = role] ELSE t[r]]
<1>1. \A r \in R : r \in MemberId /\ t[r] \in MemberRow
  BY UsedRow DEF Good
<1>2. \A r \in R : /\ u[r].status = t[r].status
                   /\ u[r].ext = t[r].ext /\ u[r].source = t[r].source
  BY <1>1 DEF MemberRow
<1>3. \A r \in MemberId \ R : u[r] = t[r]
  OBVIOUS
<1> HIDE DEF u
<1>4. NoNewKeys(t, u)
  BY <1>2, <1>3 DEF NoNewKeys, Used, Active
<1> QED BY <1>4 DEF u

(* The rows that the three writes by row id leave. *)
LEMMA WrittenRows ==
    ASSUME NEW t, Good(t), NEW m \in Membership
    PROVE  /\ \A r \in MemberId \ Used(t) :
                /\ InsertedMember(t, r, m)[r].ext = m.ext
                /\ InsertedMember(t, r, m)[r].source = m.source
                /\ \A q \in MemberId \ {r} : InsertedMember(t, r, m)[q] = t[q]
           /\ \A r \in Used(t) :
                /\ Revived(t, r, m)[r].ext = m.ext
                /\ Revived(t, r, m)[r].source = m.source
                /\ \A q \in MemberId \ {r} : Revived(t, r, m)[q] = t[q]
           /\ \A r \in Used(t) :
                /\ Rekeyed(t, r, m)[r].ext = t[r].ext
                /\ Rekeyed(t, r, m)[r].source = t[r].source
                /\ \A q \in MemberId \ {r} : Rekeyed(t, r, m)[q] = t[q]
<1>1. t \in [MemberId -> MemberRow \cup {Absent}]
      /\ \A r \in Used(t) : r \in MemberId /\ t[r] \in MemberRow
  BY UsedRow DEF Good, Table
<1>2. ASSUME NEW r \in MemberId \ Used(t)
      PROVE  /\ InsertedMember(t, r, m)[r].ext = m.ext
             /\ InsertedMember(t, r, m)[r].source = m.source
             /\ \A q \in MemberId \ {r} : InsertedMember(t, r, m)[q] = t[q]
  BY <1>1 DEF InsertedMember
<1>3. ASSUME NEW r \in Used(t)
      PROVE  /\ Revived(t, r, m)[r].ext = m.ext
             /\ Revived(t, r, m)[r].source = m.source
             /\ \A q \in MemberId \ {r} : Revived(t, r, m)[q] = t[q]
  BY <1>1, <1>3 DEF Revived, MemberRow
<1>4. ASSUME NEW r \in Used(t)
      PROVE  /\ Rekeyed(t, r, m)[r].ext = t[r].ext
             /\ Rekeyed(t, r, m)[r].source = t[r].source
             /\ \A q \in MemberId \ {r} : Rekeyed(t, r, m)[q] = t[q]
  BY <1>1, <1>4 DEF Rekeyed, MemberRow
<1> QED BY <1>2, <1>3, <1>4

(* An admin's request knows of no key. *)
LEMMA AdminKeyOK ==
    ASSUME NEW t, NEW u, NEW s, s \notin SyncSession, NEW x, KeyOK(t, s, x)
    PROVE  KeyOK(u, s, x)
  BY DEF KeyOK

LEMMA IdleKeyOK ==
    ASSUME NEW t, NEW s
    PROVE  KeyOK(t, s, Idle)
  BY DEF KeyOK, Idle

LEMMA KeyInvAlt ==
    KeyInv <=> /\ OwnerInv /\ Unique(members)
               /\ \A s \in Session : KeyOK(members, s, session[s])
  BY DEF KeyInv, ExternalIdUnique, Unique

(* A request that reads. *)
LEMMA KeyRead ==
    ASSUME KeyInv, OwnerInv', UNCHANGED members, NEW s \in Session, NEW state,
           Goto(s, state), KeyOK(members, s, state)
    PROVE  KeyInv'
<1>1. ASSUME NEW q \in Session PROVE KeyOK(members', q, session'[q])
  <2>1. session'[q] = IF q = s THEN state ELSE session[q]
    BY DEF KeyInv, OwnerInv, TypeOK, Goto
  <2> QED BY <2>1 DEF KeyInv
<1> QED BY <1>1 DEF KeyInv, ExternalIdUnique

(* A request that writes and ends: a sync, and then it was the only one, or an
   admin's, which brings no key. *)
LEMMA KeyWrite ==
    ASSUME KeyInv, OwnerInv', \A r, q \in SyncSession : r = q,
           NEW s \in Session, Goto(s, Idle),
           Kept(members, members'), Unique(members'),
           s \in SyncSession \/ NoNewKeys(members, members')
    PROVE  KeyInv'
<1>1. ASSUME NEW q \in Session PROVE KeyOK(members', q, session'[q])
  <2>1. CASE q = s
    <3>1. session'[q] = Idle
      BY <2>1 DEF KeyInv, OwnerInv, TypeOK, Goto
    <3> QED BY <3>1, IdleKeyOK
  <2>2. CASE q # s
    <3>1. /\ session'[q] = session[q] /\ session[q] \in SessionState
          /\ StateOK(members, session[q]) /\ KeyOK(members, q, session[q])
      BY <2>2 DEF KeyInv, OwnerInv, TypeOK, Goto
    <3>2. CASE q \notin SyncSession
      BY <3>1, <3>2, AdminKeyOK
    <3>3. CASE q \in SyncSession
      <4>1. NoNewKeys(members, members')
        BY <2>2, <3>3
      <4> QED BY <3>1, <4>1, NoNewKeysOK
    <3> QED BY <3>2, <3>3
  <2> QED BY <2>1, <2>2
<1>2. ExternalIdUnique'
  BY DEF Unique, ExternalIdUnique
<1> QED BY <1>1, <1>2 DEF KeyInv

(* A statement that brings no key. *)
LEMMA KeyStatement ==
    ASSUME KeyInv, OwnerInv', UNCHANGED session,
           Kept(members, members'), NoNewKeys(members, members')
    PROVE  KeyInv'
<1>1. ASSUME NEW q \in Session PROVE KeyOK(members', q, session'[q])
  <2>1. /\ session'[q] = session[q] /\ session[q] \in SessionState
        /\ StateOK(members, session[q]) /\ KeyOK(members, q, session[q])
    BY DEF KeyInv, OwnerInv, TypeOK
  <2> QED BY <2>1, NoNewKeysOK
<1>2. Unique(members')
  BY KeyInvAlt, NoNewKeysUnique
<1> QED BY <1>1, <1>2 DEF KeyInv, Unique, ExternalIdUnique

LEMMA InitKeys == Init => KeyInv
<1> SUFFICES ASSUME Init PROVE KeyInv
  OBVIOUS
<1>1. Active(members) = {}
  BY DEF Init, Active, Absent
<1>2. \A s \in Session : KeyOK(members, s, session[s])
  BY IdleKeyOK DEF Init
<1> QED BY <1>1, <1>2, InitOwner DEF KeyInv, ExternalIdUnique

(* Every step keeps the keys unique: one proof step per action. *)
LEMMA NextKeys ==
    ASSUME \A r, q \in SyncSession : r = q, KeyInv, [Next]_vars
    PROVE  KeyInv'
<1>1. /\ OwnerInv /\ Good(members) /\ Unique(members)
      /\ \A s \in Session : /\ session[s] \in SessionState
                            /\ StateOK(members, session[s])
                            /\ KeyOK(members, s, session[s])
  BY KeyInvAlt, Reading DEF OwnerInv, TypeOK
<1>2. OwnerInv'
  BY <1>1, NextOwner
<1>3. Kept(members, members) /\ NoNewKeys(members, members)
  BY DEF Kept, NoNewKeys
<1>4. ASSUME NEW s \in Session, StartAdd(s) PROVE KeyInv'
  <2>1. PICK n \in NodeId, u \in UserId, role \in Role :
          Goto(s, [pc |-> "findRemoved", row |-> NoMember,
                   asked |-> [node |-> n, user |-> u, role |-> role,
                              source |-> Local, ext |-> NoExt]])
    BY <1>4 DEF StartAdd
  <2> DEFINE state == [pc |-> "findRemoved", row |-> NoMember,
                       asked |-> [node |-> n, user |-> u, role |-> role,
                                  source |-> Local, ext |-> NoExt]]
  <2>2. KeyOK(members, s, state)
    BY DEF KeyOK
  <2>3. UNCHANGED members /\ Goto(s, state)
    BY <1>4, <2>1 DEF StartAdd
  <2> HIDE DEF state
  <2> QED BY <1>2, <2>2, <2>3, KeyRead
<1>5. ASSUME NEW s \in Session, StartUpsert(s) PROVE KeyInv'
  <2>1. PICK m \in SyncMembership :
          LET found == IF m.ext = NoExt THEN {}
                       ELSE KeyedMember(members, m.source, m.ext)
          IN \/ \E r \in found :
                  Goto(s, [pc |-> "checkConflict", row |-> r, asked |-> m])
             \/ /\ found = {}
                /\ Goto(s, [pc |-> "findActive", row |-> NoMember, asked |-> m])
    BY <1>5 DEF StartUpsert
  <2>2. UNCHANGED members /\ s \in SyncSession
    BY <1>5 DEF StartUpsert
  <2>3. ASSUME m.ext # NoExt, NEW r \in KeyedMember(members, m.source, m.ext),
               Goto(s, [pc |-> "checkConflict", row |-> r, asked |-> m])
        PROVE  KeyInv'
    <3> DEFINE state == [pc |-> "checkConflict", row |-> r, asked |-> m]
    <3>1. members[r].ext = m.ext /\ members[r].source = m.source
      BY DEF KeyedMember
    <3>2. KeyedMember(members, m.source, m.ext) \subseteq {r}
      BY <1>1, <2>3 DEF KeyedMember, Unique
    <3>3. KeyOK(members, s, state)
      BY <2>2, <3>1, <3>2 DEF KeyOK
    <3>4. Goto(s, state)
      BY <2>3
    <3> HIDE DEF state
    <3> QED BY <1>2, <2>2, <3>3, <3>4, KeyRead
  <2>4. ASSUME m.ext # NoExt => KeyedMember(members, m.source, m.ext) = {},
               Goto(s, [pc |-> "findActive", row |-> NoMember, asked |-> m])
        PROVE  KeyInv'
    <3> DEFINE state == [pc |-> "findActive", row |-> NoMember, asked |-> m]
    <3>1. KeyOK(members, s, state)
      BY <2>2, <2>4 DEF KeyOK
    <3>2. Goto(s, state)
      BY <2>4
    <3> HIDE DEF state
    <3> QED BY <1>2, <2>2, <3>1, <3>2, KeyRead
  <2> QED BY <2>1, <2>3, <2>4
<1>6. ASSUME NEW s \in Session, FindRemoved(s) PROVE KeyInv'
  <2> DEFINE m == Asked(s)
  <2>1. session[s].pc = "findRemoved" /\ KeyOK(members, s, session[s])
    BY <1>1, <1>6 DEF FindRemoved, At
  <2>2. /\ s \notin SyncSession => m.ext = NoExt
        /\ m.ext # NoExt => KeyedMember(members, m.source, m.ext) = {}
    BY <2>1 DEF KeyOK, Asked
  <2>3. UNCHANGED members
    BY <1>6 DEF FindRemoved
  <2>4. \/ \E r : Goto(s, [pc |-> "revive", row |-> r, asked |-> m])
        \/ Goto(s, [pc |-> "insert", row |-> NoMember, asked |-> m])
    BY <1>6 DEF FindRemoved
  <2> HIDE DEF m
  <2>5. ASSUME NEW r, NEW pc \in {"revive", "insert"}
        PROVE  KeyOK(members, s, [pc |-> pc, row |-> r, asked |-> m])
    BY <2>2 DEF KeyOK
  <2> QED BY <1>2, <2>3, <2>4, <2>5, KeyRead
<1>7. ASSUME NEW s \in Session, Revive(s) PROVE KeyInv'
  <2> DEFINE m == Asked(s)
             r == session[s].row
  <2>1. /\ r \in Used(members) /\ m \in Membership
        /\ Grounded(m) /\ Owner[members[r].node] = Owner[m.node]
    BY <1>1, <1>7, BusyState DEF Revive, At, Asked, StateOK
  <2>2. /\ s \notin SyncSession => m.ext = NoExt
        /\ m.ext # NoExt => KeyedMember(members, m.source, m.ext) \subseteq {r}
    BY <1>1, <1>7 DEF Revive, At, Asked, KeyOK
  <2>3. members' = Revived(members, r, m) /\ Goto(s, Idle)
    BY <1>7 DEF Revive
  <2> HIDE DEF m, r
  <2>4. Kept(members, members')
    BY <1>1, <2>1, <2>3, RevivedGood
  <2>5. /\ members'[r].ext = m.ext /\ members'[r].source = m.source
        /\ \A q \in MemberId \ {r} : members'[q] = members[q]
    BY <1>1, <2>1, <2>3, WrittenRows
  <2>6. Unique(members') /\ (m.ext = NoExt => NoNewKeys(members, members'))
    BY <1>1, <2>2, <2>5, OneRowKeys
  <2> QED BY <1>2, <2>2, <2>3, <2>4, <2>6, KeyWrite
<1>8. ASSUME NEW s \in Session, Insert(s) PROVE KeyInv'
  <2> DEFINE m == Asked(s)
  <2>1. m \in Membership /\ Grounded(m) /\ Goto(s, Idle)
    BY <1>1, <1>8, BusyState DEF Insert, At, Asked, StateOK
  <2>2. /\ s \notin SyncSession => m.ext = NoExt
        /\ m.ext # NoExt => KeyedMember(members, m.source, m.ext) = {}
    BY <1>1, <1>8 DEF Insert, At, Asked, KeyOK
  <2>3. PICK r \in MemberId \ Used(members) :
          \/ /\ OneRowPerPair(InsertedMember(members, r, m))
             /\ members' = InsertedMember(members, r, m)
          \/ UNCHANGED members
    BY <1>8 DEF Insert
  <2> HIDE DEF m
  <2>4. CASE UNCHANGED members
    BY <1>1, <1>2, <1>3, <2>1, <2>4, KeyWrite
  <2>5. CASE /\ OneRowPerPair(InsertedMember(members, r, m))
             /\ members' = InsertedMember(members, r, m)
    <3>1. Kept(members, members')
      BY <1>1, <2>1, <2>5, InsertedGood
    <3>2. /\ members'[r].ext = m.ext /\ members'[r].source = m.source
          /\ \A q \in MemberId \ {r} : members'[q] = members[q]
      BY <1>1, <2>1, <2>5, WrittenRows
    <3>3. Unique(members') /\ (m.ext = NoExt => NoNewKeys(members, members'))
      BY <1>1, <2>2, <3>2, OneRowKeys
    <3> QED BY <1>2, <2>1, <2>2, <3>1, <3>3, KeyWrite
  <2> QED BY <2>3, <2>4, <2>5
<1>9. ASSUME NEW s \in Session, CheckConflict(s) PROVE KeyInv'
  <2> DEFINE x == session[s]
             state == [x EXCEPT !.pc = "rekey"]
  <2>1. x \in SessionState /\ x.pc = "checkConflict" /\ KeyOK(members, s, x)
    BY <1>1, <1>9 DEF CheckConflict, At
  <2>2. state.pc = "rekey" /\ state.row = x.row /\ state.asked = x.asked
    BY <2>1, BusyState
  <2>3. UNCHANGED members /\ (Goto(s, state) \/ Goto(s, Idle))
    BY <1>9 DEF CheckConflict
  <2> HIDE DEF x, state
  <2>4. KeyOK(members, s, state)
    BY <2>1, <2>2 DEF KeyOK
  <2> QED BY <1>2, <2>3, <2>4, IdleKeyOK, KeyRead
<1>10. ASSUME NEW s \in Session, Rekey(s) PROVE KeyInv'
  <2> DEFINE m == Asked(s)
             r == session[s].row
  <2>1. /\ r \in Used(members) /\ m \in Membership
        /\ Owner[members[r].node] = Owner[m.node]
    BY <1>1, <1>10, BusyState DEF Rekey, At, Asked, StateOK
  <2>2. /\ s \in SyncSession
        /\ members[r].ext # NoExt =>
              /\ members[r].ext = m.ext /\ members[r].source = m.source
              /\ KeyedMember(members, m.source, m.ext) \subseteq {r}
    BY <1>1, <1>10 DEF Rekey, At, Asked, KeyOK
  <2>3. \/ /\ OneRowPerPair(Rekeyed(members, r, m))
           /\ members' = Rekeyed(members, r, m)
        \/ UNCHANGED members
    BY <1>10 DEF Rekey
  <2>4. Goto(s, Idle)
    BY <1>10 DEF Rekey
  <2> HIDE DEF m, r
  <2>5. CASE UNCHANGED members
    BY <1>1, <1>2, <1>3, <2>4, <2>5, KeyWrite
  <2>6. CASE /\ OneRowPerPair(Rekeyed(members, r, m))
             /\ members' = Rekeyed(members, r, m)
    <3>1. Kept(members, members')
      BY <1>1, <2>1, <2>6, RekeyedGood
    <3>2. /\ members'[r].ext = members[r].ext
          /\ members'[r].source = members[r].source
          /\ \A q \in MemberId \ {r} : members'[q] = members[q]
      BY <1>1, <2>1, <2>6, WrittenRows
    <3>3. Unique(members')
      BY <1>1, <2>2, <3>2, OneRowKeys
    <3> QED BY <1>2, <2>2, <2>4, <3>1, <3>3, KeyWrite
  <2> QED BY <2>3, <2>5, <2>6
<1>11. ASSUME NEW s \in Session, FindActive(s) PROVE KeyInv'
  <2> DEFINE m == Asked(s)
  <2>1. /\ m \in Membership /\ m.source = Owner[m.node] /\ s \in SyncSession
        /\ m.ext # NoExt => KeyedMember(members, m.source, m.ext) = {}
    BY <1>1, <1>11, BusyState DEF FindActive, At, Asked, StateOK, KeyOK
  <2>2. UNCHANGED members
    BY <1>11 DEF FindActive
  <2>3. ASSUME NEW r \in ActiveAt(members, m.node, m.user),
               Goto(s, [pc |-> "revive", row |-> r,
                        asked |-> [m EXCEPT !.ext =
                          IF @ = NoExt THEN members[r].ext ELSE @]])
        PROVE  KeyInv'
    <3> DEFINE ext == IF m.ext = NoExt THEN members[r].ext ELSE m.ext
               m2 == [m EXCEPT !.ext = ext]
               state == [pc |-> "revive", row |-> r, asked |-> m2]
    <3>1. /\ r \in Active(members) /\ r \in Used(members)
          /\ members[r].node = m.node /\ Grounded(members[r])
      BY <1>1 DEF ActiveAt, Active, Used, Good
    <3>2. m2.source = m.source /\ m2.ext = ext
      BY <2>1 DEF Membership
    <3>3. ext # NoExt => KeyedMember(members, m.source, ext) \subseteq {r}
      <4>1. CASE m.ext = NoExt
        <5> SUFFICES ASSUME members[r].ext # NoExt
                     PROVE  KeyedMember(members, m.source, members[r].ext) \subseteq {r}
          BY <4>1
        <5>1. members[r].source = m.source
          BY <2>1, <3>1 DEF Grounded
        <5> QED BY <1>1, <3>1, <5>1 DEF Unique, KeyedMember
      <4>2. CASE m.ext # NoExt
        BY <2>1, <4>2
      <4> QED BY <4>1, <4>2
    <3>4. Goto(s, state)
      BY <2>3
    <3> HIDE DEF m2, ext
    <3>5. KeyOK(members, s, state)
      BY <2>1, <3>2, <3>3 DEF KeyOK
    <3> HIDE DEF state
    <3> QED BY <1>2, <2>2, <3>4, <3>5, KeyRead
  <2>4. ASSUME Goto(s, [pc |-> "findRemoved", row |-> NoMember, asked |-> m])
        PROVE  KeyInv'
    <3> DEFINE state == [pc |-> "findRemoved", row |-> NoMember, asked |-> m]
    <3>1. Goto(s, state)
      BY <2>4
    <3> HIDE DEF m
    <3>2. KeyOK(members, s, state)
      BY <2>1 DEF KeyOK
    <3> HIDE DEF state
    <3> QED BY <1>2, <2>2, <3>1, <3>2, KeyRead
  <2> QED BY <1>11, <2>3, <2>4 DEF FindActive
<1>12. ASSUME NEW s \in Session, Fail(s) PROVE KeyInv'
  BY <1>2, <1>12, IdleKeyOK, KeyRead DEF Fail
<1>13. ASSUME NEW s \in Session, RemoveMember(s) PROVE KeyInv'
  <2>1. PICK n \in NodeId, u \in UserId : members' = MemberRemoved(members, n, u)
    BY <1>13 DEF RemoveMember
  <2>2. ActiveAt(members, n, u) \in SUBSET Used(members)
    BY DEF ActiveAt, Active, Used
  <2>3. Kept(members, members')
    BY <1>1, <2>1, <2>2, Removed DEF MemberRemoved
  <2>4. NoNewKeys(members, members')
    BY <1>1, <2>1, <2>2, RemovedKeys DEF MemberRemoved
  <2> QED BY <1>2, <1>13, <2>3, <2>4, KeyStatement DEF RemoveMember
<1>14. ASSUME NEW s \in Session, UpdateRole(s) PROVE KeyInv'
  <2>1. PICK n \in NodeId, u \in UserId, role \in Role :
          members' = RoleUpdated(members, n, u, role)
    BY <1>14 DEF UpdateRole
  <2>2. ActiveAt(members, n, u) \in SUBSET Used(members)
    BY DEF ActiveAt, Active, Used
  <2>3. Kept(members, members')
    BY <1>1, <2>1, <2>2, Relabelled DEF RoleUpdated
  <2>4. NoNewKeys(members, members')
    BY <1>1, <2>1, <2>2, RelabelledKeys DEF RoleUpdated
  <2> QED BY <1>2, <1>14, <2>3, <2>4, KeyStatement DEF UpdateRole
<1>15. ASSUME NEW s \in Session, DeleteBySource(s) PROVE KeyInv'
  <2>1. PICK src \in Source, exts \in SUBSET ExtId,
             pairs \in SUBSET {<<n, u>> : n \in NodeId, u \in UserId} :
          members' = MembersSourceDeleted(members, src, exts, pairs)
    BY <1>15 DEF DeleteBySource
  <2> DEFINE R == {r \in Active(members) :
                     /\ members[r].source = src
                     /\ members[r].ext = NoExt \/ members[r].ext \notin exts
                     /\ <<members[r].node, members[r].user>> \notin pairs}
  <2>2. R \in SUBSET Used(members)
    BY DEF Active, Used
  <2>3. members' = [r \in MemberId |-> IF r \in R
            THEN [members[r] EXCEPT !.status = "deleted"] ELSE members[r]]
    BY <2>1 DEF MembersSourceDeleted
  <2> HIDE DEF R
  <2>4. Kept(members, members')
    BY <1>1, <2>2, <2>3, Removed
  <2>5. NoNewKeys(members, members')
    BY <1>1, <2>2, <2>3, RemovedKeys
  <2> QED BY <1>2, <1>15, <2>4, <2>5, KeyStatement DEF DeleteBySource
<1>16. ASSUME UNCHANGED vars PROVE KeyInv'
  BY <1>2, <1>3, <1>16, KeyStatement DEF vars
<1> QED BY <1>4, <1>5, <1>6, <1>7, <1>8, <1>9, <1>10, <1>11, <1>12, <1>13,
           <1>14, <1>15, <1>16 DEF Next, Begin, Continue

(* With one sync at a time, and any number of admins at work meanwhile, a
   source and an external id name one membership at most. *)
THEOREM KeysNameOneMembership ==
    ASSUME \A r, q \in SyncSession : r = q
    PROVE  Spec => []ExternalIdUnique
<1>1. KeyInv /\ [Next]_vars => KeyInv'
  BY NextKeys
<1>2. KeyInv => ExternalIdUnique
  BY DEF KeyInv
<1> QED BY InitKeys, <1>1, <1>2, PTL DEF Spec
=============================================================================
