-------------------------- MODULE ActivationProofs --------------------------
(***************************************************************************)
(* Whichever calls fail and whichever servers die, on a cluster of any     *)
(* size with any mix of releases: the version noted is covered by the      *)
(* database, and an active plugin has every object of its release.         *)
(***************************************************************************)
EXTENDS Activation, TLAPS

(* What a server's place in OnActivate says of the database. *)
Progress(p, t) ==
    /\ p.pc \in {"migrate", "setVersion"} => 1..p.current \subseteq t
    /\ p.pc = "migrate" => 1..(p.next - 1) \subseteq t
    /\ p.pc = "setVersion" => 1..p.next \subseteq t /\ p.next \in 1..p.latest
    /\ p.pc \in {"register", "active"} => 1..p.latest \subseteq t

(* The inductive invariant.  Migrations are only ever added, so what holds of
   the other servers goes on holding. *)
SchemaInv == TypeOK /\ VersionTrue /\ \A s \in Server : Progress(plugin[s], schema)

-----------------------------------------------------------------------------
(* Updates of a plugin's state are states. *)
LEMMA Updated ==
  ASSUME NEW r \in PluginState, NEW pc \in PC, NEW latest \in Release \cup {0},
         NEW current \in 0..Latest, NEW next \in 0..(Latest + 1)
  PROVE  /\ [r EXCEPT !.pc = pc] \in PluginState
         /\ [r EXCEPT !.pc = pc, !.latest = latest] \in PluginState
         /\ [r EXCEPT !.pc = pc, !.current = current, !.next = next] \in PluginState
         /\ [r EXCEPT !.pc = pc, !.next = next] \in PluginState
         /\ [r EXCEPT !.next = next] \in PluginState
  BY Zenon DEF PluginState

(* The releases are migrations. *)
LEMMA ReleaseRange == \A r \in Release \cup {0} : r \in 0..Latest
  BY ActivationAssumption

LEMMA InitSchema == Init => SchemaInv
<1> SUFFICES ASSUME Init PROVE SchemaInv
  OBVIOUS
<1>1. Latest \in Nat
  BY ActivationAssumption
<1>2. Down \in PluginState /\ Down.pc = "down"
  BY <1>1 DEF Down, PluginState, PC
<1>3. \A s \in Server : plugin[s] = Down
  BY DEF Init
<1>4. TypeOK
  BY <1>1, <1>2 DEF Init, TypeOK
<1>5. VersionTrue
  BY DEF Init, VersionTrue
<1> QED BY <1>2, <1>3, <1>4, <1>5 DEF SchemaInv, Progress

(* A step of one server that takes nothing from the database and leaves the
   server at a true place keeps the invariant. *)
LEMMA ServerStep ==
  ASSUME SchemaInv, NEW s \in Server, NEW p \in PluginState, Goto(s, p),
         schema \subseteq schema', schema' \subseteq 1..Latest, Progress(p, schema'),
         version' \in 0..Latest, 1..version' \subseteq schema'
  PROVE  SchemaInv'
<1>1. plugin' = [plugin EXCEPT ![s] = p] /\ plugin \in [Server -> PluginState]
  BY DEF Goto, SchemaInv, TypeOK
<1>2. TypeOK'
  BY <1>1 DEF TypeOK
<1>3. VersionTrue'
  BY DEF VersionTrue
<1>4. ASSUME NEW q \in Server PROVE Progress(plugin'[q], schema')
  <2>1. CASE q = s
    BY <1>1, <2>1
  <2>2. CASE q # s
    <3>1. plugin'[q] = plugin[q] /\ Progress(plugin[q], schema)
      BY <1>1, <2>2 DEF SchemaInv
    <3> QED BY <3>1 DEF Progress
  <2> QED BY <2>1, <2>2
<1> QED BY <1>2, <1>3, <1>4 DEF SchemaInv

LEMMA NextSchema == SchemaInv /\ [Next]_vars => SchemaInv'
<1> SUFFICES ASSUME SchemaInv, [Next]_vars PROVE SchemaInv'
  OBVIOUS
<1>0. /\ TypeOK /\ VersionTrue /\ \A s \in Server : Progress(plugin[s], schema)
      /\ Latest \in Nat \ {0}
  BY ActivationAssumption DEF SchemaInv
<1>1. ASSUME NEW s \in Server, Activate(s) PROVE SchemaInv'
  <2>1. PICK latest \in Release : Goto(s, [Down EXCEPT !.pc = "bot", !.latest = latest])
    BY <1>1 DEF Activate
  <2> DEFINE p == [Down EXCEPT !.pc = "bot", !.latest = latest]
  <2>2. Down \in PluginState /\ 0 \in 0..Latest /\ 0 \in 0..(Latest + 1)
    BY <1>0 DEF Down, PluginState, PC
  <2>2a. p \in PluginState
    BY <2>2, Updated DEF PC
  <2>2b. p.pc = "bot"
    BY DEF Down
  <2>3. schema' = schema /\ version' = version
    BY <1>1 DEF Activate
  <2>4. Progress(p, schema')
    BY <2>2b DEF Progress
  <2>5. Goto(s, p)
    BY <2>1
  <2> HIDE DEF p
  <2> QED BY <1>0, <2>2a, <2>3, <2>4, <2>5, ServerStep DEF TypeOK, VersionTrue
<1>2. ASSUME NEW s \in Server, EnsureBot(s) PROVE SchemaInv'
  <2> DEFINE p == [plugin[s] EXCEPT !.pc = "store"]
  <2>1. Goto(s, p) /\ schema' = schema /\ version' = version
    BY <1>2 DEF EnsureBot
  <2>2. p \in PluginState /\ p.pc = "store"
    BY <1>0 DEF TypeOK, PluginState, PC
  <2>3. Progress(p, schema')
    BY <2>2 DEF Progress
  <2> HIDE DEF p
  <2> QED BY <1>0, <2>1, <2>2, <2>3, ServerStep DEF TypeOK, VersionTrue
<1>2a. ASSUME NEW s \in Server, NewSQLStore(s) PROVE SchemaInv'
  <2> DEFINE p == [plugin[s] EXCEPT !.pc = "version"]
  <2>1. Goto(s, p) /\ schema' = schema /\ version' = version
    BY <1>2a DEF NewSQLStore
  <2>2. p \in PluginState /\ p.pc = "version"
    BY <1>0 DEF TypeOK, PluginState, PC
  <2>3. Progress(p, schema')
    BY <2>2 DEF Progress
  <2> HIDE DEF p
  <2> QED BY <1>0, <2>1, <2>2, <2>3, ServerStep DEF TypeOK, VersionTrue
<1>3. ASSUME NEW s \in Server, GetSchemaVersion(s) PROVE SchemaInv'
  <2>1. PICK current \in {version, 0} :
          Goto(s, [plugin[s] EXCEPT !.pc = "migrate", !.current = current, !.next = 1])
    BY <1>3 DEF GetSchemaVersion
  <2> DEFINE p == [plugin[s] EXCEPT !.pc = "migrate", !.current = current, !.next = 1]
  <2>2. schema' = schema /\ version' = version
    BY <1>3 DEF GetSchemaVersion
  <2>3. current \in 0..Latest /\ 1..current \subseteq schema
    BY <1>0 DEF TypeOK, VersionTrue
  <2> DEFINE r == plugin[s]
  <2>4a. r \in PluginState
    BY <1>0 DEF TypeOK
  <2>4b. 1 \in 0..(Latest + 1) /\ 0 \in Release \cup {0} /\ "migrate" \in PC
    BY <1>0 DEF PC
  <2>4c. p \in PluginState
    BY <2>3, <2>4a, <2>4b, Updated
  <2>4. p.pc = "migrate" /\ p.current = current /\ p.next = 1
    BY <2>4a DEF PluginState
  <2>5. Progress(p, schema')
    BY <2>2, <2>3, <2>4 DEF Progress
  <2>6. Goto(s, p)
    BY <2>1
  <2> HIDE DEF p
  <2> QED BY <1>0, <2>2, <2>4c, <2>5, <2>6, ServerStep DEF TypeOK, VersionTrue
<1>4. ASSUME NEW s \in Server, SkipMigration(s) PROVE SchemaInv'
  <2> DEFINE r == plugin[s]
             done == [r EXCEPT !.pc = "register"]
             skip == [r EXCEPT !.next = @ + 1]
  <2>1. r.pc = "migrate" /\ schema' = schema /\ version' = version
    BY <1>4 DEF SkipMigration, At
  <2>2. /\ r \in PluginState /\ r.next \in 0..(Latest + 1) /\ r.current \in 0..Latest
        /\ r.latest \in 0..Latest
    BY <1>0, ReleaseRange DEF TypeOK, PluginState
  <2>3. 1..r.current \subseteq schema /\ 1..(r.next - 1) \subseteq schema
    BY <1>0, <2>1 DEF Progress
  <2>4. CASE r.next > r.latest
    <3>1. Goto(s, done)
      BY <1>4, <2>4 DEF SkipMigration
    <3>2. done \in PluginState /\ done.pc = "register" /\ done.latest = r.latest
      BY <2>2 DEF PluginState, PC
    <3>3. 1..r.latest \subseteq schema
      BY <2>2, <2>3, <2>4
    <3>4. Progress(done, schema')
      BY <2>1, <3>2, <3>3 DEF Progress
    <3> HIDE DEF done
    <3> QED BY <1>0, <2>1, <3>1, <3>2, <3>4, ServerStep DEF TypeOK, VersionTrue
  <2>5. CASE ~(r.next > r.latest)
    <3>1. Goto(s, skip)
      BY <1>4, <2>5 DEF SkipMigration
    <3>2. r.next <= r.current
      BY <1>4, <2>2, <2>5 DEF SkipMigration, Pending
    <3>a. r.next + 1 \in 0..(Latest + 1)
      BY <1>0, <2>2, <2>5
    <3>b. skip \in PluginState
      BY <2>2, <3>a, Updated DEF PC
    <3>3. skip.pc = "migrate" /\ skip.current = r.current /\ skip.next = r.next + 1
      BY <2>1, <2>2 DEF PluginState
    <3>4. 1..(skip.next - 1) \subseteq schema
      BY <2>2, <2>3, <3>2, <3>3
    <3>5. Progress(skip, schema')
      BY <2>1, <2>3, <3>3, <3>4 DEF Progress
    <3> HIDE DEF skip
    <3> QED BY <1>0, <2>1, <3>1, <3>b, <3>5, ServerStep DEF TypeOK, VersionTrue
  <2> QED BY <2>4, <2>5
<1>5. ASSUME NEW s \in Server, Exec(s) PROVE SchemaInv'
  <2> DEFINE r == plugin[s]
             p == [r EXCEPT !.pc = "setVersion"]
  <2>1. /\ r.pc = "migrate" /\ r.next <= r.latest /\ r.next > r.current
        /\ schema' = schema \cup {r.next} /\ version' = version /\ Goto(s, p)
    BY <1>5 DEF Exec, At, Pending
  <2>2. /\ r \in PluginState /\ r.next \in 1..Latest /\ r.latest \in 0..Latest
        /\ r.current \in 0..Latest
    BY <1>0, <2>1, ReleaseRange DEF TypeOK, PluginState
  <2>3. /\ p \in PluginState /\ p.pc = "setVersion" /\ p.latest = r.latest
        /\ p.current = r.current /\ p.next = r.next
    BY <2>2 DEF PluginState, PC
  <2>4. 1..r.current \subseteq schema /\ 1..(r.next - 1) \subseteq schema
    BY <1>0, <2>1 DEF Progress
  <2>5. 1..r.next \subseteq schema'
    BY <2>1, <2>2, <2>4
  <2>6. Progress(p, schema')
    BY <2>1, <2>2, <2>3, <2>4, <2>5 DEF Progress
  <2>7. schema \subseteq schema' /\ schema' \subseteq 1..Latest
    BY <1>0, <2>1, <2>2 DEF TypeOK
  <2> HIDE DEF p, r
  <2> QED BY <1>0, <2>1, <2>3, <2>6, <2>7, ServerStep DEF TypeOK, VersionTrue
<1>6. ASSUME NEW s \in Server, SetSchemaVersion(s) PROVE SchemaInv'
  <2> DEFINE r == plugin[s]
             p == [r EXCEPT !.pc = "migrate", !.next = @ + 1]
  <2>1. /\ r.pc = "setVersion" /\ schema' = schema /\ Goto(s, p)
        /\ version' \in {r.next, version}
    BY <1>6 DEF SetSchemaVersion, At
  <2>2. /\ r \in PluginState /\ r.latest \in 0..Latest /\ r.next \in 1..r.latest
        /\ 1..r.current \subseteq schema /\ 1..r.next \subseteq schema
    BY <1>0, <2>1, ReleaseRange DEF TypeOK, PluginState, Progress
  <2>3a. r.next + 1 \in 0..(Latest + 1) /\ r.current \in 0..Latest
    BY <1>0, <2>2 DEF PluginState
  <2>3b. p \in PluginState
    BY <2>2, <2>3a, Updated DEF PC
  <2>3. p.pc = "migrate" /\ p.current = r.current /\ p.next = r.next + 1
    BY <2>2 DEF PluginState
  <2>4. 1..(p.next - 1) \subseteq schema
    BY <2>2, <2>3
  <2>5. Progress(p, schema')
    BY <2>1, <2>2, <2>3, <2>4 DEF Progress
  <2>6. version' \in 0..Latest /\ 1..version' \subseteq schema'
    BY <1>0, <2>1, <2>2 DEF TypeOK, VersionTrue
  <2> HIDE DEF p, r
  <2> QED BY <1>0, <2>1, <2>3b, <2>5, <2>6, ServerStep DEF TypeOK
<1>7. ASSUME NEW s \in Server, Register(s) PROVE SchemaInv'
  <2> DEFINE p == [plugin[s] EXCEPT !.pc = "active"]
  <2>1. /\ plugin[s].pc = "register" /\ schema' = schema /\ version' = version
        /\ Goto(s, p)
    BY <1>7 DEF Register, At
  <2>2. p \in PluginState /\ p.pc = "active" /\ p.latest = plugin[s].latest
    BY <1>0 DEF TypeOK, PluginState, PC
  <2>3. Progress(p, schema')
    BY <1>0, <2>1, <2>2 DEF Progress
  <2> HIDE DEF p
  <2> QED BY <1>0, <2>1, <2>2, <2>3, ServerStep DEF TypeOK, VersionTrue
<1>8. ASSUME NEW s \in Server, Stop(s) PROVE SchemaInv'
  <2>1. Goto(s, Down) /\ schema' = schema /\ version' = version
    BY <1>8 DEF Stop
  <2>2. Down \in PluginState /\ Down.pc = "down"
    BY <1>0 DEF Down, PluginState, PC
  <2>3. Progress(Down, schema')
    BY <2>2 DEF Progress
  <2> QED BY <1>0, <2>1, <2>2, <2>3, ServerStep DEF TypeOK, VersionTrue
<1>9. CASE UNCHANGED vars
  BY <1>0, <1>9 DEF vars, SchemaInv, TypeOK, VersionTrue, Progress
<1> QED BY <1>1, <1>2, <1>2a, <1>3, <1>4, <1>5, <1>6, <1>7, <1>8, <1>9 DEF Next, Step

-----------------------------------------------------------------------------
(* The database grows along the lists of migrations and no server is ahead. *)
THEOREM SchemaInvariant == Spec => []SchemaInv
  BY InitSchema, NextSchema, PTL DEF Spec

(* The version noted never promises more than the database has. *)
THEOREM VersionIsTrue == Spec => []VersionTrue
<1>1. SchemaInv => VersionTrue
  BY DEF SchemaInv
<1> QED BY <1>1, SchemaInvariant, PTL

(* Database, version and plugins keep their types. *)
THEOREM ActivationTypeCorrect == Spec => []TypeOK
<1>1. SchemaInv => TypeOK
  BY DEF SchemaInv
<1> QED BY <1>1, SchemaInvariant, PTL

(* A plugin is active only on a database with all of its release's objects. *)
THEOREM ActiveOnFullSchema == Spec => []ActiveHasSchema
<1>1. SchemaInv => ActiveHasSchema
  BY DEF SchemaInv, Progress, ActiveHasSchema, At
<1> QED BY <1>1, SchemaInvariant, PTL

(* No migration runs before those that came before it in the list. *)
THEOREM MigrationsRunInOrder == Spec => []MigrationsInOrder
<1>1. SchemaInv => MigrationsInOrder
  BY DEF SchemaInv, Progress, MigrationsInOrder, At
<1> QED BY <1>1, SchemaInvariant, PTL

=============================================================================
