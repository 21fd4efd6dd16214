----------------------------- MODULE Activation -----------------------------
(***************************************************************************)
(* OnActivate of server/plugin.go and the migrations of                    *)
(* server/store/sql_store.go, on the nodes of a cluster.  Each node starts *)
(* and stops its plugin by itself and may run an earlier release, whose    *)
(* list of migrations is shorter; the database and the key-value store are *)
(* shared.  One call of the plugin is one step: calls fail, the process    *)
(* dies between two of them, and the nodes interleave.                     *)
(***************************************************************************)
EXTENDS Integers

CONSTANTS Server,       \* the nodes of the cluster
          Latest,       \* the last migration of this release
          Release       \* the last migrations of the releases in use

ASSUME ActivationAssumption ==
    /\ Latest \in Nat \ {0}
    /\ Release \subseteq 1..Latest

VARIABLES schema,     \* the migrations whose objects the database has
          version,    \* org_directory_schema_version, 0 if not set
          plugin      \* the plugin on each server

vars == <<schema, version, plugin>>

(* pc names the call that comes next; next is the migration in hand, of
   1..latest, and current what getSchemaVersion returned. *)
PC == {"down", "bot", "store", "version", "migrate", "setVersion", "register",
       "active"}

PluginState == [pc : PC, latest : Release \cup {0}, current : 0..Latest,
                next : 0..(Latest + 1)]

Down == [pc |-> "down", latest |-> 0, current |-> 0, next |-> 0]

Init == /\ schema = {}
        /\ version = 0
        /\ plugin = [s \in Server |-> Down]

At(s, pc) == plugin[s].pc = pc
Goto(s, state) == plugin' = [plugin EXCEPT ![s] = state]

-----------------------------------------------------------------------------
Activate(s) ==
    /\ At(s, "down")
    /\ \E latest \in Release :
         Goto(s, [Down EXCEPT !.pc = "bot", !.latest = latest])
    /\ UNCHANGED <<schema, version>>

EnsureBot(s) ==
    /\ At(s, "bot")
    /\ Goto(s, [plugin[s] EXCEPT !.pc = "store"])
    /\ UNCHANGED <<schema, version>>

(* GetMasterDB and GetReplicaDB; without a replica the master stands in. *)
NewSQLStore(s) ==
    /\ At(s, "store")
    /\ Goto(s, [plugin[s] EXCEPT !.pc = "version"])
    /\ UNCHANGED <<schema, version>>

(* a variant that takes an unreadable version for the last one *)
GetSchemaVersionOptimist(s) ==
    /\ At(s, "version")
    /\ \E current \in {version, plugin[s].latest} :
         Goto(s, [plugin[s] EXCEPT !.pc = "migrate", !.current = current,
                                   !.next = 1])
    /\ UNCHANGED <<schema, version>>

(* getSchemaVersion: an error counts as no version at all. *)
GetSchemaVersion(s) ==
    /\ At(s, "version")
    /\ \E current \in {version, 0} :
         Goto(s, [plugin[s] EXCEPT !.pc = "migrate", !.current = current,
                                   !.next = 1])
    /\ UNCHANGED <<schema, version>>

PendingLater(s) == plugin[s].next <= plugin[s].latest   \* one version too far
                      /\ plugin[s].next > plugin[s].current + 1

Pending(s) == plugin[s].next <= plugin[s].latest
                 /\ plugin[s].next > plugin[s].current

(* a variant that looks for the end one too late *)
SkipPastEnd(s) ==
    /\ At(s, "migrate") /\ ~Pending(s)
    /\ Goto(s, IF plugin[s].next > plugin[s].latest + 1
                 THEN [plugin[s] EXCEPT !.pc = "register"]
                 ELSE [plugin[s] EXCEPT !.next = @ + 1])
    /\ UNCHANGED <<schema, version>>

(* Migrations that are not newer than the version read are passed over. *)
SkipMigration(s) ==
    /\ At(s, "migrate") /\ ~Pending(s)
    /\ Goto(s, IF plugin[s].next > plugin[s].latest
                 THEN [plugin[s] EXCEPT !.pc = "register"]
                 ELSE [plugin[s] EXCEPT !.next = @ + 1])
    /\ UNCHANGED <<schema, version>>

(* The indexes of a migration need the tables of the first. *)
Applicable(m) == m = 1 \/ 1 \in schema

(* Variants: an error that is dropped, and no IF NOT EXISTS. *)
ExecUnchecked(s) ==
    /\ At(s, "migrate") /\ Pending(s) /\ Applicable(plugin[s].next)
    /\ schema' \in {schema, schema \cup {plugin[s].next}}
    /\ Goto(s, [plugin[s] EXCEPT !.pc = "setVersion"])
    /\ UNCHANGED version

ExecOnce(s) ==
    /\ At(s, "migrate") /\ Pending(s) /\ Applicable(plugin[s].next)
    /\ plugin[s].next \notin schema
    /\ schema' = schema \cup {plugin[s].next}
    /\ Goto(s, [plugin[s] EXCEPT !.pc = "setVersion"])
    /\ UNCHANGED version

(* Exec, which the driver sends as one query of several statements, so that
   they commit together.  Each has IF NOT EXISTS and may be run again.  One
   that would have to fail, for want of an object or because of one that is
   there, has no step: that such an activation would stand still, and not end
   in an error time after time, is what ActivationEnds goes by. *)
Exec(s) ==
    /\ At(s, "migrate") /\ Pending(s) /\ Applicable(plugin[s].next)
    /\ schema' = schema \cup {plugin[s].next}
    /\ Goto(s, [plugin[s] EXCEPT !.pc = "setVersion"])
    /\ UNCHANGED version

(* setSchemaVersion drops the error of KVSet. *)
SetSchemaVersion(s) ==
    /\ At(s, "setVersion")
    /\ version' \in {plugin[s].next, version}
    /\ Goto(s, [plugin[s] EXCEPT !.pc = "migrate", !.next = @ + 1])
    /\ UNCHANGED schema

(* initializeAPI and RegisterCommand *)
Register(s) ==
    /\ At(s, "register")
    /\ Goto(s, [plugin[s] EXCEPT !.pc = "active"])
    /\ UNCHANGED <<schema, version>>

(* A call fails and OnActivate returns its error; or the process dies; or an
   active plugin is deactivated. *)
Stop(s) ==
    /\ ~At(s, "down")
    /\ Goto(s, Down)
    /\ UNCHANGED <<schema, version>>

Step(s) == \/ EnsureBot(s) \/ NewSQLStore(s) \/ GetSchemaVersion(s)
           \/ SkipMigration(s) \/ Exec(s) \/ SetSchemaVersion(s) \/ Register(s)

Next == \E s \in Server : Activate(s) \/ Step(s) \/ Stop(s)

Spec == Init /\ [][Next]_vars /\ \A s \in Server : WF_vars(Step(s))

-----------------------------------------------------------------------------
TypeOK == /\ schema \subseteq 1..Latest
          /\ version \in 0..Latest
          /\ plugin \in [Server -> PluginState]

(* Whatever calls failed, whichever processes died between a migration and the
   note of it, and whichever release noted its version last: the version that
   the next activation will trust is covered by the database. *)
VersionTrue == 1..version \subseteq schema

(* An active plugin has every table and index of its release. *)
ActiveHasSchema ==
    \A s \in Server : At(s, "active") => 1..plugin[s].latest \subseteq schema

(* A migration is run on top of all that came before it. *)
MigrationsInOrder ==
    \A s \in Server :
        At(s, "migrate") /\ Pending(s)
            => 1..(plugin[s].next - 1) \subseteq schema

(* An activation ends, in an active plugin or in an error: no migration waits
   for an object that is not there, or trips over one that is. *)
ActivationEnds ==
    \A s \in Server :
        ~At(s, "down") ~> plugin[s].pc \in {"down", "active"}
=============================================================================
