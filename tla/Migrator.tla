-------------------------------- MODULE Migrator --------------------------------
(***************************************************************************)
(* The schema migrations that auth.Initialize runs at every start:         *)
(* pkg/auth/migrations/migrations.go and schema.go, on the database the    *)
(* audit package has opened (pkg/audit/logger.go).  Up reads the list of   *)
(* applied versions once and then runs what is missing, each migration     *)
(* with its record in one transaction.  The schema is a set of names:      *)
(* tables, triggers, a function, a column, and the rows of migration 3.    *)
(***************************************************************************)
EXTENDS Naturals, Sequences, FiniteSets, FiniteSetsExt

CONSTANTS
  Processes,      \* processes of the gateway, or callers of Down and Status
  Kinds,          \* databases: "postgres", "scripted" or "sqlite"
  MaxStarts,      \* bound: calls of Up
  MaxRollbacks    \* bound: calls of Down

ASSUME MigratorAssumption ==
  /\ Kinds \subseteq {"postgres", "scripted", "sqlite"}
  /\ MaxStarts \in Nat /\ MaxRollbacks \in Nat

VARIABLES
  kind,           \* what the database was at first
  schema,         \* committed objects
  applied,        \* versions in schema_migrations
  spent,          \* an insert has taken 1, the first id of organizations
  pc, op,         \* each process
  list,           \* the versions it read
  at,             \* the version of its loop
  starts, rollbacks,
  \* history
  clean,          \* an Up has returned nil since the last rollback began
  mixed,          \* a rollback has run beside another call
  trouble         \* a statement failed, or a process died, or a rollback began

database == <<kind, schema, applied, spent>>
process  == <<pc, op, list, at>>
bounds   == <<starts, rollbacks>>
history  == <<clean, mixed, trouble>>
vars     == <<database, process, bounds, history>>
-------------------------------------------------------------------------------
(* The migrations.  needs: what the SQL refers to; creates: it fails when   *)
(* one is there; keeps: it leaves what is there; drops: of the DownSQL.     *)

Tables == {"organizations", "users", "user_sessions", "refresh_tokens", "auth_events",
           "password_resets"}

(* What goes with the tables they hang on; "stranger": a registration made  *)
(* organization 1.                                                          *)
Dependents == {"organizations_trigger", "users_trigger", "owner_id", "default", "admin",
               "stranger"}

Migration(needs, creates, keeps, drops) ==
  [needs |-> needs, creates |-> creates, keeps |-> keeps, drops |-> drops]

Owners == {"organizations", "users"}
Triggers == {"organizations_trigger", "users_trigger"}

PgInitialSchema == Migration({}, Tables, {}, Tables \cup Dependents)
PgTriggers      == Migration(Owners, Triggers, {"function"}, Triggers \cup {"function"})
PgDefaultData   == Migration(Owners, {}, {"default", "admin"}, {"default", "admin"})
PgOwnerId       == Migration(Owners, {"owner_id"}, {}, {"owner_id"})
PgApiKeys       == Migration(Owners, {"api_keys"}, {}, {"api_keys"})
PgTransactions  == Migration({}, {"transactions"}, {}, {"transactions"})

LiteInitialSchema == Migration({}, Tables, {}, Tables \cup Dependents)
LiteTriggers      == Migration(Owners, Triggers, {}, Triggers)
LiteDefaultData   == Migration(Owners, {}, {"default", "admin"}, {"default", "admin"})
(* The index goes, the column stays.                                        *)
LiteOwnerId       == Migration({"organizations"}, {"owner_id"}, {}, {})
LiteApiKeys       == Migration({}, {"api_keys"}, {}, {"api_keys"})
LiteTransactions  == Migration({}, {"transactions"}, {}, {"transactions"})

getPostgreSQLMigrations ==
  <<PgInitialSchema, PgTriggers, PgDefaultData, PgOwnerId, PgApiKeys, PgTransactions>>

getSQLiteMigrations ==
  <<LiteInitialSchema, LiteTriggers, LiteDefaultData, LiteOwnerId, LiteApiKeys,
    LiteTransactions>>

Versions == 1..6

Migrations == IF kind = "sqlite" THEN getSQLiteMigrations ELSE getPostgreSQLMigrations

Makes(v) == Migrations[v].creates \cup Migrations[v].keeps

(* The tables of database/init/01_auth_schema.sql.                          *)
Scripted == {"organizations", "users", "user_sessions", "api_keys", "transactions",
             "function", "default", "admin", "owner_id"} \cup Triggers

Given == CASE kind = "scripted" -> Scripted
           [] kind = "sqlite"   -> {"transactions"}
           [] OTHER             -> {}

Init ==
  /\ kind \in Kinds
  /\ schema = IF kind = "scripted" THEN Scripted ELSE {}
  /\ applied = {} /\ spent = (kind = "scripted")
  /\ pc = [i \in Processes |-> "down"] /\ op = [i \in Processes |-> "up"]
  /\ list = [i \in Processes |-> {}] /\ at = [i \in Processes |-> 1]
  /\ starts = 0 /\ rollbacks = 0
  /\ clean = FALSE /\ mixed = FALSE /\ trouble = FALSE
-------------------------------------------------------------------------------
Goto(i, from, to) == pc[i] = from /\ pc' = [pc EXCEPT ![i] = to]

Busy(i) == pc[i] \notin {"down", "serving"}

(* It serves after Up, whatever Up returned; a tool that called Down or     *)
(* Status is done.                                                          *)
Finished(i) == IF op[i] = "up" THEN "serving" ELSE "down"

(* What a call keeps for itself is gone when it returns.                    *)
Keep   == UNCHANGED <<op, list, at>>
Forget(i) ==
  /\ op' = [op EXCEPT ![i] = "up"] /\ list' = [list EXCEPT ![i] = {}]
  /\ at' = [at EXCEPT ![i] = 1]

(* Only the process that uses a SQLite file opens it.                       *)
Start(i) ==
  /\ starts < MaxStarts /\ Goto(i, "down", "open")
  /\ kind = "sqlite" => \A j \in Processes : pc[j] = "down"
  /\ op' = [op EXCEPT ![i] = "up"]
  /\ starts' = starts + 1
  /\ mixed' = (mixed \/ \E j \in Processes : Busy(j) /\ op[j] = "down")
  /\ UNCHANGED <<database, list, at, rollbacks, clean, trouble>>

(* Nothing in the repository calls them yet.                                *)
CallStatus(i) ==
  /\ kind # "sqlite" /\ Goto(i, "down", "ensure")
  /\ op' = [op EXCEPT ![i] = "status"]
  /\ UNCHANGED <<database, list, at, bounds, history>>

CallDown(i) ==
  /\ rollbacks < MaxRollbacks /\ Goto(i, "down", "ensure")
  /\ kind = "sqlite" => \A j \in Processes : ~Busy(j)
  /\ op' = [op EXCEPT ![i] = "down"]
  /\ rollbacks' = rollbacks + 1
  /\ mixed' = (mixed \/ \E j \in Processes : Busy(j) /\ op[j] # "status")
  /\ clean' = FALSE /\ trouble' = TRUE
  /\ UNCHANGED <<database, list, at, starts>>

(* audit.Initialize, without DB_HOST: createTables.                         *)
CreateTables(i) ==
  /\ Goto(i, "open", "ensure")
  /\ schema' = IF kind = "sqlite" THEN schema \cup {"transactions"} ELSE schema
  /\ UNCHANGED <<kind, applied, spent, op, list, at, bounds, history>>

(* CREATE TABLE IF NOT EXISTS schema_migrations.                            *)
EnsureTable(i) ==
  /\ Goto(i, "ensure", "read")
  /\ UNCHANGED <<database, op, list, at, bounds, history>>

(* Up starts its loop, Down takes the last version, Status answers.         *)
ReadApplied(i) ==
  /\ \/ /\ op[i] = "up" /\ Goto(i, "read", "loop")
        /\ list' = [list EXCEPT ![i] = applied] /\ UNCHANGED <<op, at>>
     \/ /\ op[i] = "down" /\ applied # {} /\ Goto(i, "read", "undo")
        /\ at' = [at EXCEPT ![i] = Max(applied)] /\ UNCHANGED <<op, list>>
     \/ /\ op[i] = "status" \/ (op[i] = "down" /\ applied = {})
        /\ Goto(i, "read", "down") /\ Forget(i)
  /\ UNCHANGED <<database, bounds, history>>

(* Mutant: the loop starts at the second migration.                         *)
PendingAfter(i) == {v \in Versions : v > at[i] /\ v \notin list[i]}

Pending(i) == {v \in Versions : v >= at[i] /\ v \notin list[i]}

(* isMigrationApplied looks at the list that was read before the loop.      *)
NextMigration(i) ==
  /\ Pending(i) # {}
  /\ Goto(i, "loop", "sql")
  /\ at' = [at EXCEPT ![i] = Min(Pending(i))]
  /\ UNCHANGED <<database, op, list, bounds, history>>

UpReturns(i) ==
  /\ Pending(i) = {}
  /\ Goto(i, "loop", "serving")
  /\ clean' = TRUE /\ Forget(i)
  /\ UNCHANGED <<database, bounds, mixed, trouble>>
-------------------------------------------------------------------------------
(* runMigration                                                            *)

InTransaction(i) == pc[i] \in {"commit", "drop"}

(* An open transaction keeps its locks: another one on the same objects, or *)
(* that would write the same record, waits for its end.                     *)
Objects(v) == Makes(v) \cup Migrations[v].needs \cup Migrations[v].drops

(* Mutant: it waits for the others that have begun, locks or not.           *)
WaitsForAll(i) == \E j \in Processes \ {i} : InTransaction(j) \/ pc[j] \in {"sql", "undo"}

Waits(i) ==
  \E j \in Processes \ {i} :
    InTransaction(j) /\ Objects(at[j]) \cap Objects(at[i]) # {}

(* Mutant: the user is inserted with the id its organization was given.     *)
AdminFindsAny == TRUE

(* The user of migration 3 belongs to organization 1, and the default       *)
(* organization is that one if it is given the first id.                    *)
AdminFindsOrganization == {"admin", "stranger"} \cap schema # {} \/ ~spent

UpSucceeds(v) ==
  /\ Migrations[v].needs \subseteq schema
  /\ Migrations[v].creates \cap schema = {}
  /\ v = 3 => AdminFindsOrganization
  /\ v \notin applied

(* Mutant: the SQL is run on m.db, beside the transaction.                  *)
RunUpAtOnce(i) ==
  /\ pc[i] = "sql" /\ ~Waits(i)
  /\ IF UpSucceeds(at[i]) THEN Goto(i, "sql", "commit") /\ Keep
                          ELSE Goto(i, "sql", "serving") /\ Forget(i)
  /\ schema' = IF UpSucceeds(at[i]) THEN schema \cup Makes(at[i]) ELSE schema
  /\ spent' = (spent \/ (at[i] = 3 /\ kind # "sqlite" /\ Owners \subseteq schema))
  /\ UNCHANGED <<kind, applied, bounds, history>>

(* Mutant: Up goes on after an error.                                       *)
RunUpGoingOn(i) ==
  /\ pc[i] = "sql" /\ ~Waits(i)
  /\ IF UpSucceeds(at[i])
       THEN Goto(i, "sql", "commit") /\ Keep
       ELSE Goto(i, "sql", "loop") /\ at' = [at EXCEPT ![i] = @ + 1] /\ UNCHANGED <<op, list>>
  /\ spent' = (spent \/ (at[i] = 3 /\ kind # "sqlite" /\ Owners \subseteq schema))
  /\ UNCHANGED <<kind, schema, applied, bounds, history>>

(* The UpSQL and the record; Up stops at the first error.  A sequence of    *)
(* Postgres keeps what a transaction took from it, rolled back or not.      *)
RunUp(i) ==
  /\ pc[i] = "sql" /\ ~Waits(i)
  /\ IF UpSucceeds(at[i]) THEN Goto(i, "sql", "commit") /\ Keep
                          ELSE Goto(i, "sql", "serving") /\ Forget(i)
  /\ spent' = (spent \/ (at[i] = 3 /\ kind # "sqlite" /\ Owners \subseteq schema))
  /\ UNCHANGED <<kind, schema, applied, bounds, history>>

(* The DownSQL, all IF EXISTS, and the record.                              *)
RunDown(i) ==
  /\ Goto(i, "undo", "drop") /\ ~Waits(i)
  /\ UNCHANGED <<database, op, list, at, bounds, history>>

(* The sequence of a new table starts at 1.                                 *)
CommitUp(i) ==
  /\ Goto(i, "commit", "loop")
  /\ schema' = schema \cup Makes(at[i])
  /\ applied' = applied \cup {at[i]}
  /\ spent' = (at[i] # 1 /\ (spent \/ at[i] = 3))
  /\ at' = [at EXCEPT ![i] = @ + 1]
  /\ UNCHANGED <<kind, op, list, bounds, history>>

CommitDown(i) ==
  /\ Goto(i, "drop", "down")
  /\ schema' = schema \ Migrations[at[i]].drops
  /\ applied' = applied \ {at[i]} /\ Forget(i)
  /\ UNCHANGED <<kind, spent, bounds, history>>

(* A statement or a COMMIT fails: the transaction is rolled back.  Without  *)
(* its own tables the gateway does not start.                               *)
StatementFails(i) ==
  /\ Busy(i)
  /\ pc' = [pc EXCEPT ![i] = IF pc[i] = "open" THEN "down" ELSE Finished(i)]
  /\ trouble' = TRUE /\ Forget(i)
  /\ UNCHANGED <<database, bounds, clean, mixed>>

Dies(i) ==
  /\ pc[i] # "down" /\ pc' = [pc EXCEPT ![i] = "down"]
  /\ trouble' = (trouble \/ Busy(i)) /\ Forget(i)
  /\ UNCHANGED <<database, bounds, clean, mixed>>

(* Mutant: owner_id is set in the INSERT if the column is there.            *)
RegisterWithoutOwner(i) ==
  /\ pc[i] = "serving" /\ Owners \subseteq schema /\ ~spent
  /\ \A j \in Processes : InTransaction(j) => at[j] = 6
  /\ schema' = schema \cup {"stranger"} /\ spent' = TRUE
  /\ UNCHANGED <<kind, applied, process, bounds, history>>

(* auth.Register of a new organization sets owner_id last, and is rolled    *)
(* back when the column is missing; its first id is gone on Postgres.       *)
Register(i) ==
  /\ pc[i] = "serving" /\ Owners \subseteq schema /\ ~spent
  /\ \A j \in Processes : InTransaction(j) => at[j] = 6
  /\ IF "owner_id" \in schema
       THEN schema' = schema \cup {"stranger"} /\ spent' = TRUE
       ELSE spent' = (kind # "sqlite") /\ UNCHANGED schema
  /\ UNCHANGED <<kind, applied, process, bounds, history>>

Proceed(i) ==
  \/ CreateTables(i) \/ EnsureTable(i) \/ ReadApplied(i) \/ NextMigration(i)
  \/ UpReturns(i) \/ RunUp(i) \/ RunDown(i) \/ CommitUp(i) \/ CommitDown(i)

Next ==
  \E i \in Processes :
    \/ Start(i) \/ CallStatus(i) \/ CallDown(i)
    \/ Proceed(i)
    \/ StatementFails(i) \/ Dies(i) \/ Register(i)

Spec == Init /\ [][Next]_vars /\ \A i \in Processes : WF_vars(Proceed(i))
-------------------------------------------------------------------------------
AllObjects == (UNION {Makes(v) : v \in Versions}) \cup Scripted \cup {"function", "stranger"}

(* Types of the database and of the processes.                              *)
TypeOK ==
  /\ kind \in Kinds /\ schema \subseteq AllObjects /\ applied \subseteq Versions
  /\ spent \in BOOLEAN /\ clean \in BOOLEAN /\ mixed \in BOOLEAN /\ trouble \in BOOLEAN
  /\ pc \in [Processes -> {"down", "open", "ensure", "read", "loop", "sql", "undo",
                            "commit", "drop", "serving"}]
  /\ op \in [Processes -> {"up", "down", "status"}]
  /\ list \in [Processes -> SUBSET Versions] /\ at \in [Processes -> 1..7]
  /\ starts \in 0..MaxStarts /\ rollbacks \in 0..MaxRollbacks

(* What a migration does not answer for: what was there before, what users  *)
(* add, and the column that the SQLite rollback leaves.                     *)
Loose == Given \cup {"stranger"} \cup (IF kind = "sqlite" THEN {"owner_id"} ELSE {})

(* Whatever dies or fails in between, the records tell what is in the       *)
(* schema, unless a rollback ran beside another call (migrations.go 208-242). *)
RecordsTrue ==
  ~mixed => schema \ Loose = (UNION {Makes(v) : v \in applied}) \ Loose

(* Of the versions a first part is applied, with stale lists too.           *)
AppliedPrefix == ~mixed => \E n \in 0..6 : applied = 1..n

(* After an Up that returned nil the whole schema is there: never so on a   *)
(* SQLite file or a scripted database, whose Up ends with an error.         *)
SuccessMeansMigrated ==
  clean /\ ~mixed => kind = "postgres" /\ applied = Versions

(* The default administrator is in no organization of a registration.       *)
AdminAtHome == ~mixed => ~({"admin", "stranger"} \subseteq schema)

Quiet == \A i \in Processes : ~Busy(i)

(* On an empty Postgres database, starts that overlap and lose races but    *)
(* meet no failure leave the whole schema, or the first id was taken by a   *)
(* registration with the loser, before the winner came to migration 3.      *)
StartsMigrate ==
  kind = "postgres" /\ ~trouble /\ Quiet /\ starts > 0 =>
    applied = Versions \/ (applied = 1..2 /\ spent)

Inv == TypeOK /\ RecordsTrue /\ AppliedPrefix /\ SuccessMeansMigrated /\ AdminAtHome
       /\ StartsMigrate

(* Nobody is about to commit migration 3 and its id is taken.               *)
Burnt ==
  /\ Owners \subseteq schema /\ {"admin", "stranger"} \cap schema = {} /\ spent
  /\ \A i \in Processes : ~(pc[i] = "commit" /\ at[i] = 3)

(* Migration 3 is not repeatable: once its id is taken by a transaction     *)
(* that was rolled back, a registration, or a run that Down has undone, no  *)
(* later start comes as far as its COMMIT, nor to what follows, as long as   *)
(* the tables are not dropped (schema.go 166-190).                          *)
DefaultDataOnce == [][Burnt => Burnt' \/ ~(Owners \subseteq schema')]_vars

(* Every call returns: who waits for a lock waits for a transaction that    *)
(* ends.                                                                    *)
EveryCallEnds == \A i \in Processes : Busy(i) ~> ~Busy(i)
===============================================================================
