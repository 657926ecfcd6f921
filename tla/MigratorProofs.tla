---------------------------- MODULE MigratorProofs -----------------------------
(***************************************************************************)
(* Proofs about Migrator, for any processes, databases and number of       *)
(* starts and rollbacks.                                                   *)
(***************************************************************************)
EXTENDS Migrator, TLAPS

(* What each migration makes, needs and drops, one by one.                  *)
LEMMA EachMigration ==
  ASSUME NEW v \in Versions
  PROVE  /\ v = 1 => /\ Makes(v) = Tables /\ Migrations[v].drops = Tables \cup Dependents
                     /\ Migrations[v].creates = Tables
         /\ v = 2 => /\ Makes(v) \in {Triggers, Triggers \cup {"function"}}
                     /\ Migrations[v].drops = Makes(v)
         /\ v = 3 => /\ Makes(v) = {"default", "admin"} /\ Migrations[v].drops = Makes(v)
         /\ v = 4 => /\ Makes(v) = {"owner_id"}
                     /\ Migrations[v].drops = IF kind = "sqlite" THEN {} ELSE {"owner_id"}
         /\ v = 5 => /\ Makes(v) = {"api_keys"} /\ Migrations[v].drops = {"api_keys"}
         /\ v = 6 => /\ Makes(v) = {"transactions"} /\ Migrations[v].drops = {"transactions"}
                     /\ Migrations[v].creates = {"transactions"}
<1> USE DEF Versions, Migrations, Makes, Migration
<1>1. CASE kind = "sqlite"
  <2> USE <1>1 DEF getSQLiteMigrations
  <2>1. v = 1 => Migrations[v] = Migration({}, Tables, {}, Tables \cup Dependents)
    BY DEF LiteInitialSchema
  <2>2. v = 2 => Migrations[v] = Migration(Owners, Triggers, {}, Triggers)
    BY DEF LiteTriggers
  <2>3. v = 3 => Migrations[v] = Migration(Owners, {}, {"default", "admin"}, {"default", "admin"})
    BY DEF LiteDefaultData
  <2>4. v = 4 => Migrations[v] = Migration({"organizations"}, {"owner_id"}, {}, {})
    BY DEF LiteOwnerId
  <2>5. v = 5 => Migrations[v] = Migration({}, {"api_keys"}, {}, {"api_keys"})
    BY DEF LiteApiKeys
  <2>6. v = 6 => Migrations[v] = Migration({}, {"transactions"}, {}, {"transactions"})
    BY DEF LiteTransactions
  <2> QED
    BY <2>1, <2>2, <2>3, <2>4, <2>5, <2>6
<1>2. CASE kind # "sqlite"
  <2> USE <1>2 DEF getPostgreSQLMigrations
  <2>1. v = 1 => Migrations[v] = Migration({}, Tables, {}, Tables \cup Dependents)
    BY DEF PgInitialSchema
  <2>2. v = 2 => Migrations[v] = Migration(Owners, Triggers, {"function"}, Triggers \cup {"function"})
    BY DEF PgTriggers
  <2>3. v = 3 => Migrations[v] = Migration(Owners, {}, {"default", "admin"}, {"default", "admin"})
    BY DEF PgDefaultData
  <2>4. v = 4 => Migrations[v] = Migration(Owners, {"owner_id"}, {}, {"owner_id"})
    BY DEF PgOwnerId
  <2>5. v = 5 => Migrations[v] = Migration(Owners, {"api_keys"}, {}, {"api_keys"})
    BY DEF PgApiKeys
  <2>6. v = 6 => Migrations[v] = Migration({}, {"transactions"}, {}, {"transactions"})
    BY DEF PgTransactions
  <2> QED
    BY <2>1, <2>2, <2>3, <2>4, <2>5, <2>6
<1> QED
  BY <1>1, <1>2

(* A rollback drops what its migration made, but for the loose ones, and    *)
(* nothing that an earlier one made.                                        *)
LEMMA DropsOwn ==
  ASSUME NEW v \in Versions
  PROVE  /\ Makes(v) \ Loose \subseteq Migrations[v].drops
         /\ \A w \in Versions : w < v => Makes(w) \cap Migrations[v].drops = {}
<1>1. Makes(v) \ Loose \subseteq Migrations[v].drops
  BY EachMigration DEF Loose, Versions
<1>2. ASSUME NEW w \in Versions, w < v
      PROVE  Makes(w) \cap Migrations[v].drops = {}
  <2>1. v \in 2..6 /\ (v = 2 \/ v = 3 \/ v = 4 \/ v = 5 \/ v = 6)
    BY <1>2 DEF Versions
  <2>2. Migrations[v].drops \in
          {Triggers, Triggers \cup {"function"}, {"default", "admin"}, {"owner_id"}, {},
           {"api_keys"}, {"transactions"}}
    BY <2>1, EachMigration
  <2> QED
    BY <1>2, EachMigration DEF Versions, Tables, Triggers
<1> QED
  BY <1>1, <1>2

(* The latest of some versions is one of them and no earlier than any.      *)
LEMMA MaxOfVersions ==
  ASSUME NEW S \in SUBSET Versions, S # {}
  PROVE  Max(S) \in S /\ \A v \in S : v <= Max(S)
<1>1. \E x \in S : \A y \in S : x >= y
  <2>1. CASE 6 \in S
    BY <2>1 DEF Versions
  <2>2. CASE 6 \notin S /\ 5 \in S
    BY <2>2 DEF Versions
  <2>3. CASE 6 \notin S /\ 5 \notin S /\ 4 \in S
    BY <2>3 DEF Versions
  <2>4. CASE 6 \notin S /\ 5 \notin S /\ 4 \notin S /\ 3 \in S
    BY <2>4 DEF Versions
  <2>5. CASE 6 \notin S /\ 5 \notin S /\ 4 \notin S /\ 3 \notin S
    <3>1. S \subseteq {1, 2}
      BY <2>5 DEF Versions
    <3>2. S = {1} \/ 2 \in S
      BY <3>1
    <3> QED
      BY <3>1, <3>2
  <2> QED
    BY <2>1, <2>2, <2>3, <2>4, <2>5
<1>2. Max(S) \in S /\ \A y \in S : Max(S) >= y
  BY <1>1 DEF Max
<1> QED
  BY <1>2 DEF Versions

(* The first of some versions is one of them and no later than any.         *)
LEMMA MinOfVersions ==
  ASSUME NEW S \in SUBSET Versions, S # {}
  PROVE  Min(S) \in S /\ \A v \in S : Min(S) <= v
<1>1. \E x \in S : \A y \in S : x <= y
  <2>1. CASE 1 \in S
    BY <2>1 DEF Versions
  <2>2. CASE 1 \notin S /\ 2 \in S
    BY <2>2 DEF Versions
  <2>3. CASE 1 \notin S /\ 2 \notin S /\ 3 \in S
    BY <2>3 DEF Versions
  <2>4. CASE 1 \notin S /\ 2 \notin S /\ 3 \notin S /\ 4 \in S
    BY <2>4 DEF Versions
  <2>5. CASE 1 \notin S /\ 2 \notin S /\ 3 \notin S /\ 4 \notin S
    <3>1. S \subseteq {5, 6}
      BY <2>5 DEF Versions
    <3>2. S = {6} \/ 5 \in S
      BY <3>1
    <3> QED
      BY <3>1, <3>2
  <2> QED
    BY <2>1, <2>2, <2>3, <2>4, <2>5
<1> QED
  BY <1>1 DEF Min
-------------------------------------------------------------------------------
(* Where a call may be in its loop, by what it was called for.              *)
Stages ==
  \A i \in Processes :
    /\ pc[i] \in {"open", "loop", "sql", "commit"} => op[i] = "up"
    /\ pc[i] \in {"undo", "drop"} => op[i] = "down"
    /\ pc[i] \in {"sql", "commit", "undo", "drop"} => at[i] \in Versions
    /\ pc[i] \in {"down", "serving", "open", "ensure", "read"} => at[i] = 1

(* Next to a rollback there are only calls of Status, or it is mixed.       *)
Alone ==
  ~mixed => \A i, j \in Processes :
              i # j /\ Busy(i) /\ op[i] = "down" /\ Busy(j) => op[j] = "status"

(* A list may be stale, but what it has and what the loop has passed is     *)
(* applied.                                                                 *)
UpPrefix ==
  ~mixed => \A i \in Processes :
              pc[i] \in {"loop", "sql", "commit"} =>
                list[i] \subseteq applied /\ \A v \in Versions : v < at[i] => v \in applied

(* A rollback undoes the last version that is applied.                      *)
DownTop ==
  ~mixed => \A i \in Processes :
              pc[i] \in {"undo", "drop"} =>
                at[i] \in applied /\ \A v \in applied : v <= at[i]

(* The tables are made by one transaction, and are not there before.        *)
First ==
  \A i \in Processes :
    pc[i] = "commit" /\ at[i] = 1 =>
      /\ Tables \cap schema = {}
      /\ \A j \in Processes \ {i} : ~(InTransaction(j) /\ at[j] = 1)

Calls == TypeOK /\ Stages /\ Alone

(* Everything in a schema has a name.                                       *)
LEMMA ObjectsKnown ==
  /\ \A v \in Versions : Makes(v) \subseteq AllObjects
  /\ Scripted \subseteq AllObjects /\ "stranger" \in AllObjects /\ "transactions" \in AllObjects
<1>1. \A v \in Versions : Makes(v) \subseteq AllObjects
  BY DEF AllObjects
<1>2. Scripted \subseteq AllObjects /\ "stranger" \in AllObjects
  BY Zenon DEF AllObjects
<1>3. "transactions" \in AllObjects
  BY <1>2 DEF Scripted
<1> QED
  BY <1>1, <1>2, <1>3

(* No process has started.                                                  *)
LEMMA CallsInit == Init => Calls
<1> SUFFICES ASSUME Init PROVE Calls
  OBVIOUS
<1> USE DEF Init
<1>1. schema \subseteq AllObjects
  BY ObjectsKnown
<1>2. TypeOK
  <2>1. pc \in [Processes -> {"down"}] /\ op \in [Processes -> {"up"}]
        /\ list \in [Processes -> {{}}] /\ at \in [Processes -> {1}]
    OBVIOUS
  <2>2. starts \in 0..MaxStarts /\ rollbacks \in 0..MaxRollbacks /\ 1 \in 1..7
    BY MigratorAssumption
  <2>3. spent \in BOOLEAN
    OBVIOUS
  <2> QED
    BY <1>1, <2>1, <2>2, <2>3 DEF TypeOK
<1>3. Stages
  BY DEF Stages
<1>4. Alone
  BY DEF Alone, Busy
<1> QED
  BY <1>2, <1>3, <1>4 DEF Calls

(* Every step keeps the types of the database.                              *)
LEMMA DatabaseTypes ==
  TypeOK /\ Stages /\ [Next]_vars => kind' = kind /\ schema' \subseteq AllObjects /\ applied' \subseteq Versions /\ spent' \in BOOLEAN
<1> SUFFICES ASSUME TypeOK, Stages, [Next]_vars
             PROVE  kind' = kind /\ schema' \subseteq AllObjects /\ applied' \subseteq Versions /\ spent' \in BOOLEAN
  OBVIOUS
<1> USE DEF TypeOK, database
<1>1. CASE UNCHANGED vars
  BY <1>1 DEF vars
<1>2. ASSUME NEW i \in Processes, Start(i) \/ CallStatus(i) \/ CallDown(i) \/ EnsureTable(i)
                                  \/ ReadApplied(i) \/ NextMigration(i) \/ UpReturns(i)
                                  \/ RunDown(i) \/ StatementFails(i) \/ Dies(i)
      PROVE  UNCHANGED database
  BY <1>2 DEF Start, CallStatus, CallDown, EnsureTable, ReadApplied, NextMigration, UpReturns,
              RunDown, StatementFails, Dies
<1>3. ASSUME NEW i \in Processes, CreateTables(i)
      PROVE  kind' = kind /\ schema' \subseteq AllObjects /\ applied' \subseteq Versions /\ spent' \in BOOLEAN
  BY <1>3, ObjectsKnown DEF CreateTables
<1>4. ASSUME NEW i \in Processes, RunUp(i)
      PROVE  kind' = kind /\ schema' \subseteq AllObjects /\ applied' \subseteq Versions /\ spent' \in BOOLEAN
  BY <1>4 DEF RunUp
<1>5. ASSUME NEW i \in Processes, CommitUp(i)
      PROVE  kind' = kind /\ schema' \subseteq AllObjects /\ applied' \subseteq Versions /\ spent' \in BOOLEAN
  BY <1>5, ObjectsKnown DEF CommitUp, Stages, Goto
<1>6. ASSUME NEW i \in Processes, CommitDown(i)
      PROVE  kind' = kind /\ schema' \subseteq AllObjects /\ applied' \subseteq Versions /\ spent' \in BOOLEAN
  BY <1>6 DEF CommitDown
<1>7. ASSUME NEW i \in Processes, Register(i)
      PROVE  kind' = kind /\ schema' \subseteq AllObjects /\ applied' \subseteq Versions /\ spent' \in BOOLEAN
  BY <1>7, ObjectsKnown DEF Register
<1>8. CASE Next
  BY <1>2, <1>3, <1>4, <1>5, <1>6, <1>7, <1>8 DEF Next, Proceed
<1> QED
  BY <1>1, <1>8

(* The next version a loop brings is the first one its list does not have.  *)
LEMMA PendingKnown ==
  ASSUME NEW i \in Processes, Pending(i) # {}
  PROVE  /\ Min(Pending(i)) \in Versions /\ Min(Pending(i)) \notin list[i]
         /\ Min(Pending(i)) >= at[i]
         /\ \A v \in Versions : v >= at[i] /\ v < Min(Pending(i)) => v \in list[i]
<1>1. Pending(i) \in SUBSET Versions
  BY DEF Pending
<1>2. Min(Pending(i)) \in Pending(i) /\ \A v \in Pending(i) : Min(Pending(i)) <= v
  BY <1>1, MinOfVersions
<1> QED
  BY <1>2 DEF Pending, Versions

(* Every step keeps the types of the processes.                             *)
LEMMA CallTypes == TypeOK /\ Stages /\ [Next]_vars => TypeOK' /\ Stages'
<1> SUFFICES ASSUME TypeOK, Stages, [Next]_vars
             PROVE  TypeOK' /\ Stages'
  OBVIOUS
<1> DEFINE Loop == /\ starts' \in 0..MaxStarts /\ rollbacks' \in 0..MaxRollbacks
                   /\ clean' \in BOOLEAN /\ mixed' \in BOOLEAN /\ trouble' \in BOOLEAN
                   /\ pc' \in [Processes -> {"down", "open", "ensure", "read", "loop", "sql",
                                              "undo", "commit", "drop", "serving"}]
                   /\ op' \in [Processes -> {"up", "down", "status"}]
                   /\ list' \in [Processes -> SUBSET Versions] /\ at' \in [Processes -> 1..7]
                   /\ Stages'
<1>1a. kind' = kind /\ schema' \subseteq AllObjects /\ applied' \subseteq Versions /\ spent' \in BOOLEAN
  BY DatabaseTypes
<1>1b. AllObjects' = AllObjects
  BY <1>1a DEF AllObjects, Makes, Migrations
<1>1. CASE UNCHANGED vars
  <2>1. UNCHANGED <<kind, schema, applied, spent, pc, op, list, at, starts, rollbacks, clean,
                    mixed, trouble>>
    BY <1>1 DEF vars, database, process, bounds, history
  <2>2. TypeOK'
    BY <1>1b, <2>1 DEF TypeOK
  <2>3. Stages'
    BY <2>1 DEF Stages
  <2> QED
    BY <2>2, <2>3
<1> USE MigratorAssumption DEF TypeOK, Stages, Goto, Versions, process, bounds, history
<1>2. ASSUME NEW i \in Processes, Start(i) PROVE Loop
  BY <1>2 DEF Start
<1>3. ASSUME NEW i \in Processes, CallStatus(i) PROVE Loop
  BY <1>3 DEF CallStatus
<1>4. ASSUME NEW i \in Processes, CallDown(i) PROVE Loop
  <2>1. mixed' \in BOOLEAN /\ clean' \in BOOLEAN /\ trouble' \in BOOLEAN
    BY <1>4 DEF CallDown
  <2>2. starts' = starts /\ rollbacks' \in 0..MaxRollbacks
    BY <1>4 DEF CallDown
  <2> QED
    BY <1>4, <2>1, <2>2 DEF CallDown
<1>5. ASSUME NEW i \in Processes, CreateTables(i) PROVE Loop
  BY <1>5 DEF CreateTables
<1>6. ASSUME NEW i \in Processes, EnsureTable(i) PROVE Loop
  BY <1>6 DEF EnsureTable
<1>7. ASSUME NEW i \in Processes, ReadApplied(i) PROVE Loop
  <2>1. CASE op[i] = "down" /\ applied # {}
    <3>1. Max(applied) \in Versions
      BY <2>1, MaxOfVersions
    <3>2. op[i] = "down" /\ pc' = [pc EXCEPT ![i] = "undo"] /\ at' = [at EXCEPT ![i] = Max(applied)]
          /\ UNCHANGED <<op, list, bounds, history>>
      BY <1>7, <2>1 DEF ReadApplied
    <3> QED
      BY <3>1, <3>2
  <2>2. CASE ~(op[i] = "down" /\ applied # {})
    <3>1. CASE op[i] = "up"
      BY <1>7, <3>1 DEF ReadApplied
    <3>2. CASE op[i] # "up"
      <4>1. pc' = [pc EXCEPT ![i] = "down"] /\ Forget(i) /\ UNCHANGED <<bounds, history>>
        BY <1>7, <2>2, <3>2 DEF ReadApplied
      <4> QED
        BY <4>1 DEF Forget
    <3> QED
      BY <3>1, <3>2
  <2> QED
    BY <2>1, <2>2
<1>8. ASSUME NEW i \in Processes, NextMigration(i) PROVE Loop
  <2>1. Min(Pending(i)) \in Versions
    BY <1>8, PendingKnown DEF NextMigration
  <2> QED
    BY <1>8, <2>1 DEF NextMigration
<1>9. ASSUME NEW i \in Processes, UpReturns(i) PROVE Loop
  BY <1>9 DEF UpReturns, Forget
<1>10. ASSUME NEW i \in Processes, RunUp(i) PROVE Loop
  <2>1. CASE UpSucceeds(at[i])
    BY <1>10, <2>1 DEF RunUp, Keep
  <2>2. CASE ~UpSucceeds(at[i])
    BY <1>10, <2>2 DEF RunUp, Forget
  <2> QED
    BY <2>1, <2>2
<1>11. ASSUME NEW i \in Processes, RunDown(i) PROVE Loop
  BY <1>11 DEF RunDown
<1>12. ASSUME NEW i \in Processes, CommitUp(i) PROVE Loop
  BY <1>12 DEF CommitUp
<1>13. ASSUME NEW i \in Processes, CommitDown(i) PROVE Loop
  BY <1>13 DEF CommitDown, Forget
<1>14. ASSUME NEW i \in Processes, StatementFails(i) PROVE Loop
  BY <1>14 DEF StatementFails, Finished, Forget
<1>15. ASSUME NEW i \in Processes, Dies(i) PROVE Loop
  BY <1>15 DEF Dies, Forget, Busy
<1>16. ASSUME NEW i \in Processes, Register(i) PROVE Loop
  BY <1>16 DEF Register
<1>17. CASE Next
  <2>1. Loop
    BY <1>2, <1>3, <1>4, <1>5, <1>6, <1>7, <1>8, <1>9, <1>10, <1>11, <1>12, <1>13, <1>14, <1>15,
       <1>16, <1>17, Zenon DEF Next, Proceed
  <2> QED
    BY <1>1a, <1>1b, <2>1
<1> QED
  BY <1>1, <1>17

(* Who begins next to a rollback makes it mixed, and so does a rollback     *)
(* that begins next to another call.                                        *)
LEMMA CallsAlone == Calls /\ [Next]_vars => Alone'
<1> SUFFICES ASSUME TypeOK, Stages, Alone, [Next]_vars
             PROVE  Alone'
  BY DEF Calls
<1> DEFINE Pair(i, j) == i # j /\ Busy(i) /\ op[i] = "down" /\ Busy(j) => op[j] = "status"
<1>1. CASE UNCHANGED vars
  BY <1>1 DEF vars, process, history, Alone, Busy
<1>2. ASSUME NEW i \in Processes, Start(i) PROVE Alone'
  BY <1>2 DEF Start, Goto, Alone, Busy, TypeOK
<1>3. ASSUME NEW i \in Processes, CallStatus(i) PROVE Alone'
  BY <1>3 DEF CallStatus, Goto, Alone, Busy, TypeOK, history
<1>4. ASSUME NEW i \in Processes, CallDown(i) PROVE Alone'
  BY <1>4 DEF CallDown, Goto, Alone, Busy, TypeOK
<1>5. ASSUME NEW i \in Processes,
             CreateTables(i) \/ EnsureTable(i) \/ NextMigration(i) \/ RunDown(i) \/ CommitUp(i)
      PROVE  Alone'
  <2>1. UNCHANGED <<op, mixed>> /\ \A j \in Processes : Busy(j)' => Busy(j)
    BY <1>5 DEF CreateTables, EnsureTable, NextMigration, RunDown, CommitUp, Goto, Busy, TypeOK,
                history
  <2> QED
    BY <2>1 DEF Alone
<1>6. ASSUME NEW i \in Processes,
             UpReturns(i) \/ CommitDown(i) \/ StatementFails(i) \/ Dies(i) \/ Register(i)
      PROVE  Alone'
  <2>1. /\ UNCHANGED mixed
        /\ \A j \in Processes : Busy(j)' => Busy(j) /\ op'[j] = op[j]
    BY <1>6 DEF UpReturns, CommitDown, StatementFails, Dies, Register, Goto, Busy, TypeOK,
                history, process, Finished, Forget
  <2> QED
    BY <2>1 DEF Alone
<1>7. ASSUME NEW i \in Processes, ReadApplied(i)
      PROVE  Alone'
  <2>1. /\ UNCHANGED mixed
        /\ \A j \in Processes : Busy(j)' => Busy(j) /\ op'[j] = op[j]
    BY <1>7 DEF ReadApplied, Goto, Busy, TypeOK, history, Forget
  <2> QED
    BY <2>1 DEF Alone
<1>8. ASSUME NEW i \in Processes, RunUp(i)
      PROVE  Alone'
  <2>1. /\ UNCHANGED mixed
        /\ \A j \in Processes : Busy(j)' => Busy(j) /\ op'[j] = op[j]
    BY <1>8 DEF RunUp, Goto, Busy, TypeOK, history, Forget, Keep
  <2> QED
    BY <2>1 DEF Alone
<1>9. CASE Next
  BY <1>2, <1>3, <1>4, <1>5, <1>6, <1>7, <1>8, <1>9 DEF Next, Proceed
<1> QED
  BY <1>1, <1>9

(* Every step keeps the types.                                              *)
LEMMA CallsNext == Calls /\ [Next]_vars => Calls'
BY CallTypes, CallsAlone DEF Calls
-------------------------------------------------------------------------------
Records == UpPrefix /\ DownTop /\ AppliedPrefix /\ RecordsTrue

(* There are no records at first, whatever the database.                    *)
LEMMA RecordsInit == Init => Records
<1> SUFFICES ASSUME Init PROVE Records
  OBVIOUS
<1> USE DEF Init
<1>1. UpPrefix /\ DownTop
  BY DEF UpPrefix, DownTop
<1>2. AppliedPrefix
  <2>1. applied = 1..0 /\ 0 \in 0..6
    OBVIOUS
  <2> QED
    BY <2>1 DEF AppliedPrefix
<1>3. RecordsTrue
  <2>1. schema \ Loose = {}
    BY DEF Loose, Given
  <2>2. (UNION {Makes(v) : v \in applied}) \ Loose = {}
    OBVIOUS
  <2> QED
    BY <2>1, <2>2 DEF RecordsTrue
<1> QED
  BY <1>1, <1>2, <1>3 DEF Records

(* Steps that leave the records, and the schema but for loose objects.      *)
LEMMA RecordsKept ==
  ASSUME TypeOK, Records, kind' = kind, applied' = applied, schema' \ Loose = schema \ Loose,
         mixed => mixed',
         \A i \in Processes :
           /\ pc'[i] \in {"loop", "sql", "commit"} =>
                (~mixed /\ UpPrefix =>
                   list'[i] \subseteq applied /\ \A v \in Versions : v < at'[i] => v \in applied)
           /\ pc'[i] \in {"undo", "drop"} =>
                (~mixed /\ DownTop =>
                   at'[i] \in applied /\ \A v \in applied : v <= at'[i])
  PROVE  Records'
<1>1. UpPrefix' /\ DownTop'
  <2>1. UpPrefix'
    BY DEF UpPrefix, Records, TypeOK
  <2>2. DownTop'
    BY DEF DownTop, Records, TypeOK
  <2> QED
    BY <2>1, <2>2
<1>2. AppliedPrefix'
  BY DEF AppliedPrefix, Records, TypeOK
<1>3. RecordsTrue'
  <2>1. Loose' = Loose
    BY DEF Loose, Given
  <2>2. (UNION {Makes(v) : v \in applied})' = UNION {Makes(v) : v \in applied}
    BY DEF Makes, Migrations
  <2> QED
    BY <2>1, <2>2 DEF RecordsTrue, Records, TypeOK
<1> QED
  BY <1>1, <1>2, <1>3 DEF Records

(* The record and the objects of a migration come together.                 *)
LEMMA CommitUpRecords ==
  ASSUME Calls, Records, NEW i \in Processes, CommitUp(i)
  PROVE  Records'
<1>1. /\ pc[i] = "commit" /\ at[i] \in Versions /\ op[i] = "up" /\ Busy(i)
      /\ pc' = [pc EXCEPT ![i] = "loop"] /\ at' = [at EXCEPT ![i] = at[i] + 1]
      /\ schema' = schema \cup Makes(at[i]) /\ applied' = applied \cup {at[i]}
      /\ UNCHANGED <<kind, op, list, mixed>>
  BY DEF CommitUp, Goto, Calls, Stages, Busy, history
<1>2. CASE mixed
  BY <1>1, <1>2 DEF Records, UpPrefix, DownTop, AppliedPrefix, RecordsTrue
<1>3. CASE ~mixed
  <2>1. list[i] \subseteq applied /\ \A v \in Versions : v < at[i] => v \in applied
    BY <1>1, <1>3 DEF Records, UpPrefix
  <2>2. UpPrefix'
    <3>1. ASSUME NEW j \in Processes, pc'[j] \in {"loop", "sql", "commit"}
          PROVE  list'[j] \subseteq applied' /\ \A v \in Versions : v < at'[j] => v \in applied'
      <4>1. CASE j = i
        BY <1>1, <2>1, <4>1 DEF Calls, TypeOK, Versions
      <4>2. CASE j # i
        BY <1>1, <1>3, <3>1, <4>2 DEF Records, UpPrefix, Calls, TypeOK
      <4> QED
        BY <4>1, <4>2
    <3> QED
      BY <3>1 DEF UpPrefix
  <2>3. DownTop'
    <3>1. ASSUME NEW j \in Processes, pc'[j] \in {"undo", "drop"}
          PROVE  FALSE
      <4>1. j # i /\ pc[j] \in {"undo", "drop"} /\ op[j] = "down" /\ Busy(j)
        BY <1>1, <3>1 DEF Calls, TypeOK, Stages, Busy
      <4> QED
        BY <1>1, <1>3, <4>1 DEF Calls, Alone
    <3> QED
      BY <3>1 DEF DownTop
  <2>4. AppliedPrefix'
    <3>1. PICK n \in 0..6 : applied = 1..n
      BY <1>3 DEF Records, AppliedPrefix
    <3>2. at[i] <= n + 1
      BY <1>1, <2>1, <3>1 DEF Versions
    <3>3. CASE at[i] <= n
      <4>1. applied' = 1..n
        BY <1>1, <3>1, <3>3 DEF Versions
      <4> QED
        BY <4>1 DEF AppliedPrefix
    <3>4. CASE at[i] = n + 1
      <4>1. applied' = 1..(n + 1) /\ n + 1 \in 0..6
        BY <1>1, <3>1, <3>4 DEF Versions
      <4> QED
        BY <4>1 DEF AppliedPrefix
    <3> QED
      BY <1>1, <3>2, <3>3, <3>4 DEF Versions
  <2>5. RecordsTrue'
    <3>1. Loose' = Loose /\ \A v \in Versions : Makes(v)' = Makes(v)
      BY <1>1 DEF Loose, Given, Makes, Migrations
    <3>2. UNION {Makes(v) : v \in applied \cup {at[i]}} = (UNION {Makes(v) : v \in applied}) \cup Makes(at[i])
      OBVIOUS
    <3>3. (UNION {Makes(v) : v \in applied})' = UNION {Makes(v) : v \in applied'}
      BY <1>1 DEF Makes, Migrations
    <3> QED
      BY <1>1, <1>3, <3>1, <3>2, <3>3 DEF RecordsTrue, Records
  <2> QED
    BY <2>2, <2>3, <2>4, <2>5 DEF Records
<1> QED
  BY <1>2, <1>3

(* A rollback takes what the last migration made, and nothing else.         *)
LEMMA CommitDownRecords ==
  ASSUME Calls, Records, NEW i \in Processes, CommitDown(i)
  PROVE  Records'
<1>1. /\ pc[i] = "drop" /\ at[i] \in Versions /\ op[i] = "down" /\ Busy(i)
      /\ pc' = [pc EXCEPT ![i] = "down"] /\ at' = [at EXCEPT ![i] = 1]
      /\ schema' = schema \ Migrations[at[i]].drops /\ applied' = applied \ {at[i]}
      /\ list' = [list EXCEPT ![i] = {}]
      /\ UNCHANGED <<kind, mixed>>
  BY DEF CommitDown, Goto, Calls, Stages, Busy, history, Forget
<1>2. CASE mixed
  BY <1>1, <1>2 DEF Records, UpPrefix, DownTop, AppliedPrefix, RecordsTrue
<1>3. CASE ~mixed
  <2>1. at[i] \in applied /\ \A v \in applied : v <= at[i]
    BY <1>1, <1>3 DEF Records, DownTop
  <2>2. ASSUME NEW j \in Processes, pc'[j] \notin {"down", "serving"}
        PROVE  op[j] = "status" /\ pc'[j] = pc[j]
    <3>1. j # i /\ Busy(j) /\ pc'[j] = pc[j]
      BY <1>1, <2>2 DEF Calls, TypeOK, Busy
    <3> QED
      BY <1>1, <1>3, <3>1 DEF Calls, Alone
  <2>3. UpPrefix' /\ DownTop'
    BY <2>2 DEF UpPrefix, DownTop, Calls, Stages
  <2>4. AppliedPrefix'
    <3>1. PICK n \in 0..6 : applied = 1..n
      BY <1>3 DEF Records, AppliedPrefix
    <3>2. at[i] = n
      BY <1>1, <2>1, <3>1 DEF Versions
    <3>3. applied' = 1..(n - 1) /\ n - 1 \in 0..6
      BY <1>1, <3>1, <3>2 DEF Versions
    <3> QED
      BY <3>3 DEF AppliedPrefix
  <2>5. RecordsTrue'
    <3>1. Loose' = Loose
      BY <1>1 DEF Loose, Given
    <3>2. (UNION {Makes(v) : v \in applied})' = UNION {Makes(v) : v \in applied'}
      BY <1>1 DEF Makes, Migrations
    <3>3. Makes(at[i]) \ Loose \subseteq Migrations[at[i]].drops
      BY <1>1, DropsOwn
    <3>4. \A w \in applied' : Makes(w) \cap Migrations[at[i]].drops = {}
      <4>1. \A w \in applied' : w \in Versions /\ w < at[i]
        BY <1>1, <2>1 DEF Calls, TypeOK, Versions
      <4> QED
        BY <1>1, <4>1, DropsOwn
    <3>5. schema \ Loose = (UNION {Makes(v) : v \in applied}) \ Loose
      BY <1>3 DEF Records, RecordsTrue
    <3>6. \A x : x \in schema' \ Loose <=> x \in (UNION {Makes(v) : v \in applied'}) \ Loose
      BY <1>1, <2>1, <3>3, <3>4, <3>5
    <3> QED
      BY <3>1, <3>2, <3>6 DEF RecordsTrue
  <2> QED
    BY <2>3, <2>4, <2>5 DEF Records
<1> QED
  BY <1>2, <1>3

(* Every step keeps the records in order and true.                          *)
LEMMA RecordsNext == Calls /\ Records /\ [Next]_vars => Records'
<1> SUFFICES ASSUME Calls, Records, [Next]_vars
             PROVE  Records'
  OBVIOUS
<1> DEFINE Reads(j) ==
      /\ pc'[j] \in {"loop", "sql", "commit"} =>
           (~mixed /\ UpPrefix =>
              list'[j] \subseteq applied /\ \A v \in Versions : v < at'[j] => v \in applied)
      /\ pc'[j] \in {"undo", "drop"} =>
           (~mixed /\ DownTop =>
              at'[j] \in applied /\ \A v \in applied : v <= at'[j])
    Same == /\ kind' = kind /\ applied' = applied /\ schema' \ Loose = schema \ Loose
            /\ mixed => mixed' 
            /\ \A j \in Processes : Reads(j)
<1>0. TypeOK /\ Stages
  BY DEF Calls
<1>1. CASE UNCHANGED vars
  BY <1>1 DEF vars, database, process, history, UpPrefix, DownTop, Records, AppliedPrefix,
              RecordsTrue, Loose, Given, Makes, Migrations
<1>2. ASSUME NEW i \in Processes, Start(i) \/ CallStatus(i) \/ CallDown(i) PROVE Same
  BY <1>0, <1>2 DEF Start, CallStatus, CallDown, Goto, TypeOK, UpPrefix, DownTop, database, history
<1>3. ASSUME NEW i \in Processes, EnsureTable(i) \/ RunDown(i) PROVE Same
  BY <1>0, <1>3 DEF EnsureTable, RunDown, Goto, TypeOK, UpPrefix, DownTop, database, history
<1>4. ASSUME NEW i \in Processes, CreateTables(i) PROVE Same
  <2>1. schema' \ Loose = schema \ Loose
    BY <1>4 DEF CreateTables, Loose, Given
  <2> QED
    BY <1>0, <1>4, <2>1 DEF CreateTables, Goto, TypeOK, UpPrefix, DownTop, history
<1>5. ASSUME NEW i \in Processes, ReadApplied(i) PROVE Same
  <2>1. UNCHANGED database /\ UNCHANGED mixed
    BY <1>5 DEF ReadApplied, history
  <2>2. ASSUME NEW j \in Processes PROVE Reads(j)
    <3>1. CASE j # i
      BY <1>0, <1>5, <3>1 DEF ReadApplied, Goto, Forget, TypeOK, UpPrefix, DownTop
    <3>2. CASE j = i /\ op[i] = "up"
      <4>1. pc'[i] = "loop" /\ list'[i] = applied /\ at'[i] = 1
        BY <1>0, <1>5, <3>2 DEF ReadApplied, Goto, TypeOK, Stages
      <4> QED
        BY <3>2, <4>1 DEF Versions
    <3>3. CASE j = i /\ op[i] = "down" /\ applied # {}
      <4>1. pc'[i] = "undo" /\ at'[i] = Max(applied)
        BY <1>0, <1>5, <3>3 DEF ReadApplied, Goto, TypeOK
      <4>2. Max(applied) \in applied /\ \A v \in applied : v <= Max(applied)
        BY <1>0, <3>3, MaxOfVersions DEF TypeOK
      <4> QED
        BY <3>3, <4>1, <4>2
    <3>4. CASE j = i /\ op[i] # "up" /\ ~(op[i] = "down" /\ applied # {})
      <4>1. pc'[i] = "down"
        BY <1>0, <1>5, <3>4 DEF ReadApplied, Goto, TypeOK
      <4> QED
        BY <3>4, <4>1
    <3> QED
      BY <3>1, <3>2, <3>3, <3>4
  <2> QED
    BY <2>1, <2>2 DEF database
<1>6. ASSUME NEW i \in Processes, NextMigration(i) PROVE Same
  <2>1. UNCHANGED database /\ UNCHANGED mixed
    BY <1>6 DEF NextMigration, history
  <2>2. ASSUME NEW j \in Processes PROVE Reads(j)
    <3>1. CASE j # i
      BY <1>0, <1>6, <3>1 DEF NextMigration, Goto, TypeOK, UpPrefix, DownTop
    <3>2. CASE j = i
      <4>1. pc[i] = "loop" /\ pc'[i] = "sql" /\ list' = list /\ at'[i] = Min(Pending(i))
        BY <1>0, <1>6 DEF NextMigration, Goto, TypeOK
      <4>2. /\ Min(Pending(i)) \in Versions
            /\ \A v \in Versions : v >= at[i] /\ v < Min(Pending(i)) => v \in list[i]
        BY <1>6, PendingKnown DEF NextMigration
      <4>3. at[i] \in 1..7
        BY <1>0 DEF TypeOK
      <4>4. ~mixed /\ UpPrefix => \A v \in Versions : v < at'[i] => v \in applied
        BY <4>1, <4>2, <4>3 DEF UpPrefix, Versions
      <4> QED
        BY <3>2, <4>1, <4>4 DEF UpPrefix
    <3> QED
      BY <3>1, <3>2
  <2> QED
    BY <2>1, <2>2 DEF database
<1>7. ASSUME NEW i \in Processes, RunUp(i) PROVE Same
  <2>1. kind' = kind /\ schema' = schema /\ applied' = applied /\ mixed' = mixed
    BY <1>7 DEF RunUp, history
  <2>2. CASE UpSucceeds(at[i])
    <3>1. pc[i] = "sql" /\ pc' = [pc EXCEPT ![i] = "commit"] /\ UNCHANGED <<op, list, at>>
      BY <1>7, <2>2 DEF RunUp, Goto, Keep
    <3> QED
      BY <1>0, <2>1, <3>1 DEF TypeOK, UpPrefix, DownTop
  <2>3. CASE ~UpSucceeds(at[i])
    <3>1. pc' = [pc EXCEPT ![i] = "serving"] /\ Forget(i)
      BY <1>7, <2>3 DEF RunUp, Goto
    <3> QED
      BY <1>0, <2>1, <3>1 DEF Forget, TypeOK, UpPrefix, DownTop
  <2> QED
    BY <2>2, <2>3
<1>8. ASSUME NEW i \in Processes, UpReturns(i) \/ StatementFails(i) \/ Dies(i) PROVE Same
  <2>1. UNCHANGED database /\ UNCHANGED mixed
    BY <1>8 DEF UpReturns, StatementFails, Dies
  <2>2. /\ \A j \in Processes \ {i} : pc'[j] = pc[j] /\ list'[j] = list[j] /\ at'[j] = at[j]
        /\ pc'[i] \in {"down", "serving"}
    BY <1>0, <1>8 DEF UpReturns, StatementFails, Dies, Goto, Forget, Finished, TypeOK
  <2> QED
    BY <2>1, <2>2 DEF database, UpPrefix, DownTop
<1>9. ASSUME NEW i \in Processes, Register(i) PROVE Same
  <2>1. schema' \ Loose = schema \ Loose
    BY <1>9 DEF Register, Loose
  <2> QED
    BY <1>0, <1>9, <2>1 DEF Register, process, history, UpPrefix, DownTop
<1>10. CASE Next
  <2>1. CASE Same
    BY <1>0, <2>1, RecordsKept
  <2>2. PICK i \in Processes :
          \/ Start(i) \/ CallStatus(i) \/ CallDown(i) \/ Proceed(i)
          \/ StatementFails(i) \/ Dies(i) \/ Register(i)
    BY <1>10 DEF Next
  <2>3. CASE CommitUp(i)
    BY <2>3, CommitUpRecords
  <2>4. CASE CommitDown(i)
    BY <2>4, CommitDownRecords
  <2> HIDE DEF Same
  <2> QED
    BY <1>2, <1>3, <1>4, <1>5, <1>6, <1>7, <1>8, <1>9, <2>1, <2>2, <2>3, <2>4, Zenon DEF Proceed
<1> QED
  BY <1>1, <1>10
-------------------------------------------------------------------------------
(* Nothing of migration 1 is there.                                         *)
LEMMA FirstInit == Init => First
BY DEF Init, First

(* Steps that add none of the tables, and bring nobody to a COMMIT of the   *)
(* first migration.                                                         *)
LEMMA FirstKept ==
  ASSUME First, Tables \cap schema' \subseteq schema,
         \A j \in Processes : /\ pc'[j] = "commit" /\ at'[j] = 1 => pc[j] = "commit" /\ at[j] = 1
                              /\ pc'[j] = "drop" /\ at'[j] = 1 => pc[j] = "drop" /\ at[j] = 1
  PROVE  First'
BY DEF First, InTransaction

(* The tables of migration 1 come and go in one transaction.                *)
LEMMA FirstNext == Calls /\ First /\ [Next]_vars => First'
<1> SUFFICES ASSUME Calls, First, [Next]_vars
             PROVE  First'
  OBVIOUS
<1>0. TypeOK /\ Stages
  BY DEF Calls
<1> DEFINE Quieter == /\ Tables \cap schema' \subseteq schema
                      /\ \A j \in Processes :
                           /\ pc'[j] = "commit" /\ at'[j] = 1 => pc[j] = "commit" /\ at[j] = 1
                           /\ pc'[j] = "drop" /\ at'[j] = 1 => pc[j] = "drop" /\ at[j] = 1
<1>1. CASE UNCHANGED vars
  BY <1>1 DEF vars, database, process, First, InTransaction
<1>2. ASSUME NEW i \in Processes,
             Start(i) \/ CallStatus(i) \/ CallDown(i) \/ EnsureTable(i) \/ UpReturns(i)
             \/ NextMigration(i) \/ StatementFails(i) \/ Dies(i)
      PROVE  Quieter
  <2>1. schema' = schema
    BY <1>2 DEF Start, CallStatus, CallDown, EnsureTable, UpReturns, NextMigration,
                StatementFails, Dies, database
  <2>2. /\ \A j \in Processes \ {i} : pc'[j] = pc[j] /\ at'[j] = at[j]
        /\ pc'[i] \in {"down", "serving", "open", "ensure", "read", "sql"}
    BY <1>0, <1>2 DEF Start, CallStatus, CallDown, EnsureTable, UpReturns, NextMigration,
                      StatementFails, Dies, Goto, Forget, Finished, TypeOK
  <2> QED
    BY <2>1, <2>2
<1>3. ASSUME NEW i \in Processes, CreateTables(i) PROVE Quieter
  BY <1>0, <1>3 DEF CreateTables, Goto, TypeOK, Tables
<1>4. ASSUME NEW i \in Processes, Register(i) PROVE Quieter
  BY <1>0, <1>4 DEF Register, process, Tables
<1>5. ASSUME NEW i \in Processes, ReadApplied(i) PROVE Quieter
  <2>1. schema' = schema
    BY <1>5 DEF ReadApplied, database
  <2>2. /\ \A j \in Processes \ {i} : pc'[j] = pc[j] /\ at'[j] = at[j]
        /\ pc'[i] \in {"down", "loop", "undo"}
    BY <1>0, <1>5 DEF ReadApplied, Goto, Forget, TypeOK
  <2> QED
    BY <2>1, <2>2
<1>6. ASSUME NEW i \in Processes, RunUp(i) PROVE First'
  <2>1. schema' = schema /\ \A j \in Processes \ {i} : pc'[j] = pc[j] /\ at'[j] = at[j]
    BY <1>0, <1>6 DEF RunUp, Goto, Forget, Keep, TypeOK
  <2>2. CASE ~UpSucceeds(at[i])
    <3>1. pc'[i] = "serving"
      BY <1>0, <1>6, <2>2 DEF RunUp, Goto, TypeOK
    <3>2. Quieter
      BY <2>1, <3>1
    <3> QED
      BY <3>2, FirstKept
  <2>3. CASE UpSucceeds(at[i]) /\ at[i] # 1
    <3>1. at'[i] = at[i] /\ pc'[i] = "commit"
      BY <1>0, <1>6, <2>3 DEF RunUp, Goto, Keep, TypeOK
    <3>2. Quieter
      BY <2>1, <2>3, <3>1
    <3> QED
      BY <3>2, FirstKept
  <2>4. CASE UpSucceeds(at[i]) /\ at[i] = 1
    <3>1. Objects(1) # {} /\ Tables \cap schema = {}
      BY <2>4, EachMigration DEF UpSucceeds, Objects, Versions, Tables
    <3>2. \A j \in Processes \ {i} : ~(InTransaction(j) /\ at[j] = 1)
      BY <1>6, <2>4, <3>1 DEF RunUp, Waits
    <3>3. at'[i] = 1 /\ pc'[i] = "commit" /\ pc[i] = "sql"
      BY <1>0, <1>6, <2>4 DEF RunUp, Goto, Keep, TypeOK
    <3> QED
      BY <2>1, <3>1, <3>2, <3>3 DEF First, InTransaction
  <2> QED
    BY <2>2, <2>3, <2>4
<1>7. ASSUME NEW i \in Processes, RunDown(i) PROVE First'
  <2>1. schema' = schema /\ at' = at /\ pc' = [pc EXCEPT ![i] = "drop"] /\ ~Waits(i)
    BY <1>7 DEF RunDown, Goto, database
  <2>2. at[i] = 1 => \A j \in Processes \ {i} : ~(InTransaction(j) /\ at[j] = 1)
    <3>1. Objects(1) # {}
      BY EachMigration DEF Objects, Versions, Tables
    <3> QED
      BY <2>1, <3>1 DEF Waits
  <2> QED
    BY <1>0, <2>1, <2>2 DEF First, InTransaction, TypeOK
<1>8. ASSUME NEW i \in Processes, CommitUp(i) PROVE First'
  <2>1. /\ pc[i] = "commit" /\ at[i] \in Versions /\ schema' = schema \cup Makes(at[i])
        /\ pc' = [pc EXCEPT ![i] = "loop"] /\ at' = [at EXCEPT ![i] = at[i] + 1]
    BY <1>0, <1>8 DEF CommitUp, Goto, Stages
  <2>2. CASE at[i] # 1
    <3>1. Tables \cap Makes(at[i]) = {}
      BY <2>1, <2>2, EachMigration DEF Tables, Triggers, Versions
    <3>2. Quieter
      BY <1>0, <2>1, <3>1 DEF TypeOK
    <3> QED
      BY <3>2, FirstKept
  <2>3. CASE at[i] = 1
    BY <1>0, <2>1, <2>3 DEF First, InTransaction, TypeOK
  <2> QED
    BY <2>2, <2>3
<1>9. ASSUME NEW i \in Processes, CommitDown(i) PROVE Quieter
  BY <1>0, <1>9 DEF CommitDown, Goto, Forget, TypeOK
<1>10. CASE Next
  <2>1. CASE Quieter
    BY <2>1, FirstKept
  <2>2. PICK i \in Processes :
          \/ Start(i) \/ CallStatus(i) \/ CallDown(i) \/ Proceed(i)
          \/ StatementFails(i) \/ Dies(i) \/ Register(i)
    BY <1>10 DEF Next
  <2> HIDE DEF Quieter
  <2> QED
    BY <1>2, <1>3, <1>4, <1>5, <1>6, <1>7, <1>8, <1>9, <2>1, <2>2, Zenon DEF Proceed
<1> QED
  BY <1>1, <1>10

(* No step brings a spent migration 3 to its COMMIT.                        *)
LEMMA BurntStays ==
  Calls /\ First /\ [Next]_vars => (Burnt => Burnt' \/ ~(Owners \subseteq schema'))
<1> SUFFICES ASSUME Calls, First, [Next]_vars, Burnt, Owners \subseteq schema'
             PROVE  Burnt'
  OBVIOUS
<1>0. TypeOK /\ Stages
  BY DEF Calls
<1> DEFINE Third == /\ {"admin", "stranger"} \cap schema' \subseteq schema
                    /\ spent'
                    /\ \A j \in Processes : pc'[j] = "commit" /\ at'[j] = 3 =>
                                              pc[j] = "commit" /\ at[j] = 3
<1>1. CASE UNCHANGED vars
  BY <1>1 DEF vars, database, process, Burnt
<1>2. ASSUME NEW i \in Processes,
             Start(i) \/ CallStatus(i) \/ CallDown(i) \/ EnsureTable(i) \/ UpReturns(i)
             \/ NextMigration(i) \/ RunDown(i) \/ StatementFails(i) \/ Dies(i)
      PROVE  Third
  <2>1. schema' = schema /\ spent' = spent
    BY <1>2 DEF Start, CallStatus, CallDown, EnsureTable, UpReturns, NextMigration, RunDown,
                StatementFails, Dies, database
  <2>2. /\ \A j \in Processes \ {i} : pc'[j] = pc[j] /\ at'[j] = at[j]
        /\ pc'[i] \in {"down", "serving", "open", "ensure", "read", "sql", "drop"}
    BY <1>0, <1>2 DEF Start, CallStatus, CallDown, EnsureTable, UpReturns, NextMigration,
                      RunDown, StatementFails, Dies, Goto, Forget, Finished, TypeOK
  <2> QED
    BY <2>1, <2>2 DEF Burnt
<1>3. ASSUME NEW i \in Processes, CreateTables(i) PROVE Third
  BY <1>0, <1>3 DEF CreateTables, Goto, TypeOK, Burnt
<1>4. ASSUME NEW i \in Processes, Register(i) PROVE FALSE
  BY <1>4 DEF Register, Burnt
<1>5. ASSUME NEW i \in Processes, ReadApplied(i) PROVE Third
  <2>1. schema' = schema /\ spent' = spent
    BY <1>5 DEF ReadApplied, database
  <2>2. /\ \A j \in Processes \ {i} : pc'[j] = pc[j] /\ at'[j] = at[j]
        /\ pc'[i] \in {"down", "loop", "undo"}
    BY <1>0, <1>5 DEF ReadApplied, Goto, Forget, TypeOK
  <2> QED
    BY <2>1, <2>2 DEF Burnt
<1>6. ASSUME NEW i \in Processes, RunUp(i) PROVE Third
  <2>1. schema' = schema /\ spent' /\ \A j \in Processes \ {i} : pc'[j] = pc[j] /\ at'[j] = at[j]
    BY <1>0, <1>6 DEF RunUp, Goto, Forget, Keep, TypeOK, Burnt
  <2>2. pc'[i] = "commit" => at'[i] # 3
    <3>1. at[i] = 3 => ~UpSucceeds(at[i])
      BY DEF UpSucceeds, AdminFindsOrganization, Burnt
    <3> QED
      BY <1>0, <1>6, <3>1 DEF RunUp, Goto, Keep, TypeOK
  <2> QED
    BY <2>1, <2>2
<1>7. ASSUME NEW i \in Processes, CommitUp(i) PROVE Third
  <2>1. /\ pc[i] = "commit" /\ at[i] \in Versions /\ schema' = schema \cup Makes(at[i])
        /\ pc' = [pc EXCEPT ![i] = "loop"] /\ at' = [at EXCEPT ![i] = at[i] + 1]
        /\ spent' = (at[i] # 1 /\ (spent \/ at[i] = 3))
    BY <1>0, <1>7 DEF CommitUp, Goto, Stages
  <2>2. at[i] # 3
    BY <2>1 DEF Burnt
  <2>3. at[i] # 1
    BY <2>1 DEF First, Burnt, Owners, Tables
  <2>4. {"admin", "stranger"} \cap Makes(at[i]) = {}
    BY <2>1, <2>2, EachMigration DEF Tables, Triggers, Versions
  <2> QED
    BY <1>0, <2>1, <2>3, <2>4 DEF TypeOK, Burnt
<1>8. ASSUME NEW i \in Processes, CommitDown(i) PROVE Third
  BY <1>0, <1>8 DEF CommitDown, Goto, Forget, TypeOK, Burnt
<1>9. CASE Next
  <2>1. PICK i \in Processes :
          \/ Start(i) \/ CallStatus(i) \/ CallDown(i) \/ Proceed(i)
          \/ StatementFails(i) \/ Dies(i) \/ Register(i)
    BY <1>9 DEF Next
  <2>2. Third
    <3> HIDE DEF Third
    <3> QED
      BY <1>2, <1>3, <1>4, <1>5, <1>6, <1>7, <1>8, <2>1, Zenon DEF Proceed
  <2> QED
    BY <2>2 DEF Burnt
<1> QED
  BY <1>1, <1>9
-------------------------------------------------------------------------------
(* What is left of a step once it is known whose it is                     *)

Step(i) ==
  \/ Start(i) \/ CallStatus(i) \/ CallDown(i) \/ Proceed(i)
  \/ StatementFails(i) \/ Dies(i) \/ Register(i)

(* A step of one process leaves the others where they are.                  *)
LEMMA OthersStay ==
  ASSUME TypeOK, NEW i \in Processes, Step(i), NEW j \in Processes \ {i}
  PROVE  pc'[j] = pc[j] /\ op'[j] = op[j] /\ list'[j] = list[j] /\ at'[j] = at[j]
<1> USE DEF TypeOK, Goto, Forget, Keep, process
<1>1. CASE Start(i) \/ CallStatus(i) \/ CallDown(i)
  BY <1>1 DEF Start, CallStatus, CallDown
<1>2. CASE CreateTables(i) \/ EnsureTable(i) \/ NextMigration(i) \/ UpReturns(i)
  BY <1>2 DEF CreateTables, EnsureTable, NextMigration, UpReturns
<1>3. CASE ReadApplied(i)
  BY <1>3 DEF ReadApplied
<1>4. CASE RunUp(i)
  BY <1>4 DEF RunUp
<1>5. CASE RunDown(i) \/ CommitUp(i) \/ CommitDown(i)
  BY <1>5 DEF RunDown, CommitUp, CommitDown
<1>6. CASE StatementFails(i) \/ Dies(i) \/ Register(i)
  BY <1>6 DEF StatementFails, Dies, Register
<1> QED
  BY <1>1, <1>2, <1>3, <1>4, <1>5, <1>6, Zenon DEF Step, Proceed

(* A call begins, goes on to its tables or returns: the records stay.       *)
LEMMA Outside ==
  ASSUME TypeOK, Stages, NEW i \in Processes,
         \/ Start(i) \/ CallStatus(i) \/ CallDown(i) \/ EnsureTable(i)
         \/ UpReturns(i) \/ StatementFails(i) \/ Dies(i)
  PROVE  /\ UNCHANGED database /\ pc'[i] \in {"open", "ensure", "read", "serving", "down"}
         /\ Busy(i)' /\ op'[i] = "up" => Start(i) \/ EnsureTable(i)
         /\ Busy(i)' /\ op'[i] = "down" => CallDown(i) \/ EnsureTable(i)
<1> USE DEF TypeOK, Stages, Goto, Forget, Busy
<1>1. CASE Start(i) \/ CallStatus(i) \/ CallDown(i)
  BY <1>1 DEF Start, CallStatus, CallDown
<1>2. CASE EnsureTable(i) \/ UpReturns(i)
  BY <1>2 DEF EnsureTable, UpReturns
<1>3. CASE StatementFails(i) \/ Dies(i)
  <2>1. UNCHANGED database /\ pc'[i] \in {"serving", "down"}
    BY <1>3 DEF StatementFails, Dies, Finished
  <2> QED
    BY <2>1
<1> QED
  BY <1>1, <1>2, <1>3

(* The three things that ReadApplied does.                                  *)
LEMMA Reading ==
  ASSUME TypeOK, Stages, NEW i \in Processes, ReadApplied(i)
  PROVE  /\ UNCHANGED database /\ UNCHANGED history /\ UNCHANGED bounds /\ pc[i] = "read"
         /\ \/ /\ op[i] = "up" /\ op'[i] = "up" /\ pc'[i] = "loop"
               /\ list'[i] = applied /\ at'[i] = 1
            \/ /\ op[i] = "down" /\ op'[i] = "down" /\ applied # {} /\ pc'[i] = "undo"
               /\ at'[i] = Max(applied)
            \/ op[i] # "up" /\ pc'[i] = "down" /\ op'[i] = "up"
<1>1. UNCHANGED database /\ UNCHANGED history /\ UNCHANGED bounds
  BY DEF ReadApplied
<1>2. CASE op[i] = "up"
  BY <1>1, <1>2 DEF ReadApplied, Goto, TypeOK, Stages
<1>3. CASE op[i] = "down" /\ applied # {}
  BY <1>1, <1>3 DEF ReadApplied, Goto, TypeOK, Stages
<1>4. CASE op[i] # "up" /\ ~(op[i] = "down" /\ applied # {})
  BY <1>1, <1>4 DEF ReadApplied, Goto, TypeOK, Stages, Forget
<1> QED
  BY <1>2, <1>3, <1>4

(* The two things that RunUp does.                                          *)
LEMMA RunningUp ==
  ASSUME TypeOK, Stages, NEW i \in Processes, RunUp(i)
  PROVE  /\ UNCHANGED <<kind, schema, applied>> /\ UNCHANGED history /\ UNCHANGED bounds
         /\ (spent => spent') /\ pc[i] = "sql" /\ op[i] = "up" /\ op'[i] = "up"
         /\ at[i] \in Versions
         /\ \/ /\ UpSucceeds(at[i]) /\ pc'[i] = "commit"
               /\ list'[i] = list[i] /\ at'[i] = at[i]
            \/ ~UpSucceeds(at[i]) /\ pc'[i] = "serving"
<1>1. /\ UNCHANGED <<kind, schema, applied>> /\ UNCHANGED history /\ UNCHANGED bounds
      /\ pc[i] = "sql" /\ op[i] = "up" /\ at[i] \in Versions
      /\ (spent => spent')
  BY DEF RunUp, Stages
<1>2. CASE UpSucceeds(at[i])
  BY <1>1, <1>2 DEF RunUp, Goto, Keep, TypeOK
<1>3. CASE ~UpSucceeds(at[i])
  BY <1>1, <1>3 DEF RunUp, Goto, Forget, TypeOK
<1> QED
  BY <1>1, <1>2, <1>3

(* The COMMIT of a migration shows what it made and its record.             *)
LEMMA CommittingUp ==
  ASSUME TypeOK, Stages, NEW i \in Processes, CommitUp(i)
  PROVE  /\ pc[i] = "commit" /\ pc'[i] = "loop" /\ op[i] = "up" /\ op'[i] = "up"
         /\ at[i] \in Versions /\ at'[i] = at[i] + 1 /\ list'[i] = list[i]
         /\ schema' = schema \cup Makes(at[i]) /\ applied' = applied \cup {at[i]}
         /\ spent' = (at[i] # 1 /\ (spent \/ at[i] = 3))
         /\ kind' = kind /\ UNCHANGED bounds /\ UNCHANGED history
BY DEF CommitUp, Goto, TypeOK, Stages

(* The COMMIT of a rollback takes what it drops and its record.             *)
LEMMA CommittingDown ==
  ASSUME TypeOK, Stages, NEW i \in Processes, CommitDown(i)
  PROVE  /\ pc[i] = "drop" /\ pc'[i] = "down" /\ op[i] = "down" /\ op'[i] = "up"
         /\ at[i] \in Versions
         /\ schema' = schema \ Migrations[at[i]].drops /\ applied' = applied \ {at[i]}
         /\ UNCHANGED <<kind, spent>> /\ UNCHANGED bounds /\ UNCHANGED history
BY DEF CommitDown, Goto, TypeOK, Stages, Forget

(* createTables makes the table of transactions on a SQLite file.           *)
LEMMA CreatingTables ==
  ASSUME TypeOK, Stages, NEW i \in Processes, CreateTables(i)
  PROVE  /\ pc[i] = "open" /\ pc'[i] = "ensure" /\ op[i] = "up" /\ op'[i] = "up"
         /\ schema' = IF kind = "sqlite" THEN schema \cup {"transactions"} ELSE schema
         /\ UNCHANGED <<kind, applied, spent>> /\ UNCHANGED bounds /\ UNCHANGED history
BY DEF CreateTables, Goto, TypeOK, Stages

(* The version that is chosen is the first that the list does not have.     *)
LEMMA Choosing ==
  ASSUME TypeOK, Stages, NEW i \in Processes, NextMigration(i)
  PROVE  /\ pc[i] = "loop" /\ pc'[i] = "sql" /\ op[i] = "up" /\ op'[i] = "up"
         /\ list'[i] = list[i] /\ at'[i] \in Versions /\ at'[i] \in Pending(i)
         /\ \A v \in Versions : v >= at[i] /\ v < at'[i] => v \in list[i]
         /\ UNCHANGED database /\ UNCHANGED bounds /\ UNCHANGED history
<1>1. /\ pc[i] = "loop" /\ pc'[i] = "sql" /\ op[i] = "up" /\ op'[i] = "up"
      /\ list'[i] = list[i] /\ at'[i] = Min(Pending(i)) /\ Pending(i) # {}
      /\ UNCHANGED database /\ UNCHANGED bounds /\ UNCHANGED history
  BY DEF NextMigration, Goto, TypeOK, Stages
<1> QED
  BY <1>1, PendingKnown DEF Pending

(* The statements of a rollback show nothing before its COMMIT.             *)
LEMMA RollingBack ==
  ASSUME TypeOK, Stages, NEW i \in Processes, RunDown(i)
  PROVE  /\ pc[i] = "undo" /\ pc'[i] = "drop" /\ op[i] = "down" /\ op'[i] = "down"
         /\ at'[i] = at[i] /\ at[i] \in Versions
         /\ UNCHANGED database /\ UNCHANGED bounds /\ UNCHANGED history
BY DEF RunDown, Goto, TypeOK, Stages

(* A registration may take the first organization id and set an owner,      *)
(* while that id is free.                                                   *)
LEMMA Registering ==
  ASSUME NEW i \in Processes, Register(i)
  PROVE  /\ ~spent /\ UNCHANGED <<kind, applied>>
         /\ schema' = schema \/ ("owner_id" \in schema /\ schema' = schema \cup {"stranger"})
         /\ UNCHANGED process /\ UNCHANGED bounds /\ UNCHANGED history
BY DEF Register
-------------------------------------------------------------------------------
(* A transaction brings a version that has no record yet, and no other one  *)
(* is about the same version: their locks exclude each other.               *)
Fresh ==
  \A i \in Processes :
    InTransaction(i) =>
      /\ pc[i] = "commit" => at[i] \notin applied
      /\ \A j \in Processes \ {i} : InTransaction(j) => at[j] # at[i]

(* No transaction is open.                                                  *)
LEMMA FreshInit == Init => Fresh
BY DEF Init, Fresh, InTransaction

(* Every step keeps open transactions at versions of their own.             *)
LEMMA FreshNext == Calls /\ Fresh /\ [Next]_vars => Fresh'
<1> SUFFICES ASSUME Calls, Fresh, [Next]_vars PROVE Fresh'
  OBVIOUS
<1>0. TypeOK /\ Stages
  BY DEF Calls
<1>1. CASE UNCHANGED vars
  BY <1>1 DEF vars, database, process, Fresh, InTransaction
<1> SUFFICES ASSUME NEW i \in Processes, Step(i) PROVE Fresh'
  BY <1>1 DEF Next, Step
<1>2. \A j \in Processes \ {i} : pc'[j] = pc[j] /\ at'[j] = at[j]
  BY <1>0, OthersStay
<1>3. CASE applied' = applied /\ pc'[i] \notin {"commit", "drop"}
  BY <1>2, <1>3 DEF Fresh, InTransaction
<1>4. ASSUME ~Waits(i), at[i] \in Versions, at'[i] = at[i], applied' = applied,
             pc'[i] = "commit" => at[i] \notin applied
      PROVE  Fresh'
  <2>1. Objects(at[i]) # {}
    BY <1>4, EachMigration DEF Objects, Versions, Tables, Triggers
  <2>2. \A j \in Processes \ {i} : InTransaction(j) => at[j] # at[i]
    BY <1>4, <2>1 DEF Waits
  <2> QED
    BY <1>2, <1>4, <2>2 DEF Fresh, InTransaction
<1>5. CASE RunUp(i)
  <2>1. CASE UpSucceeds(at[i])
    BY <1>0, <1>4, <1>5, <2>1, RunningUp DEF RunUp, UpSucceeds
  <2>2. CASE ~UpSucceeds(at[i])
    BY <1>0, <1>3, <1>5, <2>2, RunningUp
  <2> QED
    BY <2>1, <2>2
<1>6. CASE RunDown(i)
  BY <1>0, <1>4, <1>6 DEF RunDown, Goto, Stages, TypeOK, database
<1>7. CASE CommitUp(i)
  BY <1>0, <1>2, <1>7, CommittingUp DEF Fresh, InTransaction
<1>8. CASE CommitDown(i)
  BY <1>0, <1>2, <1>8, CommittingDown DEF Fresh, InTransaction
<1>9. CASE \/ Start(i) \/ CallStatus(i) \/ CallDown(i) \/ EnsureTable(i)
           \/ UpReturns(i) \/ StatementFails(i) \/ Dies(i)
  <2>1. UNCHANGED database /\ pc'[i] \in {"open", "ensure", "read", "serving", "down"}
    BY <1>0, <1>9, Outside
  <2> QED
    BY <1>3, <2>1 DEF database
<1>10. CASE ReadApplied(i)
  <2>1. UNCHANGED database /\ pc'[i] \in {"loop", "undo", "down"}
    BY <1>0, <1>10, Reading
  <2> QED
    BY <1>3, <2>1 DEF database
<1>11. CASE CreateTables(i) \/ NextMigration(i)
  BY <1>0, <1>3, <1>11 DEF CreateTables, NextMigration, Goto, TypeOK, database
<1>12. CASE Register(i)
  BY <1>12 DEF Register, process, Fresh, InTransaction
<1> QED
  BY <1>5, <1>6, <1>7, <1>8, <1>9, <1>10, <1>11, <1>12, Zenon DEF Step, Proceed
-------------------------------------------------------------------------------
(* On a database of the script no migration comes to its COMMIT.            *)
Stuck ==
  kind = "scripted" =>
    /\ Scripted \subseteq schema /\ applied = {}
    /\ \A i \in Processes :
         /\ pc[i] \notin {"commit", "undo", "drop"}
         /\ pc[i] \in {"loop", "sql"} => at[i] = 1 /\ list[i] = {}

(* No migration is at its COMMIT.                                           *)
LEMMA StuckInit == Init => Stuck
BY DEF Init, Stuck

(* On a scripted database migration 1 fails in every start.                 *)
LEMMA StuckNext == Calls /\ Stuck /\ [Next]_vars => Stuck'
<1> SUFFICES ASSUME Calls, Stuck, [Next]_vars PROVE Stuck'
  OBVIOUS
<1>0. TypeOK /\ Stages
  BY DEF Calls
<1>1. CASE UNCHANGED vars
  BY <1>1 DEF vars, database, process, Stuck
<1> SUFFICES ASSUME NEW i \in Processes, Step(i), kind = "scripted" PROVE Stuck'
  BY <1>0, <1>1, DatabaseTypes DEF Next, Step, Stuck
<1> DEFINE Here == /\ schema \subseteq schema' /\ applied' = applied
                   /\ pc'[i] \notin {"commit", "undo", "drop"}
                   /\ pc'[i] \in {"loop", "sql"} => at'[i] = 1 /\ list'[i] = {}
<1>2. Scripted \subseteq schema /\ applied = {} /\ pc[i] \notin {"commit", "undo", "drop"}
  BY DEF Stuck
<1>2a. Here => Stuck'
  <2>1. \A j \in Processes \ {i} : pc'[j] = pc[j] /\ list'[j] = list[j] /\ at'[j] = at[j]
    BY <1>0, OthersStay
  <2>2. \A j \in Processes \ {i} :
          /\ pc[j] \notin {"commit", "undo", "drop"}
          /\ pc[j] \in {"loop", "sql"} => at[j] = 1 /\ list[j] = {}
    BY DEF Stuck
  <2> QED
    BY <1>2, <2>1, <2>2 DEF Stuck
<1> HIDE DEF Here
<1>3. CASE \/ Start(i) \/ CallStatus(i) \/ CallDown(i) \/ EnsureTable(i)
           \/ UpReturns(i) \/ StatementFails(i) \/ Dies(i)
  <2>1. UNCHANGED database /\ pc'[i] \in {"open", "ensure", "read", "serving", "down"}
    BY <1>0, <1>3, Outside
  <2>2. Here
    BY <2>1 DEF database, Here
  <2> QED
    BY <1>2a, <2>2
<1>4. CASE CreateTables(i)
  <2>1. Here
    BY <1>0, <1>4, CreatingTables DEF Here
  <2> QED
    BY <1>2a, <2>1
<1>5. CASE ReadApplied(i)
  <2>1. Here
    BY <1>0, <1>2, <1>5, Reading DEF database, Here
  <2> QED
    BY <1>2a, <2>1
<1>6. CASE NextMigration(i)
  <2>1. /\ UNCHANGED database /\ pc[i] = "loop" /\ pc'[i] = "sql" /\ list'[i] = list[i]
        /\ at'[i] \in Versions /\ \A v \in Versions : v >= at[i] /\ v < at'[i] => v \in list[i]
    BY <1>0, <1>6, Choosing
  <2>2. at[i] = 1 /\ list[i] = {}
    BY <2>1 DEF Stuck
  <2>3. at'[i] = 1
    BY <2>1, <2>2 DEF Versions
  <2>4. Here
    BY <2>1, <2>2, <2>3 DEF database, Here
  <2> QED
    BY <1>2a, <2>4
<1>7. CASE RunUp(i)
  <2>1. pc[i] = "sql" /\ UNCHANGED <<schema, applied>>
    BY <1>0, <1>7, RunningUp
  <2>2. at[i] = 1
    BY <2>1 DEF Stuck
  <2>3. Migrations[1].creates = Tables
    BY EachMigration DEF Versions
  <2>4. ~UpSucceeds(at[i])
    BY <1>2, <2>2, <2>3 DEF UpSucceeds, Tables, Scripted
  <2>5. pc'[i] = "serving"
    BY <1>0, <1>7, <2>4, RunningUp
  <2>6. Here
    BY <2>1, <2>5 DEF Here
  <2> QED
    BY <1>2a, <2>6
<1>8. CASE RunDown(i) \/ CommitUp(i) \/ CommitDown(i)
  BY <1>2, <1>8 DEF RunDown, CommitUp, CommitDown, Goto
<1>9. CASE Register(i)
  BY <1>9, Registering DEF process, Stuck
<1> QED
  BY <1>3, <1>4, <1>5, <1>6, <1>7, <1>8, <1>9, Zenon DEF Step, Proceed
-------------------------------------------------------------------------------
(* What has been mixed or met trouble has; nothing but an Up that returns   *)
(* makes it clean.                                                          *)
LEMMA HistoryGrows ==
  ASSUME TypeOK, NEW i \in Processes, Step(i)
  PROVE  /\ (mixed => mixed') /\ (trouble => trouble') /\ starts' >= starts
         /\ (clean' => clean \/ UpReturns(i))
         /\ (starts' = starts \/ Start(i))
<1> USE DEF TypeOK, history, bounds
<1>1. CASE Start(i)
  BY <1>1 DEF Start
<1>2. CASE CallStatus(i) \/ CallDown(i)
  BY <1>2 DEF CallStatus, CallDown
<1>3. CASE CreateTables(i) \/ EnsureTable(i) \/ NextMigration(i) \/ UpReturns(i)
  BY <1>3 DEF CreateTables, EnsureTable, NextMigration, UpReturns
<1>4. CASE ReadApplied(i)
  BY <1>4 DEF ReadApplied
<1>5. CASE RunUp(i)
  BY <1>5 DEF RunUp
<1>6. CASE RunDown(i) \/ CommitUp(i) \/ CommitDown(i)
  BY <1>6 DEF RunDown, CommitUp, CommitDown
<1>7. CASE StatementFails(i) \/ Dies(i) \/ Register(i)
  BY <1>7 DEF StatementFails, Dies, Register
<1> QED
  BY <1>1, <1>2, <1>3, <1>4, <1>5, <1>6, <1>7, Zenon DEF Step, Proceed

(* On a SQLite file createTables makes the table of migration 6, which      *)
(* therefore never comes to its COMMIT.                                     *)
LiteTable ==
  kind = "sqlite" =>
    /\ 6 \notin applied
    /\ \A i \in Processes :
         /\ pc[i] \in {"commit", "undo", "drop"} => at[i] # 6
         /\ pc[i] \in {"ensure", "read", "loop", "sql", "commit"} /\ op[i] = "up" =>
              "transactions" \in schema

(* A SQLite file begins without migration 6.                                *)
LEMMA LiteTableInit == Init => LiteTable
BY DEF Init, LiteTable

(* On a SQLite file migration 6 fails in every start.                       *)
LEMMA LiteTableNext == Calls /\ LiteTable /\ [Next]_vars => LiteTable'
<1> SUFFICES ASSUME Calls, LiteTable, [Next]_vars PROVE LiteTable'
  OBVIOUS
<1>0. TypeOK /\ Stages
  BY DEF Calls
<1>1. CASE UNCHANGED vars
  BY <1>1 DEF vars, database, process, LiteTable
<1> SUFFICES ASSUME NEW i \in Processes, Step(i), kind = "sqlite" PROVE LiteTable'
  BY <1>0, <1>1, DatabaseTypes DEF Next, Step, LiteTable
<1> DEFINE Here == /\ 6 \notin applied' /\ ("transactions" \in schema => "transactions" \in schema')
                   /\ pc'[i] \in {"commit", "undo", "drop"} => at'[i] # 6
                   /\ (pc'[i] \in {"ensure", "read", "loop", "sql", "commit"} /\ op'[i] = "up" =>
                         "transactions" \in schema')
<1>2. /\ 6 \notin applied /\ (pc[i] \in {"commit", "undo", "drop"} => at[i] # 6)
      /\ (pc[i] \in {"ensure", "read", "loop", "sql", "commit"} /\ op[i] = "up" =>
            "transactions" \in schema)
  BY DEF LiteTable
<1>3. Here => LiteTable'
  <2>1. \A j \in Processes \ {i} : pc'[j] = pc[j] /\ op'[j] = op[j] /\ at'[j] = at[j]
    BY <1>0, OthersStay
  <2>2. \A j \in Processes \ {i} :
         /\ pc[j] \in {"commit", "undo", "drop"} => at[j] # 6
         /\ (pc[j] \in {"ensure", "read", "loop", "sql", "commit"} /\ op[j] = "up" =>
              "transactions" \in schema)
    BY DEF LiteTable
  <2> QED
    BY <2>1, <2>2 DEF LiteTable
<1> SUFFICES Here
  BY <1>3
<1>4. CASE \/ Start(i) \/ CallStatus(i) \/ CallDown(i) \/ EnsureTable(i)
           \/ UpReturns(i) \/ StatementFails(i) \/ Dies(i)
  <2>1. UNCHANGED database /\ pc'[i] \in {"open", "ensure", "read", "serving", "down"}
    BY <1>0, <1>4, Outside
  <2>2. ASSUME pc'[i] \in {"ensure", "read"}, op'[i] = "up" PROVE "transactions" \in schema
    <3>1. Start(i) \/ EnsureTable(i)
      BY <1>0, <1>4, <2>2, Outside DEF Busy
    <3>2. pc[i] = "ensure" /\ op[i] = "up"
      BY <1>0, <2>2, <3>1 DEF Start, EnsureTable, Goto, TypeOK
    <3> QED
      BY <1>2, <3>2
  <2> QED
    BY <1>2, <2>1, <2>2 DEF database
<1>5. CASE CreateTables(i)
  BY <1>0, <1>2, <1>5, CreatingTables
<1>6. CASE ReadApplied(i)
  <2>1. applied # {} => Max(applied) # 6
    BY <1>0, <1>2, MaxOfVersions DEF TypeOK
  <2> QED
    BY <1>0, <1>2, <1>6, <2>1, Reading DEF database
<1>7. CASE NextMigration(i)
  BY <1>0, <1>2, <1>7, Choosing DEF database
<1>8. CASE RunUp(i)
  <2>1. Migrations[6].creates = {"transactions"}
    BY EachMigration DEF Versions
  <2>2. at[i] = 6 => ~UpSucceeds(at[i])
    <3>1. "transactions" \in schema
      BY <1>0, <1>2, <1>8, RunningUp
    <3> QED
      BY <2>1, <3>1 DEF UpSucceeds
  <2> QED
    BY <1>0, <1>2, <1>8, <2>2, RunningUp
<1>9. CASE RunDown(i)
  BY <1>0, <1>2, <1>9, RollingBack DEF database
<1>10. CASE CommitUp(i)
  BY <1>0, <1>2, <1>10, CommittingUp
<1>11. CASE CommitDown(i)
  <2>1. /\ at[i] \in Versions /\ schema' = schema \ Migrations[at[i]].drops
        /\ applied' = applied \ {at[i]} /\ pc'[i] = "down" /\ at[i] # 6
    BY <1>0, <1>2, <1>11, CommittingDown
  <2>2. "transactions" \notin Migrations[at[i]].drops
    BY <2>1, EachMigration DEF Versions, Tables, Dependents, Triggers
  <2> QED
    BY <1>2, <2>1, <2>2
<1>12. CASE Register(i)
  BY <1>2, <1>12, Registering DEF process
<1> HIDE DEF Here
<1> QED
  BY <1>4, <1>5, <1>6, <1>7, <1>8, <1>9, <1>10, <1>11, <1>12, Zenon DEF Step, Proceed
-------------------------------------------------------------------------------
(* An Up that returned nil, and no rollback since: none is under way.       *)
NotClean == ~mixed /\ clean => \A i \in Processes : Busy(i) => op[i] # "down"

(* A rollback that begins ends the state an Up has left.                    *)
LEMMA NotCleanNext == Calls /\ NotClean /\ [Next]_vars => NotClean'
<1> SUFFICES ASSUME Calls, NotClean, [Next]_vars PROVE NotClean'
  OBVIOUS
<1>0. TypeOK /\ Stages
  BY DEF Calls
<1>1. CASE UNCHANGED vars
  BY <1>1 DEF vars, history, process, NotClean, Busy
<1> SUFFICES ASSUME NEW i \in Processes, Step(i), ~mixed', clean',
                    NEW j \in Processes, Busy(j)', op'[j] = "down"
             PROVE  FALSE
  BY <1>1 DEF Next, Step, NotClean
<1>2. ~mixed /\ (clean \/ UpReturns(i))
  BY <1>0, HistoryGrows
<1>3. Busy(j) /\ op[j] = "down"
  <2>1. CASE j # i
    BY <1>0, <2>1, OthersStay DEF Busy
  <2> SUFFICES ASSUME j = i PROVE Busy(i) /\ op[i] = "down"
    BY <2>1
  <2>2. CASE \/ Start(i) \/ CallStatus(i) \/ CallDown(i) \/ EnsureTable(i)
             \/ UpReturns(i) \/ StatementFails(i) \/ Dies(i)
    <3>1. CallDown(i) \/ EnsureTable(i)
      BY <1>0, <2>2, Outside
    <3>2. ~CallDown(i)
      BY DEF CallDown
    <3> QED
      BY <1>0, <3>1, <3>2 DEF EnsureTable, Goto, Busy, TypeOK
  <2>3. CASE CreateTables(i) \/ ReadApplied(i) \/ NextMigration(i)
    BY <1>0, <2>3, CreatingTables, Reading, Choosing DEF Busy
  <2>4. CASE RunUp(i) \/ RunDown(i) \/ CommitUp(i) \/ CommitDown(i)
    BY <1>0, <2>4, RunningUp, RollingBack, CommittingUp, CommittingDown DEF Busy
  <2>5. CASE Register(i)
    BY <2>5, Registering DEF process, Busy
  <2> QED
    BY <2>2, <2>3, <2>4, <2>5, Zenon DEF Step, Proceed
<1>4. CASE clean
  BY <1>2, <1>3, <1>4 DEF NotClean
<1>5. CASE UpReturns(i)
  <2>1. Busy(i) /\ op[i] = "up"
    BY <1>0, <1>5 DEF UpReturns, Goto, Stages, Busy
  <2> QED
    BY <1>2, <1>3, <2>1 DEF Calls, Alone
<1> QED
  BY <1>2, <1>4, <1>5

(* An Up that comes to the end of its loop has passed every version.        *)
LEMMA UpPassesAll ==
  ASSUME Calls, Records, NEW i \in Processes, UpReturns(i), ~mixed
  PROVE  applied = Versions
<1>1. pc[i] = "loop" /\ Pending(i) = {}
  BY DEF UpReturns, Goto
<1>2. list[i] \subseteq applied /\ \A v \in Versions : v < at[i] => v \in applied
  BY <1>1 DEF Records, UpPrefix
<1>3. at[i] \in 1..7 /\ applied \subseteq Versions
  BY DEF Calls, TypeOK
<1>4. ASSUME NEW v \in Versions PROVE v \in applied
  <2>1. v >= at[i] => v \in list[i]
    BY <1>1 DEF Pending
  <2> QED
    BY <1>2, <1>3, <2>1 DEF Versions
<1> QED
  BY <1>3, <1>4

(* Up returns nil only when its loop is through, and on Postgres only.      *)
LEMMA SuccessNext ==
  Calls /\ Records /\ Stuck /\ LiteTable /\ NotClean /\ SuccessMeansMigrated /\ [Next]_vars
    => SuccessMeansMigrated'
<1> SUFFICES ASSUME Calls, Records, Stuck, LiteTable, NotClean, SuccessMeansMigrated, [Next]_vars
             PROVE  SuccessMeansMigrated'
  OBVIOUS
<1>0. TypeOK /\ Stages
  BY DEF Calls
<1>1. CASE UNCHANGED vars
  BY <1>1 DEF vars, history, database, SuccessMeansMigrated
<1> SUFFICES ASSUME NEW i \in Processes, Step(i), clean', ~mixed'
             PROVE  kind' = "postgres" /\ applied' = Versions
  BY <1>1 DEF Next, Step, SuccessMeansMigrated, Versions
<1>2. ~mixed /\ (clean \/ UpReturns(i))
  BY <1>0, HistoryGrows
<1>3. applied' \subseteq Versions /\ kind' = kind
  BY <1>0, DatabaseTypes DEF Next, Step
<1>4. CASE UpReturns(i)
  <2>1. applied = Versions /\ UNCHANGED database
    BY <1>2, <1>4, UpPassesAll DEF UpReturns
  <2>2. kind # "scripted" /\ kind # "sqlite"
    BY <2>1 DEF Stuck, LiteTable, Versions
  <2>3. kind = "postgres"
    BY <1>0, <2>2, MigratorAssumption DEF TypeOK
  <2> QED
    BY <2>1, <2>3 DEF database
<1>5. CASE clean /\ ~UpReturns(i)
  <2>1. kind = "postgres" /\ applied = Versions
    BY <1>2, <1>5 DEF SuccessMeansMigrated
  <2>2. ~CommitDown(i)
    <3>1. CommitDown(i) => Busy(i) /\ op[i] = "down"
      BY <1>0, CommittingDown DEF Busy
    <3> QED
      BY <1>2, <1>5, <3>1 DEF NotClean
  <2>3. applied \subseteq applied'
    <3>1. CASE \/ Start(i) \/ CallStatus(i) \/ CallDown(i) \/ EnsureTable(i)
               \/ StatementFails(i) \/ Dies(i)
      BY <1>0, <3>1, Outside DEF database
    <3>2. CASE CreateTables(i) \/ ReadApplied(i) \/ NextMigration(i)
      BY <1>0, <3>2, CreatingTables, Reading, Choosing DEF database
    <3>3. CASE RunUp(i) \/ RunDown(i) \/ CommitUp(i)
      BY <1>0, <3>3, RunningUp, RollingBack, CommittingUp DEF database
    <3>4. CASE Register(i)
      BY <3>4, Registering
    <3> QED
      BY <1>5, <2>2, <3>1, <3>2, <3>3, <3>4, Zenon DEF Step, Proceed
  <2> QED
    BY <1>3, <2>1, <2>3
<1> QED
  BY <1>2, <1>4, <1>5
-------------------------------------------------------------------------------
(* What a version that is applied has made is there, but for the loose.     *)
LEMMA AppliedMade ==
  ASSUME RecordsTrue, ~mixed, NEW v \in applied
  PROVE  Makes(v) \ Loose \subseteq schema
BY DEF RecordsTrue

(* What a database may hold without a record of it.                         *)
LEMMA LooseByKind ==
  ASSUME TypeOK
  PROVE  /\ kind = "postgres" => Loose = {"stranger"}
         /\ kind # "scripted" => "organizations" \notin Loose
<1>1. kind = "postgres" => Loose = {"stranger"}
  BY DEF Loose, Given
<1>2. kind = "sqlite" => Loose = {"transactions", "stranger", "owner_id"}
  BY DEF Loose, Given
<1>3. kind \in {"postgres", "scripted", "sqlite"}
  BY MigratorAssumption DEF TypeOK
<1> QED
  BY <1>1, <1>2, <1>3

(* Once there is an owner column or the record of migration 3 the first id  *)
(* is taken; so a registration, which sets the column, is never given it.   *)
Taken ==
  ~mixed =>
    /\ 3 \in applied \/ "owner_id" \in schema => spent
    /\ "owner_id" \in schema => "organizations" \in schema
    /\ "stranger" \notin schema

(* Only a scripted database has an owner column at first, and its first id  *)
(* is taken.                                                                *)
LEMMA TakenInit == Init => Taken
BY DEF Init, Taken, Scripted, Triggers

(* Every step keeps the first id taken once an owner may be named.          *)
LEMMA TakenNext ==
  Calls /\ Records /\ First /\ Fresh /\ Stuck /\ Taken /\ [Next]_vars => Taken'
<1> SUFFICES ASSUME Calls, Records, First, Fresh, Stuck, Taken, [Next]_vars PROVE Taken'
  OBVIOUS
<1>0. TypeOK /\ Stages
  BY DEF Calls
<1>1. CASE UNCHANGED vars
  BY <1>1 DEF vars, history, database, Taken
<1> SUFFICES ASSUME NEW i \in Processes, Step(i), ~mixed'
             PROVE  /\ 3 \in applied' \/ "owner_id" \in schema' => spent'
                    /\ "owner_id" \in schema' => "organizations" \in schema'
                    /\ "stranger" \notin schema'
  BY <1>1 DEF Next, Step, Taken
<1>2. ~mixed
  BY <1>0, HistoryGrows
<1>3. /\ 3 \in applied \/ "owner_id" \in schema => spent
      /\ "owner_id" \in schema => "organizations" \in schema
      /\ "stranger" \notin schema
  BY <1>2 DEF Taken
<1>4. CASE \/ Start(i) \/ CallStatus(i) \/ CallDown(i) \/ EnsureTable(i)
           \/ UpReturns(i) \/ StatementFails(i) \/ Dies(i)
  BY <1>0, <1>3, <1>4, Outside DEF database
<1>5. CASE CreateTables(i)
  BY <1>0, <1>3, <1>5, CreatingTables
<1>6. CASE ReadApplied(i) \/ NextMigration(i) \/ RunDown(i)
  BY <1>0, <1>3, <1>6, Reading, Choosing, RollingBack DEF database
<1>7. CASE RunUp(i)
  BY <1>0, <1>3, <1>7, RunningUp
<1>8. CASE CommitUp(i)
  <2>1. /\ pc[i] = "commit" /\ at[i] \in Versions /\ schema' = schema \cup Makes(at[i])
        /\ applied' = applied \cup {at[i]}
        /\ (at[i] = 3 => spent') /\ (spent /\ at[i] # 1 => spent')
    <3>1. /\ pc[i] = "commit" /\ at[i] \in Versions /\ schema' = schema \cup Makes(at[i])
          /\ applied' = applied \cup {at[i]}
      BY <1>0, <1>8, CommittingUp
    <3>2. spent' = (at[i] # 1 /\ (spent \/ at[i] = 3))
      BY <1>8 DEF CommitUp
    <3>3. at[i] = 3 => at[i] # 1
      OBVIOUS
    <3>4. (at[i] = 3 => spent') /\ (spent /\ at[i] # 1 => spent')
      BY <3>2, <3>3, Zenon
    <3> QED
      BY <3>1, <3>4
  <2>2. \A v \in Versions : v < at[i] => v \in applied
    BY <1>2, <2>1 DEF Records, UpPrefix
  <2>3. "stranger" \notin Makes(at[i])
    BY <2>1, EachMigration DEF Versions, Tables, Triggers
  <2>4. CASE at[i] = 1
    <3>1. Tables \cap schema = {}
      BY <2>1, <2>4 DEF First
    <3>2. "owner_id" \notin schema /\ Makes(1) = Tables
      BY <1>3, <3>1, EachMigration DEF Tables, Versions
    <3>3. 3 \notin applied
      <4>1. 1 \notin applied
        BY <2>1, <2>4 DEF Fresh, InTransaction
      <4>2. PICK n \in 0..6 : applied = 1..n
        BY <1>2 DEF Records, AppliedPrefix
      <4> QED
        BY <4>1, <4>2
    <3> QED
      BY <1>3, <2>1, <2>3, <2>4, <3>2, <3>3 DEF Tables
  <2>5. CASE at[i] \in {2, 3, 5, 6}
    <3>1. "owner_id" \notin Makes(at[i])
      BY <2>1, <2>5, EachMigration DEF Versions, Tables, Triggers
    <3> QED
      BY <1>3, <2>1, <2>3, <2>5, <3>1
  <2>6. CASE at[i] = 4
    <3>1. 1 \in applied /\ 3 \in applied
      BY <2>2, <2>6 DEF Versions
    <3>2. kind # "scripted"
      BY <2>1 DEF Stuck
    <3>3. "organizations" \in Makes(1) \ Loose
      BY <1>0, <3>2, LooseByKind, EachMigration DEF Tables, Versions
    <3>4. "organizations" \in schema
      BY <1>2, <3>1, <3>3, AppliedMade DEF Records
    <3> QED
      BY <1>3, <2>1, <2>3, <2>6, <3>1, <3>4
  <2> QED
    BY <2>1, <2>4, <2>5, <2>6 DEF Versions
<1>9. CASE CommitDown(i)
  <2>1. /\ at[i] \in Versions /\ schema' = schema \ Migrations[at[i]].drops
        /\ applied' = applied \ {at[i]} /\ spent' = spent
    BY <1>0, <1>9, CommittingDown
  <2>2. "organizations" \in Migrations[at[i]].drops => "owner_id" \in Migrations[at[i]].drops
    BY <2>1, EachMigration DEF Versions, Tables, Dependents, Triggers
  <2> QED
    BY <1>3, <2>1, <2>2
<1>10. CASE Register(i)
  BY <1>3, <1>10, Registering
<1> QED
  BY <1>4, <1>5, <1>6, <1>7, <1>8, <1>9, <1>10, Zenon DEF Step, Proceed
-------------------------------------------------------------------------------
(* Without trouble no rollback has begun.                                   *)
Smooth == ~trouble => ~mixed /\ \A i \in Processes : op[i] # "down"

(* A rollback is trouble, so none begins without.                           *)
LEMMA SmoothNext == Calls /\ Smooth /\ [Next]_vars => Smooth'
<1> SUFFICES ASSUME Calls, Smooth, [Next]_vars PROVE Smooth'
  OBVIOUS
<1>0. TypeOK /\ Stages
  BY DEF Calls
<1>1. CASE UNCHANGED vars
  BY <1>1 DEF vars, history, process, Smooth
<1> SUFFICES ASSUME NEW i \in Processes, Step(i), ~trouble'
             PROVE  ~mixed' /\ \A j \in Processes : op'[j] # "down"
  BY <1>1 DEF Next, Step, Smooth
<1>2. ~mixed /\ \A j \in Processes : op[j] # "down"
  BY <1>0, HistoryGrows DEF Smooth
<1>3. ~mixed' /\ op'[i] # "down"
  <2>1. CASE Start(i) \/ CallStatus(i)
    BY <1>0, <1>2, <2>1 DEF Start, CallStatus, history, TypeOK
  <2>2. ~CallDown(i)
    BY DEF CallDown
  <2>3. CASE EnsureTable(i) \/ UpReturns(i) \/ StatementFails(i) \/ Dies(i)
    BY <1>0, <1>2, <2>3 DEF EnsureTable, UpReturns, StatementFails, Dies, Forget, history, TypeOK
  <2>4. CASE CreateTables(i) \/ ReadApplied(i) \/ NextMigration(i)
    BY <1>0, <1>2, <2>4, CreatingTables, Reading, Choosing DEF history
  <2>5. CASE RunUp(i) \/ RunDown(i) \/ CommitUp(i) \/ CommitDown(i)
    BY <1>0, <1>2, <2>5, RunningUp, RollingBack, CommittingUp, CommittingDown DEF history
  <2>6. CASE Register(i)
    BY <1>2, <2>6, Registering DEF process, history
  <2> QED
    BY <2>1, <2>2, <2>3, <2>4, <2>5, <2>6, Zenon DEF Step, Proceed
<1>4. \A j \in Processes \ {i} : op'[j] = op[j]
  BY <1>0, OthersStay
<1> QED
  BY <1>2, <1>3, <1>4
-------------------------------------------------------------------------------
(* No two migrations make the same object, and none makes a registration.   *)
LEMMA MakesApart ==
  ASSUME NEW v \in Versions
  PROVE  /\ "stranger" \notin Makes(v)
         /\ \A w \in Versions : w # v => Makes(w) \cap Makes(v) = {}
<1>1. /\ Makes(1) = Tables /\ Makes(2) \in {Triggers, Triggers \cup {"function"}}
      /\ Makes(3) = {"default", "admin"} /\ Makes(4) = {"owner_id"}
      /\ Makes(5) = {"api_keys"} /\ Makes(6) = {"transactions"}
  BY EachMigration DEF Versions
<1>2. v = 1 \/ v = 2 \/ v = 3 \/ v = 4 \/ v = 5 \/ v = 6
  BY DEF Versions
<1>3. ASSUME NEW w \in Versions, w # v PROVE Makes(w) \cap Makes(v) = {}
  <2>1. w = 1 \/ w = 2 \/ w = 3 \/ w = 4 \/ w = 5 \/ w = 6
    BY DEF Versions
  <2> QED
    BY <1>1, <1>2, <1>3, <2>1 DEF Tables, Triggers
<1> QED
  BY <1>1, <1>2, <1>3 DEF Tables, Triggers

(* What a migration for Postgres needs the first one has made.              *)
LEMMA PgNeeds ==
  ASSUME kind = "postgres", NEW v \in Versions
  PROVE  Migrations[v].needs \subseteq Owners /\ (v = 1 => Migrations[v].needs = {})
<1> USE DEF Migrations, getPostgreSQLMigrations, Migration
<1>1. Migrations[1].needs = {} /\ Migrations[6].needs = {}
  BY DEF PgInitialSchema, PgTransactions
<1>2. Migrations[2].needs = Owners /\ Migrations[3].needs = Owners
  BY DEF PgTriggers, PgDefaultData
<1>3. Migrations[4].needs = Owners /\ Migrations[5].needs = Owners
  BY DEF PgOwnerId, PgApiKeys
<1>4. v = 1 \/ v = 2 \/ v = 3 \/ v = 4 \/ v = 5 \/ v = 6
  BY DEF Versions
<1> HIDE DEF Migrations, getPostgreSQLMigrations, Migration
<1> QED
  BY <1>1, <1>2, <1>3, <1>4

(* On Postgres the first version that is missing can be run, but for the    *)
(* default data after the first id is taken.                                *)
LEMMA NextSucceeds ==
  ASSUME TypeOK, RecordsTrue, ~mixed, kind = "postgres", NEW v \in Versions, v \notin applied,
         \A w \in Versions : w \in applied <=> w < v,
         ~UpSucceeds(v)
  PROVE  v = 3 /\ spent
<1>1. Loose = {"stranger"}
  BY LooseByKind
<1>2. Migrations[v].needs \subseteq schema
  <2>1. CASE v = 1
    BY <2>1, PgNeeds
  <2>2. CASE v # 1
    <3>1. 1 \in applied /\ 1 \in Versions
      BY <2>2 DEF Versions
    <3>2. Owners \subseteq Makes(1) \ Loose
      BY <1>1, <3>1, EachMigration DEF Tables, Owners
    <3> QED
      BY <3>1, <3>2, AppliedMade, PgNeeds
  <2> QED
    BY <2>1, <2>2
<1>3. Migrations[v].creates \cap schema = {}
  <2>1. SUFFICES ASSUME NEW x \in Migrations[v].creates, x \in schema PROVE FALSE
    OBVIOUS
  <2>2. x \in Makes(v)
    BY <2>1 DEF Makes
  <2>3. x \notin Loose
    BY <1>1, <2>2, MakesApart
  <2>4. PICK w \in applied : x \in Makes(w)
    BY <2>1, <2>3 DEF RecordsTrue
  <2>5. w \in Versions /\ w # v
    BY DEF TypeOK
  <2> QED
    BY <2>2, <2>4, <2>5, MakesApart
<1>4. v = 3 /\ ~AdminFindsOrganization
  BY <1>2, <1>3 DEF UpSucceeds
<1> QED
  BY <1>4 DEF AdminFindsOrganization

(* A call of Up that has lost no race so far: nobody has applied what it is *)
(* still to bring.                                                          *)
Leads(i) ==
  /\ op[i] = "up"
  /\ \/ pc[i] \in {"open", "ensure", "read"}
     \/ pc[i] = "loop" /\ Pending(i) \cap applied = {}
     \/ pc[i] \in {"sql", "commit"} /\ at[i] \notin applied

(* Once a process has started, one is winning until all is done.            *)
Led ==
  kind = "postgres" /\ ~trouble /\ starts > 0 =>
    \/ \E i \in Processes : Leads(i)
    \/ applied = Versions
    \/ applied = 1..2 /\ spent

(* No process has started.                                                  *)
LEMMA LedInit == Init => Led
BY DEF Init, Led

(* When nobody is busy nobody wins, so all is done.                         *)
LEMMA LedThenMigrated == Led => StartsMigrate
<1>1. Quiet => ~\E i \in Processes : Leads(i)
  BY DEF Quiet, Busy, Leads
<1> QED
  BY <1>1 DEF Led, StartsMigrate

(* The version of a call that leads is the first that is missing.           *)
LEMMA LeaderIsNext ==
  ASSUME Calls, Records, ~mixed, NEW i \in Processes, pc[i] \in {"sql", "commit"},
         at[i] \notin applied
  PROVE  /\ at[i] \in Versions /\ applied = 1..(at[i] - 1)
         /\ \A w \in Versions : w \in applied <=> w < at[i]
<1>1. at[i] \in Versions /\ \A w \in Versions : w < at[i] => w \in applied
  BY DEF Calls, Stages, Records, UpPrefix
<1>2. PICK n \in 0..6 : applied = 1..n
  BY DEF Records, AppliedPrefix
<1>3. n = at[i] - 1
  <2>1. n < at[i]
    BY <1>1, <1>2 DEF Versions
  <2>2. n + 1 >= at[i]
    <3>1. CASE n = 6
      BY <1>1, <3>1 DEF Versions
    <3>2. CASE n < 6
      <4>1. n + 1 \in Versions /\ n + 1 \notin applied
        BY <1>2, <3>2 DEF Versions
      <4> QED
        BY <1>1, <4>1 DEF Versions
    <3> QED
      BY <1>2, <3>1, <3>2
  <2> QED
    BY <1>1, <2>1, <2>2 DEF Versions
<1> QED
  BY <1>1, <1>2, <1>3 DEF Versions

(* A process stops winning when another has applied what it was to bring,   *)
(* or is done; then that one, or nobody any more, has to win.               *)
LEMMA LedNext ==
  Calls /\ Records /\ Fresh /\ Smooth /\ Led /\ [Next]_vars => Led'
<1> SUFFICES ASSUME Calls, Records, Fresh, Smooth, Led, [Next]_vars PROVE Led'
  OBVIOUS
<1>0. TypeOK /\ Stages /\ RecordsTrue
  BY DEF Calls, Records
<1>1. CASE UNCHANGED vars
  BY <1>1 DEF vars, database, process, bounds, history, Led, Leads, Pending
<1> DEFINE Done == applied' = Versions \/ (applied' = 1..2 /\ spent')
           Won == \E j \in Processes : Leads(j)'
<1> SUFFICES ASSUME NEW i \in Processes, Step(i), kind = "postgres", ~trouble', starts' > 0
             PROVE  Won \/ Done
  BY <1>0, <1>1, DatabaseTypes, Zenon DEF Next, Step, Led, Versions
<1>2. ~trouble /\ ~mixed /\ \A j \in Processes : op[j] # "down"
  BY <1>0, HistoryGrows DEF Smooth
<1>3. \A j \in Processes \ {i} : pc'[j] = pc[j] /\ op'[j] = op[j] /\ list'[j] = list[j] /\ at'[j] = at[j]
  BY <1>0, OthersStay
<1>4. ASSUME NEW j \in Processes \ {i}, Leads(j), applied' = applied PROVE Won
  <2>1. Leads(j)'
    BY <1>3, <1>4 DEF Leads, Pending
  <2> QED
    BY <2>1
<1>5. ~Start(i) => (\E j \in Processes : Leads(j)) \/ applied = Versions \/ (applied = 1..2 /\ spent)
  <2>1. ~Start(i) => starts > 0
    BY <1>0, HistoryGrows
  <2> QED
    BY <1>2, <2>1 DEF Led
<1>6. ASSUME ~Start(i), applied' = applied, spent => spent',
             Leads(i) => Leads(i)' \/ Done
      PROVE  Won \/ Done
  BY <1>4, <1>5, <1>6
<1> HIDE DEF Done, Won
<1>7. CASE Start(i)
  <2>1. Leads(i)'
    BY <1>0, <1>7 DEF Start, Goto, TypeOK, Leads
  <2> QED
    BY <2>1 DEF Won
<1>8. CASE CallStatus(i) \/ EnsureTable(i)
  <2>1. UNCHANGED database /\ ~Start(i) /\ (Leads(i) => Leads(i)')
    BY <1>0, <1>8 DEF CallStatus, EnsureTable, Start, Goto, TypeOK, Leads
  <2> QED
    BY <1>6, <2>1 DEF database
<1>9. CASE CallDown(i) \/ StatementFails(i)
  BY <1>9 DEF CallDown, StatementFails
<1>10. CASE Dies(i)
  <2>1. UNCHANGED database /\ ~Busy(i) /\ pc[i] # "down"
    BY <1>10 DEF Dies
  <2>2. ~Leads(i) /\ ~Start(i)
    BY <2>1 DEF Leads, Busy, Start, Goto
  <2> QED
    BY <1>6, <2>1, <2>2 DEF database
<1>11. CASE CreateTables(i)
  <2>1. UNCHANGED <<applied, spent>> /\ ~Start(i) /\ Leads(i)'
    BY <1>0, <1>11, CreatingTables DEF Leads, Start, Goto
  <2> QED
    BY <1>6, <2>1
<1>12. CASE ReadApplied(i)
  <2>1. UNCHANGED database /\ ~Start(i) /\ pc[i] = "read"
    BY <1>0, <1>12, Reading DEF Start, Goto
  <2>2. ASSUME Leads(i) PROVE Leads(i)'
    <3>1. pc'[i] = "loop" /\ op'[i] = "up" /\ list'[i] = applied /\ at'[i] = 1
      BY <1>0, <1>12, <2>2, Reading DEF Leads
    <3>2. Pending(i)' \cap applied' = {}
      BY <2>1, <3>1 DEF Pending, database
    <3> QED
      BY <3>1, <3>2 DEF Leads
  <2> QED
    BY <1>6, <2>1, <2>2 DEF database
<1>13. CASE NextMigration(i)
  <2>1. /\ UNCHANGED database /\ ~Start(i) /\ pc[i] = "loop" /\ pc'[i] = "sql" /\ op'[i] = "up"
        /\ at'[i] \in Pending(i)
    BY <1>0, <1>13, Choosing DEF Start, Goto
  <2>2. ASSUME Leads(i) PROVE Leads(i)'
    BY <2>1, <2>2 DEF Leads, database
  <2> QED
    BY <1>6, <2>1, <2>2 DEF database
<1>14. CASE UpReturns(i)
  <2>1. applied = Versions /\ UNCHANGED database
    BY <1>2, <1>14, UpPassesAll DEF UpReturns
  <2> QED
    BY <2>1 DEF database, Done
<1>15. CASE RunUp(i)
  <2>1. /\ applied' = applied /\ (spent => spent') /\ pc[i] = "sql" /\ op'[i] = "up"
        /\ (UpSucceeds(at[i]) => pc'[i] = "commit" /\ at'[i] = at[i]) /\ ~Start(i)
    BY <1>0, <1>15, RunningUp DEF Start, Goto
  <2>2. ASSUME Leads(i) PROVE Leads(i)' \/ Done
    <3>1. at[i] \notin applied
      BY <2>1, <2>2 DEF Leads
    <3>2. CASE UpSucceeds(at[i])
      BY <2>1, <3>1, <3>2 DEF Leads
    <3>3. CASE ~UpSucceeds(at[i])
      <4>1. /\ at[i] \in Versions /\ applied = 1..(at[i] - 1)
            /\ \A w \in Versions : w \in applied <=> w < at[i]
        BY <1>2, <2>1, <3>1, LeaderIsNext
      <4>2. at[i] = 3 /\ spent
        BY <1>0, <1>2, <3>1, <3>3, <4>1, NextSucceeds
      <4>3. applied = 1..2
        BY <4>1, <4>2
      <4> QED
        BY <2>1, <4>2, <4>3 DEF Done
    <3> QED
      BY <3>2, <3>3
  <2> QED
    BY <1>6, <2>1, <2>2
<1>16. CASE RunDown(i) \/ CommitDown(i)
  BY <1>0, <1>2, <1>16, RollingBack, CommittingDown
<1>17. CASE CommitUp(i)
  <2>1. /\ pc[i] = "commit" /\ pc'[i] = "loop" /\ op'[i] = "up" /\ at'[i] = at[i] + 1
        /\ applied' = applied \cup {at[i]}
    BY <1>0, <1>17, CommittingUp
  <2>2. at[i] \notin applied
    BY <2>1 DEF Fresh, InTransaction
  <2>3. at[i] \in Versions /\ applied = 1..(at[i] - 1)
    BY <1>2, <2>1, <2>2, LeaderIsNext
  <2>4. Pending(i)' \cap applied' = {}
    BY <2>1, <2>3 DEF Pending, Versions
  <2>5. Leads(i)'
    BY <2>1, <2>4 DEF Leads
  <2> QED
    BY <2>5 DEF Won
<1>18. CASE Register(i)
  <2>1. ~spent /\ applied' = applied /\ UNCHANGED process /\ ~Start(i)
    BY <1>18, Registering DEF Register, Start, Goto
  <2>2. Leads(i) => Leads(i)'
    BY <2>1 DEF Leads, Pending, process
  <2> QED
    BY <1>6, <2>1, <2>2
<1> QED
  BY <1>7, <1>8, <1>9, <1>10, <1>11, <1>12, <1>13, <1>14, <1>15, <1>16, <1>17, <1>18, Zenon
  DEF Step, Proceed
-------------------------------------------------------------------------------
IInv ==
  /\ Calls /\ Records /\ First /\ Fresh
  /\ Stuck /\ LiteTable /\ NotClean /\ SuccessMeansMigrated
  /\ Taken /\ Smooth /\ Led

(* The whole invariant holds at all times.                                  *)
LEMMA IInvInductive == Spec => []IInv
<1>1. Init => IInv
  <2>1. Init => NotClean /\ SuccessMeansMigrated /\ Smooth
    BY DEF Init, NotClean, SuccessMeansMigrated, Smooth
  <2> QED
    BY <2>1, CallsInit, RecordsInit, FirstInit, FreshInit, StuckInit, LiteTableInit, TakenInit,
       LedInit DEF IInv
<1>2. IInv /\ [Next]_vars => IInv'
  BY CallsNext, RecordsNext, FirstNext, FreshNext, StuckNext, LiteTableNext, NotCleanNext,
     SuccessNext, TakenNext, SmoothNext, LedNext DEF IInv
<1> QED
  BY <1>1, <1>2, PTL DEF Spec

(* A first part of the migrations is applied, however starts overlap.       *)
THEOREM VersionsInOrder == Spec => []AppliedPrefix
<1>1. IInv => AppliedPrefix
  BY DEF IInv, Records
<1> QED
  BY <1>1, IInvInductive, PTL

(* The table of records and the schema agree, whatever died in between.     *)
THEOREM RecordsAreTrue == Spec => []RecordsTrue
<1>1. IInv => RecordsTrue
  BY DEF IInv, Records
<1> QED
  BY <1>1, IInvInductive, PTL

(* Migration 3 fails for ever once the first id is gone (schema.go 166-190). *)
THEOREM DefaultDataIsMadeOnce == Spec => DefaultDataOnce
<1>1. IInv /\ [Next]_vars => [Burnt => Burnt' \/ ~(Owners \subseteq schema')]_vars
  BY BurntStays DEF IInv
<1> QED
  BY <1>1, IInvInductive, PTL DEF Spec, DefaultDataOnce

(* When an Up has returned nil the whole schema is there, on Postgres; on   *)
(* the other databases none returns nil (migrations.go 45-79).              *)
THEOREM SuccessIsMigrated == Spec => []SuccessMeansMigrated
<1>1. IInv => SuccessMeansMigrated
  BY DEF IInv
<1> QED
  BY <1>1, IInvInductive, PTL

(* The starts of any number of processes on an empty Postgres database, in  *)
(* any order of their steps, leave the whole schema when they have all      *)
(* returned, or stop before migration 3 whose id is taken (migrations.go    *)
(* 45-79, schema.go 166-190).                                               *)
THEOREM StartsDoMigrate == Spec => []StartsMigrate
<1>1. IInv => StartsMigrate
  BY LedThenMigrated DEF IInv
<1> QED
  BY <1>1, IInvInductive, PTL

(* All that the runs check of the state of the migrations, for any number   *)
(* of processes, starts and rollbacks.                                      *)
THEOREM MigratorInvariant == Spec => []Inv
<1>1. IInv => Inv
  <2>1. IInv => StartsMigrate
    BY LedThenMigrated DEF IInv
  <2>2. IInv => AdminAtHome
    BY DEF IInv, Taken, AdminAtHome
  <2> QED
    BY <2>1, <2>2 DEF IInv, Inv, Calls, Records
<1> QED
  BY <1>1, IInvInductive, PTL
===============================================================================
