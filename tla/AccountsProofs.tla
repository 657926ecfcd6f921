---------------------------- MODULE AccountsProofs -----------------------------
(***************************************************************************)
(* Proofs about Accounts, for any requests, emails, names and restarts.    *)
(***************************************************************************)
EXTENDS Accounts, FiniteSetTheorems, TLAPS

(* Steps that change nothing but the stage of a request, and a sequence.    *)
Moves(c) ==
  \/ RefuseAtOnce(c) \/ EmailTaken(c) \/ EmailFree(c) \/ JoinOrganization(c)
  \/ OrganizationClash(c) \/ UserClash(c) \/ StatementFails(c) \/ AnswerCreated(c)
  \/ LoadOrganization(c) \/ RefuseToken(c) \/ GetMe(c) \/ Logout(c)

(* Login, tokens, and what a registration does before it inserts.           *)
Serves(c) ==
  Register(c) \/ ChooseSlug(c) \/ Login(c) \/ IssueToken(c) \/ Present(c) \/ ValidateToken(c)

Inserts(c) ==
  InsertOrganization(c) \/ InsertUser(c) \/ SetOwner(c) \/ Commit(c) \/ CommitFails(c)

(* A step of the system is a step of one request that changes no row,       *)
(* serves a login, writes a row, or is none of a request.                   *)
LEMMA Steps ==
  ASSUME [Next]_vars
  PROVE  \/ \E c \in Calls : Moves(c) \/ Serves(c) \/ Inserts(c)
         \/ DeleteUser \/ DeleteOrganization \/ Restart \/ UNCHANGED vars
<1>1. ASSUME NEW c \in Calls, Arrive(c) \/ Proceed(c) \/ Fail(c)
      PROVE  Moves(c) \/ Serves(c) \/ Inserts(c)
  BY <1>1, Zenon DEF Arrive, Proceed, Fail, Moves, Serves, Inserts
<1> QED
  BY <1>1, Zenon DEF Next

(* The ways of a request that only moves.                                   *)
Ways ==
  ({"idle"} \X {"refused", "done"}) \cup ({"check"} \X {"slug", "join"}) \cup
  {<<"join", "user">>, <<"created", "done">>, <<"load", "sign">>} \cup
  ({"load", "auth"} \X {"refused"}) \cup ({"in"} \X {"done", "failed"}) \cup
  ((Registering \ {"commit"}) \X {"refused"})

Move(c, from, to) ==
  /\ Goto(c, from, to) /\ <<from, to>> \in Ways
  /\ UNCHANGED <<orgs, users, tokens, secret, restarts, request, history>>
  /\ nextOrg' \in {nextOrg, nextOrg + 1} /\ nextUser' \in {nextUser, nextUser + 1}

(* A step that writes nothing takes one request from a stage to a stage.    *)
LEMMA MovesMove ==
  ASSUME NEW c \in Calls, Moves(c)
  PROVE  \E from, to \in Stages : Move(c, from, to)
<1> USE DEF Goto, Move, Ways, Stages, Registering, Ended, database
<1>1. CASE RefuseAtOnce(c) \/ Logout(c) \/ AnswerCreated(c)
  BY <1>1 DEF RefuseAtOnce, Logout, AnswerCreated
<1>2. CASE EmailTaken(c) \/ EmailFree(c) \/ JoinOrganization(c)
  BY <1>2 DEF EmailTaken, EmailFree, JoinOrganization
<1>3. CASE OrganizationClash(c) \/ UserClash(c)
  BY <1>3 DEF OrganizationClash, UserClash
<1>4. CASE StatementFails(c)
  BY <1>4 DEF StatementFails
<1>5. CASE LoadOrganization(c) \/ RefuseToken(c) \/ GetMe(c)
  BY <1>5 DEF LoadOrganization, RefuseToken, GetMe
<1> QED
  BY <1>1, <1>2, <1>3, <1>4, <1>5, Zenon DEF Moves
-------------------------------------------------------------------------------
(* Types                                                                   *)

TypeInv == TablesTypeOK /\ RequestsTypeOK /\ IsFiniteSet(orgs)

IInv == Inv /\ IsFiniteSet(orgs)

(* Such a step keeps the types.                                             *)
LEMMA MoveTypes ==
  ASSUME TypeInv, NEW c \in Calls, NEW from \in Stages, NEW to \in Stages, Move(c, from, to)
  PROVE  TypeInv'
BY DEF TypeInv, TablesTypeOK, RequestsTypeOK, Move, Goto, request, history

(* A login, and what a token is used for, keep the types.                   *)
LEMMA ServeTypes ==
  ASSUME IInv, NEW c \in Calls, Serves(c)
  PROVE  TypeInv'
<1> TypeInv
  BY DEF IInv, Inv, TypeInv
<1> USE DEF TypeInv, Goto, Stages, Registering, Ended, database, history
<1>0. pc' \in [Calls -> Stages]
  BY DEF Serves, Register, ChooseSlug, Login, IssueToken, Present, ValidateToken, RequestsTypeOK
<1>1. CASE Register(c)
  BY <1>0, <1>1 DEF Register, TablesTypeOK, RequestsTypeOK, Asked
<1>2. CASE ChooseSlug(c)
  <2>1. ask[c] # Nothing
    BY <1>2 DEF ChooseSlug, IInv, Inv, RowsByStage
  <2>2. ask[c].name \in Names
    BY <2>1 DEF RequestsTypeOK, Asked
  <2>3. BaseSlug[ask[c].name] \in Words /\ Cardinality(orgs) \in Nat
    BY <2>2, FS_CardinalityType DEF Words
  <2>4. slug' \in [Calls -> Words \X Nat]
    BY <1>2, <2>3 DEF ChooseSlug, RequestsTypeOK
  <2> QED
    BY <1>0, <1>2, <2>4 DEF ChooseSlug, TablesTypeOK, RequestsTypeOK
<1>3. CASE Login(c)
  BY <1>0, <1>3 DEF Login, TablesTypeOK, RequestsTypeOK
<1>4. CASE IssueToken(c)
  <2>1. who[c] \in UserRows
    BY <1>4 DEF IssueToken, IInv, Inv, TokensKnown, TablesTypeOK
  <2>2. [by |-> c, user |-> who[c].id, email |-> who[c].email, secret |-> secret] \in Tokens
    BY <2>1 DEF UserRows, Tokens, TablesTypeOK
  <2>3. tokens' \subseteq Tokens
    BY <1>4, <2>2 DEF IssueToken, TablesTypeOK
  <2> QED
    BY <1>0, <1>4, <2>3 DEF IssueToken, TablesTypeOK, RequestsTypeOK, request
<1>5. CASE Present(c)
  BY <1>0, <1>5 DEF Present, TablesTypeOK, RequestsTypeOK
<1>6. CASE ValidateToken(c)
  BY <1>0, <1>6 DEF ValidateToken, TablesTypeOK, RequestsTypeOK
<1> QED
  BY <1>1, <1>2, <1>3, <1>4, <1>5, <1>6, Zenon DEF Serves

(* Rows that are inserted are rows.                                         *)
LEMMA RowsAreRows ==
  ASSUME IInv, ConstantsAssumption, NEW c \in Calls
  PROVE  /\ InsertOrganization(c) => NewOrg(c) \in OrgRows
         /\ InsertUser(c) => newUser'[c] \in UserRows /\ OrgOf(c) \in Nat
         /\ SetOwner(c) => newOrg'[c] \in OrgRows /\ newOrg'[c] = [newOrg[c] EXCEPT !.owner = newUser[c].id]
<1> TypeInv /\ RowsByStage(c)
  BY DEF IInv, Inv, TypeInv
<1> USE DEF TypeInv, Goto, Registering, RowsByStage, RequestsTypeOK, TablesTypeOK
<1>1. ASSUME InsertOrganization(c)
      PROVE  NewOrg(c) \in OrgRows
  <2>1. ask[c].name \in Names /\ slug[c] \in Words \X Nat
    BY <1>1 DEF InsertOrganization, Asked
  <2> QED
    BY <2>1 DEF NewOrg, OrgRows, Null
<1>2. ASSUME InsertUser(c)
      PROVE  newUser'[c] \in UserRows /\ OrgOf(c) \in Nat
  <2>1. ask[c].email \in Emails /\ ask[c].org \in Nat
    BY <1>2 DEF InsertUser, Asked
  <2>2. OrgOf(c) \in Nat
    BY <2>1 DEF OrgOf, OrgRows
  <2>3. \A r \in {"owner", "user"} :
          [id |-> NextId(c), email |-> ask[c].email, org |-> OrgOf(c), role |-> r] \in UserRows
    BY <2>1, <2>2 DEF UserRows, NextId
  <2> QED
    BY <1>2, <2>2, <2>3 DEF InsertUser
<1>3. ASSUME SetOwner(c)
      PROVE  newOrg'[c] \in OrgRows /\ newOrg'[c] = [newOrg[c] EXCEPT !.owner = newUser[c].id]
  <2>1. newOrg[c] \in OrgRows /\ newUser[c] \in UserRows
    BY <1>3 DEF SetOwner
  <2>2. [newOrg[c] EXCEPT !.owner = newUser[c].id] \in OrgRows
    BY <2>1 DEF OrgRows, UserRows
  <2> QED
    BY <1>3, <2>2 DEF SetOwner
<1> QED
  BY <1>1, <1>2, <1>3

(* The statements of a registration keep the types.                         *)
LEMMA InsertTypes ==
  ASSUME IInv, ConstantsAssumption, NothingAssumption, NEW c \in Calls, Inserts(c)
  PROVE  TypeInv'
<1> TypeInv
  BY DEF IInv, Inv, TypeInv
<1> USE DEF TypeInv, Goto, Stages, Registering, Ended, database, history
<1>0. pc' \in [Calls -> Stages]
  BY DEF Inserts, InsertOrganization, InsertUser, SetOwner, Commit, CommitFails, RequestsTypeOK
<1>1. CASE InsertOrganization(c)
  <2>1. newOrg' \in [Calls -> OrgRows \cup {Nothing}]
    BY <1>1, RowsAreRows DEF InsertOrganization, RequestsTypeOK
  <2> QED
    BY <1>0, <1>1, <2>1 DEF InsertOrganization, TablesTypeOK, RequestsTypeOK
<1>2. CASE InsertUser(c)
  <2>1. newUser'[c] \in UserRows
    BY <1>2, RowsAreRows
  <2>2. newUser' \in [Calls -> UserRows \cup {Nothing}]
    BY <1>2, <2>1 DEF InsertUser, RequestsTypeOK
  <2> QED
    BY <1>0, <1>2, <2>2 DEF InsertUser, TablesTypeOK, RequestsTypeOK
<1>3. CASE SetOwner(c)
  <2>1. newOrg'[c] \in OrgRows
    BY <1>3, RowsAreRows
  <2>2. newOrg' \in [Calls -> OrgRows \cup {Nothing}]
    BY <1>3, <2>1 DEF SetOwner, RequestsTypeOK
  <2> QED
    BY <1>0, <1>3, <2>2 DEF SetOwner, TablesTypeOK, RequestsTypeOK
<1>4. CASE Commit(c)
  <2>1. newUser[c] \in UserRows
    BY <1>4 DEF Commit, IInv, Inv, RowsByStage, RequestsTypeOK
  <2>2. orgs' \subseteq OrgRows
    BY <1>4 DEF Commit, RequestsTypeOK, TablesTypeOK
  <2>3. IsFiniteSet({newOrg[c]} \ {Nothing})
    BY FS_Singleton, FS_Subset
  <2>4. IsFiniteSet(orgs')
    BY <1>4, <2>3, FS_Union DEF Commit
  <2> QED
    BY <1>0, <1>4, <2>1, <2>2, <2>4 DEF Commit, TablesTypeOK, RequestsTypeOK, request
<1>5. CASE CommitFails(c)
  BY <1>0, <1>5 DEF CommitFails, TablesTypeOK, RequestsTypeOK, request
<1> QED
  BY <1>1, <1>2, <1>3, <1>4, <1>5, Zenon DEF Inserts

(* Deletions by the admin tool and a restart keep the types.                *)
LEMMA OutsideTypes ==
  ASSUME IInv, ConstantsAssumption, NothingAssumption, DeleteUser \/ DeleteOrganization \/ Restart
  PROVE  TypeInv'
<1> TypeInv
  BY DEF IInv, Inv, TypeInv
<1> USE DEF TypeInv, database, history, request
<1>1. CASE DeleteUser
  <2>1. PICK u \in users :
          /\ users' = users \ {u}
          /\ orgs' = {[o EXCEPT !.owner = IF @ = u.id THEN Null ELSE @] : o \in orgs}
          /\ deleted' = deleted \cup {u}
    BY <1>1 DEF DeleteUser
  <2>2. \A o \in orgs : [o EXCEPT !.owner = IF @ = u.id THEN Null ELSE @] \in OrgRows
    BY DEF OrgRows, TablesTypeOK, Null
  <2>3. orgs' \subseteq OrgRows
    BY <2>1, <2>2
  <2>4. IsFiniteSet(orgs')
    <3> DEFINE f == [o \in orgs |-> [o EXCEPT !.owner = IF @ = u.id THEN Null ELSE @]]
    <3>1. f \in Surjection(orgs, orgs')
      BY <2>1 DEF Surjection
    <3> QED
      BY <3>1, FS_Surjection
  <2> QED
    BY <1>1, <2>1, <2>3, <2>4 DEF DeleteUser, TablesTypeOK, RequestsTypeOK
<1>2. CASE DeleteOrganization
  <2>1. IsFiniteSet(orgs')
    BY <1>2, FS_Subset DEF DeleteOrganization
  <2> QED
    BY <1>2, <2>1 DEF DeleteOrganization, TablesTypeOK, RequestsTypeOK
<1>3. CASE Restart
  BY <1>3, ConstantsAssumption DEF Restart, TablesTypeOK, RequestsTypeOK, Stages, Ended, Registering
<1> QED
  BY <1>1, <1>2, <1>3
-------------------------------------------------------------------------------
(* Rows of transactions                                                    *)

RowsInv == \A c \in Calls : RowsByStage(c) /\ RowsFromRequest(c)

(* A request that a step does not touch keeps what it has.                  *)
Untouched(d) ==
  /\ pc'[d] = pc[d] /\ ask'[d] = ask[d] /\ slug'[d] = slug[d]
  /\ newOrg'[d] = newOrg[d] /\ newUser'[d] = newUser[d]

(* A request whose own rows are untouched keeps what its stage says of      *)
(* them, whichever ids are given meanwhile.                                 *)
LEMMA RowsUntouched ==
  ASSUME TypeInv, NEW d \in Calls, RowsByStage(d), RowsFromRequest(d), Untouched(d),
         nextOrg' \in {nextOrg, nextOrg + 1}, nextUser' \in {nextUser, nextUser + 1}
  PROVE  RowsByStage(d)' /\ RowsFromRequest(d)'
<1>1. RowsByStage(d)'
  BY DEF RowsByStage, Untouched
<1>2. newOrg[d] # Nothing => newOrg[d].id \in Nat
  BY DEF TypeInv, RequestsTypeOK, OrgRows
<1>3. newUser[d] # Nothing => newUser[d].id \in Nat
  BY DEF TypeInv, RequestsTypeOK, UserRows
<1>4. RowsFromRequest(d)'
  BY <1>2, <1>3 DEF RowsFromRequest, Untouched, TypeInv, TablesTypeOK
<1> QED
  BY <1>1, <1>4

(* A step of one request touches no row of another's transaction.           *)
LEMMA OthersUntouched ==
  ASSUME TypeInv, NEW c \in Calls, NEW d \in Calls, c # d, Moves(c) \/ Serves(c) \/ Inserts(c)
  PROVE  /\ Untouched(d) /\ who'[d] = who[d] /\ held'[d] = held[d]
         /\ nextOrg' \in {nextOrg, nextOrg + 1} /\ nextUser' \in {nextUser, nextUser + 1}
<1> USE DEF TypeInv, RequestsTypeOK, Untouched, Goto, request, database
<1>1. CASE Moves(c)
  BY <1>1, MovesMove DEF Move
<1>2. CASE Register(c) \/ ChooseSlug(c)
  BY <1>2 DEF Register, ChooseSlug
<1>3. CASE Login(c) \/ IssueToken(c)
  BY <1>3 DEF Login, IssueToken
<1>4. CASE Present(c) \/ ValidateToken(c)
  BY <1>4 DEF Present, ValidateToken
<1>5. CASE InsertOrganization(c) \/ InsertUser(c)
  BY <1>5 DEF InsertOrganization, InsertUser
<1>6. CASE SetOwner(c) \/ Commit(c) \/ CommitFails(c)
  BY <1>6 DEF SetOwner, Commit, CommitFails
<1> QED
  BY <1>1, <1>2, <1>3, <1>4, <1>5, <1>6, Zenon DEF Serves, Inserts

(* Each stage of a registration has the rows its statements made.           *)
LEMMA RowsStep ==
  ASSUME IInv, ConstantsAssumption, NothingAssumption, [Next]_vars
  PROVE  RowsInv'
<1> TypeInv /\ RowsInv
  BY DEF IInv, Inv, TypeInv, RowsInv
<1> USE DEF Goto, database, request, history
<1>1. ASSUME NEW c \in Calls, Moves(c) \/ Serves(c) \/ Inserts(c)
      PROVE  RowsByStage(c)' /\ RowsFromRequest(c)'
  <2> RowsByStage(c) /\ RowsFromRequest(c)
    BY DEF RowsInv
  <2> nextOrg \in Nat /\ nextUser \in Nat
    BY DEF TypeInv, TablesTypeOK
  <2>0. /\ newOrg[c] # Nothing => newOrg[c].id \in Nat
        /\ newUser[c] # Nothing => newUser[c].id \in Nat
    BY DEF TypeInv, RequestsTypeOK, OrgRows, UserRows
  <2> USE DEF RowsByStage, RowsFromRequest, Registering, RequestsTypeOK, TypeInv
  <2>1. CASE Moves(c)
    <3>1. PICK from \in Stages, to \in Stages : Move(c, from, to)
      BY <2>1, MovesMove
    <3>2. RowsByStage(c)'
      BY <3>1 DEF Move, Ways
    <3>3. RowsFromRequest(c)'
      BY <2>0, <3>1 DEF Move
    <3> QED
      BY <3>2, <3>3
  <2>2. CASE Register(c)
    <3>0. ask'[c] \in Asked /\ pc'[c] = "check"
      BY <2>2 DEF Register, Asked, TablesTypeOK
    <3>1. RowsByStage(c)'
      BY <2>2, <3>0, NothingAssumption DEF Register
    <3>2. newOrg'[c] = Nothing /\ newUser'[c] = Nothing
      BY <2>2 DEF Register
    <3> QED
      BY <3>1, <3>2
  <2>3. CASE ChooseSlug(c)
    BY <2>3, <2>0 DEF ChooseSlug
  <2>4. CASE Login(c) \/ IssueToken(c) \/ Present(c) \/ ValidateToken(c)
    BY <2>4, <2>0 DEF Login, IssueToken, Present, ValidateToken
  <2>5. CASE InsertOrganization(c)
    BY <2>5, <2>0 DEF InsertOrganization, NewOrg
  <2>6. CASE InsertUser(c)
    <3>1. newUser'[c] \in UserRows
      BY <2>6, RowsAreRows
    <3>3. RowsByStage(c)'
      BY <2>6, <3>1, NothingAssumption DEF InsertUser
    <3>2. RowsFromRequest(c)'
      BY <2>6, <2>0 DEF InsertUser, NextId, OrgOf
    <3> QED
      BY <3>2, <3>3
  <2>7. CASE SetOwner(c)
    <3>0. /\ newOrg[c] \in OrgRows /\ newOrg'[c] \in OrgRows
          /\ newOrg'[c] = [newOrg[c] EXCEPT !.owner = newUser[c].id]
      BY <2>7, RowsAreRows DEF SetOwner
    <3>1. RowsByStage(c)'
      BY <2>7, <3>0 DEF SetOwner, OrgRows
    <3>2. RowsFromRequest(c)'
      BY <2>7, <2>0, <3>0 DEF SetOwner, OrgRows
    <3> QED
      BY <3>1, <3>2
  <2>8. CASE Commit(c) \/ CommitFails(c)
    BY <2>8, <2>0 DEF Commit, CommitFails
  <2> QED
    BY <1>1, <2>1, <2>2, <2>3, <2>4, <2>5, <2>6, <2>7, <2>8, Zenon DEF Serves, Inserts
<1>2. ASSUME NEW c \in Calls, Moves(c) \/ Serves(c) \/ Inserts(c)
      PROVE  RowsInv'
  BY <1>1, <1>2, OthersUntouched, RowsUntouched DEF RowsInv
<1>3. CASE DeleteUser \/ DeleteOrganization
  BY <1>3 DEF DeleteUser, DeleteOrganization, RowsInv, RowsByStage, RowsFromRequest
<1>4. CASE Restart
  BY <1>4 DEF Restart, RowsInv, RowsByStage, RowsFromRequest, Ended, Registering, TypeInv, RequestsTypeOK
<1>5. CASE UNCHANGED vars
  BY <1>5 DEF vars, RowsInv, RowsByStage, RowsFromRequest
<1> QED
  BY <1>2, <1>3, <1>4, <1>5, Steps, Zenon
-------------------------------------------------------------------------------
(* Tables                                                                  *)

TablesInv ==
  /\ IdsOnce /\ TablesConsistent /\ PendingApart /\ PendingDistinct
  /\ NoOrphanOrganization /\ AnswerTellsTheTruth

(* No row is written; a transaction opens empty, and an answer is given to  *)
(* a request without rows, or after a COMMIT that failed.                   *)
Quiet ==
  /\ UNCHANGED <<orgs, users, deleted, newOrg, newUser>> /\ unsaved \subseteq unsaved'
  /\ nextOrg' \in {nextOrg, nextOrg + 1} /\ nextUser' \in {nextUser, nextUser + 1}
  /\ \A d \in Calls :
       /\ Open(d)' => Open(d) \/ (newOrg[d] = Nothing /\ newUser[d] = Nothing)
       /\ pc'[d] = "refused" =>
            pc[d] = "refused" \/ Open(d) \/ (newOrg[d] = Nothing /\ newUser[d] = Nothing)
       /\ pc'[d] \in {"created", "done"} /\ newUser[d] # Nothing =>
            pc[d] \in {"created", "done"} \/ d \in unsaved'

(* A step that leaves the tables, the sequences and the stages with open    *)
(* rows alone keeps what is known of the tables.                            *)
LEMMA QuietKeeps ==
  ASSUME TypeInv, TablesInv, Quiet
  PROVE  TablesInv'
<1> USE DEF Quiet
<1>1. IdsOnce'
  <2>1. /\ \A o \in orgs : o.id \in Nat /\ nextOrg \in Nat
        /\ \A u \in users \cup deleted : u.id \in Nat /\ nextUser \in Nat
    BY DEF TypeInv, TablesTypeOK, OrgRows, UserRows
  <2> QED
    BY <2>1 DEF TablesInv, IdsOnce
<1>2. TablesConsistent' /\ NoOrphanOrganization'
  BY DEF TablesInv, TablesConsistent, NoOrphanOrganization, OwnerOf
<1>3. PendingApart'
  BY DEF TablesInv, PendingApart, Taken
<1>4. PendingDistinct'
  BY DEF TablesInv, PendingDistinct
<1>5. AnswerTellsTheTruth'
  BY DEF TablesInv, AnswerTellsTheTruth, PendingApart
<1> QED
  BY <1>1, <1>2, <1>3, <1>4, <1>5 DEF TablesInv

(* Steps without a statement that writes are of that sort.                  *)
LEMMA MovesAreQuiet ==
  ASSUME TypeInv, RowsInv, NEW c \in Calls, Moves(c)
  PROVE  Quiet
<1>1. PICK from \in Stages, to \in Stages : Move(c, from, to)
  BY MovesMove
<1>2. /\ Open(c)' => Open(c) \/ (newOrg[c] = Nothing /\ newUser[c] = Nothing)
      /\ to = "refused" => Open(c) \/ (newOrg[c] = Nothing /\ newUser[c] = Nothing)
      /\ to \in {"created", "done"} => from = "created" \/ newUser[c] = Nothing
      /\ pc[c] = from /\ pc'[c] = to
  BY <1>1 DEF Move, Goto, Ways, Open, Registering, RowsInv, RowsByStage, TypeInv, RequestsTypeOK
<1>3. \A d \in Calls \ {c} : pc'[d] = pc[d]
  BY <1>1 DEF Move, Goto, TypeInv, RequestsTypeOK
<1> QED
  BY <1>1, <1>2, <1>3 DEF Quiet, Move, request, history, Open

(* Logins and uses of tokens are of that sort.                              *)
LEMMA ServesAreQuiet ==
  ASSUME TypeInv, RowsInv, NEW c \in Calls, Serves(c)
  PROVE  Quiet
<1>1. /\ UNCHANGED <<orgs, users, deleted, newOrg, newUser, unsaved, nextOrg, nextUser>>
      /\ newOrg[c] = Nothing /\ newUser[c] = Nothing
  BY DEF Serves, Register, ChooseSlug, Login, IssueToken, Present, ValidateToken, database,
         request, history, Goto, RowsInv, RowsByStage
<1>2. \A d \in Calls \ {c} : pc'[d] = pc[d]
  BY DEF Serves, Register, ChooseSlug, Login, IssueToken, Present, ValidateToken, Goto,
         TypeInv, RequestsTypeOK
<1> QED
  BY <1>1, <1>2 DEF Quiet, Open

(* An organization is inserted with a slug nobody has and under a new id.   *)
LEMMA InsertOrganizationKeeps ==
  ASSUME IInv, ConstantsAssumption, NothingAssumption, NEW c \in Calls, InsertOrganization(c)
  PROVE  TablesInv'
<1> TypeInv /\ RowsInv /\ TablesInv
  BY DEF IInv, Inv, TypeInv, RowsInv, TablesInv
<1>1. /\ pc[c] = "org" /\ pc'[c] = "user" /\ ~OrgPending(c) /\ ~OrgExists(c)
      /\ newOrg'[c] = NewOrg(c) /\ NewOrg(c) \in OrgRows /\ NewOrg(c).id = nextOrg
      /\ NewOrg(c).name = ask[c].name /\ NewOrg(c).slug = slug[c]
      /\ nextOrg' = nextOrg + 1
      /\ UNCHANGED <<orgs, users, deleted, newUser, unsaved, nextUser, ask, slug>>
  BY RowsAreRows DEF InsertOrganization, Goto, NewOrg, TypeInv, RequestsTypeOK, history
<1>2. \A d \in Calls \ {c} : pc'[d] = pc[d] /\ newOrg'[d] = newOrg[d]
  BY DEF InsertOrganization, Goto, TypeInv, RequestsTypeOK
<1>3. newUser[c] = Nothing
  BY <1>1 DEF RowsInv, RowsByStage
<1>4. IdsOnce'
  <2>1. \A o \in orgs : o.id \in Nat /\ nextOrg \in Nat
    BY DEF TypeInv, TablesTypeOK, OrgRows
  <2> QED
    BY <1>1, <2>1 DEF TablesInv, IdsOnce
<1>5. TablesConsistent' /\ NoOrphanOrganization'
  BY <1>1 DEF TablesInv, TablesConsistent, NoOrphanOrganization, OwnerOf
<1>6. PendingApart'
  <2>1. \A o \in orgs : o.id # nextOrg /\ o.name # ask[c].name /\ o.slug # slug[c]
    BY <1>1 DEF TablesInv, IdsOnce, TypeInv, TablesTypeOK, OrgRows, OrgExists
  <2> QED
    BY <1>1, <1>2, <1>3, <2>1 DEF TablesInv, PendingApart, Taken, Open
<1>7. PendingDistinct'
  <2>1. ASSUME NEW d \in Calls \ {c}, newOrg[d] # Nothing
        PROVE  /\ newOrg[d].id # nextOrg
               /\ Open(d) => newOrg[d].name # ask[c].name /\ newOrg[d].slug # slug[c]
    BY <1>1, <2>1 DEF OrgPending, RowsInv, RowsFromRequest, TypeInv, TablesTypeOK, RequestsTypeOK, OrgRows
  <2> QED
    BY <1>1, <1>2, <1>3, <2>1 DEF TablesInv, PendingDistinct, Open
<1>8. AnswerTellsTheTruth'
  BY <1>1, <1>2 DEF TablesInv, AnswerTellsTheTruth
<1> QED
  BY <1>4, <1>5, <1>6, <1>7, <1>8 DEF TablesInv

(* A user is inserted with an e-mail nobody has and under a new id.         *)
LEMMA InsertUserKeeps ==
  ASSUME IInv, ConstantsAssumption, NothingAssumption, NEW c \in Calls, InsertUser(c)
  PROVE  TablesInv'
<1> TypeInv /\ RowsInv /\ TablesInv
  BY DEF IInv, Inv, TypeInv, RowsInv, TablesInv
<1>1. /\ pc[c] = "user" /\ pc'[c] \in {"owner", "commit"}
      /\ ~EmailPending(c) /\ ~Taken(ask[c].email) /\ HasOrg(c)
      /\ newUser'[c] \in UserRows /\ newUser'[c].id = nextUser
      /\ newUser'[c].email = ask[c].email /\ newUser'[c].org = OrgOf(c)
      /\ nextUser' = nextUser + 1
      /\ UNCHANGED <<orgs, users, deleted, newOrg, unsaved, nextOrg, ask, slug>>
  BY RowsAreRows DEF InsertUser, Goto, NextId, TypeInv, RequestsTypeOK, history
<1>2. \A d \in Calls \ {c} : pc'[d] = pc[d] /\ newUser'[d] = newUser[d]
  BY DEF InsertUser, Goto, TypeInv, RequestsTypeOK
<1>4. IdsOnce'
  <2>1. \A u \in users \cup deleted : u.id \in Nat /\ nextUser \in Nat
    BY DEF TypeInv, TablesTypeOK, UserRows
  <2> QED
    BY <1>1, <2>1 DEF TablesInv, IdsOnce
<1>5. TablesConsistent' /\ NoOrphanOrganization'
  BY <1>1 DEF TablesInv, TablesConsistent, NoOrphanOrganization, OwnerOf
<1>6. PendingApart'
  <2>1. \A u \in users \cup deleted : u.id # nextUser
    BY <1>1 DEF TablesInv, IdsOnce, TypeInv, TablesTypeOK, UserRows
  <2>2. newOrg[c] = Nothing => \E o \in orgs : o.id = newUser'[c].org
    BY <1>1 DEF HasOrg, OrgOf
  <2> QED
    BY <1>1, <1>2, <2>1, <2>2 DEF TablesInv, PendingApart, Taken, Open
<1>7. PendingDistinct'
  <2>1. ASSUME NEW d \in Calls \ {c}, newUser[d] # Nothing
        PROVE  newUser[d].id # nextUser /\ (Open(d) => newUser[d].email # ask[c].email)
    BY <1>1, <2>1 DEF EmailPending, RowsInv, RowsFromRequest, TypeInv, TablesTypeOK, RequestsTypeOK, UserRows
  <2> QED
    BY <1>1, <1>2, <2>1 DEF TablesInv, PendingDistinct, Open
<1>8. AnswerTellsTheTruth'
  BY <1>1, <1>2 DEF TablesInv, AnswerTellsTheTruth
<1> QED
  BY <1>4, <1>5, <1>6, <1>7, <1>8 DEF TablesInv

(* The UPDATE of the owner joins the two rows of one transaction.           *)
LEMMA SetOwnerKeeps ==
  ASSUME IInv, ConstantsAssumption, NothingAssumption, NEW c \in Calls, SetOwner(c)
  PROVE  TablesInv'
<1> TypeInv /\ RowsInv /\ TablesInv
  BY DEF IInv, Inv, TypeInv, RowsInv, TablesInv
<1>1. /\ pc[c] = "owner" /\ pc'[c] = "commit" /\ newOrg[c] \in OrgRows
      /\ newOrg[c] # Nothing /\ newUser[c] # Nothing
      /\ UNCHANGED <<orgs, users, deleted, newUser, unsaved, nextOrg, nextUser, ask, slug>>
  BY NothingAssumption DEF SetOwner, Goto, RowsInv, RowsByStage, TypeInv, RequestsTypeOK, history, database
<1>2. \A d \in Calls \ {c} : pc'[d] = pc[d] /\ newOrg'[d] = newOrg[d]
  BY DEF SetOwner, Goto, TypeInv, RequestsTypeOK
<1>3. /\ newOrg'[c].id = newOrg[c].id /\ newOrg'[c].name = newOrg[c].name
      /\ newOrg'[c].slug = newOrg[c].slug /\ newOrg'[c] # Nothing
  <2>1. newOrg'[c] \in OrgRows /\ newOrg'[c] = [newOrg[c] EXCEPT !.owner = newUser[c].id]
    BY RowsAreRows
  <2>2. newOrg'[c] # Nothing
    BY <2>1, NothingAssumption
  <2> QED
    BY <1>1, <2>1, <2>2 DEF OrgRows
<1>4. IdsOnce' /\ TablesConsistent' /\ NoOrphanOrganization'
  BY <1>1 DEF TablesInv, IdsOnce, TablesConsistent, NoOrphanOrganization, OwnerOf
<1>5. PendingApart'
  BY <1>1, <1>2, <1>3 DEF TablesInv, PendingApart, Taken, Open
<1>6. PendingDistinct'
  BY <1>1, <1>2, <1>3 DEF TablesInv, PendingDistinct, Open
<1>7. AnswerTellsTheTruth'
  BY <1>1, <1>2 DEF TablesInv, AnswerTellsTheTruth
<1> QED
  BY <1>4, <1>5, <1>6, <1>7 DEF TablesInv

(* A COMMIT shows an organization together with its founder.                *)
LEMMA CommitKeeps ==
  ASSUME IInv, ConstantsAssumption, NothingAssumption, NEW c \in Calls, Commit(c)
  PROVE  TablesInv'
<1> TypeInv /\ RowsInv /\ TablesInv
  BY DEF IInv, Inv, TypeInv, RowsInv, TablesInv
<1> DEFINE u == newUser[c]
           o == newOrg[c]
<1>1. /\ pc[c] = "commit" /\ pc'[c] = "created" /\ Open(c) /\ ~Open(c)'
      /\ u # Nothing /\ users' = users \cup {u} /\ u \in UserRows
      /\ UNCHANGED <<deleted, newOrg, newUser, unsaved, nextOrg, nextUser>>
  BY DEF Commit, Goto, RowsInv, RowsByStage, TypeInv, RequestsTypeOK, history, request, Open
<1>2. \A d \in Calls \ {c} : pc'[d] = pc[d]
  BY DEF Commit, Goto, TypeInv, RequestsTypeOK
<1>3. \/ o = Nothing /\ orgs' = orgs
      \/ o # Nothing /\ orgs' = orgs \cup {o} /\ o \in OrgRows
  BY DEF Commit, TypeInv, RequestsTypeOK
<1>4. /\ u.id < nextUser
      /\ o # Nothing => o.id < nextOrg /\ u.org = o.id /\ u.role = "owner" /\ o.owner = u.id
      /\ o = Nothing => u.role = "user"
  BY <1>1 DEF RowsInv, RowsByStage, RowsFromRequest
<1>5. /\ ~Taken(u.email) /\ \A v \in users \cup deleted : v.id # u.id
      /\ o = Nothing => \E p \in orgs : p.id = u.org
      /\ o # Nothing => \A p \in orgs : p.name # o.name /\ p.slug # o.slug /\ p.id # o.id
  BY <1>1 DEF TablesInv, PendingApart
<1>6. IdsOnce'
  <2>1. /\ \A p \in orgs' : p.id < nextOrg'
        /\ \A p, q \in orgs' : p.id = q.id => p = q
    BY <1>1, <1>3, <1>4, <1>5 DEF TablesInv, IdsOnce
  <2>2. /\ \A v \in users' \cup deleted' : v.id < nextUser'
        /\ \A v, w \in users' \cup deleted' : v.id = w.id => v = w
        /\ \A v \in users', w \in deleted' : v.id # w.id
    BY <1>1, <1>4, <1>5 DEF TablesInv, IdsOnce
  <2> QED
    BY <2>1, <2>2 DEF IdsOnce
<1>7. TablesConsistent'
  <2>1. \A v, w \in users' : v.email = w.email => v = w
    BY <1>1, <1>5 DEF TablesInv, TablesConsistent, Taken
  <2>2. \A p, q \in orgs' : p.name = q.name \/ p.slug = q.slug => p = q
    BY <1>3, <1>5 DEF TablesInv, TablesConsistent
  <2>3. \A v \in users' : \E p \in orgs' : p.id = v.org
    BY <1>1, <1>3, <1>4, <1>5 DEF TablesInv, TablesConsistent
  <2>4. \A v \in users' : v.role = "owner" => \E p \in orgs' : p.id = v.org /\ p.owner = v.id
    BY <1>1, <1>3, <1>4, <1>5 DEF TablesInv, TablesConsistent
  <2> QED
    BY <2>1, <2>2, <2>3, <2>4 DEF TablesConsistent
<1>8. PendingApart'
  <2>1. ASSUME NEW d \in Calls, Open(d)', newUser'[d] # Nothing
        PROVE  /\ ~Taken(newUser[d].email)'
               /\ \A v \in users' \cup deleted' : v.id # newUser'[d].id
               /\ newOrg'[d] = Nothing => \E p \in orgs' : p.id = newUser'[d].org
    <3>1. d # c /\ Open(d) /\ newUser[d] # Nothing
      BY <1>1, <1>2, <2>1 DEF Open
    <3>2. newUser[d].id # u.id /\ newUser[d].email # u.email
      BY <1>1, <3>1 DEF TablesInv, PendingDistinct
    <3> QED
      BY <1>1, <1>3, <3>1, <3>2 DEF TablesInv, PendingApart, Taken
  <2>2. ASSUME NEW d \in Calls, Open(d)', newOrg'[d] # Nothing
        PROVE  \A p \in orgs' : /\ p.name # newOrg'[d].name /\ p.slug # newOrg'[d].slug
                                /\ p.id # newOrg'[d].id
    <3>1. d # c /\ Open(d) /\ newOrg[d] # Nothing
      BY <1>1, <1>2, <2>2 DEF Open
    <3>2. o # Nothing => newOrg[d].id # o.id /\ newOrg[d].name # o.name /\ newOrg[d].slug # o.slug
      BY <1>1, <3>1 DEF TablesInv, PendingDistinct
    <3> QED
      BY <1>1, <1>3, <3>1, <3>2 DEF TablesInv, PendingApart
  <2> QED
    BY <1>1, <2>1, <2>2 DEF PendingApart, Taken
<1>9. PendingDistinct'
  BY <1>1, <1>2 DEF TablesInv, PendingDistinct, Open
<1>10. NoOrphanOrganization'
  <2>1. \A p \in orgs : \/ p.owner # Null /\ \E v \in OwnerOf(p) : v.id = p.owner
                        \/ p.owner = Null /\ \E v \in deleted : v.org = p.id /\ v.role = "owner"
    BY DEF TablesInv, NoOrphanOrganization
  <2>2. o # Nothing => o.owner # Null
    BY <1>1, <1>4 DEF UserRows, Null
  <2> QED
    BY <1>1, <1>3, <1>4, <2>1, <2>2 DEF NoOrphanOrganization, OwnerOf
<1>11. AnswerTellsTheTruth'
  <2>1. ASSUME NEW d \in Calls, pc'[d] = "refused"
        PROVE  /\ newOrg[d] # Nothing => \A p \in orgs' : p.id # newOrg[d].id
               /\ newUser[d] # Nothing => \A v \in users' \cup deleted : v.id # newUser[d].id
    <3>1. d # c /\ pc[d] = "refused"
      BY <1>1, <1>2, <2>1
    <3> QED
      BY <1>1, <1>3, <3>1 DEF TablesInv, PendingDistinct, AnswerTellsTheTruth
  <2>2. ASSUME NEW d \in Calls, pc'[d] \in {"created", "done"}, newUser[d] # Nothing
        PROVE  newUser[d] \in users' \cup deleted \/ d \in unsaved
    BY <1>1, <1>2, <2>2 DEF TablesInv, AnswerTellsTheTruth
  <2> QED
    BY <1>1, <2>1, <2>2 DEF AnswerTellsTheTruth
<1> QED
  BY <1>6, <1>7, <1>8, <1>9, <1>10, <1>11 DEF TablesInv

(* The deletion of a user leaves no organization that names it.             *)
LEMMA DeleteUserKeeps ==
  ASSUME IInv, DeleteUser
  PROVE  TablesInv'
<1> TypeInv /\ RowsInv /\ TablesInv
  BY DEF IInv, Inv, TypeInv, RowsInv, TablesInv
<1>1. PICK u \in users :
        /\ users' = users \ {u}
        /\ orgs' = {[o EXCEPT !.owner = IF @ = u.id THEN Null ELSE @] : o \in orgs}
        /\ deleted' = deleted \cup {u}
  BY DEF DeleteUser
<1>2. UNCHANGED <<newOrg, newUser, unsaved, nextOrg, nextUser, pc>>
  BY DEF DeleteUser, request
<1>3. ASSUME NEW p \in orgs'
      PROVE  \E o \in orgs : /\ p.id = o.id /\ p.name = o.name /\ p.slug = o.slug
                             /\ p.owner = IF o.owner = u.id THEN Null ELSE o.owner
                             /\ p = [o EXCEPT !.owner = IF @ = u.id THEN Null ELSE @]
  BY <1>1 DEF TypeInv, TablesTypeOK, OrgRows
<1>4. ASSUME NEW o \in orgs
      PROVE  \E p \in orgs' : /\ p.id = o.id
                              /\ p.owner = IF o.owner = u.id THEN Null ELSE o.owner
  <2>1. [o EXCEPT !.owner = IF @ = u.id THEN Null ELSE @] \in orgs'
    BY <1>1
  <2> QED
    BY <2>1 DEF TypeInv, TablesTypeOK, OrgRows
<1>5. \A o, p \in orgs : o.id = p.id \/ o.name = p.name \/ o.slug = p.slug => o = p
  BY DEF TablesInv, IdsOnce, TablesConsistent
<1>6. IdsOnce'
  <2>1. \A p \in orgs' : p.id < nextOrg'
    BY <1>2, <1>3 DEF TablesInv, IdsOnce
  <2>2. \A p, q \in orgs' : p.id = q.id \/ p.name = q.name \/ p.slug = q.slug => p = q
    BY <1>3, <1>5
  <2>3. users' \cup deleted' = users \cup deleted
    BY <1>1
  <2>4. \A v \in users', w \in deleted' : v.id # w.id
    BY <1>1 DEF TablesInv, IdsOnce
  <2> QED
    BY <1>2, <2>1, <2>2, <2>3, <2>4 DEF TablesInv, IdsOnce
<1>7. TablesConsistent'
  <2>1. \A v, w \in users' : v.email = w.email => v = w
    BY <1>1 DEF TablesInv, TablesConsistent
  <2>2. \A p, q \in orgs' : p.name = q.name \/ p.slug = q.slug => p = q
    BY <1>3, <1>5
  <2>3. ASSUME NEW v \in users'
        PROVE  \E p \in orgs' : p.id = v.org
    <3>1. PICK o \in orgs : o.id = v.org
      BY <1>1 DEF TablesInv, TablesConsistent
    <3> QED
      BY <1>4, <3>1
  <2>4. ASSUME NEW v \in users', v.role = "owner"
        PROVE  \E p \in orgs' : p.id = v.org /\ p.owner = v.id
    <3>1. v \in users /\ v.id # u.id
      BY <1>1 DEF TablesInv, IdsOnce
    <3>2. PICK o \in orgs : o.id = v.org /\ o.owner = v.id
      BY <2>4, <3>1 DEF TablesInv, TablesConsistent
    <3> QED
      BY <1>4, <3>1, <3>2
  <2> QED
    BY <2>1, <2>2, <2>3, <2>4 DEF TablesConsistent
<1>8. PendingApart'
  <2>1. users' \subseteq users /\ users' \cup deleted' = users \cup deleted
    BY <1>1
  <2> QED
    BY <1>2, <1>3, <1>4, <2>1 DEF TablesInv, PendingApart, Taken, Open
<1>9. PendingDistinct'
  BY <1>2 DEF TablesInv, PendingDistinct, Open
<1>10. NoOrphanOrganization'
  <2> SUFFICES ASSUME NEW p \in orgs'
               PROVE  \/ p.owner # Null /\ \E v \in users' : v.org = p.id /\ v.role = "owner" /\ v.id = p.owner
                      \/ p.owner = Null /\ \E v \in deleted' : v.org = p.id /\ v.role = "owner"
    BY DEF NoOrphanOrganization, OwnerOf
  <2>1. PICK o \in orgs : p.id = o.id /\ p.owner = IF o.owner = u.id THEN Null ELSE o.owner
    BY <1>3
  <2>2. \/ o.owner # Null /\ \E v \in users : v.org = o.id /\ v.role = "owner" /\ v.id = o.owner
        \/ o.owner = Null /\ \E v \in deleted : v.org = o.id /\ v.role = "owner"
    BY DEF TablesInv, NoOrphanOrganization, OwnerOf
  <2>3. \A v \in users : v.id = u.id => v = u
    BY DEF TablesInv, IdsOnce
  <2>4. u.id # Null
    BY DEF TypeInv, TablesTypeOK, UserRows, Null
  <2> QED
    BY <1>1, <2>1, <2>2, <2>3, <2>4
<1>11. AnswerTellsTheTruth'
  <2>1. users' \cup deleted' = users \cup deleted
    BY <1>1
  <2> QED
    BY <1>2, <1>3, <2>1 DEF TablesInv, AnswerTellsTheTruth
<1> QED
  BY <1>6, <1>7, <1>8, <1>9, <1>10, <1>11 DEF TablesInv

(* The deletion of an organization takes its members with it.               *)
LEMMA DeleteOrganizationKeeps ==
  ASSUME IInv, DeleteOrganization
  PROVE  TablesInv'
<1> TypeInv /\ RowsInv /\ TablesInv
  BY DEF IInv, Inv, TypeInv, RowsInv, TablesInv
<1>1. PICK o \in orgs :
        /\ ~\E c \in Calls : Open(c) /\ newUser[c] # Nothing /\ newUser[c].org = o.id
        /\ orgs'  = orgs \ {o}
        /\ users' = {u \in users : u.org # o.id}
        /\ deleted' = deleted \cup {u \in users : u.org = o.id}
  BY DEF DeleteOrganization
<1>2. UNCHANGED <<newOrg, newUser, unsaved, nextOrg, nextUser, pc>>
  BY DEF DeleteOrganization, request
<1>3. users' \cup deleted' = users \cup deleted /\ users' \subseteq users /\ orgs' \subseteq orgs
  BY <1>1
<1>4. \A p \in orgs : p.id # o.id => p \in orgs'
  BY <1>1
<1>5. IdsOnce'
  <2>1. \A v \in users', w \in deleted' : v.id # w.id
    BY <1>1 DEF TablesInv, IdsOnce
  <2> QED
    BY <1>2, <1>3, <2>1 DEF TablesInv, IdsOnce
<1>6. TablesConsistent'
  BY <1>1, <1>3, <1>4 DEF TablesInv, TablesConsistent
<1>7. PendingApart'
  BY <1>1, <1>2, <1>3, <1>4 DEF TablesInv, PendingApart, Taken, Open
<1>8. PendingDistinct'
  BY <1>2 DEF TablesInv, PendingDistinct, Open
<1>9. NoOrphanOrganization'
  <2>1. \A p \in orgs' : p.id # o.id
    BY <1>1 DEF TablesInv, IdsOnce
  <2> QED
    BY <1>1, <1>3, <2>1 DEF TablesInv, NoOrphanOrganization, OwnerOf
<1>10. AnswerTellsTheTruth'
  BY <1>2, <1>3 DEF TablesInv, AnswerTellsTheTruth
<1> QED
  BY <1>5, <1>6, <1>7, <1>8, <1>9, <1>10 DEF TablesInv

(* Every step keeps the tables unique in their unique columns and           *)
(* consistent with each other.                                              *)
LEMMA TablesStep ==
  ASSUME IInv, ConstantsAssumption, NothingAssumption, [Next]_vars
  PROVE  TablesInv'
<1> TypeInv /\ RowsInv /\ TablesInv
  BY DEF IInv, Inv, TypeInv, RowsInv, TablesInv
<1>1. ASSUME NEW c \in Calls, CommitFails(c)
      PROVE  Quiet
  BY <1>1 DEF CommitFails, Quiet, Open, Goto, database, request, TypeInv, RequestsTypeOK
<1>2. CASE Restart
  <2>1. Quiet
    BY <1>2 DEF Restart, Quiet, Open, Ended, database, request, history, TypeInv, RequestsTypeOK
  <2> QED
    BY <2>1, QuietKeeps
<1>3. CASE UNCHANGED vars
  <2>1. Quiet
    BY <1>3 DEF vars, Quiet, Open, database, request, history
  <2> QED
    BY <2>1, QuietKeeps
<1>4. ASSUME NEW c \in Calls, Moves(c) \/ Serves(c) \/ Inserts(c)
      PROVE  TablesInv'
  BY <1>1, <1>4, MovesAreQuiet, ServesAreQuiet, QuietKeeps, InsertOrganizationKeeps,
     InsertUserKeeps, SetOwnerKeeps, CommitKeeps, Zenon DEF Inserts
<1> QED
  BY <1>2, <1>3, <1>4, DeleteUserKeeps, DeleteOrganizationKeeps, Steps, Zenon
-------------------------------------------------------------------------------
(* Tokens                                                                  *)

(* An account that was there once is there or is among the deleted.         *)
LEMMA RowsAreKept ==
  ASSUME IInv, [Next]_vars
  PROVE  users \cup deleted \subseteq users' \cup deleted'
<1>1. ASSUME NEW c \in Calls, Moves(c)
      PROVE  users \cup deleted \subseteq users' \cup deleted'
  BY <1>1, MovesMove DEF Move, history
<1>2. ASSUME NEW c \in Calls, Serves(c)
      PROVE  users \cup deleted \subseteq users' \cup deleted'
  BY <1>2 DEF Serves, Register, ChooseSlug, Login, IssueToken, Present, ValidateToken, database, history
<1>3. ASSUME NEW c \in Calls, Inserts(c)
      PROVE  users \cup deleted \subseteq users' \cup deleted'
  BY <1>3 DEF Inserts, InsertOrganization, InsertUser, SetOwner, Commit, CommitFails, database, history
<1>4. CASE DeleteUser \/ DeleteOrganization
  BY <1>4 DEF DeleteUser, DeleteOrganization
<1>5. CASE Restart \/ UNCHANGED vars
  BY <1>5 DEF Restart, vars, database, history
<1> QED
  BY <1>1, <1>2, <1>3, <1>4, <1>5, Steps, Zenon

(* An id that no row has stays without one once its account is known.       *)
LEMMA GoneStaysGone ==
  ASSUME IInv, [Next]_vars, NEW i, i \notin UserIds, \E u \in users \cup deleted : u.id = i
  PROVE  i \notin UserIds'
<1> USE DEF UserIds
<1>1. ASSUME NEW c \in Calls, Moves(c) \/ Serves(c)
      PROVE  users' = users
  BY <1>1, MovesMove DEF Move, Serves, Register, ChooseSlug, Login, IssueToken, Present,
     ValidateToken, database
<1>2. ASSUME NEW c \in Calls, Inserts(c)
      PROVE  i \notin UserIds'
  <2>1. CASE Commit(c)
    <3>1. Open(c) /\ newUser[c] # Nothing /\ users' = users \cup {newUser[c]}
      BY <2>1 DEF Commit, Goto, Open, IInv, Inv, RowsByStage
    <3>2. newUser[c].id # i
      BY <3>1 DEF IInv, Inv, PendingApart
    <3> QED
      BY <3>1, <3>2
  <2>2. CASE InsertOrganization(c) \/ InsertUser(c) \/ SetOwner(c) \/ CommitFails(c)
    BY <2>2 DEF InsertOrganization, InsertUser, SetOwner, CommitFails, database
  <2> QED
    BY <1>2, <2>1, <2>2, Zenon DEF Inserts
<1>3. CASE DeleteUser \/ DeleteOrganization \/ Restart \/ UNCHANGED vars
  BY <1>3 DEF DeleteUser, DeleteOrganization, Restart, vars, database
<1> QED
  BY <1>1, <1>2, <1>3, Steps, Zenon

(* What a request knows about the accounts, as TokensKnown says it.         *)
CallKnows(c) ==
  /\ pc[c] \in {"load", "sign"} => who[c] \in users \cup deleted
  /\ pc[c] \in {"auth", "in"} => held[c] \in tokens
  /\ pc[c] = "in" => who[c] \in users \cup deleted /\ who[c].id = held[c].user
  /\ pc[c] \in {"idle", "in"} => c \notin late
  /\ pc[c] = "auth" /\ c \in late => held[c].user \notin UserIds

(* What a request knows of its token stays true while others move.          *)
LEMMA CallKeepsKnowing ==
  ASSUME IInv, [Next]_vars, NEW c \in Calls, CallKnows(c), who'[c] = who[c], held'[c] = held[c],
         pc'[c] = pc[c], tokens \subseteq tokens', c \in late' => c \in late
  PROVE  CallKnows(c)'
<1>1. pc[c] = "auth" /\ c \in late => held[c].user \notin UserIds'
  <2> HAVE pc[c] = "auth" /\ c \in late
  <2>1. held[c].user \notin UserIds /\ held[c] \in tokens
    BY DEF CallKnows
  <2>2. \E u \in users \cup deleted : u.id = held[c].user
    BY <2>1 DEF IInv, Inv, TokensKnown, Known
  <2> QED
    BY <2>1, <2>2, GoneStaysGone
<1> QED
  BY <1>1, RowsAreKept DEF CallKnows

(* A token names an account that exists or was deleted, and no later one.   *)
LEMMA TokensStep ==
  ASSUME IInv, [Next]_vars
  PROVE  TokensKnown'
<1> TypeInv /\ RowsInv /\ TablesInv
  BY DEF IInv, Inv, TypeInv, RowsInv, TablesInv
<1>0. /\ \A d \in Calls : CallKnows(d)
      /\ \A t \in tokens : Known(t.user, t.email)
  BY DEF IInv, Inv, TokensKnown, CallKnows
<1>1. \A i, e : Known(i, e) => Known(i, e)'
  BY RowsAreKept DEF Known
<1>2. SUFFICES /\ \A t \in tokens' : Known(t.user, t.email)'
               /\ \A d \in Calls : CallKnows(d)'
  BY DEF TokensKnown, CallKnows
<1>3. ASSUME NEW c \in Calls, Moves(c) \/ Serves(c) \/ Inserts(c)
      PROVE  /\ \A t \in tokens' : Known(t.user, t.email)'
             /\ \A d \in Calls : CallKnows(d)'
  <2>1. /\ tokens \subseteq tokens' /\ \A d \in Calls \ {c} : d \in late' => d \in late
        /\ \A t \in tokens' : Known(t.user, t.email)
    <3>1. CASE Moves(c)
      BY <3>1, <1>0, MovesMove DEF Move, history
    <3>2. CASE IssueToken(c)
      <4>1. who[c] \in users \cup deleted
        BY <1>0, <3>2 DEF IssueToken, Goto, CallKnows
      <4>2. Known(who[c].id, who[c].email)
        BY <4>1 DEF Known
      <4> QED
        BY <1>0, <3>2, <4>2 DEF IssueToken, history
    <3>3. CASE Register(c) \/ ChooseSlug(c) \/ Login(c) \/ Present(c) \/ ValidateToken(c)
      BY <3>3, <1>0 DEF Register, ChooseSlug, Login, Present, ValidateToken, history
    <3>4. CASE Inserts(c)
      BY <3>4, <1>0 DEF Inserts, InsertOrganization, InsertUser, SetOwner, Commit, CommitFails, history
    <3> QED
      BY <1>3, <3>1, <3>2, <3>3, <3>4, Zenon DEF Serves
  <2>2. ASSUME NEW d \in Calls \ {c}
        PROVE  CallKnows(d)'
    BY <1>0, <1>3, <2>1, OthersUntouched, CallKeepsKnowing DEF Untouched
  <2>3. CallKnows(c)'
    <3> USE DEF CallKnows, Goto, TypeInv, RequestsTypeOK
    <3>1. CASE Moves(c)
      <4>1. PICK from \in Stages, to \in Stages : Move(c, from, to)
        BY <3>1, MovesMove
      <4> QED
        BY <4>1, <1>0 DEF Move, Ways, Registering, request, history
    <3>2. CASE Register(c) \/ ChooseSlug(c) \/ IssueToken(c)
      BY <3>2 DEF Register, ChooseSlug, IssueToken
    <3>3. CASE Login(c)
      BY <3>3 DEF Login, database
    <3>4. CASE Present(c)
      <4>1. PICK t \in tokens : held'[c] = t /\ late' = IF t.user \in UserIds THEN late ELSE late \cup {c}
        BY <3>4 DEF Present
      <4> QED
        BY <1>0, <3>4, <4>1 DEF Present, database, UserIds
    <3>5. CASE ValidateToken(c)
      BY <3>5, <1>0 DEF ValidateToken, database, history, UserIds
    <3>6. CASE Inserts(c)
      BY <3>6 DEF Inserts, InsertOrganization, InsertUser, SetOwner, Commit, CommitFails
    <3> QED
      BY <1>3, <3>1, <3>2, <3>3, <3>4, <3>5, <3>6, Zenon DEF Serves
  <2> QED
    BY <1>1, <2>1, <2>2, <2>3
<1>4. CASE DeleteUser \/ DeleteOrganization \/ UNCHANGED vars
  <2>1. UNCHANGED <<tokens, late, who, held, pc>>
    BY <1>4 DEF DeleteUser, DeleteOrganization, vars, request, history
  <2> QED
    BY <1>0, <1>1, <2>1, CallKeepsKnowing
<1>5. CASE Restart
  <2>1. UNCHANGED <<tokens, late, who, held>>
    BY <1>5 DEF Restart, request, history
  <2>2. \A d \in Calls : pc'[d] = pc[d] \/ pc'[d] = "dead"
    BY <1>5 DEF Restart, Ended
  <2>3. \A d \in Calls : pc'[d] = "dead" => CallKnows(d)'
    BY DEF CallKnows
  <2> QED
    BY <1>0, <1>1, <2>1, <2>2, <2>3, CallKeepsKnowing
<1> QED
  BY <1>3, <1>4, <1>5, Steps, Zenon
-------------------------------------------------------------------------------
(* The theorems                                                            *)

(* Every step keeps the types.                                              *)
LEMMA TypeStep ==
  ASSUME IInv, ConstantsAssumption, NothingAssumption, [Next]_vars
  PROVE  TypeInv'
<1>1. TypeInv
  BY DEF IInv, Inv, TypeInv
<1>2. CASE UNCHANGED vars
  BY <1>1, <1>2 DEF vars, TypeInv, TablesTypeOK, RequestsTypeOK, database, request, history
<1>3. ASSUME NEW c \in Calls, Moves(c)
      PROVE  TypeInv'
  BY <1>1, <1>3, MovesMove, MoveTypes
<1> QED
  BY <1>2, <1>3, ServeTypes, InsertTypes, OutsideTypes, Steps, Zenon

(* The invariant holds in the database the init script leaves.              *)
LEMMA Initially ==
  ASSUME ConstantsAssumption, NothingAssumption, Init
  PROVE  IInv
<1> DEFINE o == [id |-> 1, name |-> Default, slug |-> DefaultSlug, owner |-> 1]
           u == [id |-> 1, email |-> Admin, org |-> 1, role |-> "owner"]
<1>0. orgs = {o} /\ users = {u} /\ deleted = {}
  BY DEF Init
<1>1. TablesTypeOK
  BY DEF Init, ConstantsAssumption, TablesTypeOK, OrgRows, UserRows, Tokens, DefaultSlug, Words
<1>2. RequestsTypeOK
  BY DEF Init, RequestsTypeOK, Stages, Ended, DefaultSlug, Words
<1>3. IdsOnce
  BY <1>0 DEF Init, IdsOnce
<1>4. TokensKnown
  BY <1>0 DEF Init, TokensKnown, Known
<1>5. TablesConsistent
  BY <1>0 DEF TablesConsistent
<1>6. \A c \in Calls : RowsByStage(c) /\ RowsFromRequest(c)
  BY DEF Init, RowsByStage, RowsFromRequest, Registering
<1>7. PendingApart /\ PendingDistinct /\ AnswerTellsTheTruth
  BY DEF Init, PendingApart, PendingDistinct, AnswerTellsTheTruth
<1>8. NoOrphanOrganization
  <2>1. o.owner = 1 /\ o.owner # Null /\ u \in OwnerOf(o) /\ u.id = o.owner
    BY <1>0 DEF OwnerOf, Null
  <2> QED
    BY <1>0, <2>1 DEF NoOrphanOrganization
<1>9. IsFiniteSet(orgs)
  BY <1>0, FS_Singleton
<1> QED
  BY <1>1, <1>2, <1>3, <1>4, <1>5, <1>6, <1>7, <1>8, <1>9 DEF IInv, Inv

(* Every step keeps the invariant.                                          *)
LEMMA InductiveStep ==
  ASSUME ConstantsAssumption, NothingAssumption, IInv, [Next]_vars
  PROVE  IInv'
BY TypeStep, RowsStep, TablesStep, TokensStep DEF IInv, Inv, TypeInv, RowsInv, TablesInv

(* The whole invariant of accounts and registrations holds, for any number  *)
(* of requests and restarts (auth.go 254-546, 01_auth_schema.sql 12-60).    *)
THEOREM AccountsInvariant == Spec => []Inv
<1>1. Init => IInv
  BY Initially, ConstantsAssumption, NothingAssumption
<1>2. IInv /\ [Next]_vars => IInv'
  BY InductiveStep, ConstantsAssumption, NothingAssumption
<1>3. IInv => Inv
  BY DEF IInv
<1> QED
  BY <1>1, <1>2, <1>3, PTL DEF Spec

(* Every organization belongs to a member, or its owner's account was       *)
(* deleted, though COMMIT and rollback are decided by a shadowed err        *)
(* (auth.go 297-306, 366).                                                  *)
THEOREM OrganizationsHaveFounders == Spec => []NoOrphanOrganization
<1>1. Inv => NoOrphanOrganization
  BY DEF Inv
<1> QED
  BY <1>1, AccountsInvariant, PTL

(* What a registration is answered is true of the tables, but for a COMMIT  *)
(* that failed (auth.go 304).                                               *)
THEOREM AnswersAreTrue == Spec => []AnswerTellsTheTruth
<1>1. Inv => AnswerTellsTheTruth
  BY DEF Inv
<1> QED
  BY <1>1, AccountsInvariant, PTL

(* A token opens the account it was issued to, for ever: ids are not given  *)
(* twice (auth.go 496-546).                                                 *)
THEOREM TokensOpenTheirAccount == Spec => []TokenOpensItsAccount
<1>1. Inv => TokenOpensItsAccount
  BY DEF Inv, TokensKnown, Known, IdsOnce, TokenOpensItsAccount
<1> QED
  BY <1>1, AccountsInvariant, PTL
===============================================================================
