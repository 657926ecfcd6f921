------------------------------- MODULE Accounts --------------------------------
(***************************************************************************)
(* Accounts of the gateway: registration, login and bearer tokens          *)
(* (pkg/auth/auth.go, handlers.go), next to the deletions of the admin     *)
(* tool (cmd/admin/main.go), on the PostgreSQL database that               *)
(* database/init/01_auth_schema.sql sets up.  A statement is a step.       *)
(* Transactions run at READ COMMITTED: rows of an open transaction are     *)
(* seen by itself only, an INSERT of a unique value that another one has   *)
(* inserted waits for its end, a failed statement dooms the transaction.   *)
(* Every row is active: no operation of the program deactivates one.       *)
(***************************************************************************)
EXTENDS Naturals, FiniteSets

CONSTANTS
  Calls,           \* concurrent requests, each used once
  Emails, Names,   \* of users, of organizations
  BaseSlug,        \* generateSlug: names to words
  Admin, Default,  \* email and name in the rows of the init script
  SecretSet,       \* JWT_SECRET is set, and not to "change-in-production"
  MaxRestarts,     \* bound
  Nothing          \* no row, no token

ASSUME ConstantsAssumption ==
  /\ Admin \in Emails /\ Default \in Names
  /\ SecretSet \in BOOLEAN /\ MaxRestarts \in Nat

VARIABLES
  orgs, users,           \* committed rows
  nextOrg, nextUser,     \* the sequences of the SERIAL ids
  tokens,                \* tokens handed out
  secret,                \* generation of jwtSecret
  restarts,
  \* each request
  pc,
  ask,                   \* what it asks for
  slug,                  \* uniqueSlug
  newOrg, newUser,       \* rows its transaction inserted
  who,                   \* the user row that a login or the middleware read
  held,                  \* the token presented
  \* history
  deleted,               \* rows of users that were deleted
  late,                  \* requests that came in with a deleted account's token
  unsaved                \* registrations whose COMMIT failed

database == <<orgs, users, nextOrg, nextUser>>
request  == <<ask, slug, newOrg, newUser, who, held>>
history  == <<deleted, late, unsaved>>
vars     == <<database, tokens, secret, restarts, pc, request, history>>

Null == 0

DefaultSlug == <<"default", 0>>

(* INSERT INTO organizations and users of the init script; the admin has    *)
(* logged in once.                                                          *)
Init ==
  /\ orgs  = {[id |-> 1, name |-> Default, slug |-> DefaultSlug, owner |-> 1]}
  /\ users = {[id |-> 1, email |-> Admin, org |-> 1, role |-> "owner"]}
  /\ nextOrg = 2 /\ nextUser = 2
  /\ tokens = {[by |-> Nothing, user |-> 1, email |-> Admin, secret |-> 0]}
  /\ secret = 0 /\ restarts = 0
  /\ pc      = [c \in Calls |-> "idle"]
  /\ ask     = [c \in Calls |-> Nothing]
  /\ slug    = [c \in Calls |-> DefaultSlug]
  /\ newOrg  = [c \in Calls |-> Nothing]
  /\ newUser = [c \in Calls |-> Nothing]
  /\ who     = [c \in Calls |-> Nothing]
  /\ held    = [c \in Calls |-> Nothing]
  /\ deleted = {} /\ late = {} /\ unsaved = {}

Goto(c, from, to) == pc[c] = from /\ pc' = [pc EXCEPT ![c] = to]

UserIds == {u.id : u \in users}

(* getOrganizationByID and the query of RegisterUser: owner_id is scanned   *)
(* into an int, so a row without an owner is an error.                      *)
Loads(id) == \E o \in orgs : o.id = id /\ o.owner # Null

-------------------------------------------------------------------------------
(* RegisterUser                                                            *)

(* A well-formed signup, up to Begin: with the id of an organization to     *)
(* join, possibly of none, or with the name of a new one.                   *)
Register(c) ==
  /\ Goto(c, "idle", "check")
  /\ \E e \in Emails, n \in Names, o \in 0..nextOrg :
       ask' = [ask EXCEPT ![c] = [email |-> e, name |-> n, org |-> o]]
  /\ UNCHANGED <<database, tokens, secret, restarts, slug, newOrg, newUser, who, held, history>>

(* 400 or 401: a signup that is not well-formed, wrong credentials.         *)
RefuseAtOnce(c) ==
  /\ Goto(c, "idle", "refused")
  /\ UNCHANGED <<database, tokens, secret, restarts, request, history>>

Taken(e) == \E u \in users : u.email = e

EmailTaken(c) ==
  /\ Goto(c, "check", "refused")
  /\ Taken(ask[c].email)
  /\ UNCHANGED <<database, tokens, secret, restarts, request, history>>

EmailFree(c) ==
  /\ Goto(c, "check", IF ask[c].org = Null THEN "slug" ELSE "join")
  /\ ~Taken(ask[c].email)
  /\ UNCHANGED <<database, tokens, secret, restarts, request, history>>

JoinOrganization(c) ==
  /\ Goto(c, "join", IF Loads(ask[c].org) THEN "user" ELSE "refused")
  /\ UNCHANGED <<database, tokens, secret, restarts, request, history>>

FreeSlug(s) == ~\E o \in orgs : o.slug = s

(* checkUniqueSlugTx: the word, or the word with the first number that no   *)
(* committed row has.                                                       *)
ChooseSlug(c) ==
  /\ Goto(c, "slug", "org")
  /\ LET word == BaseSlug[ask[c].name] IN
     \E n \in 0..Cardinality(orgs) :
       /\ FreeSlug(<<word, n>>) /\ \A k \in 0..(n-1) : ~FreeSlug(<<word, k>>)
       /\ slug' = [slug EXCEPT ![c] = <<word, n>>]
  /\ UNCHANGED <<database, tokens, secret, restarts, ask, newOrg, newUser, who, held, history>>

(* Mutant: an error returns without the rollback of the deferred function.  *)
OpenUnlessCommitted(c) == pc[c] \in {"user", "owner", "commit", "refused"}

(* c's transaction holds rows that it inserted.                             *)
Open(c) == pc[c] \in {"user", "owner", "commit"}

OrgPending(c) ==
  \E d \in Calls \ {c} :
    /\ Open(d) /\ newOrg[d] # Nothing
    /\ newOrg[d].name = ask[c].name \/ newOrg[d].slug = slug[c]

OrgExists(c) ==
  \E o \in orgs : o.name = ask[c].name \/ o.slug = slug[c]

NewOrg(c) ==
  [id |-> nextOrg, name |-> ask[c].name, slug |-> slug[c], owner |-> Null]

(* Mutant: the row is inserted with db, not with tx.                        *)
InsertOrganizationAtOnce(c) ==
  /\ Goto(c, "org", "user")
  /\ ~OrgPending(c) /\ ~OrgExists(c)
  /\ newOrg' = [newOrg EXCEPT ![c] = NewOrg(c)]
  /\ orgs' = orgs \cup {NewOrg(c)}
  /\ nextOrg' = nextOrg + 1
  /\ UNCHANGED <<users, nextUser, tokens, secret, restarts, ask, slug, newUser, who, held, history>>

InsertOrganization(c) ==
  /\ Goto(c, "org", "user")
  /\ ~OrgPending(c) /\ ~OrgExists(c)
  /\ newOrg' = [newOrg EXCEPT ![c] = NewOrg(c)]
  /\ nextOrg' = nextOrg + 1
  /\ UNCHANGED <<orgs, users, nextUser, tokens, secret, restarts, ask, slug, newUser, who, held, history>>

(* err is the inner one (366), so the deferred function calls Commit, which *)
(* rolls a doomed transaction back.                                         *)
OrganizationClash(c) ==
  /\ Goto(c, "org", "refused")
  /\ ~OrgPending(c) /\ OrgExists(c)
  /\ nextOrg' = nextOrg + 1
  /\ UNCHANGED <<orgs, users, nextUser, tokens, secret, restarts, request, history>>

EmailPending(c) ==
  \E d \in Calls \ {c} :
    Open(d) /\ newUser[d] # Nothing /\ newUser[d].email = ask[c].email

OrgOf(c) == IF newOrg[c] # Nothing THEN newOrg[c].id ELSE ask[c].org

(* The foreign key of users.organization_id.                                *)
HasOrg(c) == newOrg[c] # Nothing \/ \E o \in orgs : o.id = ask[c].org

(* Mutant: ids as SQLite gives them without AUTOINCREMENT.                  *)
NextFreeId(c) ==
  CHOOSE i \in 1..nextUser : i \notin UserIds /\ \A j \in 1..(i-1) : j \in UserIds

NextId(c) == nextUser

InsertUser(c) ==
  /\ Goto(c, "user", IF newOrg[c] # Nothing THEN "owner" ELSE "commit")
  /\ ~EmailPending(c) /\ ~Taken(ask[c].email) /\ HasOrg(c)
  /\ newUser' = [newUser EXCEPT ![c] =
       [ id |-> NextId(c), email |-> ask[c].email, org |-> OrgOf(c),
         role |-> IF newOrg[c] # Nothing THEN "owner" ELSE "user" ]]
  /\ nextUser' = nextUser + 1
  /\ UNCHANGED <<orgs, users, nextOrg, tokens, secret, restarts, ask, slug, newOrg, who, held, history>>

UserClash(c) ==
  /\ Goto(c, "user", "refused")
  /\ ~EmailPending(c) /\ (Taken(ask[c].email) \/ ~HasOrg(c))
  /\ nextUser' = nextUser + 1
  /\ UNCHANGED <<orgs, users, nextOrg, tokens, secret, restarts, request, history>>

(* UPDATE organizations SET owner_id = ?                                    *)
SetOwner(c) ==
  /\ Goto(c, "owner", "commit")
  /\ newOrg' = [newOrg EXCEPT ![c].owner = newUser[c].id]
  /\ UNCHANGED <<database, tokens, secret, restarts, ask, slug, newUser, who, held, history>>

Commit(c) ==
  /\ Goto(c, "commit", "created")
  /\ orgs'  = orgs \cup ({newOrg[c]} \ {Nothing})
  /\ users' = users \cup {newUser[c]}
  /\ UNCHANGED <<nextOrg, nextUser, tokens, secret, restarts, request, history>>

(* The deferred function sets err after the results were taken, so the      *)
(* caller is told of a new user all the same.                               *)
CommitFails(c) ==
  /\ Goto(c, "commit", "created")
  /\ unsaved' = unsaved \cup {c}
  /\ UNCHANGED <<database, tokens, secret, restarts, request, deleted, late>>

Registering == {"check", "join", "slug", "org", "user", "owner", "commit"}

(* The connection breaks, or the server cannot run the statement: rollback. *)
StatementFails(c) ==
  /\ \E s \in Registering \ {"commit"} : Goto(c, s, "refused")
  /\ UNCHANGED <<database, tokens, secret, restarts, request, history>>

(* 201, and SendWelcomeEmail in a goroutine of its own.                     *)
AnswerCreated(c) ==
  /\ Goto(c, "created", "done")
  /\ UNCHANGED <<database, tokens, secret, restarts, request, history>>

-------------------------------------------------------------------------------
(* LoginUser, ValidateToken                                                *)

(* The row of the email, and its password fits.                             *)
Login(c) ==
  /\ Goto(c, "idle", "load")
  /\ \E u \in users : who' = [who EXCEPT ![c] = u]
  /\ UNCHANGED <<database, tokens, secret, restarts, ask, slug, newOrg, newUser, held, history>>

LoadOrganization(c) ==
  /\ Goto(c, "load", IF Loads(who[c].org) THEN "sign" ELSE "refused")
  /\ UNCHANGED <<database, tokens, secret, restarts, request, history>>

(* generateJWTToken and last_login, whose error is ignored.                 *)
IssueToken(c) ==
  /\ Goto(c, "sign", "done")
  /\ tokens' = tokens \cup
       {[by |-> c, user |-> who[c].id, email |-> who[c].email, secret |-> secret]}
  /\ UNCHANGED <<database, secret, restarts, request, history>>

(* AuthMiddleware gets a token.                                             *)
Present(c) ==
  /\ Goto(c, "idle", "auth")
  /\ \E t \in tokens :
       /\ held' = [held EXCEPT ![c] = t]
       /\ late' = IF t.user \in UserIds THEN late ELSE late \cup {c}
  /\ UNCHANGED <<database, tokens, secret, restarts, ask, slug, newOrg, newUser, who,
                 deleted, unsaved>>

(* The signature fits, and the claimed id has a row.                        *)
ValidateToken(c) ==
  /\ Goto(c, "auth", "in")
  /\ held[c].secret = secret
  /\ \E u \in users :
       u.id = held[c].user /\ who' = [who EXCEPT ![c] = u]
  /\ UNCHANGED <<database, tokens, secret, restarts, ask, slug, newOrg, newUser, held, history>>

(* The other tokens, and those that are 24 hours old.                       *)
RefuseToken(c) ==
  /\ Goto(c, "auth", "refused")
  /\ UNCHANGED <<database, tokens, secret, restarts, request, history>>

(* HandleGetMe reads the row once more: 200, or 500 if it is gone.          *)
GetMe(c) ==
  /\ Goto(c, "in", IF who[c].id \in UserIds THEN "done" ELSE "failed")
  /\ UNCHANGED <<database, tokens, secret, restarts, request, history>>

(* HandleLogout, not behind the middleware: LogoutUser returns nil, and the *)
(* token stays what it was.                                                 *)
Logout(c) ==
  /\ Goto(c, "idle", "done")
  /\ UNCHANGED <<database, tokens, secret, restarts, request, history>>

-------------------------------------------------------------------------------
(* The admin tool, and the process                                         *)

(* ON DELETE SET NULL of organizations.owner_id.                            *)
DeleteUser ==
  /\ \E u \in users :
       /\ users' = users \ {u}
       /\ orgs' = {[o EXCEPT !.owner = IF @ = u.id THEN Null ELSE @] : o \in orgs}
       /\ deleted' = deleted \cup {u}
  /\ UNCHANGED <<nextOrg, nextUser, tokens, secret, restarts, pc, request, late, unsaved>>

(* One transaction, ON DELETE CASCADE; it waits for an open one whose new   *)
(* user refers to the row.                                                  *)
DeleteOrganization ==
  /\ \E o \in orgs :
       /\ o.slug # DefaultSlug
       /\ ~\E c \in Calls : Open(c) /\ newUser[c] # Nothing /\ newUser[c].org = o.id
       /\ orgs'  = orgs \ {o}
       /\ users' = {u \in users : u.org # o.id}
       /\ deleted' = deleted \cup {u \in users : u.org = o.id}
  /\ UNCHANGED <<nextOrg, nextUser, tokens, secret, restarts, pc, request, late, unsaved>>

Ended == {"idle", "refused", "done", "failed", "dead"}

(* The gateway is killed and started again: open transactions are rolled    *)
(* back, and Initialize has a new random secret unless one is configured.   *)
Restart ==
  /\ restarts < MaxRestarts /\ restarts' = restarts + 1
  /\ secret' = IF SecretSet THEN secret ELSE secret + 1
  /\ pc' = [c \in Calls |-> IF pc[c] \in Ended THEN pc[c] ELSE "dead"]
  /\ UNCHANGED <<database, tokens, request, history>>

(* What a request does by itself once it has come in, if nothing fails.     *)
Proceed(c) ==
  \/ EmailTaken(c) \/ EmailFree(c) \/ JoinOrganization(c) \/ ChooseSlug(c)
  \/ InsertOrganization(c) \/ OrganizationClash(c) \/ InsertUser(c) \/ UserClash(c)
  \/ SetOwner(c) \/ Commit(c) \/ AnswerCreated(c)
  \/ LoadOrganization(c) \/ IssueToken(c) \/ ValidateToken(c) \/ RefuseToken(c) \/ GetMe(c)

Arrive(c) == Register(c) \/ RefuseAtOnce(c) \/ Login(c) \/ Present(c) \/ Logout(c)

Fail(c) == StatementFails(c) \/ CommitFails(c)

Next ==
  \/ \E c \in Calls : Arrive(c) \/ Proceed(c) \/ Fail(c)
  \/ DeleteUser \/ DeleteOrganization \/ Restart

(* Goroutines get to run, and the database answers them: failures are not   *)
(* needed for a request to end.                                             *)
Spec == Init /\ [][Next]_vars /\ \A c \in Calls : WF_vars(Proceed(c))
-------------------------------------------------------------------------------
Words == {"default"} \cup {BaseSlug[n] : n \in Names}

OrgRows  == [id : Nat \ {0}, name : Names, slug : Words \X Nat, owner : Nat]
UserRows == [id : Nat \ {0}, email : Emails, org : Nat, role : {"owner", "user"}]
Tokens   == [by : Calls \cup {Nothing}, user : Nat, email : Emails, secret : Nat]
Asked    == [email : Emails, name : Names, org : Nat]

ASSUME NothingAssumption == Nothing \notin OrgRows \cup UserRows \cup Tokens \cup Asked

Stages == Registering \cup Ended \cup {"created", "load", "sign", "auth", "in"}

(* Types of the tables and of the requests.                                 *)
TablesTypeOK ==
  /\ orgs \subseteq OrgRows /\ users \subseteq UserRows
  /\ nextOrg \in Nat \ {0} /\ nextUser \in Nat \ {0}
  /\ tokens \subseteq Tokens /\ secret \in Nat /\ restarts \in Nat
  /\ deleted \subseteq UserRows /\ late \subseteq Calls /\ unsaved \subseteq Calls

RequestsTypeOK ==
  /\ pc \in [Calls -> Stages]
  /\ ask \in [Calls -> Asked \cup {Nothing}]
  /\ slug \in [Calls -> Words \X Nat]
  /\ newOrg \in [Calls -> OrgRows \cup {Nothing}]
  /\ newUser \in [Calls -> UserRows \cup {Nothing}]
  /\ who \in [Calls -> UserRows \cup {Nothing}]
  /\ held \in [Calls -> Tokens \cup {Nothing}]

(* Parts of the inductive invariant.  The sequences are ahead of every id,  *)
(* and an id means one account for ever.                                    *)
IdsOnce ==
  /\ \A o \in orgs : o.id < nextOrg
  /\ \A u \in users \cup deleted : u.id < nextUser
  /\ \A u, v \in users \cup deleted : u.id = v.id => u = v
  /\ \A u \in users, v \in deleted : u.id # v.id
  /\ \A o, p \in orgs : o.id = p.id => o = p

(* A token, and a row that was read, name the account they were made from.  *)
Known(id, e) == \E u \in users \cup deleted : u.id = id /\ u.email = e

TokensKnown ==
  /\ \A t \in tokens : Known(t.user, t.email)
  /\ \A c \in Calls :
       /\ pc[c] \in {"load", "sign"} => who[c] \in users \cup deleted
       /\ pc[c] \in {"auth", "in"} => held[c] \in tokens
       /\ pc[c] = "in" => who[c] \in users \cup deleted /\ who[c].id = held[c].user
       /\ pc[c] \in {"idle", "in"} => c \notin late
       /\ pc[c] = "auth" /\ c \in late => held[c].user \notin UserIds

(* The tables: unique columns, the foreign keys, and who owns what.         *)
OwnerOf(o) == {u \in users : u.org = o.id /\ u.role = "owner"}

TablesConsistent ==
  /\ \A u, v \in users : u.email = v.email => u = v
  /\ \A o, p \in orgs : o.name = p.name \/ o.slug = p.slug => o = p
  /\ \A u \in users : \E o \in orgs : o.id = u.org
  /\ \A u \in users : u.role = "owner" =>
       \E o \in orgs : o.id = u.org /\ o.owner = u.id

(* The rows of a transaction, stage by stage.                               *)
RowsByStage(c) ==
  /\ pc[c] \in Registering => ask[c] # Nothing
  /\ pc[c] \in {"idle", "check", "join", "slug", "org", "load", "sign", "auth", "in"} =>
       newOrg[c] = Nothing /\ newUser[c] = Nothing
  /\ pc[c] = "user" => newUser[c] = Nothing
  /\ pc[c] \in {"owner", "commit"} => newUser[c] # Nothing
  /\ pc[c] = "owner" => newOrg[c] # Nothing
  /\ pc[c] \in {"user", "owner"} /\ newOrg[c] # Nothing => newOrg[c].owner = Null
  /\ pc[c] = "commit" /\ newOrg[c] # Nothing => newOrg[c].owner = newUser[c].id

RowsFromRequest(c) ==
  /\ newOrg[c] # Nothing =>
       newOrg[c].id < nextOrg /\ newOrg[c].name = ask[c].name /\ newOrg[c].slug = slug[c]
  /\ newUser[c] # Nothing =>
       /\ newUser[c].id < nextUser /\ newUser[c].email = ask[c].email
       /\ IF newOrg[c] # Nothing
            THEN newUser[c].org = newOrg[c].id /\ newUser[c].role = "owner"
            ELSE newUser[c].role = "user"

(* Rows that are not committed yet collide with no row, and with each other *)
(* in nothing unique; an organization that is being joined stays.           *)
PendingApart ==
  /\ \A c \in Calls : Open(c) /\ newUser[c] # Nothing =>
       /\ ~Taken(newUser[c].email)
       /\ \A u \in users \cup deleted : u.id # newUser[c].id
       /\ newOrg[c] = Nothing => \E o \in orgs : o.id = newUser[c].org
  /\ \A c \in Calls : Open(c) /\ newOrg[c] # Nothing =>
       \A o \in orgs : /\ o.name # newOrg[c].name /\ o.slug # newOrg[c].slug
                       /\ o.id # newOrg[c].id

PendingDistinct ==
  \A c, d \in Calls : c # d =>
    /\ newUser[c] # Nothing /\ newUser[d] # Nothing =>
         /\ newUser[c].id # newUser[d].id
         /\ Open(c) /\ Open(d) => newUser[c].email # newUser[d].email
    /\ newOrg[c] # Nothing /\ newOrg[d] # Nothing =>
         /\ newOrg[c].id # newOrg[d].id
         /\ Open(c) /\ Open(d) =>
              newOrg[c].name # newOrg[d].name /\ newOrg[c].slug # newOrg[d].slug

(* "User should not be created when creating an Organization entry fails"   *)
(* (AUTH_FIXES.md 13) and the other way round: every organization belongs   *)
(* to a member, until that account is deleted.  Members of an organization  *)
(* that belongs to nobody cannot log in (auth.go 240, 331).                 *)
NoOrphanOrganization ==
  \A o \in orgs :
    \/ o.owner # Null /\ \E u \in OwnerOf(o) : u.id = o.owner
    \/ o.owner = Null /\ \E u \in deleted : u.org = o.id /\ u.role = "owner"

(* A registration that was refused has left no row, whichever of its        *)
(* statements failed and although err is shadowed (366); one that was told  *)
(* of its account has it, unless COMMIT failed (304) or it was deleted.     *)
AnswerTellsTheTruth ==
  \A c \in Calls :
    /\ pc[c] = "refused" /\ newOrg[c] # Nothing => \A o \in orgs : o.id # newOrg[c].id
    /\ pc[c] = "refused" /\ newUser[c] # Nothing =>
         \A u \in users \cup deleted : u.id # newUser[c].id
    /\ pc[c] \in {"created", "done"} /\ newUser[c] # Nothing =>
         newUser[c] \in users \cup deleted \/ c \in unsaved

Inv ==
  /\ TablesTypeOK /\ RequestsTypeOK /\ IdsOnce /\ TokensKnown /\ TablesConsistent
  /\ \A c \in Calls : RowsByStage(c) /\ RowsFromRequest(c)
  /\ PendingApart /\ PendingDistinct /\ NoOrphanOrganization /\ AnswerTellsTheTruth

(* A token opens the account that it was issued to and no other, and no     *)
(* request gets in whose account was deleted before it came, though only    *)
(* the id in the token is compared (auth.go 523-536).                       *)
TokenOpensItsAccount ==
  \A c \in Calls :
    pc[c] = "in" =>
      who[c].id = held[c].user /\ who[c].email = held[c].email /\ c \notin late

(* Nobody waits for ever: the locks that INSERTs wait for are released,     *)
(* also when a registration ends with an error.                             *)
EveryRegistrationEnds ==
  \A c \in Calls : pc[c] \in Registering ~> pc[c] \notin Registering
===============================================================================
