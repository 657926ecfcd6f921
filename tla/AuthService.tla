------------------------------ MODULE AuthService ------------------------------
(***************************************************************************)
(* The layered authentication service: pkg/auth/service/auth_service.go on *)
(* pkg/auth/repository.  A statement is a step and takes a connection of   *)
(* the pool while it runs; WithTx keeps one from BeginTxx to its end, but  *)
(* only CreateUser runs on the transaction: every other statement of the   *)
(* function takes a second connection and commits by itself.  An email has *)
(* one row at most (UNIQUE) and rows are only ever deactivated, so a user  *)
(* is known by the email.                                                  *)
(***************************************************************************)
EXTENDS Naturals, FiniteSets

CONSTANTS
  Calls,          \* concurrent calls of the service, each used once
  Ana,            \* a user that is there from the start
  Newcomers,      \* emails without a row
  Passwords,
  First,          \* Ana's password: its hash is of a lower cost than configured
  PoolSize,       \* db.SetMaxOpenConns
  Earlier         \* the call that requested Ana's reset token

Emails == {Ana} \cup Newcomers

ASSUME ServiceAssumption ==
  /\ Ana \notin Newcomers /\ First \in Passwords
  /\ PoolSize \in Nat /\ IsFiniteSet(Calls)
  /\ Earlier \notin Calls

VARIABLES
  \* the tables
  account,        \* users: "none", "active" or "inactive"
  hash,           \* users.password_hash: its password, and NeedsRehash
  orgs,           \* organizations, by the call that made them
  resets,         \* password_resets, by the call that requested them
  \* each call
  pc, ask,
  word,           \* the password it brings, hashed or verified
  reset,          \* the reset token it brings
  tokens,         \* users who have been handed a token pair
  rehash,         \* goroutines that Login started: who, and which password
  \* history
  chosen,         \* the password last set by a registration, change or reset
  raced,          \* users whose password was set while a rehash was pending
  late,           \* calls that came in with a used reset token
  stayed,         \* calls whose user has been inactive ever since they came in
  unsaved         \* calls whose COMMIT failed

tables  == <<account, hash, orgs, resets>>
call    == <<ask, word, reset>>
history == <<chosen, raced, late, stayed, unsaved>>
vars    == <<tables, pc, call, tokens, rehash, history>>

Callers == Calls \cup {Earlier}

Init ==
  /\ account = [e \in Emails |-> IF e = Ana THEN "active" ELSE "none"]
  /\ hash    = [e \in Emails |-> [word |-> First, weak |-> TRUE]]
  /\ orgs    = {Earlier}
  /\ resets  = [c \in Callers |-> IF c = Earlier THEN "open" ELSE "none"]
  /\ pc      = [c \in Calls |-> "idle"]
  /\ ask     = [c \in Callers |-> Ana]
  /\ word    = [c \in Calls |-> First]
  /\ reset   = [c \in Calls |-> Earlier]
  /\ tokens  = {Ana}
  /\ rehash  = {}
  /\ chosen  = [e \in Emails |-> First]
  /\ raced = {} /\ late = {} /\ stayed = {} /\ unsaved = {}

-------------------------------------------------------------------------------
(* The repository                                                          *)

(* In the function of WithTx.                                               *)
Registering == {"join", "create", "insert", "commit"}
Resetting   == {"password", "mark", "end"}

Running ==
  Registering \cup Resetting \cup
  {"register", "begin", "issue", "login", "weak", "org", "sign", "stamp", "refresh",
   "renew", "validate", "logout", "revoke", "change", "write", "request", "store",
   "confirm", "open", "delete", "deactivate", "activate", "switch", "profile", "role",
   "grant", "reread", "signout", "make", "found", "name", "amend", "close", "count",
   "list", "events", "ping", "show", "look", "drop"}

InTx(c) == pc[c] \in Registering \cup Resetting

HoldingConnection == {c \in Calls : InTx(c)}

(* Mutant: the pool is one connection short.                                *)
FreeConnectionButOne == Cardinality(HoldingConnection) + 1 < PoolSize

FreeConnection == Cardinality(HoldingConnection) < PoolSize

Goto(c, from, to) == pc[c] = from /\ pc' = [pc EXCEPT ![c] = to]

(* A statement on r.db.                                                     *)
Query(c, from, to) == FreeConnection /\ Goto(c, from, to)

(* Mutant: the conditions on is_active are dropped.                         *)
FindsAny(e) == account[e] # "none"

(* GetUserByEmail, GetUserByID: WHERE ... AND is_active = true.             *)
Finds(e) == account[e] = "active"

Strong(w) == [word |-> w, weak |-> FALSE]

(* SetUserPassword, whether the row is active or not.                       *)
SetUserPassword(e, w) == hash' = [hash EXCEPT ![e] = Strong(w)]

(* A login has verified the old password and is about to rehash it.         *)
RehashPending(e) ==
  (\E r \in rehash : r.email = e) \/ (\E c \in Calls : pc[c] = "weak" /\ ask[c] = e)

(* History: the password is set for good, unless it races with a rehash.    *)
Choose(e, w) ==
  /\ chosen' = [chosen EXCEPT ![e] = w]
  /\ raced' = IF RehashPending(e) THEN raced \cup {e} ELSE raced \ {e}

(* UPDATE users SET is_active = ?; whose user becomes active has not stayed. *)
SetActive(e, s) ==
  /\ account' = [account EXCEPT ![e] = s]
  /\ stayed' = IF s = "active" THEN {c \in stayed : ask[c] # e} ELSE stayed

-------------------------------------------------------------------------------
(* A call comes in, past validators and rate limiters.                      *)

Begin(c, op, e) ==
  /\ Goto(c, "idle", op)
  /\ ask' = [ask EXCEPT ![c] = e]
  /\ stayed' = IF account[e] # "active" THEN stayed \cup {c} ELSE stayed
  /\ UNCHANGED <<tables, tokens, rehash, chosen, raced, unsaved>>

ComeWithPassword(c) ==
  /\ \E e \in Emails, w \in Passwords, op \in {"register", "login", "change", "make"} :
       Begin(c, op, e) /\ word' = [word EXCEPT ![c] = w]
  /\ UNCHANGED <<reset, late>>

ComeForUser(c) ==
  /\ \E e \in Emails, op \in {"delete", "activate", "profile", "role", "signout", "request"} :
       Begin(c, op, e)
  /\ UNCHANGED <<word, reset, late>>

(* About organizations, lists and the state of the service.                 *)
ComeForOrganization(c) ==
  /\ \E op \in {"found", "amend", "close", "count", "events", "ping"} : Begin(c, op, Ana)
  /\ UNCHANGED <<word, reset, late>>

ComeWithToken(c) ==
  /\ \E e \in tokens, op \in {"validate", "refresh", "logout"} : Begin(c, op, e)
  /\ UNCHANGED <<word, reset, late>>

ComeWithReset(c) ==
  \E t \in Callers, w \in Passwords :
    /\ resets[t] # "none" /\ Begin(c, "confirm", ask[t])
    /\ word'  = [word EXCEPT ![c] = w]
    /\ reset' = [reset EXCEPT ![c] = t]
    /\ late'  = IF resets[t] # "open" THEN late \cup {c} ELSE late

-------------------------------------------------------------------------------
(* Register                                                                *)

FindNobody(c) ==
  /\ Query(c, "register", IF Finds(ask[c]) THEN "refused" ELSE "begin")
  /\ UNCHANGED <<tables, call, tokens, rehash, history>>

BeginRegistration(c) ==
  /\ Query(c, "begin", "join") \/ Query(c, "begin", "create")
  /\ UNCHANGED <<tables, call, tokens, rehash, history>>

(* GetOrganizationByID, which does not look at is_active.                   *)
JoinOrganization(c) ==
  /\ Query(c, "join", "insert")
  /\ UNCHANGED <<tables, call, tokens, rehash, history>>

(* slugExists and the INSERT, which is committed at once.                   *)
CreateOrganization(c) ==
  /\ Query(c, "create", "insert")
  /\ orgs' = orgs \cup {c}
  /\ UNCHANGED <<account, hash, resets, call, tokens, rehash, history>>

(* CreateUser waits for the transaction that has inserted the same email,   *)
(* and fails on a row, be it inactive.                                      *)
EmailPending(c) == \E d \in Calls \ {c} : pc[d] = "commit" /\ ask[d] = ask[c]

InsertUser(c) ==
  /\ ~EmailPending(c)
  /\ Goto(c, "insert", IF account[ask[c]] = "none" THEN "commit" ELSE "refused")
  /\ UNCHANGED <<tables, call, tokens, rehash, history>>

(* Mutant: the branches of the deferred function are swapped.               *)
CommitUserSwapped(c) ==
  /\ Goto(c, "commit", "issue")
  /\ UNCHANGED <<tables, call, tokens, rehash, history>>

CommitUser(c) ==
  /\ Goto(c, "commit", "issue")
  /\ SetActive(ask[c], "active") /\ SetUserPassword(ask[c], word[c])
  /\ Choose(ask[c], word[c])
  /\ UNCHANGED <<orgs, resets, call, tokens, rehash, late, unsaved>>

(* err is set after WithTx has taken its result: the caller goes on.        *)
CommitFails(c) ==
  /\ Goto(c, "commit", "issue")
  /\ unsaved' = unsaved \cup {c}
  /\ UNCHANGED <<tables, call, tokens, rehash, chosen, raced, late, stayed>>

(* generateTokenPair, of Register and RefreshToken.                         *)
IssueTokens(c) ==
  /\ Goto(c, "issue", "done") \/ Goto(c, "renew", "done")
  /\ tokens' = tokens \cup {ask[c]}
  /\ UNCHANGED <<tables, call, rehash, history>>

-------------------------------------------------------------------------------
(* Login, RefreshToken, ValidateToken, Logout                              *)

(* Mutant: the rehash is started before the password is verified.           *)
FindLoginRehashing(c) ==
  /\ Query(c, "login",
       IF Finds(ask[c]) /\ hash[ask[c]].word = word[c] THEN "org" ELSE "refused")
  /\ rehash' = IF Finds(ask[c]) /\ hash[ask[c]].weak
                 THEN rehash \cup {[by |-> c, email |-> ask[c], word |-> word[c]]}
                 ELSE rehash
  /\ UNCHANGED <<tables, call, tokens, history>>

FindLogin(c) ==
  /\ Query(c, "login",
       IF Finds(ask[c]) /\ hash[ask[c]].word = word[c]
         THEN IF hash[ask[c]].weak THEN "weak" ELSE "org"
         ELSE "refused")
  /\ UNCHANGED <<tables, call, tokens, rehash, history>>

(* GetOrganizationByID; then the goroutine starts, if there is to be one.   *)
LoadOrganization(c) ==
  /\ Query(c, "org", "sign")
  /\ UNCHANGED <<tables, call, tokens, rehash, history>>

StartRehash(c) ==
  /\ Query(c, "weak", "sign")
  /\ rehash' = rehash \cup {[by |-> c, email |-> ask[c], word |-> word[c]]}
  /\ UNCHANGED <<tables, call, tokens, history>>

(* It writes the hash, or fails.                                            *)
Rehash ==
  /\ \E r \in rehash :
       /\ rehash' = rehash \ {r}
       /\ \/ FreeConnection /\ SetUserPassword(r.email, r.word)
          \/ UNCHANGED hash
  /\ UNCHANGED <<account, orgs, resets, pc, call, tokens, history>>

SignTokens(c) ==
  /\ Goto(c, "sign", "stamp")
  /\ tokens' = tokens \cup {ask[c]}
  /\ UNCHANGED <<tables, call, rehash, history>>

(* UpdateLastLogin, its error ignored.                                      *)
UpdateLastLogin(c) ==
  /\ Query(c, "stamp", "done")
  /\ UNCHANGED <<tables, call, tokens, rehash, history>>

RefreshToken(c) ==
  /\ Query(c, "refresh", IF Finds(ask[c]) THEN "renew" ELSE "refused")
  /\ UNCHANGED <<tables, call, tokens, rehash, history>>

ValidateToken(c) ==
  /\ Query(c, "validate", IF Finds(ask[c]) THEN "in" ELSE "refused")
  /\ UNCHANGED <<tables, call, tokens, rehash, history>>

(* DeleteUserSessions and DeleteUserRefreshTokens find nothing: no call     *)
(* inserts a session or a refresh token.  Their errors are ignored at       *)
(* "revoke" and returned at "drop", where calls that revoke nothing end     *)
(* with a GetOrganizationByID.                                              *)
Revoke(c) ==
  /\ Query(c, "logout", "done") \/ Query(c, "revoke", "done") \/ Query(c, "drop", "done")
  /\ UNCHANGED <<tables, call, tokens, rehash, history>>

-------------------------------------------------------------------------------
(* ChangePassword, RequestPasswordReset, ConfirmPasswordReset              *)

(* The caller knows the current password.                                   *)
VerifyCurrent(c) ==
  /\ Query(c, "change", IF Finds(ask[c]) THEN "write" ELSE "refused")
  /\ UNCHANGED <<tables, call, tokens, rehash, history>>

ChangePassword(c) ==
  /\ Query(c, "write", "revoke")
  /\ SetUserPassword(ask[c], word[c]) /\ Choose(ask[c], word[c])
  /\ UNCHANGED <<account, orgs, resets, call, tokens, rehash, late, stayed, unsaved>>

(* No error for an unknown email.                                           *)
RequestReset(c) ==
  /\ Query(c, "request", IF Finds(ask[c]) THEN "store" ELSE "done")
  /\ UNCHANGED <<tables, call, tokens, rehash, history>>

CreateReset(c) ==
  /\ Query(c, "store", "done")
  /\ resets' = [resets EXCEPT ![c] = "open"]
  /\ UNCHANGED <<account, hash, orgs, call, tokens, rehash, history>>

(* After 15 minutes.                                                        *)
ResetExpires ==
  /\ \E t \in Callers : resets[t] = "open" /\ resets' = [resets EXCEPT ![t] = "expired"]
  /\ UNCHANGED <<account, hash, orgs, pc, call, tokens, rehash, history>>

(* Mutant: used_at is not looked at, neither here nor in the service.       *)
UsableUnused(t) == resets[t] \in {"open", "used"}

(* GetPasswordReset: expires_at > CURRENT_TIMESTAMP AND used_at IS NULL.    *)
Usable(t) == resets[t] = "open"

FindReset(c) ==
  /\ Query(c, "confirm", IF Usable(reset[c]) THEN "open" ELSE "refused")
  /\ UNCHANGED <<tables, call, tokens, rehash, history>>

BeginReset(c) ==
  /\ Query(c, "open", "password")
  /\ UNCHANGED <<tables, call, tokens, rehash, history>>

ResetPassword(c) ==
  /\ Query(c, "password", "mark")
  /\ SetUserPassword(ask[c], word[c]) /\ Choose(ask[c], word[c])
  /\ UNCHANGED <<account, orgs, resets, call, tokens, rehash, late, stayed, unsaved>>

(* DeletePasswordReset sets used_at, used or not.                           *)
MarkUsed(c) ==
  /\ Query(c, "mark", "end")
  /\ resets' = [resets EXCEPT ![reset[c]] = "used"]
  /\ UNCHANGED <<account, hash, orgs, call, tokens, rehash, history>>

(* COMMIT of a transaction in which nothing ran.                            *)
EndReset(c) ==
  /\ Goto(c, "end", "revoke")
  /\ UNCHANGED <<tables, call, tokens, rehash, history>>

-------------------------------------------------------------------------------
(* DeleteUser, SetUserActive, UpdateUserRole, RevokeAllUserSessions,       *)
(* UpdateUserProfile, and CreateUser of an administrator                   *)

FindUser(c) ==
  /\ \/ Query(c, "delete", IF Finds(ask[c]) THEN "deactivate" ELSE "refused")
     \/ Query(c, "activate", IF Finds(ask[c]) THEN "switch" ELSE "refused")
     \/ Query(c, "role", IF Finds(ask[c]) THEN "grant" ELSE "refused")
     \/ Query(c, "signout", IF Finds(ask[c]) THEN "drop" ELSE "refused")
  /\ UNCHANGED <<tables, call, tokens, rehash, history>>

DeleteUser(c) ==
  /\ Query(c, "deactivate", "revoke")
  /\ SetActive(ask[c], "inactive")
  /\ UNCHANGED <<hash, orgs, resets, call, tokens, rehash, chosen, raced, late, unsaved>>

SetUserActive(c) ==
  /\ Query(c, "switch", "reread")
  /\ \E s \in {"active", "inactive"} : SetActive(ask[c], s)
  /\ UNCHANGED <<hash, orgs, resets, call, tokens, rehash, chosen, raced, late, unsaved>>

UpdateUserRole(c) ==
  /\ Query(c, "grant", "look")
  /\ UNCHANGED <<tables, call, tokens, rehash, history>>

(* The row is committed at once, active or not as the request says.         *)
CreateUser(c) ==
  /\ ~EmailPending(c)
  /\ IF account[ask[c]] = "none"
       THEN /\ Query(c, "make", "drop")
            /\ \E s \in {"active", "inactive"} : SetActive(ask[c], s)
            /\ SetUserPassword(ask[c], word[c]) /\ Choose(ask[c], word[c])
       ELSE Query(c, "make", "refused") /\ UNCHANGED <<account, hash, chosen, raced, stayed>>
  /\ UNCHANGED <<orgs, resets, call, tokens, rehash, late, unsaved>>

(* UpdateUser without a look at the row before: is_active may be among the  *)
(* updates.                                                                 *)
UpdateUserProfile(c) ==
  /\ Query(c, "profile", "show")
  /\ \/ account[ask[c]] # "none" /\ \E s \in {"active", "inactive"} : SetActive(ask[c], s)
     \/ UNCHANGED <<account, stayed>>
  /\ UNCHANGED <<hash, orgs, resets, call, tokens, rehash, chosen, raced, late, unsaved>>

(* UpdateUser ends with GetUserByID: a deactivation is answered with an     *)
(* error, and its sessions are not revoked.                                 *)
RereadUser(c) ==
  /\ \/ Query(c, "reread", IF Finds(ask[c]) THEN "revoke" ELSE "refused")
     \/ Query(c, "show", IF Finds(ask[c]) THEN "drop" ELSE "refused")
     \/ Query(c, "look", IF Finds(ask[c]) THEN "done" ELSE "refused")
  /\ UNCHANGED <<tables, call, tokens, rehash, history>>

-------------------------------------------------------------------------------
(* Organizations, lists and HealthCheck.  orgs has the organizations of     *)
(* registrations only; their names, and is_active, decide nothing here.     *)

(* slugExists, and the INSERT of the repository's CreateOrganization.       *)
FoundOrganization(c) ==
  /\ Query(c, "found", "name") \/ Query(c, "name", "done")
  /\ UNCHANGED <<tables, call, tokens, rehash, history>>

(* It ends with GetOrganizationByID.                                        *)
UpdateOrganization(c) ==
  /\ Query(c, "amend", "list")
  /\ UNCHANGED <<tables, call, tokens, rehash, history>>

(* is_active = false: users still log in, and new ones still join.          *)
DeleteOrganization(c) ==
  /\ Query(c, "close", "done")
  /\ UNCHANGED <<tables, call, tokens, rehash, history>>

(* A COUNT and then the rows, of users; two COUNTs of GetOrganizationStats. *)
ListUsers(c) ==
  /\ Query(c, "count", "list") \/ Query(c, "list", "done")
  /\ UNCHANGED <<tables, call, tokens, rehash, history>>

(* A COUNT, the events, and for each its user and its organization.         *)
GetAuthEvents(c) ==
  /\ Query(c, "events", "list") \/ Query(c, "events", "count")
  /\ UNCHANGED <<tables, call, tokens, rehash, history>>

HealthCheck(c) ==
  /\ Query(c, "ping", "done")
  /\ UNCHANGED <<tables, call, tokens, rehash, history>>

(* A statement fails, or what it finds is refused: WithTx rolls back.       *)
CallFails(c) ==
  /\ \E s \in Running \ {"commit", "issue", "renew", "sign", "stamp", "end", "revoke"} :
       Goto(c, s, "refused")
  /\ UNCHANGED <<tables, call, tokens, rehash, history>>

Proceed(c) ==
  \/ FindNobody(c) \/ BeginRegistration(c) \/ JoinOrganization(c)
  \/ CreateOrganization(c) \/ InsertUser(c) \/ CommitUser(c) \/ IssueTokens(c)
  \/ FindLogin(c) \/ LoadOrganization(c) \/ StartRehash(c) \/ SignTokens(c)
  \/ UpdateLastLogin(c) \/ RefreshToken(c) \/ ValidateToken(c) \/ Revoke(c)
  \/ VerifyCurrent(c) \/ ChangePassword(c) \/ RequestReset(c) \/ CreateReset(c)
  \/ FindReset(c) \/ BeginReset(c) \/ ResetPassword(c) \/ MarkUsed(c) \/ EndReset(c)
  \/ FindUser(c) \/ DeleteUser(c) \/ SetUserActive(c) \/ UpdateUserRole(c)
  \/ CreateUser(c) \/ UpdateUserProfile(c) \/ RereadUser(c)
  \/ FoundOrganization(c) \/ UpdateOrganization(c) \/ DeleteOrganization(c)
  \/ ListUsers(c) \/ GetAuthEvents(c) \/ HealthCheck(c)

Arrive(c) ==
  \/ ComeWithPassword(c) \/ ComeForUser(c) \/ ComeForOrganization(c)
  \/ ComeWithToken(c) \/ ComeWithReset(c)

Next ==
  \/ \E c \in Calls : Arrive(c) \/ Proceed(c) \/ CallFails(c) \/ CommitFails(c)
  \/ Rehash \/ ResetExpires

(* database/sql hands a free connection to one that waits for it.           *)
Spec == Init /\ [][Next]_vars /\ \A c \in Calls : WF_vars(Proceed(c))
-------------------------------------------------------------------------------
Stages == {"idle", "refused", "done", "in"} \cup Running

(* Types of the tables and the calls.                                       *)
TypeOK ==
  /\ account \in [Emails -> {"none", "active", "inactive"}]
  /\ hash \in [Emails -> [word : Passwords, weak : BOOLEAN]]
  /\ orgs \subseteq Callers
  /\ resets \in [Callers -> {"none", "open", "used", "expired"}]
  /\ pc \in [Calls -> Stages]
  /\ ask \in [Callers -> Emails]
  /\ word \in [Calls -> Passwords] /\ reset \in [Calls -> Callers]
  /\ tokens \subseteq Emails
  /\ rehash \subseteq [by : Calls, email : Emails, word : Passwords]
  /\ chosen \in [Emails -> Passwords] /\ raced \subseteq Emails
  /\ late \subseteq Calls /\ stayed \subseteq Calls /\ unsaved \subseteq Calls

(* The password of an account is the one last set by its registration, by   *)
(* ChangePassword or by a reset; only a rehash that was pending when it was *)
(* set can bring an older one back (auth_service.go 231-238).               *)
PasswordKept ==
  \A e \in Emails : account[e] # "none" /\ e \notin raced => hash[e].word = chosen[e]

(* A call that comes in with a reset token already used or out of date sets *)
(* no password; only calls that overlap with the first use can               *)
(* (auth_service.go 518, complete.go 463-481).                              *)
UsedResetRefused == \A c \in late : pc[c] \notin {"open"} \cup Resetting

(* Whose account is inactive from the arrival of a call on gets neither in  *)
(* nor a token, though no token is ever revoked (auth_service.go 320-338).  *)
InactiveStaysOut ==
  \A c \in stayed : pc[c] \notin {"in", "renew", "org", "weak", "sign", "stamp"}

(* Whoever holds tokens has a row, unless they were handed out by a         *)
(* registration whose COMMIT failed (repository.go 468).                    *)
TokensHaveAccounts ==
  \A e \in tokens : account[e] # "none" \/ \E c \in unsaved : ask[c] = e

Inv ==
  TypeOK /\ PasswordKept /\ UsedResetRefused /\ InactiveStaysOut /\ TokensHaveAccounts

(* The comment of Register, "atomic user + organization creation"           *)
(* (auth_service.go 85): a refused registration leaves no organization, and *)
(* one that succeeds leaves a user too.  CreateOrganization commits by      *)
(* itself, so neither holds.                                                *)
AtomicRegistration ==
  \A c \in Calls \cap orgs :
    /\ pc[c] # "refused"
    /\ pc[c] = "done" => account[ask[c]] # "none"

(* Every connection is held by a transaction whose next statement waits for *)
(* another one: none of them will ever be free.                             *)
PoolExhausted ==
  /\ Cardinality(HoldingConnection) = PoolSize
  /\ \A c \in HoldingConnection : pc[c] \in {"join", "create", "password", "mark"}

(* Every call ends, however long it waits for a connection or for the       *)
(* transaction that inserted its email, unless the transactions of WithTx   *)
(* have used up the pool (repository.go 455-482, sql.DB).                   *)
EveryCallEnds ==
  \A c \in Calls : pc[c] \in Running ~> pc[c] \notin Running \/ PoolExhausted

(* "Create a new repository instance with the transaction" (repository.go   *)
(* 472): what runs on the transaction waits for no other connection, so a   *)
(* transaction that has begun comes to its end.                             *)
EveryTransactionEnds == \A c \in Calls : InTx(c) ~> ~InTx(c)
===============================================================================
