------------------------------- MODULE ApiKeys -------------------------------
(***************************************************************************)
(* The table api_keys and the handlers of pkg/auth/apikey_handlers.go that *)
(* run on it concurrently.  Each SQL statement is atomic and is a step of  *)
(* its own; no handler opens a transaction, so everything may happen       *)
(* between the SELECT that checks a key and the UPDATE that changes it,    *)
(* and between the SELECT of the active keys and the verdict on one.       *)
(***************************************************************************)
EXTENDS Naturals, FiniteSets

CONSTANTS
  Users, OrgOf,   \* signed-in users (authMiddleware) and their organizations
  Keys,           \* rows of api_keys, each with the value it was created with
  TestKeys,       \* the values fallbackToTestKeysTemp accepts
  Calls,          \* concurrent requests
  MaxTime,        \* bound: the clock
  Never,          \* expires_at IS NULL
  Nothing         \* no key, nobody

ASSUME SetsAssumption ==
  /\ Nothing \notin Keys \cup TestKeys \cup Users
  /\ Keys \cap TestKeys = {}
ASSUME TimeAssumption == MaxTime \in Nat /\ Never \notin Nat

VARIABLES
  \* the table
  status, owner, expiresAt,
  now,          \* time.Now()
  \* each request
  pc,           \* which handler it is in, and where
  who,          \* the signed-in user, of a management request
  key,          \* the id in the path, or the value presented
  listed,       \* rows of the SELECT in validateAPIKeyFromDatabaseTemp
  \* history of a request that presents a key
  late,         \* its key was dead when it came in
  vouched       \* its key was alive when the active keys were selected

table == <<status, owner, expiresAt>>
call  == <<who, key, listed, late, vouched>>
vars  == <<table, now, pc, call>>

Inactive == {"revoked", "expired", "deleted"}

Stages == {"idle", "revoking", "deleting", "select", "check", "expiring",
           "answered", "admitted", "refused", "test"}

Dates == 0..MaxTime \cup {Never}

(* time.Now().After(expires_at)                                             *)
Expired(k) == expiresAt[k] # Never /\ now > expiresAt[k]

(* No request may pass with key k any more.                                 *)
Dead(k) == status[k] \in Inactive \/ (status[k] = "active" /\ Expired(k))

Alive(k) == status[k] = "active" /\ ~Expired(k)

Init ==
  /\ status    = [k \in Keys |-> "none"]
  /\ owner     = [k \in Keys |-> Nothing]
  /\ expiresAt = [k \in Keys |-> Never]
  /\ now     = 0
  /\ pc      = [c \in Calls |-> "idle"]
  /\ who     = [c \in Calls |-> Nothing]
  /\ key     = [c \in Calls |-> Nothing]
  /\ listed  = [c \in Calls |-> {}]
  /\ late    = [c \in Calls |-> FALSE]
  /\ vouched = [c \in Calls |-> FALSE]

Goto(c, from, to) == pc[c] = from /\ pc' = [pc EXCEPT ![c] = to]

SetStatus(k, s) ==
  status' = [status EXCEPT ![k] = s] /\ UNCHANGED <<owner, expiresAt>>

-------------------------------------------------------------------------------
(* Management                                                              *)

(* HandleCreateAPIKey, one INSERT: any date is taken, a past one too.        *)
CreateAPIKey ==
  /\ \E u \in Users, k \in Keys, d \in Dates :
       /\ status[k] = "none"
       /\ status'    = [status EXCEPT ![k] = "active"]
       /\ owner'     = [owner EXCEPT ![k] = u]
       /\ expiresAt' = [expiresAt EXCEPT ![k] = d]
  /\ UNCHANGED <<now, pc, call>>

(* Mutant: one of the two comparisons is dropped.                           *)
AnyUser(u, k) == u \in Users

(* "Check if user owns the key or is in the same organization".             *)
Permitted(u, k) == owner[k] = u \/ OrgOf[owner[k]] = OrgOf[u]

(* HandleRevokeAPIKey up to its UPDATE: 404, 403 or go on.                  *)
RevokeCheck(c) ==
  /\ pc[c] = "idle"
  /\ \E u \in Users, k \in Keys :
       /\ who' = [who EXCEPT ![c] = u]
       /\ key' = [key EXCEPT ![c] = k]
       /\ IF status[k] = "active" /\ Permitted(u, k)
            THEN Goto(c, "idle", "revoking")
            ELSE Goto(c, "idle", "answered")
  /\ UNCHANGED <<table, now, listed, late, vouched>>

(* UPDATE api_keys SET status = 'revoked' WHERE id = ?                      *)
RevokeWrite(c) ==
  /\ Goto(c, "revoking", "answered")
  /\ SetStatus(key[c], "revoked")
  /\ UNCHANGED <<now, call>>

(* HandleDeleteAPIKey, which finds a key whatever its status.               *)
DeleteCheck(c) ==
  /\ pc[c] = "idle"
  /\ \E u \in Users, k \in Keys :
       /\ who' = [who EXCEPT ![c] = u]
       /\ key' = [key EXCEPT ![c] = k]
       /\ IF status[k] # "none" /\ Permitted(u, k)
            THEN Goto(c, "idle", "deleting")
            ELSE Goto(c, "idle", "answered")
  /\ UNCHANGED <<table, now, listed, late, vouched>>

DeleteWrite(c) ==
  /\ Goto(c, "deleting", "answered")
  /\ SetStatus(key[c], "deleted")
  /\ UNCHANGED <<now, call>>

(* The statement of a management request fails: 500, nothing is changed.    *)
RequestFails(c) ==
  /\ Goto(c, "idle", "answered") \/ Goto(c, "revoking", "answered")
     \/ Goto(c, "deleting", "answered")
  /\ UNCHANGED <<table, now, call>>

-------------------------------------------------------------------------------
(* APIKeyMiddleware                                                        *)

(* A request comes in with the value of a key or a test key.                *)
Present(c) ==
  /\ Goto(c, "idle", "select")
  /\ \E v \in Keys \cup TestKeys :
       /\ v \in Keys => status[v] # "none"
       /\ key'  = [key EXCEPT ![c] = v]
       /\ late' = [late EXCEPT ![c] = v \in Keys /\ Dead(v)]
  /\ UNCHANGED <<table, now, who, listed, vouched>>

(* Mutant: the WHERE clause is dropped.                                     *)
AllKeys == {k \in Keys : status[k] # "none"}

ActiveKeys == {k \in Keys : status[k] = "active"}

(* SELECT ... FROM api_keys WHERE status = 'active'                         *)
SelectActive(c) ==
  /\ Goto(c, "select", "check")
  /\ listed'  = [listed EXCEPT ![c] = ActiveKeys]
  /\ vouched' = [vouched EXCEPT ![c] = key[c] \in Keys /\ Alive(key[c])]
  /\ UNCHANGED <<table, now, who, key, late>>

(* The SELECT fails: the test keys decide, and no other value passes.       *)
TestKeyFallback(c) ==
  /\ IF key[c] \in TestKeys THEN Goto(c, "select", "test")
                            ELSE Goto(c, "select", "refused")
  /\ UNCHANGED <<table, now, call>>

(* Mutant: the date is not looked at.                                       *)
AdmitListed(c) ==
  /\ Goto(c, "check", "admitted")
  /\ key[c] \in listed[c]
  /\ UNCHANGED <<table, now, call>>

(* The one row whose hash fits is in the result and not out of date.        *)
Admit(c) ==
  /\ Goto(c, "check", "admitted")
  /\ key[c] \in listed[c] /\ ~Expired(key[c])
  /\ UNCHANGED <<table, now, call>>

FoundExpired(c) ==
  /\ Goto(c, "check", "expiring")
  /\ key[c] \in listed[c] /\ Expired(key[c])
  /\ UNCHANGED <<table, now, call>>

(* UPDATE api_keys SET status = 'expired' WHERE id = ?, its error ignored.  *)
MarkExpired(c) ==
  /\ Goto(c, "expiring", "refused")
  /\ SetStatus(key[c], "expired") \/ UNCHANGED table
  /\ UNCHANGED <<now, call>>

(* No row fits, or the row got lost: a Scan error skips it, and rows.Err is *)
(* not looked at.                                                           *)
NotFound(c) ==
  /\ Goto(c, "check", "refused")
  /\ UNCHANGED <<table, now, call>>

Tick ==
  /\ now < MaxTime
  /\ now' = now + 1
  /\ UNCHANGED <<table, pc, call>>

Manage(c) ==
  \/ RevokeCheck(c) \/ RevokeWrite(c) \/ DeleteCheck(c) \/ DeleteWrite(c)
  \/ RequestFails(c)

Validate(c) ==
  \/ Present(c) \/ SelectActive(c) \/ TestKeyFallback(c) \/ Admit(c)
  \/ FoundExpired(c) \/ MarkExpired(c) \/ NotFound(c)

Next == (\E c \in Calls : Manage(c) \/ Validate(c)) \/ CreateAPIKey \/ Tick

Spec == Init /\ [][Next]_vars
-------------------------------------------------------------------------------
(* Types of the table and of the requests.                                 *)
TypeOK ==
  /\ status \in [Keys -> {"none", "active"} \cup Inactive]
  /\ owner \in [Keys -> Users \cup {Nothing}]
  /\ expiresAt \in [Keys -> Dates]
  /\ now \in 0..MaxTime
  /\ pc \in [Calls -> Stages]
  /\ who \in [Calls -> Users \cup {Nothing}]
  /\ key \in [Calls -> Keys \cup TestKeys \cup {Nothing}]
  /\ listed \in [Calls -> SUBSET Keys]
  /\ late \in [Calls -> BOOLEAN] /\ vouched \in [Calls -> BOOLEAN]

(* The handlers implement Access: a snapshot of the active keys, a clock    *)
(* read later and an unconditional UPDATE let nobody in whose key was not   *)
(* alive at one moment of the request (apikey_handlers.go 441-486).         *)
Life ==
  [k \in Keys |-> CASE status[k] = "none" -> "unborn"
                    [] Alive(k)           -> "live"
                    [] OTHER              -> "dead"]

Validating == {"select", "check", "expiring", "admitted", "refused"}

Uses ==
  [c \in Calls |->
     IF key[c] \in Keys /\ pc[c] \in Validating THEN key[c] ELSE Nothing]

Phase ==
  [c \in Calls |->
     IF key[c] \in Keys /\ pc[c] \in Validating
       THEN CASE pc[c] = "admitted" -> "in"
              [] pc[c] = "refused"  -> "out"
              [] OTHER              -> IF vouched[c] THEN "vouched" ELSE "asking"
       ELSE "away"]

Promise == INSTANCE Access WITH life <- Life, uses <- Uses, phase <- Phase

RefinesAccess == Promise!Spec

(* A key that is dead when a request comes in does not let it in, though    *)
(* statuses are overwritten by whoever writes last (apikey_handlers.go 252, *)
(* 311, 475) and no read is repeated.                                       *)
DeadKeyRefused == \A c \in Calls : late[c] => pc[c] # "admitted"

(* Parts of the inductive invariant behind both.                            *)
LateIsDead ==
  \A c \in Calls :
    late[c] => ~vouched[c] /\ key[c] \in Keys /\ Dead(key[c])

(* A row that was listed but not alive is out of date, and stays so.        *)
ListedWasActive ==
  \A c \in Calls :
    /\ pc[c] \in {"check", "expiring"} /\ key[c] \in listed[c] =>
         status[key[c]] # "none" /\ (vouched[c] \/ Expired(key[c]))
    /\ pc[c] = "expiring" => key[c] \in listed[c] /\ Expired(key[c])
    /\ pc[c] = "admitted" => vouched[c]

(* Who presents a key, revokes or deletes one names a row of the table.     *)
KeyExists ==
  \A c \in Calls :
    /\ key[c] \in Keys /\ pc[c] # "answered" => status[key[c]] # "none"
    /\ pc[c] \in {"revoking", "deleting"} =>
         key[c] \in Keys /\ Permitted(who[c], key[c])
    /\ late[c] \/ vouched[c] => pc[c] \in Validating
    /\ pc[c] = "select" => ~vouched[c]
    /\ pc[c] = "idle" => key[c] = Nothing

Inv == TypeOK /\ LateIsDead /\ ListedWasActive /\ KeyExists

(* A key is revoked or deleted only for a user who owns it or belongs to    *)
(* its organization, whoever acts in between (apikey_handlers.go 245, 304). *)
OnlyByItsTenant ==
  [][\A k \in Keys :
       status'[k] # status[k] /\ status'[k] \in {"revoked", "deleted"} =>
         \E c \in Calls :
           /\ pc[c] # pc'[c] /\ key[c] = k
           /\ who[c] = owner[k] \/ OrgOf[who[c]] = OrgOf[owner[k]]]_vars

(* swagger.yaml 392 "Permanently deletes an API key": a deleted key stays   *)
(* deleted and out of every list.                                           *)
DeletedForGood ==
  [][\A k \in Keys : status[k] = "deleted" => status'[k] = "deleted"]_vars
===============================================================================
