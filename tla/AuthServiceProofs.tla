--------------------------- MODULE AuthServiceProofs ---------------------------
(***************************************************************************)
(* Proofs about AuthService, for any calls, emails, passwords and size of  *)
(* the pool.  Each property has an inductive invariant of its own; the     *)
(* steps that only move a call from one statement to the next are treated  *)
(* together.                                                               *)
(***************************************************************************)
EXTENDS AuthService, TLAPS

state == <<tables, call, tokens, rehash, history>>

(* Statements that only read.                                               *)
Reads(c) ==
  \/ FindNobody(c) \/ BeginRegistration(c) \/ JoinOrganization(c) \/ InsertUser(c)
  \/ LoadOrganization(c) \/ UpdateLastLogin(c) \/ RefreshToken(c) \/ ValidateToken(c)
  \/ Revoke(c) \/ VerifyCurrent(c) \/ RequestReset(c) \/ FindReset(c) \/ BeginReset(c)
  \/ EndReset(c) \/ FindUser(c) \/ UpdateUserRole(c) \/ RereadUser(c)
  \/ FoundOrganization(c) \/ UpdateOrganization(c) \/ DeleteOrganization(c)
  \/ ListUsers(c) \/ GetAuthEvents(c) \/ HealthCheck(c) \/ CallFails(c)

Signed == {"in", "renew", "org", "weak", "sign", "stamp"}

(* What a call that only moves can come to.                                 *)
Move(c, from, to) ==
  /\ Goto(c, from, to) /\ UNCHANGED state
  /\ from \in Running \ {"commit", "issue"} /\ to \in Stages \ {"idle", "issue", "weak"}
  /\ to \in Signed => from \in Signed \ {"in", "stamp"} \/ Finds(ask[c])
  /\ from = "confirm" /\ ~Usable(reset[c]) => to = "refused"
  /\ from = "insert" => to \in {"commit", "refused"}

(* A step that only reads takes one call from a stage to a stage.           *)
LEMMA ReadsMove ==
  ASSUME NEW c \in Calls, Reads(c)
  PROVE  \E from, to \in Stages : Move(c, from, to)
<1> USE DEF Query, Goto, Move, Stages, Running, Registering, Resetting, Signed, state, Finds
<1>1. CASE FindNobody(c) \/ BeginRegistration(c) \/ JoinOrganization(c) \/ InsertUser(c)
  BY <1>1 DEF FindNobody, BeginRegistration, JoinOrganization, InsertUser
<1>2. CASE LoadOrganization(c) \/ UpdateLastLogin(c) \/ RefreshToken(c) \/ ValidateToken(c)
  BY <1>2 DEF LoadOrganization, UpdateLastLogin, RefreshToken, ValidateToken
<1>3. CASE Revoke(c) \/ VerifyCurrent(c) \/ RequestReset(c)
  BY <1>3 DEF Revoke, VerifyCurrent, RequestReset
<1>4. CASE FindReset(c) \/ BeginReset(c) \/ EndReset(c)
  BY <1>4 DEF FindReset, BeginReset, EndReset
<1>5. CASE FindUser(c) \/ UpdateUserRole(c)
  BY <1>5 DEF FindUser, UpdateUserRole
<1>6. CASE FoundOrganization(c) \/ UpdateOrganization(c) \/ DeleteOrganization(c)
  BY <1>6 DEF FoundOrganization, UpdateOrganization, DeleteOrganization
<1>7. CASE ListUsers(c) \/ GetAuthEvents(c) \/ HealthCheck(c)
  BY <1>7 DEF ListUsers, GetAuthEvents, HealthCheck
<1>8. CASE RereadUser(c)
  BY <1>8 DEF RereadUser
<1>9. CASE CallFails(c)
  BY <1>9 DEF CallFails
<1> QED
  BY <1>1, <1>2, <1>3, <1>4, <1>5, <1>6, <1>7, <1>8, <1>9, Zenon DEF Reads

(* The steps of a call that write, of which each has an effect of its own.  *)
Writes(c) ==
  \/ CreateOrganization(c) \/ CommitUser(c) \/ CommitFails(c) \/ IssueTokens(c)
  \/ FindLogin(c) \/ StartRehash(c) \/ SignTokens(c) \/ ChangePassword(c)
  \/ CreateReset(c) \/ ResetPassword(c) \/ MarkUsed(c) \/ DeleteUser(c)
  \/ SetUserActive(c) \/ CreateUser(c) \/ UpdateUserProfile(c)

(* A step of the service is an arrival, a write, a read, a rehash in the    *)
(* background, or a reset token that runs out.                              *)
LEMMA Steps ==
  ASSUME Next
  PROVE  \/ \E c \in Calls : Arrive(c) \/ Writes(c)
         \/ \E c \in Calls : \E from, to \in Stages : Move(c, from, to)
         \/ Rehash \/ ResetExpires
<1>1. ASSUME NEW c \in Calls, Proceed(c) \/ CallFails(c) \/ CommitFails(c)
      PROVE  Reads(c) \/ Writes(c)
  BY <1>1, Zenon DEF Proceed, Reads, Writes
<1> QED
  BY <1>1, ReadsMove, Zenon DEF Next

(* A login goes on only with an account it has found and the password that  *)
(* opens it.                                                                *)
LEMMA LoginFinds ==
  ASSUME NEW c \in Calls, FindLogin(c)
  PROVE  /\ pc[c] = "login" /\ UNCHANGED state
         /\ \/ pc' = [pc EXCEPT ![c] = "refused"]
            \/ /\ Finds(ask[c]) /\ hash[ask[c]].word = word[c]
               /\ pc' = [pc EXCEPT ![c] = "weak"] \/ pc' = [pc EXCEPT ![c] = "org"]
<1> USE DEF FindLogin, Query, Goto, state
<1>1. CASE ~Finds(ask[c]) \/ hash[ask[c]].word # word[c]
  BY <1>1
<1>2. CASE Finds(ask[c]) /\ hash[ask[c]].word = word[c] /\ hash[ask[c]].weak
  BY <1>2
<1>3. CASE Finds(ask[c]) /\ hash[ask[c]].word = word[c] /\ ~hash[ask[c]].weak
  BY <1>3
<1> QED
  BY <1>1, <1>2, <1>3

(* A call brings a request, as Begin says, whatever it asks for.            *)
Comes(c) ==
  /\ \E e \in Emails, op \in Running : Begin(c, op, e) /\ op \notin Signed \cup Resetting \cup {"open", "insert", "commit", "issue"}
  /\ word' \in [Calls -> Passwords] /\ \A d \in Calls \ {c} : word'[d] = word[d]
  /\ reset' \in [Calls -> Callers] /\ \A d \in Calls \ {c} : reset'[d] = reset[d]
  /\ reset'[c] = reset[c] \/ resets[reset'[c]] # "none"
  /\ \/ late' = late
     \/ late' = late \cup {c} /\ pc'[c] = "confirm" /\ resets[reset'[c]] \in {"used", "expired"}

(* A call that comes in changes nothing but its own record.                 *)
LEMMA ArriveComes ==
  ASSUME TypeOK, NEW c \in Calls, Arrive(c)
  PROVE  Comes(c)
<1> USE DEF TypeOK, Comes, Running, Registering, Resetting, Signed
<1>1. CASE ComeWithPassword(c)
  BY <1>1 DEF ComeWithPassword
<1>2. CASE ComeForUser(c)
  BY <1>2 DEF ComeForUser
<1>3. CASE ComeForOrganization(c)
  BY <1>3 DEF ComeForOrganization, Emails
<1>4. CASE ComeWithToken(c)
  BY <1>4 DEF ComeWithToken
<1>5. CASE ComeWithReset(c)
  <2>1. PICK t \in Callers, w \in Passwords :
             /\ resets[t] # "none" /\ Begin(c, "confirm", ask[t])
             /\ word'  = [word EXCEPT ![c] = w]
             /\ reset' = [reset EXCEPT ![c] = t]
             /\ late'  = IF resets[t] # "open" THEN late \cup {c} ELSE late
    BY <1>5 DEF ComeWithReset
  <2>2. ask[t] \in Emails /\ resets[t] \in {"none", "open", "used", "expired"}
    OBVIOUS
  <2>3. pc'[c] = "confirm"
    BY <2>1 DEF Begin, Goto
  <2> QED
    BY <2>1, <2>2, <2>3
<1> QED
  BY <1>1, <1>2, <1>3, <1>4, <1>5, Zenon DEF Arrive
-------------------------------------------------------------------------------
(* Types                                                                   *)

(* Writing a hash keeps the types.                                          *)
LEMMA PasswordTypes ==
  ASSUME TypeOK, NEW e \in Emails, NEW w \in Passwords
  PROVE  /\ SetUserPassword(e, w) => hash' \in [Emails -> [word : Passwords, weak : BOOLEAN]]
         /\ Choose(e, w) => chosen' \in [Emails -> Passwords] /\ raced' \subseteq Emails
<1>1. [hash EXCEPT ![e] = Strong(w)] \in [Emails -> [word : Passwords, weak : BOOLEAN]]
  BY DEF TypeOK, Strong
<1>2. SetUserPassword(e, w) => hash' \in [Emails -> [word : Passwords, weak : BOOLEAN]]
  BY <1>1 DEF SetUserPassword
<1>3. Choose(e, w) => chosen' \in [Emails -> Passwords]
  BY DEF TypeOK, Choose
<1>4. Choose(e, w) => raced' \subseteq Emails
  BY DEF TypeOK, Choose
<1> QED
  BY <1>2, <1>3, <1>4

(* Activating and deactivating keep the types.                              *)
LEMMA ActiveTypes ==
  ASSUME TypeOK, NEW e \in Emails, NEW s \in {"active", "inactive"}, SetActive(e, s)
  PROVE  account' \in [Emails -> {"none", "active", "inactive"}] /\ stayed' \subseteq Calls
BY DEF TypeOK, SetActive

(* Every step keeps the types.                                              *)
LEMMA TypeStep ==
  ASSUME TypeOK, ServiceAssumption, [Next]_vars
  PROVE  TypeOK'
<1> USE DEF TypeOK, Query, Goto, Stages, Running, Registering, Resetting, tables, call, history
<1>1. ASSUME NEW c \in Calls, Arrive(c)
      PROVE  TypeOK'
  <2>1. PICK e \in Emails, op \in Running : Begin(c, op, e)
    BY <1>1, ArriveComes DEF Comes
  <2>2. word' \in [Calls -> Passwords] /\ reset' \in [Calls -> Callers]
    BY <1>1, ArriveComes DEF Comes
  <2>4. late' = late \/ late' = late \cup {c}
    BY <1>1, ArriveComes, Zenon DEF Comes
  <2>3. ask' \in [Callers -> Emails] /\ pc' \in [Calls -> Stages] /\ stayed' \subseteq Calls
    BY <2>1 DEF Begin
  <2> QED
    BY <2>1, <2>2, <2>3, <2>4 DEF Begin
<1>2. ASSUME NEW c \in Calls, NEW from \in Stages, NEW to \in Stages, Move(c, from, to)
      PROVE  TypeOK'
  BY <1>2 DEF Move, state
<1>3. ASSUME NEW c \in Calls, Writes(c)
      PROVE  TypeOK'
  <2>0. ask[c] \in Emails /\ word[c] \in Passwords
    BY DEF Callers
  <2>1. CASE CreateOrganization(c)
    BY <2>1 DEF CreateOrganization, Callers
  <2>2. CASE CommitUser(c)
    BY <2>2, <2>0, PasswordTypes, ActiveTypes DEF CommitUser
  <2>3. CASE CommitFails(c)
    BY <2>3 DEF CommitFails
  <2>4. CASE IssueTokens(c)
    <3>1. pc' \in [Calls -> Stages]
      BY <2>4 DEF IssueTokens
    <3>2. tokens' \subseteq Emails /\ UNCHANGED <<tables, call, rehash, history>>
      BY <2>4, <2>0 DEF IssueTokens
    <3> QED
      BY <3>1, <3>2
  <2>5. CASE FindLogin(c)
    <3>1. UNCHANGED <<tables, call, tokens, rehash, history>>
      BY <2>5 DEF FindLogin
    <3>2. pc' \in [Calls -> Stages]
      BY <2>5 DEF FindLogin
    <3> QED
      BY <3>1, <3>2
  <2>6. CASE StartRehash(c)
    BY <2>6 DEF StartRehash, Callers
  <2>7. CASE SignTokens(c)
    BY <2>7 DEF SignTokens, Callers
  <2>8. CASE ChangePassword(c)
    BY <2>8, <2>0, PasswordTypes DEF ChangePassword
  <2>9. CASE CreateReset(c)
    BY <2>9 DEF CreateReset
  <2>10. CASE ResetPassword(c)
    BY <2>10, <2>0, PasswordTypes DEF ResetPassword
  <2>11. CASE MarkUsed(c)
    BY <2>11 DEF MarkUsed
  <2>12. CASE DeleteUser(c)
    BY <2>12, <2>0, ActiveTypes DEF DeleteUser
  <2>13. CASE SetUserActive(c)
    BY <2>13, <2>0, ActiveTypes DEF SetUserActive
  <2>14. CASE CreateUser(c)
    <3>1. /\ account' \in [Emails -> {"none", "active", "inactive"}] /\ stayed' \subseteq Calls
          /\ hash' \in [Emails -> [word : Passwords, weak : BOOLEAN]]
          /\ chosen' \in [Emails -> Passwords] /\ raced' \subseteq Emails
      BY <2>14, <2>0, PasswordTypes, ActiveTypes DEF CreateUser
    <3>2. pc' = [pc EXCEPT ![c] = "drop"] \/ pc' = [pc EXCEPT ![c] = "refused"]
      BY <2>14, Zenon DEF CreateUser
    <3>3. pc' \in [Calls -> Stages]
      BY <3>2
    <3> QED
      BY <2>14, <3>1, <3>3 DEF CreateUser
  <2>15. CASE UpdateUserProfile(c)
    BY <2>15, <2>0, ActiveTypes DEF UpdateUserProfile
  <2> QED
    BY <1>3, <2>1, <2>2, <2>3, <2>4, <2>5, <2>6, <2>7, <2>8, <2>9, <2>10, <2>11, <2>12,
       <2>13, <2>14, <2>15, Zenon DEF Writes
<1>4. CASE Rehash
  <2>1. PICK r \in rehash : /\ rehash' = rehash \ {r}
                            /\ SetUserPassword(r.email, r.word) \/ UNCHANGED hash
    BY <1>4 DEF Rehash
  <2>2. r.email \in Emails /\ r.word \in Passwords
    OBVIOUS
  <2>3. hash' \in [Emails -> [word : Passwords, weak : BOOLEAN]]
    BY <2>1, <2>2, PasswordTypes
  <2> QED
    BY <1>4, <2>1, <2>3 DEF Rehash
<1>5. CASE ResetExpires
  BY <1>5 DEF ResetExpires
<1>6. CASE UNCHANGED vars
  BY <1>6 DEF vars
<1> QED
  BY <1>1, <1>2, <1>3, <1>4, <1>5, <1>6, Steps, Zenon
-------------------------------------------------------------------------------
(* Passwords                                                               *)

(* A rehash, begun or about to begin, brings the password that is there, or *)
(* the user counts as raced.                                                *)
PasswordInv ==
  /\ \A e \in Emails : e \in raced \/ hash[e].word = chosen[e]
  /\ \A r \in rehash : r.email \in raced \/ r.word = chosen[r.email]
  /\ \A c \in Calls : pc[c] = "weak" => ask[c] \in raced \/ word[c] = chosen[ask[c]]

(* Whoever chooses a password writes the hash of just that password.        *)
LEMMA ChooseKeeps ==
  ASSUME TypeOK, PasswordInv, NEW c \in Calls, pc[c] # "weak",
         NEW to \in Stages \ {"weak"}, pc' = [pc EXCEPT ![c] = to], UNCHANGED <<ask, word, rehash>>,
         NEW w \in Passwords, SetUserPassword(ask[c], w), Choose(ask[c], w)
  PROVE  PasswordInv'
<1> DEFINE e == ask[c]
<1>0. e \in Emails
  BY DEF TypeOK, Callers
<1>1. hash' = [hash EXCEPT ![e] = Strong(w)] /\ chosen' = [chosen EXCEPT ![e] = w]
  BY DEF SetUserPassword, Choose
<1>2. hash'[e].word = w /\ chosen'[e] = w
  BY <1>0, <1>1 DEF TypeOK, Strong
<1>3. \A f \in Emails \ {e} : hash'[f] = hash[f] /\ chosen'[f] = chosen[f] /\ (f \in raced <=> f \in raced')
  BY <1>0, <1>1 DEF TypeOK, Choose
<1>4. RehashPending(e) => e \in raced'
  BY DEF Choose
<1>5. ASSUME NEW f \in Emails
      PROVE  f \in raced' \/ hash'[f].word = chosen'[f]
  BY <1>2, <1>3 DEF PasswordInv
<1>6. ASSUME NEW r \in rehash
      PROVE  r.email \in raced' \/ r.word = chosen'[r.email]
  <2>1. r.email \in Emails
    BY DEF TypeOK
  <2>2. CASE r.email = e
    BY <2>2, <1>4 DEF RehashPending
  <2>3. CASE r.email # e
    BY <2>1, <2>3, <1>3 DEF PasswordInv
  <2> QED
    BY <2>2, <2>3
<1>7. ASSUME NEW d \in Calls, pc'[d] = "weak"
      PROVE  ask[d] \in raced' \/ word[d] = chosen'[ask[d]]
  <2>1. pc[d] = "weak" /\ ask[d] \in Emails
    BY <1>7 DEF TypeOK, Callers
  <2>2. CASE ask[d] = e
    BY <2>1, <2>2, <1>4 DEF RehashPending
  <2>3. CASE ask[d] # e
    BY <2>1, <2>3, <1>3 DEF PasswordInv
  <2> QED
    BY <2>2, <2>3
<1> QED
  BY <1>5, <1>6, <1>7 DEF PasswordInv

(* Every step keeps hashes and chosen passwords together, but for the       *)
(* accounts a rehash has raced for.                                         *)
LEMMA PasswordStep ==
  ASSUME TypeOK, PasswordInv, ServiceAssumption, [Next]_vars
  PROVE  PasswordInv'
<1> USE DEF Query, Goto, tables, call, history
<1>1. ASSUME NEW c \in Calls, Arrive(c)
      PROVE  PasswordInv'
  <2>1. PICK e \in Emails, op \in Running : Begin(c, op, e) /\ op # "weak"
    BY <1>1, ArriveComes DEF Comes, Signed
  <2>2. \A d \in Calls \ {c} : word'[d] = word[d]
    BY <1>1, ArriveComes DEF Comes
  <2>3. \A d \in Calls \ {c} : ask'[d] = ask[d] /\ pc'[d] = pc[d]
    BY <2>1 DEF Begin, TypeOK, Callers
  <2>4. pc'[c] # "weak"
    BY <2>1 DEF Begin, TypeOK
  <2> QED
    BY <2>1, <2>2, <2>3, <2>4 DEF Begin, PasswordInv
<1>2. ASSUME NEW c \in Calls, NEW from \in Stages, NEW to \in Stages, Move(c, from, to)
      PROVE  PasswordInv'
  BY <1>2 DEF Move, state, PasswordInv, TypeOK
<1>3. ASSUME NEW c \in Calls, Writes(c)
      PROVE  PasswordInv'
  <2>0. ask[c] \in Emails /\ word[c] \in Passwords
    BY DEF TypeOK, Callers
  <2>1. CASE CommitUser(c) \/ ChangePassword(c) \/ ResetPassword(c)
    <3>1. /\ SetUserPassword(ask[c], word[c]) /\ Choose(ask[c], word[c])
          /\ UNCHANGED <<ask, word, rehash>>
      BY <2>1 DEF CommitUser, ChangePassword, ResetPassword
    <3>2. /\ pc[c] # "weak"
          /\ \E to \in Stages \ {"weak"} : pc' = [pc EXCEPT ![c] = to]
      BY <2>1 DEF CommitUser, ChangePassword, ResetPassword, Stages, Running, Resetting
    <3> QED
      BY <2>0, <3>1, <3>2, ChooseKeeps
  <2>2. CASE CreateUser(c)
    <3>1. CASE account[ask[c]] = "none"
      <4>1. /\ SetUserPassword(ask[c], word[c]) /\ Choose(ask[c], word[c])
            /\ UNCHANGED <<ask, word, rehash>>
        BY <2>2, <3>1 DEF CreateUser
      <4>2. /\ pc[c] # "weak"
            /\ \E to \in Stages \ {"weak"} : pc' = [pc EXCEPT ![c] = to]
        BY <2>2, <3>1 DEF CreateUser, Stages, Running
      <4> QED
        BY <2>0, <4>1, <4>2, ChooseKeeps
    <3>2. CASE account[ask[c]] # "none"
      BY <2>2, <3>2 DEF CreateUser, PasswordInv, TypeOK
    <3> QED
      BY <3>1, <3>2
  <2>3. CASE FindLogin(c)
    <3>1. UNCHANGED <<hash, chosen, raced, rehash, ask, word>>
      BY <2>3 DEF FindLogin
    <3>2. \A d \in Calls \ {c} : pc'[d] = pc[d]
      BY <2>3, LoginFinds DEF TypeOK
    <3>3. pc'[c] = "weak" => hash[ask[c]].word = word[c]
      BY <2>3, LoginFinds DEF TypeOK
    <3> QED
      BY <2>0, <3>1, <3>2, <3>3 DEF PasswordInv
  <2>4. CASE StartRehash(c)
    BY <2>4 DEF StartRehash, PasswordInv, TypeOK
  <2>5. CASE CreateOrganization(c) \/ CommitFails(c) \/ IssueTokens(c) \/ SignTokens(c)
    BY <2>5 DEF CreateOrganization, CommitFails, IssueTokens, SignTokens, PasswordInv, TypeOK
  <2>6. CASE CreateReset(c) \/ MarkUsed(c)
    BY <2>6 DEF CreateReset, MarkUsed, PasswordInv, TypeOK
  <2>7. CASE DeleteUser(c) \/ SetUserActive(c) \/ UpdateUserProfile(c)
    <3>1. /\ UNCHANGED <<hash, chosen, raced, rehash, ask, word>>
          /\ \E to \in Stages \ {"weak"} : pc' = [pc EXCEPT ![c] = to]
      BY <2>7 DEF DeleteUser, SetUserActive, UpdateUserProfile, Stages, Running
    <3> QED
      BY <3>1 DEF PasswordInv, TypeOK
  <2> QED
    BY <1>3, <2>1, <2>2, <2>3, <2>4, <2>5, <2>6, <2>7, Zenon DEF Writes
<1>4. CASE Rehash
  <2>1. PICK r \in rehash : /\ rehash' = rehash \ {r}
                            /\ SetUserPassword(r.email, r.word) \/ UNCHANGED hash
    BY <1>4 DEF Rehash
  <2>2. r.email \in Emails /\ (r.email \in raced \/ r.word = chosen[r.email])
    BY DEF TypeOK, PasswordInv
  <2>3. UNCHANGED <<pc, ask, word, chosen, raced>>
    BY <1>4 DEF Rehash
  <2>4. ASSUME NEW e \in Emails
        PROVE  e \in raced \/ hash'[e].word = chosen[e]
    BY <2>1, <2>2 DEF TypeOK, PasswordInv, SetUserPassword, Strong
  <2> QED
    BY <2>1, <2>3, <2>4 DEF PasswordInv
<1>5. CASE ResetExpires
  BY <1>5 DEF ResetExpires, PasswordInv
<1>6. CASE UNCHANGED vars
  BY <1>6 DEF vars, PasswordInv
<1> QED
  BY <1>1, <1>2, <1>3, <1>4, <1>5, <1>6, Steps, Zenon
-------------------------------------------------------------------------------
(* Reset tokens                                                            *)

(* A call's reset token is there when the call is over, and the ones that   *)
(* are brought are there; what a late call brings stays unusable, and the   *)
(* call's first look at it refuses it.                                      *)
ResetInv ==
  /\ \A c \in Calls : resets[c] # "none" => pc[c] = "done"
  /\ \A c \in Calls : resets[reset[c]] # "none"
  /\ \A c \in late : pc[c] \in {"confirm", "refused"} /\ resets[reset[c]] \in {"used", "expired"}

(* Every step keeps used reset tokens used, and late calls in front of the  *)
(* check.                                                                   *)
LEMMA ResetStep ==
  ASSUME TypeOK, ResetInv, ServiceAssumption, [Next]_vars
  PROVE  ResetInv'
<1> USE DEF Query, Goto, tables, call, history, ResetInv
<1>1. ASSUME NEW c \in Calls, Arrive(c)
      PROVE  ResetInv'
  <2>1. PICK e \in Emails, op \in Running : Begin(c, op, e)
    BY <1>1, ArriveComes DEF Comes
  <2>2. /\ \A d \in Calls \ {c} : reset'[d] = reset[d]
        /\ reset'[c] = reset[c] \/ resets[reset'[c]] # "none"
        /\ \/ late' = late
           \/ late' = late \cup {c} /\ pc'[c] = "confirm" /\ resets[reset'[c]] \in {"used", "expired"}
    BY <1>1, ArriveComes DEF Comes
  <2>3. pc[c] = "idle" /\ UNCHANGED resets /\ \A d \in Calls \ {c} : pc'[d] = pc[d]
    BY <2>1 DEF Begin, TypeOK
  <2>4. c \notin late /\ resets[c] = "none"
    BY <2>3 DEF TypeOK
  <2>5. ASSUME NEW d \in Calls
        PROVE  (resets'[d] # "none" => pc'[d] = "done") /\ resets'[reset'[d]] # "none"
    BY <2>2, <2>3, <2>4
  <2>6. ASSUME NEW d \in late'
        PROVE  pc'[d] \in {"confirm", "refused"} /\ resets'[reset'[d]] \in {"used", "expired"}
    <3>1. CASE d = c
      BY <3>1, <2>2, <2>3, <2>4
    <3>2. CASE d # c
      BY <3>2, <2>2, <2>3, <2>6 DEF TypeOK
    <3> QED
      BY <3>1, <3>2
  <2> QED
    BY <2>5, <2>6
<1>2. ASSUME NEW c \in Calls, NEW from \in Stages, NEW to \in Stages, Move(c, from, to)
      PROVE  ResetInv'
  BY <1>2 DEF Move, state, TypeOK, Usable, Running, Registering, Resetting
<1>3. ASSUME NEW c \in Calls, Writes(c)
      PROVE  ResetInv'
  <2>1. CASE CreateReset(c)
    BY <2>1 DEF CreateReset, TypeOK, Callers
  <2>2. CASE MarkUsed(c)
    BY <2>2 DEF MarkUsed, TypeOK, Callers
  <2>3. CASE ~CreateReset(c) /\ ~MarkUsed(c)
    <3>1. /\ pc[c] \notin {"confirm", "refused", "done"} /\ UNCHANGED <<resets, reset, late>>
      BY <1>3, <2>3 DEF Writes, CreateOrganization, CommitUser, CommitFails, IssueTokens,
           FindLogin, StartRehash, SignTokens, ChangePassword, ResetPassword, DeleteUser,
           SetUserActive, CreateUser, UpdateUserProfile
    <3>2. \A d \in Calls \ {c} : pc'[d] = pc[d]
      BY <1>3, <2>3 DEF Writes, CreateOrganization, CommitUser, CommitFails, IssueTokens,
           FindLogin, StartRehash, SignTokens, ChangePassword, ResetPassword, DeleteUser,
           SetUserActive, CreateUser, UpdateUserProfile, TypeOK
    <3> QED
      BY <3>1, <3>2 DEF TypeOK
  <2> QED
    BY <2>1, <2>2, <2>3
<1>4. CASE Rehash
  BY <1>4 DEF Rehash
<1>5. CASE ResetExpires
  BY <1>5 DEF ResetExpires, TypeOK, Callers
<1>6. CASE UNCHANGED vars
  BY <1>6 DEF vars
<1> QED
  BY <1>1, <1>2, <1>3, <1>4, <1>5, <1>6, Steps, Zenon
-------------------------------------------------------------------------------
(* Inactive users                                                          *)

(* The user of a call that has stayed out is inactive.                      *)
StayInv ==
  \A c \in stayed : account[ask[c]] # "active" /\ pc[c] \notin Signed \cup {"idle"}

(* Whoever activates an account ends the inactivity of all its calls.       *)
LEMMA ActiveKeepsStay ==
  ASSUME TypeOK, StayInv, NEW c \in Calls, NEW s \in {"active", "inactive"}, SetActive(ask[c], s),
         NEW to \in Stages \ (Signed \cup {"idle"}), pc' = [pc EXCEPT ![c] = to], UNCHANGED ask
  PROVE  StayInv'
<1>1. stayed' \subseteq stayed /\ \A d \in stayed' : s = "active" => ask[d] # ask[c]
  BY DEF SetActive
<1>2. account' = [account EXCEPT ![ask[c]] = s]
  BY DEF SetActive
<1>3. ASSUME NEW d \in stayed'
      PROVE  account'[ask[d]] # "active"
  <2>1. ask[d] \in Emails /\ account[ask[d]] # "active"
    BY <1>1 DEF TypeOK, Callers, StayInv
  <2> QED
    BY <1>1, <1>2, <2>1 DEF TypeOK
<1> QED
  BY <1>1, <1>3 DEF StayInv, TypeOK

(* Every step keeps the calls of inactive accounts from the stages of found *)
(* rows.                                                                    *)
LEMMA StayStep ==
  ASSUME TypeOK, StayInv, ServiceAssumption, [Next]_vars
  PROVE  StayInv'
<1> USE DEF Query, Goto, tables, call, history
<1>1. ASSUME NEW c \in Calls, Arrive(c)
      PROVE  StayInv'
  <2>1. PICK e \in Emails, op \in Running \ Signed : Begin(c, op, e)
    BY <1>1, ArriveComes DEF Comes
  <2>2. op # "idle" /\ pc[c] = "idle" /\ pc'[c] = op /\ ask'[c] = e
    BY <2>1 DEF Begin, TypeOK, Running, Registering, Resetting, Callers
  <2>3. \A d \in Calls \ {c} : ask'[d] = ask[d] /\ pc'[d] = pc[d]
    BY <2>1 DEF Begin, TypeOK, Callers
  <2>4. c \notin stayed
    BY <2>2 DEF StayInv
  <2> QED
    BY <2>1, <2>2, <2>3, <2>4 DEF Begin, StayInv, TypeOK
<1>2. ASSUME NEW c \in Calls, NEW from \in Stages, NEW to \in Stages, Move(c, from, to)
      PROVE  StayInv'
  BY <1>2 DEF Move, state, TypeOK, Finds, StayInv
<1>3. ASSUME NEW c \in Calls, Writes(c)
      PROVE  StayInv'
  <2>1. CASE \/ CreateOrganization(c) \/ CommitFails(c) \/ IssueTokens(c) \/ ChangePassword(c)
             \/ CreateReset(c) \/ ResetPassword(c) \/ MarkUsed(c)
    <3>1. /\ UNCHANGED <<account, stayed, ask>>
          /\ \E to \in Stages \ (Signed \cup {"idle"}) : pc' = [pc EXCEPT ![c] = to]
      BY <2>1 DEF CreateOrganization, CommitFails, IssueTokens, ChangePassword, CreateReset,
                  ResetPassword, MarkUsed, Stages, Running, Registering, Resetting, Signed
    <3> QED
      BY <3>1 DEF StayInv, TypeOK
  <2>2. CASE FindLogin(c) \/ StartRehash(c) \/ SignTokens(c)
    <3>1. CASE FindLogin(c)
      BY <3>1, LoginFinds DEF state, Finds, Signed, StayInv, TypeOK
    <3>2. CASE StartRehash(c) \/ SignTokens(c)
      BY <3>2 DEF StartRehash, SignTokens, Signed, StayInv, TypeOK
    <3> QED
      BY <2>2, <3>1, <3>2
  <2>3. CASE CommitUser(c) \/ DeleteUser(c) \/ SetUserActive(c)
    <3>1. /\ UNCHANGED ask
          /\ \E s \in {"active", "inactive"} : SetActive(ask[c], s)
          /\ \E to \in Stages \ (Signed \cup {"idle"}) : pc' = [pc EXCEPT ![c] = to]
      BY <2>3 DEF CommitUser, DeleteUser, SetUserActive, Stages, Running, Signed
    <3> QED
      BY <3>1, ActiveKeepsStay
  <2>4. CASE CreateUser(c) \/ UpdateUserProfile(c)
    <3>1. /\ UNCHANGED ask
          /\ (\E s \in {"active", "inactive"} : SetActive(ask[c], s)) \/ UNCHANGED <<account, stayed>>
          /\ \E to \in Stages \ (Signed \cup {"idle"}) : pc' = [pc EXCEPT ![c] = to]
      BY <2>4 DEF CreateUser, UpdateUserProfile, Stages, Running, Signed
    <3> QED
      BY <3>1, ActiveKeepsStay DEF StayInv, TypeOK
  <2> QED
    BY <1>3, <2>1, <2>2, <2>3, <2>4, Zenon DEF Writes
<1>4. CASE Rehash
  BY <1>4 DEF Rehash, StayInv
<1>5. CASE ResetExpires
  BY <1>5 DEF ResetExpires, StayInv
<1>6. CASE UNCHANGED vars
  BY <1>6 DEF vars, StayInv
<1> QED
  BY <1>1, <1>2, <1>3, <1>4, <1>5, <1>6, Steps, Zenon
-------------------------------------------------------------------------------
(* Accounts behind tokens                                                  *)

Has(e) == account[e] # "none"

(* Who is handed a token has a row, or was told of a COMMIT that failed;    *)
(* such a call is not used again.                                           *)
AccountsInv ==
  /\ TokensHaveAccounts
  /\ \A c \in Calls :
       /\ pc[c] \in Signed \ {"in", "stamp"} => Has(ask[c])
       /\ pc[c] = "issue" => Has(ask[c]) \/ c \in unsaved
       /\ pc[c] = "idle" => c \notin unsaved

(* Rows do not go away.                                                     *)
LEMMA RowsStay ==
  ASSUME TypeOK, Next, NEW e \in Emails, Has(e)
  PROVE  Has(e)'
<1> USE DEF Has, tables
<1>1. ASSUME NEW f \in Emails, NEW s \in {"active", "inactive"}, SetActive(f, s)
      PROVE  Has(e)'
  BY <1>1 DEF SetActive, TypeOK
<1>2. ASSUME NEW c \in Calls, Writes(c)
      PROVE  Has(e)'
  <2>1. ask[c] \in Emails
    BY DEF TypeOK, Callers
  <2>2. CASE CommitUser(c) \/ DeleteUser(c) \/ SetUserActive(c) \/ CreateUser(c) \/ UpdateUserProfile(c)
    BY <2>1, <2>2, <1>1 DEF CommitUser, DeleteUser, SetUserActive, CreateUser, UpdateUserProfile
  <2>3. CASE \/ CreateOrganization(c) \/ CommitFails(c) \/ IssueTokens(c) \/ FindLogin(c)
             \/ StartRehash(c) \/ SignTokens(c) \/ ChangePassword(c) \/ CreateReset(c)
             \/ ResetPassword(c) \/ MarkUsed(c)
    BY <2>3 DEF CreateOrganization, CommitFails, IssueTokens, FindLogin, StartRehash,
                SignTokens, ChangePassword, CreateReset, ResetPassword, MarkUsed
  <2> QED
    BY <1>2, <2>2, <2>3, Zenon DEF Writes
<1>3. ASSUME NEW c \in Calls, Arrive(c)
      PROVE  Has(e)'
  BY <1>3, ArriveComes DEF Comes, Begin
<1>4. ASSUME NEW c \in Calls, NEW from \in Stages, NEW to \in Stages, Move(c, from, to)
      PROVE  Has(e)'
  BY <1>4 DEF Move, state
<1>5. CASE Rehash \/ ResetExpires
  BY <1>5 DEF Rehash, ResetExpires
<1> QED
  BY <1>2, <1>3, <1>4, <1>5, Steps, Zenon

(* What a step of call c owes to the invariant; other calls keep theirs.    *)
Owes(c) ==
  /\ \A d \in Calls \ {c} : pc'[d] = pc[d]
  /\ unsaved \subseteq unsaved' /\ unsaved' \subseteq unsaved \cup {c}
  /\ tokens' = tokens \/ (tokens' = tokens \cup {ask[c]} /\ (Has(ask[c]) \/ c \in unsaved))
  /\ pc'[c] # "idle"
  /\ pc'[c] \in Signed \ {"in", "stamp"} => Has(ask[c])
  /\ pc'[c] = "issue" => Has(ask[c])' \/ c \in unsaved'

(* A call that still owes a row keeps what is known of the accounts.        *)
LEMMA OwingKeeps ==
  ASSUME TypeOK, AccountsInv, Next, NEW c \in Calls, UNCHANGED ask, Owes(c)
  PROVE  AccountsInv'
<1>0. \A e \in Emails : Has(e) => Has(e)'
  BY RowsStay
<1>1. \A d \in Calls : ask[d] \in Emails
  BY DEF TypeOK, Callers
<1>2. TokensHaveAccounts'
  <2> SUFFICES ASSUME NEW e \in tokens'
               PROVE  Has(e)' \/ \E d \in unsaved' : ask[d] = e
    BY DEF TokensHaveAccounts, Has
  <2>1. CASE e \in tokens
    <3>1. Has(e) \/ \E d \in unsaved : ask[d] = e
      BY <2>1 DEF AccountsInv, TokensHaveAccounts, Has
    <3>2. e \in Emails
      BY <2>1 DEF TypeOK
    <3> QED
      BY <1>0, <3>1, <3>2 DEF Owes
  <2>2. CASE e \notin tokens
    BY <1>0, <1>1, <2>2 DEF Owes
  <2> QED
    BY <2>1, <2>2
<1>3. ASSUME NEW d \in Calls
      PROVE  /\ pc'[d] \in Signed \ {"in", "stamp"} => Has(ask[d])'
             /\ pc'[d] = "issue" => Has(ask[d])' \/ d \in unsaved'
             /\ pc'[d] = "idle" => d \notin unsaved'
  <2>1. CASE d = c
    BY <1>0, <1>1, <2>1 DEF Owes
  <2>2. CASE d # c
    BY <1>0, <1>1, <2>2 DEF Owes, AccountsInv
  <2> QED
    BY <2>1, <2>2
<1> QED
  BY <1>2, <1>3 DEF AccountsInv

(* Every step keeps an account behind each token.                           *)
LEMMA AccountsStep ==
  ASSUME TypeOK, AccountsInv, ServiceAssumption, [Next]_vars
  PROVE  AccountsInv'
<1> USE DEF Query, Goto, tables, call, history
<1>1. ASSUME NEW c \in Calls, Arrive(c)
      PROVE  AccountsInv'
  <2>1. PICK e \in Emails, op \in Running \ (Signed \cup {"issue", "insert", "commit"}) : Begin(c, op, e)
    BY <1>1, ArriveComes DEF Comes
  <2>2. /\ UNCHANGED <<tables, tokens, unsaved>> /\ pc[c] = "idle" /\ pc'[c] = op /\ op # "idle"
        /\ \A d \in Callers \ {c} : ask'[d] = ask[d]
        /\ \A d \in Calls \ {c} : pc'[d] = pc[d]
    BY <2>1 DEF Begin, TypeOK, Running, Registering, Resetting, Callers
  <2>3. c \notin unsaved
    BY <2>2 DEF AccountsInv
  <2>4. TokensHaveAccounts'
    BY <2>2, <2>3 DEF AccountsInv, TokensHaveAccounts, TypeOK, Callers
  <2>5. \A d \in Calls :
          /\ pc'[d] \in Signed \ {"in", "stamp"} => Has(ask[d])'
          /\ pc'[d] = "issue" => Has(ask[d])' \/ d \in unsaved'
          /\ pc'[d] = "idle" => d \notin unsaved'
    BY <2>2, <2>3 DEF AccountsInv, Has, Callers
  <2> QED
    BY <2>4, <2>5 DEF AccountsInv
<1>2. ASSUME NEW c \in Calls, NEW from \in Stages, NEW to \in Stages, Move(c, from, to), Next
      PROVE  AccountsInv'
  <2>1. UNCHANGED state /\ pc[c] = from /\ pc'[c] = to /\ \A d \in Calls \ {c} : pc'[d] = pc[d]
    BY <1>2 DEF Move, TypeOK
  <2>2. to \in Signed \ {"in", "stamp"} => Has(ask[c])
    BY <1>2 DEF Move, Finds, AccountsInv, Has
  <2>3. to # "idle" /\ to # "issue"
    BY <1>2 DEF Move
  <2>4. Owes(c)
    BY <2>1, <2>2, <2>3 DEF Owes, state, Has
  <2> QED
    BY <1>2, <2>1, <2>4, OwingKeeps DEF state
<1>3. ASSUME NEW c \in Calls, Writes(c), Next
      PROVE  AccountsInv'
  <2>0. ask[c] \in Emails /\ c # Earlier /\ UNCHANGED ask
    BY <1>3 DEF TypeOK, Callers, ServiceAssumption, Writes, CreateOrganization, CommitUser,
         CommitFails, IssueTokens, FindLogin, StartRehash, SignTokens, ChangePassword,
         CreateReset, ResetPassword, MarkUsed, DeleteUser, SetUserActive, CreateUser,
         UpdateUserProfile
  <2>1. Has(ask[c]) => Has(ask[c])'
    BY <1>3, <2>0, RowsStay DEF Has
  <2>2. Owes(c)
    <3> USE DEF Owes, TypeOK
    <3>1. CASE CreateOrganization(c)
      BY <2>0, <2>1, <3>1 DEF CreateOrganization, Signed
    <3>2. CASE CommitUser(c)
      <4>1. Has(ask[c])'
        BY <2>0, <3>2 DEF CommitUser, SetActive, Has
      <4> QED
        BY <2>0, <3>2, <4>1 DEF CommitUser, Signed
    <3>3. CASE CommitFails(c)
      BY <2>0, <3>3 DEF CommitFails, Signed
    <3>4. CASE IssueTokens(c)
      BY <2>0, <2>1, <3>4 DEF IssueTokens, Signed, AccountsInv
    <3>5. CASE FindLogin(c)
      BY <2>0, <2>1, <3>5, LoginFinds DEF state, Finds, Has, Signed
    <3>6. CASE StartRehash(c) \/ SignTokens(c)
      BY <2>0, <2>1, <3>6 DEF StartRehash, SignTokens, Signed, AccountsInv
    <3>7. CASE ChangePassword(c) \/ CreateReset(c) \/ ResetPassword(c) \/ MarkUsed(c)
      BY <2>0, <2>1, <3>7 DEF ChangePassword, CreateReset, ResetPassword, MarkUsed, Signed
    <3>8. CASE DeleteUser(c) \/ SetUserActive(c) \/ CreateUser(c) \/ UpdateUserProfile(c)
      BY <2>0, <2>1, <3>8 DEF DeleteUser, SetUserActive, CreateUser, UpdateUserProfile, Signed
    <3> QED
      BY <1>3, <3>1, <3>2, <3>3, <3>4, <3>5, <3>6, <3>7, <3>8, Zenon DEF Writes
  <2> QED
    BY <1>3, <2>0, <2>2, OwingKeeps
<1>4. CASE Rehash
  BY <1>4 DEF Rehash, AccountsInv, TokensHaveAccounts, Has
<1>5. CASE ResetExpires
  BY <1>5 DEF ResetExpires, AccountsInv, TokensHaveAccounts, Has
<1>6. CASE UNCHANGED vars
  BY <1>6 DEF vars, AccountsInv, TokensHaveAccounts, Has
<1> QED
  BY <1>1, <1>2, <1>3, <1>4, <1>5, <1>6, Steps, Zenon
-------------------------------------------------------------------------------
(* The theorems                                                            *)

IInv == TypeOK /\ PasswordInv /\ ResetInv /\ StayInv /\ AccountsInv

(* The invariant holds before the first call.                               *)
LEMMA Initially ==
  ASSUME ServiceAssumption, Init
  PROVE  IInv
<1> USE DEF Init, ServiceAssumption, Emails, Callers
<1>1. TypeOK
  BY DEF TypeOK, Stages, Strong
<1>2. PasswordInv /\ ResetInv /\ StayInv
  BY DEF PasswordInv, ResetInv, StayInv
<1>3. AccountsInv
  BY DEF AccountsInv, TokensHaveAccounts, Has, Signed
<1> QED
  BY <1>1, <1>2, <1>3 DEF IInv

(* Every step keeps the invariant.                                          *)
LEMMA InductiveStep ==
  ASSUME ServiceAssumption, IInv, [Next]_vars
  PROVE  IInv'
BY TypeStep, PasswordStep, ResetStep, StayStep, AccountsStep DEF IInv

(* The invariant has in it what the run checks.                             *)
LEMMA Implies ==
  ASSUME IInv
  PROVE  Inv
<1>1. PasswordKept
  BY DEF IInv, PasswordInv, PasswordKept
<1>2. UsedResetRefused
  BY DEF IInv, ResetInv, UsedResetRefused, Resetting
<1>3. InactiveStaysOut
  BY DEF IInv, StayInv, InactiveStaysOut, Signed
<1> QED
  BY <1>1, <1>2, <1>3 DEF IInv, AccountsInv, Inv

(* The invariant holds at all times.                                        *)
LEMMA InductiveInvariant == Spec => []IInv
<1>1. Init => IInv
  BY Initially, ServiceAssumption
<1>2. IInv /\ [Next]_vars => IInv'
  BY InductiveStep, ServiceAssumption
<1> QED
  BY <1>1, <1>2, PTL DEF Spec

(* All the service's safety properties hold together, whatever the number   *)
(* of calls and connections (auth_service.go, complete.go, repository.go).  *)
THEOREM ServiceInvariant == Spec => []Inv
<1>1. IInv => Inv
  BY Implies
<1> QED
  BY <1>1, InductiveInvariant, PTL

(* A password lasts until it is chosen anew, unless a rehash raced with it  *)
(* (auth_service.go 231-238).                                               *)
THEOREM PasswordsLast == Spec => []PasswordKept
<1>1. Inv => PasswordKept
  BY DEF Inv
<1> QED
  BY <1>1, ServiceInvariant, PTL

(* A reset token that was used, or is out of date, when a call came in sets *)
(* no password (auth_service.go 518, complete.go 463-481).                  *)
THEOREM ResetsAreSpent == Spec => []UsedResetRefused
<1>1. Inv => UsedResetRefused
  BY DEF Inv
<1> QED
  BY <1>1, ServiceInvariant, PTL

(* Whose account is inactive from a call's arrival on does not get in by it *)
(* (auth_service.go 320-338).                                               *)
THEOREM InactiveUsersStayOut == Spec => []InactiveStaysOut
<1>1. Inv => InactiveStaysOut
  BY DEF Inv
<1> QED
  BY <1>1, ServiceInvariant, PTL

(* Whoever was handed a token has a row, whoever was active meanwhile, or a  *)
(* COMMIT failed unnoticed (repository.go 455-482).                         *)
THEOREM TokensBelongToUsers == Spec => []TokensHaveAccounts
<1>1. Inv => TokensHaveAccounts
  BY DEF Inv
<1> QED
  BY <1>1, ServiceInvariant, PTL
===============================================================================
