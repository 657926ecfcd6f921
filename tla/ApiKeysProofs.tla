----------------------------- MODULE ApiKeysProofs -----------------------------
(* Proofs about ApiKeys, for any users, keys, requests and clock.           *)
EXTENDS ApiKeys, TLAPS

(* Every statement keeps the types of the table and of the requests.        *)
LEMMA TypeStep == TypeOK /\ [Next]_vars => TypeOK'
<1> SUFFICES ASSUME TypeOK, [Next]_vars PROVE TypeOK'
  OBVIOUS
<1> USE DEF TypeOK, Goto, SetStatus, table, call, Stages, Inactive
<1>1. CASE CreateAPIKey
  BY <1>1 DEF CreateAPIKey
<1>2. CASE Tick
  BY <1>2, TimeAssumption DEF Tick
<1>3. ASSUME NEW c \in Calls, Manage(c) PROVE TypeOK'
  <2>1. CASE RevokeCheck(c)
    BY <2>1 DEF RevokeCheck
  <2>2. CASE RevokeWrite(c)
    BY <2>2 DEF RevokeWrite
  <2>3. CASE DeleteCheck(c)
    BY <2>3 DEF DeleteCheck
  <2>4. CASE DeleteWrite(c)
    BY <2>4 DEF DeleteWrite
  <2>5. CASE RequestFails(c)
    BY <2>5 DEF RequestFails
  <2>6. QED
    BY <1>3, <2>1, <2>2, <2>3, <2>4, <2>5 DEF Manage
<1>4. ASSUME NEW c \in Calls, Validate(c) PROVE TypeOK'
  <2>1. CASE Present(c)
    BY <2>1 DEF Present, Dead
  <2>2. CASE SelectActive(c)
    BY <2>2 DEF SelectActive, ActiveKeys, Alive
  <2>3. CASE TestKeyFallback(c)
    BY <2>3 DEF TestKeyFallback
  <2>4. CASE Admit(c)
    BY <2>4 DEF Admit
  <2>5. CASE FoundExpired(c)
    BY <2>5 DEF FoundExpired
  <2>6. CASE MarkExpired(c)
    BY <2>6 DEF MarkExpired
  <2>7. CASE NotFound(c)
    BY <2>7 DEF NotFound
  <2>8. QED
    BY <1>4, <2>1, <2>2, <2>3, <2>4, <2>5, <2>6, <2>7 DEF Validate
<1>5. CASE UNCHANGED vars
  BY <1>5 DEF vars
<1>6. QED
  BY <1>1, <1>2, <1>3, <1>4, <1>5 DEF Next

(* What any step may do to a key: a row keeps its owner and its date, is    *)
(* never active again, and time only passes, so dead keys stay dead and     *)
(* keys out of date stay out of date.                                       *)
LEMMA KeysOnlyDie ==
  ASSUME TypeOK, [Next]_vars, NEW k \in Keys, status[k] # "none"
  PROVE  /\ status'[k] # "none"
         /\ owner'[k] = owner[k]
         /\ status[k] \in Inactive => status'[k] \in Inactive
         /\ Expired(k) => Expired(k)'
         /\ Dead(k) => Dead(k)'
<1> USE DEF TypeOK, SetStatus, table, call, Inactive, Goto
<1>1. ASSUME NEW c \in Calls, Manage(c)
      PROVE  now' = now /\ (UNCHANGED table \/ \E s \in Inactive : SetStatus(key[c], s))
  BY <1>1 DEF Manage, RevokeCheck, RevokeWrite, DeleteCheck, DeleteWrite, RequestFails
<1>2. ASSUME NEW c \in Calls, Validate(c)
      PROVE  now' = now /\ (UNCHANGED table \/ \E s \in Inactive : SetStatus(key[c], s))
  <2>1. CASE MarkExpired(c)
    BY <2>1 DEF MarkExpired
  <2>2. CASE ~MarkExpired(c)
    BY <1>2, <2>2 DEF Validate, Present, SelectActive, TestKeyFallback, Admit, FoundExpired,
       NotFound
  <2>3. QED
    BY <2>1, <2>2
<1>3. CASE \E c \in Calls : Manage(c) \/ Validate(c)
  <2>1. /\ status'[k] = status[k] \/ status'[k] \in Inactive
        /\ UNCHANGED <<owner, expiresAt, now>>
    BY <1>1, <1>2, <1>3
  <2>2. QED
    BY <2>1 DEF Dead, Expired
<1>4. CASE CreateAPIKey
  <2>1. /\ status'[k] = status[k] /\ owner'[k] = owner[k]
        /\ expiresAt'[k] = expiresAt[k] /\ now' = now
    BY <1>4 DEF CreateAPIKey
  <2>2. QED
    BY <2>1 DEF Dead, Expired
<1>5. CASE Tick \/ UNCHANGED vars
  <2>1. UNCHANGED table /\ now' \in Nat /\ now' >= now
    BY <1>5 DEF Tick, vars
  <2>2. Expired(k) => Expired(k)'
    BY <2>1, TimeAssumption DEF Expired, Dates
  <2>3. QED
    BY <2>1, <2>2 DEF Dead
<1>6. QED
  BY <1>3, <1>4, <1>5 DEF Next

-------------------------------------------------------------------------------
(* The invariant, one request at a time.                                    *)

CallInv(c) ==
  /\ late[c] => ~vouched[c] /\ key[c] \in Keys /\ Dead(key[c])
  /\ pc[c] \in {"check", "expiring"} /\ key[c] \in listed[c] =>
       status[key[c]] # "none" /\ (vouched[c] \/ Expired(key[c]))
  /\ pc[c] = "expiring" => key[c] \in listed[c] /\ Expired(key[c])
  /\ pc[c] = "admitted" => vouched[c]
  /\ key[c] \in Keys /\ pc[c] # "answered" => status[key[c]] # "none"
  /\ pc[c] \in {"revoking", "deleting"} =>
       key[c] \in Keys /\ Permitted(who[c], key[c])
  /\ late[c] \/ vouched[c] => pc[c] \in Validating
  /\ pc[c] = "select" => ~vouched[c]
  /\ pc[c] = "idle" => key[c] = Nothing

(* The invariant of the module is this one of every request.                *)
LEMMA InvByCall ==
  /\ Inv  <=> TypeOK  /\ \A c \in Calls : CallInv(c)
  /\ Inv' <=> TypeOK' /\ \A c \in Calls : CallInv(c)'
BY DEF Inv, LateIsDead, ListedWasActive, KeyExists, CallInv

(* A request that does not move keeps its invariant, whatever the others do *)
(* to its key meanwhile.                                                    *)
LEMMA OthersKeep ==
  ASSUME TypeOK, [Next]_vars, NEW q \in Calls, CallInv(q),
         pc'[q] = pc[q], who'[q] = who[q], key'[q] = key[q],
         listed'[q] = listed[q], late'[q] = late[q], vouched'[q] = vouched[q]
  PROVE  CallInv(q)'
<1>1. CASE key[q] \in Keys /\ status[key[q]] # "none"
  <2>1. /\ status'[key[q]] # "none" /\ owner'[key[q]] = owner[key[q]]
        /\ Expired(key[q]) => Expired(key[q])'
        /\ Dead(key[q]) => Dead(key[q])'
    BY <1>1, KeysOnlyDie
  <2>2. Expired(key[q])' <=> expiresAt'[key[q]] # Never /\ now' > expiresAt'[key[q]]
    BY DEF Expired
  <2>3. QED
    BY <1>1, <2>1 DEF CallInv, Permitted, Expired, Dead
<1>2. CASE key[q] \in Keys /\ status[key[q]] = "none"
  BY <1>2 DEF CallInv, Validating
<1>3. CASE key[q] \notin Keys
  BY <1>3 DEF CallInv, TypeOK
<1>4. QED
  BY <1>1, <1>2, <1>3

(* A management request keeps its own invariant (apikey_handlers.go         *)
(* 212-334).                                                                *)
LEMMA ManageKeeps ==
  ASSUME TypeOK, NEW c \in Calls, CallInv(c), Manage(c)
  PROVE  CallInv(c)'
<1> USE DEF TypeOK, CallInv, Goto, table, call, Validating
<1>1. CASE RevokeCheck(c)
  BY <1>1, SetsAssumption DEF RevokeCheck, Permitted
<1>2. CASE DeleteCheck(c)
  BY <1>2, SetsAssumption DEF DeleteCheck, Permitted
<1>3. CASE RevokeWrite(c) \/ DeleteWrite(c)
  BY <1>3 DEF RevokeWrite, DeleteWrite, SetStatus
<1>4. CASE RequestFails(c)
  BY <1>4 DEF RequestFails
<1>5. QED
  BY <1>1, <1>2, <1>3, <1>4 DEF Manage

(* A request that presents a key keeps its own invariant (apikey_handlers.go*)
(* 337-382, 441-508).                                                       *)
LEMMA ValidateKeeps ==
  ASSUME TypeOK, [Next]_vars, NEW c \in Calls, CallInv(c), Validate(c)
  PROVE  CallInv(c)'
<1>0. \A k \in Keys : status[k] # "none" =>
        status'[k] # "none" /\ (Dead(k) => Dead(k)')
  BY KeysOnlyDie
<1> USE DEF TypeOK, Goto, table, call, Validating
<1>1. CASE Present(c)
  BY <1>1, SetsAssumption DEF Present, CallInv, Dead, Expired, Inactive
<1>2. CASE SelectActive(c)
  <2>1. /\ pc[c] = "select" /\ pc' = [pc EXCEPT ![c] = "check"]
        /\ listed'[c] = ActiveKeys
        /\ vouched'[c] = (key[c] \in Keys /\ Alive(key[c]))
        /\ UNCHANGED <<status, owner, expiresAt, now, who, key, late>>
    BY <1>2 DEF SelectActive
  <2>2. key[c] \in Keys /\ late[c] => ~Alive(key[c])
    BY <2>1 DEF CallInv, Dead, Alive, Inactive
  <2>3. key[c] \in ActiveKeys =>
          key[c] \in Keys /\ status[key[c]] # "none" /\ (Alive(key[c]) \/ Expired(key[c]))
    BY DEF ActiveKeys, Alive
  <2>4. /\ pc'[c] = "check" /\ late'[c] = late[c] /\ key'[c] = key[c]
        /\ late[c] => ~vouched'[c]
        /\ key[c] \in listed'[c] => vouched'[c] \/ Expired(key[c])
    BY <2>1, <2>2, <2>3 DEF CallInv
  <2>5. late'[c] => ~vouched'[c] /\ key'[c] \in Keys /\ Dead(key[c])'
    BY <2>1, <2>4 DEF CallInv, Dead, Expired
  <2>6. key'[c] \in listed'[c] =>
          status'[key'[c]] # "none" /\ (vouched'[c] \/ Expired(key[c])')
    BY <2>1, <2>3, <2>4 DEF Expired
  <2>7. key'[c] \in Keys => status'[key'[c]] # "none"
    BY <2>1 DEF CallInv
  <2>8. QED
    BY <2>4, <2>5, <2>6, <2>7 DEF CallInv
<1>3. CASE TestKeyFallback(c)
  BY <1>3, SetsAssumption DEF TestKeyFallback, CallInv, Dead, Expired
<1>4. CASE Admit(c)
  BY <1>4 DEF Admit, CallInv, Dead, Expired
<1>5. CASE FoundExpired(c)
  BY <1>5 DEF FoundExpired, CallInv, Dead, Expired
<1>6. CASE MarkExpired(c)
  <2>1. /\ pc[c] = "expiring" /\ pc' = [pc EXCEPT ![c] = "refused"]
        /\ UNCHANGED <<now, who, key, listed, late, vouched>>
    BY <1>6 DEF MarkExpired
  <2>2. key[c] \in Keys /\ status[key[c]] # "none"
    BY <2>1 DEF CallInv
  <2>3. status'[key[c]] # "none" /\ (Dead(key[c]) => Dead(key[c])')
    BY <1>0, <2>1, <2>2 DEF Dead, Expired
  <2>4. QED
    BY <2>1, <2>2, <2>3 DEF CallInv, Dead, Expired
<1>7. CASE NotFound(c)
  BY <1>7 DEF NotFound, CallInv, Dead, Expired
<1>8. QED
  BY <1>1, <1>2, <1>3, <1>4, <1>5, <1>6, <1>7 DEF Validate

(* A request writes no variable of another one.                             *)
LEMMA Bystanders ==
  ASSUME TypeOK, NEW c \in Calls, Manage(c) \/ Validate(c), NEW q \in Calls \ {c}
  PROVE  /\ pc'[q] = pc[q] /\ who'[q] = who[q] /\ key'[q] = key[q]
         /\ listed'[q] = listed[q] /\ late'[q] = late[q] /\ vouched'[q] = vouched[q]
<1> USE DEF TypeOK, Goto, call
<1>1. CASE Manage(c)
  BY <1>1 DEF Manage, RevokeCheck, RevokeWrite, DeleteCheck, DeleteWrite, RequestFails
<1>2. CASE Present(c) \/ SelectActive(c) \/ TestKeyFallback(c)
  BY <1>2 DEF Present, SelectActive, TestKeyFallback
<1>3. CASE Admit(c) \/ FoundExpired(c) \/ MarkExpired(c) \/ NotFound(c)
  BY <1>3 DEF Admit, FoundExpired, MarkExpired, NotFound
<1>4. QED
  BY <1>1, <1>2, <1>3 DEF Validate

(* Every step keeps the invariant.                                          *)
LEMMA InvStep == Inv /\ [Next]_vars => Inv'
<1> SUFFICES ASSUME TypeOK, [Next]_vars, \A c \in Calls : CallInv(c)
             PROVE  \A c \in Calls : CallInv(c)'
  BY TypeStep, InvByCall
<1>1. TypeOK'
  BY TypeStep
<1>2. ASSUME NEW c \in Calls, Manage(c) \/ Validate(c)
      PROVE  \A q \in Calls : CallInv(q)'
  <2>1. CallInv(c)'
    BY <1>2, ManageKeeps, ValidateKeeps
  <2>2. ASSUME NEW q \in Calls \ {c} PROVE CallInv(q)'
    BY <1>2, Bystanders, OthersKeep
  <2>3. QED
    BY <2>1, <2>2
<1>3. ASSUME CreateAPIKey \/ Tick \/ UNCHANGED vars, NEW q \in Calls
      PROVE  CallInv(q)'
  <2>1. UNCHANGED <<pc, who, key, listed, late, vouched>>
    BY <1>3 DEF CreateAPIKey, Tick, vars, call
  <2>2. QED
    BY <2>1, OthersKeep
<1>4. QED
  BY <1>2, <1>3 DEF Next

(* The invariant holds of the empty table.                                  *)
LEMMA InitInv == Init => Inv
<1> SUFFICES ASSUME Init PROVE Inv
  OBVIOUS
<1>1. TypeOK
  BY TimeAssumption DEF Init, TypeOK, Stages, Dates
<1>2. \A c \in Calls : CallInv(c)
  BY SetsAssumption DEF Init, CallInv
<1>3. QED
  BY <1>1, <1>2, InvByCall

(* The inductive invariant: what a request has read stays true, or stays    *)
(* false, for as long as the request needs it.                              *)
THEOREM Invariance == Spec => []Inv
<1>1. QED
  BY InitInv, InvStep, PTL DEF Spec

(* A key that is dead when a request comes in never lets it in, for any     *)
(* number of requests and any interleaving of their statements              *)
(* (apikey_handlers.go 441-486).                                            *)
THEOREM DeadKeysStayOut == Spec => []DeadKeyRefused
<1>1. Inv => DeadKeyRefused
  BY InvByCall DEF DeadKeyRefused, CallInv
<1>2. QED
  BY <1>1, Invariance, PTL
-------------------------------------------------------------------------------
(* Refinement of Access.                                                    *)

(* The empty table is the promise's initial state.                          *)
LEMMA InitRefines == Init => Promise!Init
<1> SUFFICES ASSUME Init PROVE Promise!Init
  OBVIOUS
<1>1. Life = [k \in Keys |-> "unborn"]
  BY DEF Init, Life, Alive
<1>2. Uses = [c \in Calls |-> Nothing] /\ Phase = [c \in Calls |-> "away"]
  BY SetsAssumption DEF Init, Uses, Phase
<1>3. QED
  BY <1>1, <1>2 DEF Promise!Init

(* Requests that stay where they are look the same to the promise.          *)
LEMMA SamePhases ==
  ASSUME UNCHANGED <<pc, key, vouched>>
  PROVE  UNCHANGED <<Uses, Phase>>
BY DEF Uses, Phase

(* Keys whose row and date stay, at the same time, look the same to it.     *)
LEMMA SameLives ==
  ASSUME UNCHANGED <<status, expiresAt, now>>
  PROVE  UNCHANGED Life
BY DEF Life, Alive, Expired

(* When no key is born, keys can only be withdrawn.                         *)
LEMMA OnlyWithdrawn ==
  ASSUME TypeOK, [Next]_vars,
         \A k \in Keys : status[k] = "none" => status'[k] = "none",
         UNCHANGED <<Uses, Phase>>
  PROVE  [Promise!Next]_(Promise!vars)
<1> DEFINE S == {k \in Keys : Life[k] = "live" /\ Life'[k] # "live"}
<1>1. ASSUME NEW k \in Keys
      PROVE  \/ Life'[k] = Life[k]
             \/ Life[k] = "live" /\ Life'[k] = "dead"
  <2>1. CASE status[k] = "none"
    BY <2>1 DEF Life, Alive
  <2>2. CASE status[k] # "none" /\ ~Alive(k)
    <3>1. Dead(k)
      BY <2>2 DEF TypeOK, Dead, Alive
    <3>2. status'[k] # "none" /\ Dead(k)'
      BY <2>2, <3>1, KeysOnlyDie
    <3>3. ~Alive(k)'
      BY <3>2 DEF Dead, Alive, Inactive
    <3>4. Life[k] = "dead"
      BY <2>2 DEF Life
    <3>5. Life'[k] = "dead"
      BY <3>2, <3>3 DEF Life
    <3>6. QED
      BY <3>4, <3>5
  <2>3. CASE status[k] # "none" /\ Alive(k)
    <3>1. status'[k] # "none"
      BY <2>3, KeysOnlyDie
    <3>2. Life[k] = "live"
      BY <2>3 DEF Life
    <3>3. Life'[k] \in {"live", "dead"}
      BY <3>1 DEF Life
    <3>4. QED
      BY <3>2, <3>3
  <2>4. QED
    BY <2>1, <2>2, <2>3
<1>2. Life' = [k \in Keys |-> IF k \in S THEN "dead" ELSE Life[k]]
  BY <1>1 DEF Life
<1>3. Promise!Withdraw(S)
  BY <1>2 DEF Promise!Withdraw
<1>4. QED
  BY <1>3 DEF Promise!Next

(* A request that moves shows the promise one move of itself at most.       *)
LEMMA OneMoves ==
  ASSUME TypeOK, NEW c \in Calls, Manage(c) \/ Validate(c)
  PROVE  /\ Uses' = [Uses EXCEPT ![c] = Uses'[c]]
         /\ Phase' = [Phase EXCEPT ![c] = Phase'[c]]
<1>1. \A q \in Calls \ {c} : pc'[q] = pc[q] /\ key'[q] = key[q] /\ vouched'[q] = vouched[q]
  BY Bystanders
<1>2. \A q \in Calls \ {c} : Uses'[q] = Uses[q] /\ Phase'[q] = Phase[q]
  BY <1>1 DEF Uses, Phase
<1>3. Uses' = [Uses EXCEPT ![c] = Uses'[c]]
  BY <1>2 DEF Uses
<1>4. Phase' = [Phase EXCEPT ![c] = Phase'[c]]
  <2>1. /\ Phase  = [q \in Calls |-> Phase[q]]
        /\ Phase' = [q \in Calls |-> Phase'[q]]
    BY DEF Phase
  <2>2. QED
    BY <1>2, <2>1
<1>5. QED
  BY <1>3, <1>4

(* A management request is invisible to the promise but for the key it      *)
(* withdraws.                                                               *)
LEMMA ManageRefines ==
  ASSUME Inv, [Next]_vars, NEW c \in Calls, Manage(c)
  PROVE  [Promise!Next]_(Promise!vars)
<1>1. TypeOK /\ CallInv(c)
  BY InvByCall
<1>2. pc[c] \notin Validating /\ pc'[c] \notin Validating
  BY <1>1 DEF Manage, RevokeCheck, RevokeWrite, DeleteCheck, DeleteWrite, RequestFails,
     Goto, Validating, TypeOK
<1>3. /\ Uses'[c] = Nothing /\ Uses[c] = Nothing
      /\ Phase'[c] = "away" /\ Phase[c] = "away"
  BY <1>2 DEF Uses, Phase, Validating
<1>4. UNCHANGED <<Uses, Phase>>
  <2>1. /\ Uses' = [Uses EXCEPT ![c] = Uses'[c]]
        /\ Phase' = [Phase EXCEPT ![c] = Phase'[c]]
    BY <1>1, OneMoves
  <2>2. Uses' = Uses
    BY <1>3, <2>1 DEF Uses
  <2>3. Phase' = Phase
    BY <1>3, <2>1 DEF Phase
  <2>4. QED
    BY <2>2, <2>3
<1>5. ASSUME NEW k \in Keys, status[k] = "none" PROVE status'[k] = "none"
  <2>1. CASE UNCHANGED table
    BY <2>1, <1>5 DEF table
  <2>2. CASE RevokeWrite(c) \/ DeleteWrite(c)
    <3>1. key[c] \in Keys /\ status[key[c]] # "none"
      BY <2>2, <1>1 DEF RevokeWrite, DeleteWrite, Goto, CallInv
    <3>2. QED
      BY <2>2, <3>1, <1>5, <1>1 DEF RevokeWrite, DeleteWrite, SetStatus, TypeOK
  <2>3. QED
    BY <2>1, <2>2 DEF Manage, RevokeCheck, DeleteCheck, RequestFails
<1>6. QED
  BY <1>1, <1>4, <1>5, OnlyWithdrawn

(* A request that presents a key asks, is vouched for, and is let in or     *)
(* refused.                                                                 *)
LEMMA ValidateRefines ==
  ASSUME Inv, [Next]_vars, NEW c \in Calls, Validate(c)
  PROVE  [Promise!Next]_(Promise!vars)
<1>1. TypeOK /\ CallInv(c)
  BY InvByCall
<1>2. /\ Uses' = [Uses EXCEPT ![c] = Uses'[c]]
      /\ Phase' = [Phase EXCEPT ![c] = Phase'[c]]
  BY <1>1, OneMoves
<1>3. CASE key'[c] \notin Keys
  <2>1. pc[c] # "idle" => key'[c] = key[c]
    BY <1>1 DEF Validate, Present, SelectActive, TestKeyFallback, Admit, FoundExpired,
       MarkExpired, NotFound, Goto, call
  <2>2. pc[c] = "idle" => key[c] = Nothing
    BY <1>1 DEF CallInv
  <2>3. Uses'[c] = Uses[c] /\ Phase'[c] = Phase[c]
    BY <1>3, <2>1, <2>2, SetsAssumption DEF Uses, Phase
  <2>4. UNCHANGED <<Uses, Phase>>
    <3>1. Uses' = Uses
      BY <1>2, <2>3 DEF Uses
    <3>2. Phase' = Phase
      BY <1>2, <2>3 DEF Phase
    <3>3. QED
      BY <3>1, <3>2
  <2>5. UNCHANGED table
    BY <1>1, <1>3, <2>1 DEF Validate, Present, SelectActive, TestKeyFallback, Admit,
       FoundExpired, MarkExpired, NotFound, Goto, CallInv, TypeOK
  <2>6. QED
    BY <1>1, <2>4, <2>5, OnlyWithdrawn DEF table
<1>4. CASE key'[c] \in Keys
  <2>1. CASE Present(c)
    <3>1. /\ UNCHANGED Life
          /\ pc[c] = "idle" /\ pc'[c] = "select" /\ ~vouched'[c]
      BY <2>1, <1>1, SameLives DEF Present, Goto, table, TypeOK, CallInv, Validating
    <3>2. /\ Phase[c] = "away" /\ Phase'[c] = "asking"
          /\ Uses'[c] = key'[c]
      BY <3>1, <1>4 DEF Phase, Uses, Validating
    <3>3. Promise!Ask(c, key'[c])
      BY <1>2, <3>1, <3>2 DEF Promise!Ask
    <3>4. QED
      BY <3>3, <1>4 DEF Promise!Next
  <2>2. CASE SelectActive(c)
    <3>1. /\ UNCHANGED Life /\ UNCHANGED key
          /\ pc[c] = "select" /\ pc'[c] = "check" /\ ~vouched[c]
          /\ vouched'[c] = (key[c] \in Keys /\ Alive(key[c]))
      BY <2>2, <1>1, SameLives DEF SelectActive, Goto, table, TypeOK, CallInv
    <3>2. Uses'[c] = key[c] /\ Uses[c] = key[c] /\ Phase[c] = "asking"
      BY <3>1, <1>4 DEF Phase, Uses, Validating
    <3>3. UNCHANGED Uses
      BY <1>2, <3>2 DEF Uses
    <3>4. CASE Alive(key[c])
      <4>1. Phase'[c] = "vouched"
        BY <3>1, <3>4, <1>4 DEF Phase, Validating
      <4>2. Life[key[c]] = "live"
        BY <3>1, <3>4, <1>4 DEF Life, Alive
      <4>3. Promise!Vouch(c)
        BY <1>2, <3>1, <3>2, <3>3, <4>1, <4>2 DEF Promise!Vouch
      <4>4. QED
        BY <4>3 DEF Promise!Next
    <3>5. CASE ~Alive(key[c])
      <4>1. Phase'[c] = "asking"
        BY <3>1, <3>5, <1>4 DEF Phase, Validating
      <4>2. UNCHANGED Phase
        BY <1>2, <3>2, <4>1 DEF Phase
      <4>3. QED
        BY <3>1, <3>3, <4>2 DEF Promise!vars
    <3>6. QED
      BY <3>4, <3>5
  <2>3. CASE Admit(c)
    <3>1. /\ UNCHANGED Life /\ UNCHANGED <<key, vouched>>
          /\ pc[c] = "check" /\ pc'[c] = "admitted" /\ vouched[c]
      BY <2>3, <1>1, SameLives DEF Admit, Goto, table, call, TypeOK, CallInv
    <3>2. /\ Uses'[c] = Uses[c]
          /\ Phase[c] = "vouched" /\ Phase'[c] = "in"
      BY <3>1, <1>4 DEF Phase, Uses, Validating
    <3>3. Promise!Admit(c)
      BY <1>2, <3>1, <3>2 DEF Promise!Admit, Uses
    <3>4. QED
      BY <3>3 DEF Promise!Next
  <2>4. CASE FoundExpired(c)
    <3>1. /\ UNCHANGED Life /\ UNCHANGED <<key, vouched>>
          /\ pc[c] = "check" /\ pc'[c] = "expiring"
      BY <2>4, <1>1, SameLives DEF FoundExpired, Goto, table, call, TypeOK
    <3>2. Uses'[c] = Uses[c] /\ Phase'[c] = Phase[c]
      BY <3>1 DEF Phase, Uses, Validating
    <3>3. QED
      BY <1>2, <3>1, <3>2 DEF Promise!vars, Uses, Phase
  <2>5. CASE TestKeyFallback(c) \/ MarkExpired(c) \/ NotFound(c)
    <3>1. /\ UNCHANGED <<key, vouched>>
          /\ pc[c] \in {"select", "check", "expiring"} /\ pc'[c] = "refused"
      BY <2>5, <1>1, <1>4, SetsAssumption
      DEF TestKeyFallback, MarkExpired, NotFound, Goto, call, TypeOK
    <3>2. UNCHANGED Life
      <4>1. CASE UNCHANGED <<table, now>>
        BY <4>1, SameLives DEF table
      <4>2. CASE MarkExpired(c) /\ SetStatus(key[c], "expired")
        <5>1. /\ Expired(key[c]) /\ status[key[c]] # "none"
              /\ status' = [status EXCEPT ![key[c]] = "expired"]
              /\ UNCHANGED <<expiresAt, now, key>>
          BY <4>2, <3>1, <1>1, <1>4 DEF MarkExpired, SetStatus, CallInv, Goto, call
        <5>2. Life[key[c]] = "dead" /\ Life'[key[c]] = "dead"
          BY <5>1, <3>1, <1>1, <1>4 DEF Life, Alive, Expired, TypeOK
        <5>3. \A k \in Keys \ {key[c]} : Life'[k] = Life[k]
          BY <5>1, <1>1 DEF Life, Alive, Expired, TypeOK
        <5>4. QED
          BY <5>2, <5>3 DEF Life
      <4>3. QED
        BY <2>5, <4>1, <4>2 DEF TestKeyFallback, MarkExpired, NotFound
    <3>3. /\ Uses'[c] = Uses[c] /\ Phase'[c] = "out"
          /\ Phase[c] \in {"asking", "vouched"}
      BY <3>1, <1>4 DEF Phase, Uses, Validating
    <3>4. Promise!Refuse(c)
      BY <1>2, <3>2, <3>3 DEF Promise!Refuse, Uses
    <3>5. QED
      BY <3>4 DEF Promise!Next
  <2>6. QED
    BY <1>4, <2>1, <2>2, <2>3, <2>4, <2>5 DEF Validate
<1>5. QED
  BY <1>3, <1>4

(* Every step is one of the promise's, or none of them.                     *)
LEMMA StepRefines == Inv /\ [Next]_vars => [Promise!Next]_(Promise!vars)
<1> SUFFICES ASSUME Inv, [Next]_vars PROVE [Promise!Next]_(Promise!vars)
  OBVIOUS
<1>1. TypeOK
  BY InvByCall
<1>2. CASE CreateAPIKey
  <2>1. PICK k \in Keys :
          /\ status[k] = "none" /\ status' = [status EXCEPT ![k] = "active"]
          /\ \A j \in Keys \ {k} : expiresAt'[j] = expiresAt[j]
          /\ UNCHANGED <<now, pc, key, vouched>>
    BY <1>1, <1>2 DEF CreateAPIKey, call, TypeOK
  <2>2. Life[k] = "unborn" /\ Life'[k] \in {"live", "dead"}
    BY <1>1, <2>1 DEF Life, Alive, TypeOK
  <2>3. \A j \in Keys \ {k} : Life'[j] = Life[j]
    BY <1>1, <2>1 DEF Life, Alive, Expired, TypeOK
  <2>4. Life' = [Life EXCEPT ![k] = Life'[k]]
    <3>1. Life = [j \in Keys |-> Life[j]] /\ Life' = [j \in Keys |-> Life'[j]]
      BY DEF Life
    <3>2. QED
      BY <2>3, <3>1
  <2>5. Promise!Create(k)
    BY <2>1, <2>2, <2>4, SamePhases DEF Promise!Create
  <2>6. QED
    BY <2>5 DEF Promise!Next
<1>3. CASE Tick
  BY <1>1, <1>3, SamePhases, OnlyWithdrawn DEF Tick, table, call
<1>4. CASE UNCHANGED vars
  BY <1>1, <1>4, SamePhases, OnlyWithdrawn DEF vars, table, call
<1>5. QED
  BY <1>2, <1>3, <1>4, ManageRefines, ValidateRefines DEF Next

(* The handlers implement what API keys promise.                            *)
THEOREM KeysImplementAccess == Spec => RefinesAccess
<1>1. QED
  BY Invariance, InitRefines, StepRefines, PTL DEF Spec, RefinesAccess, Promise!Spec

(* Only the UPDATEs of a revocation and of a deletion withdraw a key, and   *)
(* who comes to them was permitted, whatever happened since.                *)
LEMMA WithdrawnByTenant ==
  ASSUME Inv, [Next]_vars, NEW k \in Keys,
         status'[k] # status[k], status'[k] \in {"revoked", "deleted"}
  PROVE  \E c \in Calls :
           /\ pc[c] # pc'[c] /\ key[c] = k
           /\ who[c] = owner[k] \/ OrgOf[who[c]] = OrgOf[owner[k]]
<1>1. TypeOK /\ KeyExists
  BY DEF Inv
<1>2. ~UNCHANGED status
  OBVIOUS
<1>3. ~CreateAPIKey /\ ~Tick /\ ~UNCHANGED vars
  <2>1. ~CreateAPIKey
    BY <1>1 DEF CreateAPIKey, TypeOK
  <2> QED
    BY <1>2, <2>1 DEF Tick, vars, table
<1>4. PICK c \in Calls : Manage(c) \/ Validate(c)
  BY <1>3 DEF Next
<1>5. ~Validate(c)
  <2>1. ~MarkExpired(c)
    BY <1>1, <1>2 DEF MarkExpired, SetStatus, table, TypeOK
  <2> QED
    BY <1>2, <2>1
       DEF Validate, Present, SelectActive, TestKeyFallback, Admit, FoundExpired, NotFound, table
<1>6. RevokeWrite(c) \/ DeleteWrite(c)
  BY <1>2, <1>4, <1>5 DEF Manage, RevokeCheck, DeleteCheck, RequestFails, table
<1>7. /\ pc[c] \in {"revoking", "deleting"} /\ pc'[c] = "answered"
      /\ \E s \in {"revoked", "deleted"} : status' = [status EXCEPT ![key[c]] = s]
  BY <1>1, <1>6 DEF RevokeWrite, DeleteWrite, Goto, SetStatus, TypeOK
<1>8. key[c] = k
  BY <1>1, <1>7 DEF TypeOK
<1>9. Permitted(who[c], key[c])
  BY <1>1, <1>7 DEF KeyExists
<1> QED
  BY <1>7, <1>8, <1>9 DEF Permitted

(* A key is revoked or deleted by a request of its owner or of someone of   *)
(* the owner's organization, however the requests interleave                *)
(* (apikey_handlers.go 245, 304).                                           *)
THEOREM WithdrawnOnlyByTenant == Spec => OnlyByItsTenant
<1>1. Inv /\ [Next]_vars =>
        [\A k \in Keys :
           status'[k] # status[k] /\ status'[k] \in {"revoked", "deleted"} =>
             \E c \in Calls :
               /\ pc[c] # pc'[c] /\ key[c] = k
               /\ who[c] = owner[k] \/ OrgOf[who[c]] = OrgOf[owner[k]]]_vars
  BY WithdrawnByTenant
<1> QED
  BY <1>1, Invariance, PTL DEF Spec, OnlyByItsTenant
================================================================================
