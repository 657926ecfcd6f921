-------------------------------- MODULE Access --------------------------------
(***************************************************************************)
(* What API keys promise, with no table and no clock in it: a key lives    *)
(* once, and a request is let in only if its key was alive at some moment  *)
(* after the request came in.                                              *)
(***************************************************************************)
CONSTANTS Keys, Calls, Nothing

VARIABLES
  life,     \* life[k]:  "unborn", "live" or "dead"
  uses,     \* uses[c]:  the key request c presents
  phase     \* phase[c]: where request c is

vars == <<life, uses, phase>>

Init ==
  /\ life  = [k \in Keys |-> "unborn"]
  /\ uses  = [c \in Calls |-> Nothing]
  /\ phase = [c \in Calls |-> "away"]

(* A key may be created with a date in the past.                            *)
Create(k) ==
  /\ life[k] = "unborn"
  /\ \E l \in {"live", "dead"} : life' = [life EXCEPT ![k] = l]
  /\ UNCHANGED <<uses, phase>>

(* Revoked, deleted or out of date: several keys may be at once.            *)
Withdraw(S) ==
  /\ \A k \in S : life[k] = "live"
  /\ life' = [k \in Keys |-> IF k \in S THEN "dead" ELSE life[k]]
  /\ UNCHANGED <<uses, phase>>

Ask(c, k) ==
  /\ phase[c] = "away"
  /\ phase' = [phase EXCEPT ![c] = "asking"]
  /\ uses'  = [uses EXCEPT ![c] = k]
  /\ UNCHANGED life

Vouch(c) ==
  /\ phase[c] = "asking" /\ life[uses[c]] = "live"
  /\ phase' = [phase EXCEPT ![c] = "vouched"]
  /\ UNCHANGED <<life, uses>>

Admit(c) ==
  /\ phase[c] = "vouched"
  /\ phase' = [phase EXCEPT ![c] = "in"]
  /\ UNCHANGED <<life, uses>>

Refuse(c) ==
  /\ phase[c] \in {"asking", "vouched"}
  /\ phase' = [phase EXCEPT ![c] = "out"]
  /\ UNCHANGED <<life, uses>>

Next ==
  \/ \E k \in Keys : Create(k)
  \/ \E S \in SUBSET Keys : Withdraw(S)
  \/ \E c \in Calls : \/ \E k \in Keys : Ask(c, k)
                      \/ Vouch(c) \/ Admit(c) \/ Refuse(c)

Spec == Init /\ [][Next]_vars
===============================================================================
