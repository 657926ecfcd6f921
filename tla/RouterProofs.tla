----------------------------- MODULE RouterProofs -----------------------------
(***************************************************************************)
(* Proofs about Router, for any configured providers, requests and rules.  *)
(***************************************************************************)
EXTENDS Router, TLAPS, WellFoundedInduction

(* A nonempty set of naturals has a least element, and Min names it.        *)
LEMMA MinIsLeast ==
  ASSUME NEW S \in SUBSET Nat, S # {}
  PROVE  Min(S) \in S /\ \A i \in S : Min(S) <= i
<1>1. \E x \in S : \A y \in S : ~(<<y, x>> \in OpToRel(<, Nat))
  BY NatLessThanWellFounded, WFMin
<1>2. ASSUME NEW x \in Nat, NEW y \in Nat, y < x
      PROVE  <<y, x>> \in OpToRel(<, Nat)
  BY <1>2, Zenon DEF OpToRel
<1>3. \E x \in S : \A y \in S : ~(y < x)
  BY <1>1, <1>2, Zenon
<1>4. \E x \in S : \A y \in S : x <= y
  BY <1>3
<1> QED
  BY <1>4, Zenon DEF Min

(* The rules of setupDefaultRules are a sequence of rules.                  *)
LEMMA DefaultsAreRules ==
  DefaultRules \in Seq({DefaultRules[i] : i \in DOMAIN DefaultRules})
<1>1. /\ DefaultRules = [i \in 1..7 |-> DefaultRules[i]]
      /\ DOMAIN DefaultRules = 1..7
  BY DEF DefaultRules
<1> QED
  BY <1>1

(* What a request's provider comes from: the first rule that fits it and    *)
(* whose provider is available.                                             *)
LEMMA FirstRuleDecides ==
  ASSUME RouterTypeOK, NEW r, Routable(r)
  PROVE  /\ Min(Candidates(r)) \in Candidates(r)
         /\ \A i \in Candidates(r) : Min(Candidates(r)) <= i
         /\ DetermineProvider(r) = rules[Min(Candidates(r))].provider
         /\ DetermineProvider(r) \in Configured
<1>1. Candidates(r) \in SUBSET Nat
  BY DEF Candidates, RouterTypeOK
<1>2. /\ Min(Candidates(r)) \in Candidates(r)
      /\ \A i \in Candidates(r) : Min(Candidates(r)) <= i
  BY <1>1, MinIsLeast DEF Routable
<1>3. DetermineProvider(r) = rules[Min(Candidates(r))].provider
  BY DEF DetermineProvider
<1> QED
  BY <1>2, <1>3 DEF Candidates, Available

(* A request is given to a provider that is available, or to none.          *)
LEMMA RoutedIsAvailable ==
  ASSUME RouterTypeOK, NEW r
  PROVE  /\ DetermineProvider(r) \in Configured \cup {NoRoute}
         /\ DetermineProvider(r) # NoRoute => Available(DetermineProvider(r))
<1>1. CASE ~Routable(r)
  BY <1>1 DEF DetermineProvider
<1>2. CASE Routable(r)
  BY <1>2, FirstRuleDecides DEF Candidates
<1> QED
  BY <1>1, <1>2

(* No operation takes a rule away, moves it or changes it.                  *)
LEMMA RulesStay ==
  ASSUME RouterTypeOK, [RouterNext]_router
  PROVE  /\ RouterTypeOK'
         /\ Len(rules) <= Len(rules')
         /\ \A i \in DOMAIN rules : i \in DOMAIN rules' /\ rules'[i] = rules[i]
<1> USE DEF RouterTypeOK
<1>1. CASE UNCHANGED router
  BY <1>1 DEF router
<1>2. ASSUME NEW p \in Configured, NEW e \in BOOLEAN, UpdateProviderStatus(p, e)
      PROVE  RouterTypeOK' /\ rules' = rules
  BY <1>2 DEF UpdateProviderStatus
<1>3. CASE HealthCheck
  BY <1>3 DEF HealthCheck
<1>4. ASSUME NEW rule \in ExtraRules, AddRoutingRule(rule)
      PROVE  /\ RouterTypeOK' /\ Len(rules) <= Len(rules')
             /\ \A i \in DOMAIN rules : i \in DOMAIN rules' /\ rules'[i] = rules[i]
  BY <1>4 DEF AddRoutingRule
<1> QED
  BY <1>1, <1>2, <1>3, <1>4 DEF RouterNext

(* The router's types hold, and the default rules stay in front.            *)
THEOREM RouterInvariance == RouterSpec => []RouterInv
<1>1. RouterInit => RouterInv
  <2> SUFFICES ASSUME RouterInit PROVE RouterInv
    OBVIOUS
  <2>1. rules \in Seq(ExtraRules \cup {DefaultRules[i] : i \in DOMAIN DefaultRules})
    BY DefaultsAreRules DEF RouterInit
  <2> QED
    BY <2>1 DEF RouterInit, RouterInv, RouterTypeOK, DefaultsFirst
<1>2. RouterInv /\ [RouterNext]_router => RouterInv'
  <2> SUFFICES ASSUME RouterInv, [RouterNext]_router PROVE RouterInv'
    OBVIOUS
  <2>1. /\ RouterTypeOK' /\ Len(rules) <= Len(rules')
        /\ \A i \in DOMAIN rules : i \in DOMAIN rules' /\ rules'[i] = rules[i]
    BY RulesStay DEF RouterInv
  <2>2. DefaultsFirst'
    <3>1. DOMAIN DefaultRules = 1..Len(DefaultRules) /\ Len(DefaultRules) \in Nat
      BY DefaultsAreRules
    <3>2. DOMAIN rules = 1..Len(rules) /\ Len(rules) \in Nat /\ Len(rules') \in Nat
      BY <2>1 DEF RouterInv, RouterTypeOK
    <3> QED
      BY <2>1, <3>1, <3>2 DEF RouterInv, DefaultsFirst
  <2> QED
    BY <2>1, <2>2 DEF RouterInv
<1> QED
  BY <1>1, <1>2, PTL DEF RouterSpec

(* Whatever the rules, providers and requests: a request that has a         *)
(* provider changes it only when that one is gone or a new one has come up. *)
THEOREM RoutesAreStable == RouterSpec => ReroutedForAReason
<1>1. ASSUME RouterInv, [RouterNext]_router,
             NEW r \in Requests, NEW p \in Configured,
             DetermineProvider(r) = p, DetermineProvider(r)' # p, Available(p)'
      PROVE  \E q \in Configured : DetermineProvider(r)' = q /\ ~Available(q)
  <2> DEFINE m == Min(Candidates(r))
             n == Min(Candidates(r)')
  <2>1. /\ RouterTypeOK /\ RouterTypeOK'
        /\ \A i \in DOMAIN rules : i \in DOMAIN rules' /\ rules'[i] = rules[i]
    BY <1>1, RulesStay DEF RouterInv
  <2>2. Routable(r)
    BY <1>1, RouteAssumption DEF DetermineProvider
  <2>3. /\ m \in Candidates(r) /\ rules[m].provider = p
        /\ \A i \in Candidates(r) : m <= i
    BY <1>1, <2>1, <2>2, FirstRuleDecides
  <2>4. m \in Candidates(r)'
    BY <1>1, <2>1, <2>3 DEF Candidates, MatchesRule
  <2>5. Candidates(r)' \in SUBSET Nat
    BY <2>1 DEF Candidates, RouterTypeOK
  <2>6. n \in Candidates(r)' /\ n <= m
    BY <2>4, <2>5, MinIsLeast
  <2>7. DetermineProvider(r)' = rules'[n].provider /\ rules'[n].provider \in Configured
    BY <2>2, <2>4, <2>6 DEF DetermineProvider, Routable, Candidates, Available
  <2>8. ASSUME Available(rules'[n].provider) PROVE FALSE
    <3>1. m \in DOMAIN rules /\ n \in DOMAIN rules
      BY <2>1, <2>3, <2>5, <2>6 DEF Candidates, RouterTypeOK
    <3>2. rules'[n] = rules[n] /\ MatchesRule(rules[n], r)
      BY <2>1, <2>6, <3>1 DEF Candidates, MatchesRule
    <3>3. n \in Candidates(r)
      BY <2>8, <3>1, <3>2 DEF Candidates
    <3>4. n = m
      BY <2>3, <2>4, <2>5, <2>6, <3>3
    <3> QED
      BY <1>1, <2>3, <2>7, <3>2, <3>4
  <2> QED
    BY <2>7, <2>8
<1>2. RouterInv /\ [RouterNext]_router =>
        [\A r \in Requests, p \in Configured :
           DetermineProvider(r) = p /\ DetermineProvider(r)' # p =>
             \/ ~Available(p)'
             \/ \E q \in Configured : DetermineProvider(r)' = q /\ ~Available(q)]_router
  BY <1>1
<1> QED
  BY <1>2, RouterInvariance, PTL DEF RouterSpec, ReroutedForAReason
===============================================================================
