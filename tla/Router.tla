-------------------------------- MODULE Router --------------------------------
(***************************************************************************)
(* Provider selection, pkg/router/providers.go.  A request is known to the *)
(* router by the path patterns its path contains, whether the path makes a *)
(* URL, and the words its headers contain; the body is never looked at.    *)
(* The four operations run under one RWMutex, each is a step.              *)
(***************************************************************************)
EXTENDS Naturals, Sequences, FiniteSets, FiniteSetsExt

CONSTANTS
  Configured,   \* providers that main.go passes to Initialize, all enabled
  Requests,     \* [path: set of patterns, parses: BOOLEAN, hints: set of words]
  NoRoute,      \* determineProvider returns an error
  ExtraRules,   \* rules that AddRoutingRule may be called with
  MaxRules      \* bound: length of the rule list

ASSUME RouteAssumption == NoRoute \notin Configured

VARIABLES
  enabled, healthy,   \* Provider.Enabled, Provider.Healthy
  rules               \* Router.rules

router == <<enabled, healthy, rules>>

Rule(pattern, provider, conditions) ==
  [pattern |-> pattern, provider |-> provider, conditions |-> conditions]

DefaultRules ==
  << Rule("v1/", "spg", {}),
     Rule("v1/chat/completions", "local", {"financial", "payment", "credit"}),
     Rule("v1/chat/completions", "anthropic", {"personal", "healthcare"}),
     Rule("v1/chat/completions", "openai", {}),
     Rule("v1/embeddings", "google", {}),
     Rule("v1/messages", "anthropic", {}),
     Rule("api/", "local", {}) >>

RouterInit ==
  /\ enabled = [p \in Configured |-> TRUE]
  /\ healthy = [p \in Configured |-> TRUE]
  /\ rules = DefaultRules

Available(p) == p \in Configured /\ enabled[p] /\ healthy[p]

(* One of the words is enough; no conditions match everything.              *)
MatchesRule(rule, req) ==
  /\ rule.pattern \in req.path
  /\ rule.conditions = {} \/ rule.conditions \cap req.hints # {}

Candidates(req) ==
  {i \in DOMAIN rules : MatchesRule(rules[i], req) /\ Available(rules[i].provider)}

Routable(req) == Candidates(req) # {} /\ req.parses

(* Mutant: the last rule that fits decides.                                 *)
DetermineLast(req) ==
  IF Routable(req) THEN rules[Max(Candidates(req))].provider ELSE NoRoute

(* The first rule in the list decides; RoutingRule.Priority is not read.    *)
DetermineProvider(req) ==
  IF Routable(req) THEN rules[Min(Candidates(req))].provider ELSE NoRoute

-------------------------------------------------------------------------------
(* Sets Enabled only: a provider whose check failed stays unhealthy.        *)
UpdateProviderStatus(p, e) ==
  /\ enabled' = [enabled EXCEPT ![p] = e]
  /\ UNCHANGED <<healthy, rules>>

(* performHealthCheck answers with Enabled.                                 *)
HealthCheck ==
  /\ healthy' = enabled
  /\ UNCHANGED <<enabled, rules>>

(* Mutant: the new rule goes before the others.                             *)
PrependRoutingRule(rule) ==
  /\ Len(rules) < MaxRules
  /\ rules' = <<rule>> \o rules
  /\ UNCHANGED <<enabled, healthy>>

AddRoutingRule(rule) ==
  /\ Len(rules) < MaxRules
  /\ rules' = Append(rules, rule)
  /\ UNCHANGED <<enabled, healthy>>

RouterNext ==
  \/ \E p \in Configured, e \in BOOLEAN : UpdateProviderStatus(p, e)
  \/ HealthCheck
  \/ \E rule \in ExtraRules : AddRoutingRule(rule)

RouterSpec == RouterInit /\ [][RouterNext]_router
-------------------------------------------------------------------------------
(* Types of the provider table and the rule list.                          *)
RouterTypeOK ==
  /\ enabled \in [Configured -> BOOLEAN]
  /\ healthy \in [Configured -> BOOLEAN]
  /\ rules \in Seq(ExtraRules \cup {DefaultRules[i] : i \in DOMAIN DefaultRules})

(* What no operation displaces: the rules of setupDefaultRules, in their    *)
(* order and in front, whatever AddRoutingRule appends (providers.go 370).  *)
DefaultsFirst ==
  /\ Len(rules) >= Len(DefaultRules)
  /\ \A i \in DOMAIN DefaultRules : rules[i] = DefaultRules[i]

RouterInv == RouterTypeOK /\ DefaultsFirst

(* A request that has a provider changes it only for a reason of its own:   *)
(* the old one is no longer available, or the new one has just become       *)
(* available.  No operation on other providers and no new rule re-routes it *)
(* (providers.go 252-260, 370).                                             *)
ReroutedForAReason ==
  [][\A r \in Requests, p \in Configured :
       DetermineProvider(r) = p /\ DetermineProvider(r)' # p =>
         \/ ~Available(p)'
         \/ \E q \in Configured : DetermineProvider(r)' = q /\ ~Available(q)
    ]_router
===============================================================================
